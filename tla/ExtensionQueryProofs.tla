------------------------- MODULE ExtensionQueryProofs -------------------------
(* Theorems about ExtensionQuery, for any extensions, queries, streams,        *)
(* restarts and failures.                                                      *)
EXTENDS ExtensionQuery, SequenceTheorems, TLAPS

\* The state of the app while nested calls run: requests may wait to be written.
AppState ==
  [mode: {"none", "launcher", "extension"}, text: Texts, placeholder: BOOLEAN,
   buffer: Buffer(Row), active: Exts \cup {NoExt}, pending: BOOLEAN, loading: BOOLEAN,
   req: Nat, shown: [kind: {"home", "loading", "rows"}, rows: Seq(Row)],
   reload: BOOLEAN, sent: [Exts -> Seq(Request)],
   want: Seq(Row), answered: BOOLEAN, open: Nat]

(***************************************************************************)
(* What the calls of the app do to its state                               *)
(***************************************************************************)
LEMMA RowTypes ==
  /\ LocalRow \in Row /\ NoticeRow \in Row
  /\ <<LocalRow>> \in Seq(Row) /\ <<NoticeRow>> \in Seq(Row) /\ <<>> \in Seq(Row)
  /\ NoBuffer \in Buffer(Row) /\ PaintedBuffer \in Buffer(Row)
  /\ ~NoBuffer.held /\ ~NoBuffer.painted /\ ~NoBuffer.timer
<1>1. LocalRow \in Row /\ NoticeRow \in Row
  BY DEF LocalRow, NoticeRow, Row
<1>2. <<LocalRow>> \in Seq(Row) /\ <<NoticeRow>> \in Seq(Row) /\ <<>> \in Seq(Row)
  BY <1>1
<1>3. NoBuffer \in Buffer(Row) /\ PaintedBuffer \in Buffer(Row)
  BY <1>2 DEF NoBuffer, PaintedBuffer, Buffer
<1>4. ~NoBuffer.held /\ ~NoBuffer.painted /\ ~NoBuffer.timer
  BY DEF NoBuffer
<1> QED BY <1>1, <1>2, <1>3, <1>4

LEMMA BufferTypes ==
  ASSUME NEW b \in Buffer(Row), NEW rows \in Seq(Row), NEW append \in BOOLEAN
  PROVE  /\ Buffered(b, rows, append) \in Buffer(Row)
         /\ Buffered(b, rows, append).held
         /\ Buffered(b, rows, append).painted = b.painted
         /\ Buffered(b, rows, append).rows = IF append /\ b.held THEN b.rows \o rows ELSE rows
         /\ Buffered(b, rows, append).appending = IF append /\ b.held THEN b.appending ELSE append
<1>1. b.rows \in Seq(Row) /\ b.rows \o rows \in Seq(Row)
  BY ConcatProperties DEF Buffer
<1> QED BY <1>1 DEF Buffered, Buffer

\* What is left alone by what an effect that renders rows does.
Rest(s) == <<s.mode, s.text, s.active, s.pending, s.loading, s.req, s.reload, s.sent, s.open>>

\* A paint shows the buffered rows, and leaves an empty buffer.
LEMMA PaintedIs ==
  ASSUME NEW s \in AppState
  PROVE  LET t == Painted(s) IN
         /\ t \in AppState
         /\ Rest(t) = Rest(s) /\ t.want = s.want /\ t.answered = s.answered
         /\ t.buffer = PaintedBuffer /\ ~t.placeholder
         /\ t.shown.kind = "rows"
         /\ t.shown.rows = IF Extends(s.buffer) THEN s.shown.rows \o s.buffer.rows ELSE s.buffer.rows
<1>1. s.buffer.rows \in Seq(Row) /\ s.shown.rows \in Seq(Row)
  BY DEF AppState, Buffer
<1>2. s.shown.rows \o s.buffer.rows \in Seq(Row)
  BY <1>1, ConcatProperties
<1> QED BY <1>1, <1>2, RowTypes DEF Painted, Rendered, Shown, AppState, Rest

\* What an effect that renders rows does: it ends the wait for the placeholder,
\* and the rows are painted or buffered.
Delivery(s, t, rows, append, final) ==
  LET b == Buffered(s.buffer, rows, append) IN
  /\ t \in AppState /\ Rest(t) = Rest(s)
  /\ ~t.placeholder /\ t.answered
  /\ t.want = IF append THEN s.want \o rows ELSE rows
  /\ IF final
     THEN /\ t.buffer = PaintedBuffer /\ t.shown.kind = "rows"
          /\ t.shown.rows = IF Extends(b) THEN s.shown.rows \o b.rows ELSE b.rows
     ELSE t.buffer = [b EXCEPT !.timer = TRUE] /\ t.shown = s.shown

LEMMA DeliveredIs ==
  ASSUME NEW s \in AppState, NEW rows \in Seq(Row), NEW append \in BOOLEAN, NEW final \in BOOLEAN
  PROVE  Delivery(s, Delivered(s, rows, append, final), rows, append, final)
<1> DEFINE b == Buffered(s.buffer, rows, append)
           u == [s EXCEPT !.placeholder = FALSE, !.buffer = b,
                          !.want = IF append THEN @ \o rows ELSE rows, !.answered = TRUE]
<1>1. b \in Buffer(Row) /\ s.want \o rows \in Seq(Row)
  BY BufferTypes, ConcatProperties DEF AppState
<1>2. /\ u \in AppState /\ Rest(u) = Rest(s) /\ ~u.placeholder /\ u.answered
      /\ u.want = IF append THEN s.want \o rows ELSE rows
      /\ u.buffer = b /\ u.shown = s.shown
  BY <1>1 DEF AppState, Rest
<1>3. CASE final
  <2>1. Delivered(s, rows, append, final) = Painted(u)
    BY <1>3 DEF Delivered
  <2> HIDE DEF u, b
  <2>2. /\ Painted(u) \in AppState
        /\ Rest(Painted(u)) = Rest(u) /\ Painted(u).want = u.want /\ Painted(u).answered = u.answered
        /\ Painted(u).buffer = PaintedBuffer /\ ~Painted(u).placeholder
        /\ Painted(u).shown.kind = "rows"
        /\ Painted(u).shown.rows = IF Extends(u.buffer) THEN u.shown.rows \o u.buffer.rows ELSE u.buffer.rows
    BY <1>2, PaintedIs
  <2> QED BY <1>2, <1>3, <2>1, <2>2 DEF Delivery, b
<1>4. CASE ~final
  <2>1. Delivered(s, rows, append, final) = [u EXCEPT !.buffer.timer = TRUE]
    BY <1>4 DEF Delivered
  <2> HIDE DEF u, b
  <2>2. [u.buffer EXCEPT !.timer = TRUE] \in Buffer(Row)
    BY <1>1, <1>2 DEF Buffer
  <2> DEFINE v == [u EXCEPT !.buffer.timer = TRUE]
  <2>3. /\ v \in AppState /\ Rest(v) = Rest(u) /\ v.placeholder = u.placeholder /\ v.answered = u.answered
        /\ v.want = u.want /\ v.buffer = [u.buffer EXCEPT !.timer = TRUE] /\ v.shown = u.shown
    BY <1>2, <2>2 DEF AppState, Rest
  <2> QED BY <1>2, <1>4, <2>1, <2>3 DEF Delivery, b
<1> QED BY <1>3, <1>4

LEMMA RendersIs ==
  ASSUME NEW s \in AppState, NEW rows \in Seq(Row), NEW append \in BOOLEAN, NEW final \in BOOLEAN
  PROVE  LET t == ExtensionRenders(s, rows, append, final) IN
         t \in AppState /\ IF s.mode = "extension" THEN Delivery(s, t, rows, append, final) ELSE t = s
BY DeliveredIs DEF ExtensionRenders, Delivery

\* A request is sent, to an extension that runs; or nothing happens.
LEMMA SentIs ==
  ASSUME NEW s \in AppState, NEW request \in Request
  PROVE  LET t == Sent(s, request)
             x == s.active
         IN  /\ t \in AppState
             /\ \/ (x = NoExt \/ status[x] # "up") /\ t = s
                \/ /\ x \in Exts /\ status[x] = "up"
                   /\ t = [s EXCEPT !.req = s.req + 1, !.pending = TRUE, !.want = <<>>, !.open = s.req + 1,
                                    !.sent = [s.sent EXCEPT ![x] = Append(@, [request EXCEPT !.req = s.req + 1])]]
<1> DEFINE x == s.active
           m == [request EXCEPT !.req = s.req + 1]
           t == [s EXCEPT !.req = s.req + 1, !.pending = TRUE, !.want = <<>>, !.open = s.req + 1,
                          !.sent = [s.sent EXCEPT ![x] = Append(@, m)]]
<1>1. CASE x = NoExt \/ status[x] # "up"
  BY <1>1 DEF Sent
<1>2. CASE ~(x = NoExt \/ status[x] # "up")
  <2>1. x \in Exts /\ s.req + 1 \in Nat
    BY <1>2 DEF AppState
  <2>2. m \in Request
    BY <2>1 DEF Request
  <2>3. [s.sent EXCEPT ![x] = Append(@, m)] \in [Exts -> Seq(Request)]
    <3>1. s.sent \in [Exts -> Seq(Request)]
      BY DEF AppState
    <3> HIDE DEF m, x
    <3>2. Append(s.sent[x], m) \in Seq(Request)
      BY <3>1, <2>1, <2>2, AppendProperties
    <3> QED BY <3>1, <3>2
  <2>4. t \in AppState
    BY <2>1, <2>3, RowTypes DEF AppState
  <2>5. Sent(s, request) = t
    BY <1>2 DEF Sent
  <2> QED BY <1>2, <2>1, <2>4, <2>5
<1> QED BY <1>1, <1>2

\* The core's state when a new query was set and no mode has seen it yet.
Blank(s, text) ==
  [s EXCEPT !.text = text, !.buffer = NoBuffer, !.placeholder = text # Empty,
            !.want = <<>>, !.answered = FALSE, !.open = 0]

\* Setting a query ends in one of five ways.
QueryOutcome(s, t, text, final) ==
  LET b == Blank(s, text)
      e == [b EXCEPT !.mode = "extension"]
  IN  \/ text = Empty /\ t = [b EXCEPT !.mode = "none", !.shown = Shown("home", <<>>)]
      \/ text = Plain /\ Delivery([b EXCEPT !.mode = "launcher"], t, <<LocalRow>>, FALSE, final)
      \/ /\ text \in Exts /\ status[text] = "down"
         /\ Delivery([e EXCEPT !.loading = FALSE], t, <<NoticeRow>>, FALSE, TRUE)
      \/ /\ text \in Exts /\ status[text] = "stopped"
         /\ t = [e EXCEPT !.active = text, !.pending = TRUE, !.loading = TRUE]
      \/ /\ text \in Exts /\ status[text] = "up"
         /\ t = [e EXCEPT !.loading = FALSE, !.active = text,
                          !.req = s.req + 1, !.pending = TRUE, !.want = <<>>, !.open = s.req + 1,
                          !.sent = [s.sent EXCEPT ![text] = Append(@, InputRequest(s.req + 1))]]

\* That state is one of the core's, and what is asked of it below.
LEMMA BlankIs ==
  ASSUME NEW s \in AppState, NEW text \in Texts
  PROVE  LET b == Blank(s, text)
             e == [b EXCEPT !.mode = "extension"]
         IN  /\ b \in AppState /\ e \in AppState
             /\ b.mode = s.mode /\ b.shown = s.shown /\ b.placeholder = (text # Empty) /\ ~b.answered
             /\ b.text = text /\ b.req = s.req /\ b.sent = s.sent /\ b.open = 0 /\ b.buffer = NoBuffer
             /\ e.mode = "extension" /\ e.want = <<>>
             /\ e.text = text /\ e.req = s.req /\ e.sent = s.sent /\ e.open = 0 /\ e.buffer = NoBuffer
<1> DEFINE b == Blank(s, text)
           e == [b EXCEPT !.mode = "extension"]
<1>1. NoBuffer \in Buffer(Row) /\ <<>> \in Seq(Row) /\ (text # Empty) \in BOOLEAN
  BY RowTypes
<1>2. b \in AppState
  BY ONLY <1>1, s \in AppState, text \in Texts DEF Blank, AppState
<1>3. /\ b.mode = s.mode /\ b.shown = s.shown /\ b.placeholder = (text # Empty) /\ ~b.answered
      /\ b.text = text /\ b.req = s.req /\ b.sent = s.sent /\ b.open = 0 /\ b.buffer = NoBuffer /\ b.want = <<>>
  BY ONLY s \in AppState, text \in Texts DEF Blank, AppState
<1> HIDE DEF b
<1>4. e \in AppState /\ e.mode = "extension"
  BY ONLY <1>2 DEF AppState
<1>5. e.want = b.want /\ e.text = b.text /\ e.req = b.req /\ e.sent = b.sent /\ e.open = b.open /\ e.buffer = b.buffer
  BY ONLY <1>2 DEF AppState
<1> QED BY <1>2, <1>3, <1>4, <1>5 DEF b

LEMMA QuerySetIs ==
  ASSUME WireTypeOK, NEW s \in AppState, NEW text \in Texts, NEW final \in BOOLEAN
  PROVE  LET t == QuerySet(s, text, final) IN t \in AppState /\ QueryOutcome(s, t, text, final)
<1> DEFINE b == Blank(s, text)
           e == [b EXCEPT !.mode = "extension"]
           t == QuerySet(s, text, final)
<1>1. b \in AppState /\ e \in AppState /\ b.mode = s.mode /\ b.sent = s.sent /\ b.req = s.req
  BY BlankIs
<1>2. CASE text = Empty
  <2>1. t = [b EXCEPT !.mode = "none", !.shown = Shown("home", <<>>)]
    BY <1>2, TextsAssumption DEF QuerySet, Blank
  <2>2. Shown("home", <<>>) \in [kind: {"home", "loading", "rows"}, rows: Seq(Row)]
    BY RowTypes DEF Shown
  <2>3. t \in AppState
    BY ZenonT(40), <2>1, <2>2, <1>1 DEF AppState
  <2> QED BY <2>1, <2>3, <1>2 DEF QueryOutcome
<1>3. CASE text = Plain
  <2>1. t = Delivered([b EXCEPT !.mode = "launcher"], <<LocalRow>>, FALSE, final)
    BY <1>3, TextsAssumption DEF QuerySet, Blank
  <2>2. [b EXCEPT !.mode = "launcher"] \in AppState
    BY <1>1 DEF AppState
  <2>3. Delivery([b EXCEPT !.mode = "launcher"], t, <<LocalRow>>, FALSE, final)
    BY <2>1, <2>2, DeliveredIs, RowTypes
  <2> QED BY <2>3, <1>3 DEF QueryOutcome, Delivery
<1>4. CASE text \in Exts
  <2> DEFINE u == [e EXCEPT !.loading = FALSE]
  <2>1. t = QueryHandled(e, text)
    BY <1>4, TextsAssumption DEF QuerySet, Blank
  <2>0. e \in AppState /\ e.mode = "extension"
    BY BlankIs
  <2>2. u \in AppState /\ e.mode = "extension" /\ u.mode = "extension"
    BY ONLY <2>0 DEF AppState
  <2>3. CASE status[text] = "down"
    <3>1. t = ExtensionRenders(u, <<NoticeRow>>, FALSE, TRUE)
      BY <2>1, <2>3 DEF QueryHandled
    <3>2. Delivery(u, t, <<NoticeRow>>, FALSE, TRUE) /\ t \in AppState
      BY ZenonT(40), <3>1, <2>2, RendersIs, RowTypes
    <3> QED BY <3>2, <2>3, <1>4 DEF QueryOutcome
  <2>4. CASE status[text] = "stopped"
    <3>1. t = [u EXCEPT !.active = text, !.pending = TRUE, !.loading = TRUE]
      BY <2>1, <2>4 DEF QueryHandled
    <3>2. t = [e EXCEPT !.active = text, !.pending = TRUE, !.loading = TRUE]
      BY <3>1, <1>1 DEF AppState
    <3>3. t \in AppState
      BY ZenonT(40), <3>2, <1>1, <1>4 DEF AppState
    <3> QED BY <3>2, <3>3, <2>4, <1>4 DEF QueryOutcome
  <2>5. CASE status[text] = "up"
    <3> DEFINE v == [u EXCEPT !.active = text]
               m == InputRequest(0)
    <3>1. t = Sent(v, m)
      BY <2>1, <2>5 DEF QueryHandled
    <3>2. m \in Request /\ [m EXCEPT !.req = s.req + 1] = InputRequest(s.req + 1)
      <4>1. s.req + 1 \in Nat
        BY DEF AppState
      <4> QED BY ONLY <4>1, RowTypes DEF InputRequest, Request
    <3>3. v \in AppState /\ v.active = text /\ v.req = s.req /\ v.sent = s.sent
      BY <2>2, <1>1, <1>4 DEF AppState
    <3> HIDE DEF v, m
    <3>4. /\ t \in AppState
          /\ t = [v EXCEPT !.req = s.req + 1, !.pending = TRUE, !.want = <<>>, !.open = s.req + 1,
                           !.sent = [s.sent EXCEPT ![text] = Append(@, [m EXCEPT !.req = s.req + 1])]]
      <4>1. text # NoExt
        BY <1>4, TextsAssumption
      <4>2. ~(v.active = NoExt \/ status[v.active] # "up")
        BY <4>1, <3>3, <2>5
      <4> QED BY ZenonT(40), <3>1, <3>2, <3>3, <4>2, SentIs
    <3>5. t = [e EXCEPT !.loading = FALSE, !.active = text,
                        !.req = s.req + 1, !.pending = TRUE, !.want = <<>>, !.open = s.req + 1,
                        !.sent = [s.sent EXCEPT ![text] = Append(@, InputRequest(s.req + 1))]]
      BY <3>4, <3>2, <1>1 DEF v, AppState
    <3> QED BY <3>4, <3>5, <2>5, <1>4 DEF QueryOutcome
  <2> QED BY <2>3, <2>4, <2>5, <1>4 DEF WireTypeOK
<1> QED BY <1>2, <1>3, <1>4 DEF Texts

\* The wait for a stopped extension ends: silently, or with rows for the query.
LEMMA LoadingFinishedIs ==
  ASSUME NEW s \in AppState, NEW rows \in Seq(Row)
  PROVE  LET t == LoadingFinished(s, rows)
             u == [s EXCEPT !.loading = FALSE, !.pending = FALSE]
         IN  /\ u \in AppState /\ t \in AppState
             /\ t = u \/ (s.mode = "extension" /\ Delivery(u, t, rows, FALSE, TRUE))
<1> DEFINE u == [s EXCEPT !.loading = FALSE, !.pending = FALSE]
<1>1. u \in AppState /\ u.mode = s.mode
  BY DEF AppState
<1>2. LoadingFinished(s, rows) = IF s.pending THEN ExtensionRenders(u, rows, FALSE, TRUE) ELSE u
  BY DEF LoadingFinished, AppState
<1> QED BY <1>1, <1>2, RendersIs

LEMMA ErroredIs ==
  ASSUME NEW s \in AppState, NEW x \in Exts
  PROVE  LET t == Errored(s, x)
             u == [s EXCEPT !.open = 0, !.loading = FALSE, !.pending = FALSE]
             v == [s EXCEPT !.open = 0, !.pending = FALSE]
         IN  /\ u \in AppState /\ v \in AppState /\ t \in AppState
             /\ \/ s.active # x /\ t = s
                \/ ~s.loading /\ t = v
                \/ t = u
                \/ s.mode = "extension" /\ Delivery(u, t, <<NoticeRow>>, FALSE, TRUE)
<1> DEFINE w == [s EXCEPT !.open = 0]
           u == [s EXCEPT !.open = 0, !.loading = FALSE, !.pending = FALSE]
           v == [s EXCEPT !.open = 0, !.pending = FALSE]
<1>1. w \in AppState /\ u \in AppState /\ v \in AppState /\ w.mode = s.mode
  BY DEF AppState
<1>2. u = [w EXCEPT !.loading = FALSE, !.pending = FALSE] /\ v = [w EXCEPT !.pending = FALSE]
  BY DEF AppState
<1>3. Errored(s, x) = IF s.active # x THEN s
                      ELSE IF s.loading THEN LoadingFinished(w, <<NoticeRow>>) ELSE [w EXCEPT !.pending = FALSE]
  BY DEF Errored
<1> HIDE DEF w, u, v
<1>4. CASE s.active # x
  BY <1>1, <1>3, <1>4 DEF u, v
<1>5. CASE s.active = x /\ s.loading
  <2> DEFINE f == LoadingFinished(w, <<NoticeRow>>)
  <2>1. f \in AppState /\ (f = u \/ (w.mode = "extension" /\ Delivery(u, f, <<NoticeRow>>, FALSE, TRUE)))
    BY <1>1, <1>2, LoadingFinishedIs, RowTypes
  <2> QED BY <1>1, <1>3, <1>5, <2>1 DEF u, v
<1>6. CASE s.active = x /\ ~s.loading
  BY <1>1, <1>2, <1>3, <1>6 DEF u, v
<1> QED BY <1>4, <1>5, <1>6

\* The app's state when a response starts to be handled, and what its effect does.
Closing(s, m) ==
  [s EXCEPT !.open = IF @ = m.req /\ (m.type = "render" => m.final) THEN 0 ELSE @]

EffectOutcome(c, t, m, final) ==
  \/ c.mode # "extension" /\ t = c
  \/ m.type = "render" /\ c.mode = "extension" /\ Delivery(c, t, m.rows, m.append, m.final)
  \/ m.type = "nothing" /\ c.mode = "extension" /\ t = [c EXCEPT !.placeholder = FALSE, !.answered = TRUE]
  \/ m.type = "query" /\ c.mode = "extension" /\ QueryOutcome([c EXCEPT !.placeholder = FALSE], t, m.query, final)

LEMMA EffectHandledIs ==
  ASSUME WireTypeOK, NEW c \in AppState, NEW m \in Response, NEW final \in BOOLEAN
  PROVE  LET t == EffectHandled(c, m, final) IN t \in AppState /\ EffectOutcome(c, t, m, final)
<1>1. /\ m.type \in {"render", "nothing", "query"} /\ m.rows \in Seq(Row) /\ m.append \in BOOLEAN
      /\ m.final \in BOOLEAN /\ m.query \in Texts
  BY DEF Response
<1>2. CASE m.type = "render"
  <2>1. EffectHandled(c, m, final) = ExtensionRenders(c, m.rows, m.append, m.final)
    BY <1>2 DEF EffectHandled, ExtensionRenders
  <2> QED BY <1>1, <1>2, <2>1, RendersIs DEF EffectOutcome
<1>3. CASE m.type # "render" /\ c.mode # "extension"
  <2>1. EffectHandled(c, m, final) = c
    BY <1>1, <1>3 DEF EffectHandled
  <2> QED BY <1>3, <2>1 DEF EffectOutcome
<1>4. CASE m.type = "nothing" /\ c.mode = "extension"
  <2>1. EffectHandled(c, m, final) = [c EXCEPT !.placeholder = FALSE, !.answered = TRUE]
    BY <1>4 DEF EffectHandled
  <2>2. [c EXCEPT !.placeholder = FALSE, !.answered = TRUE] \in AppState
    BY DEF AppState
  <2> QED BY <1>4, <2>1, <2>2 DEF EffectOutcome
<1>5. CASE m.type = "query" /\ c.mode = "extension"
  <2>1. EffectHandled(c, m, final) = QuerySet([c EXCEPT !.placeholder = FALSE], m.query, final)
    BY <1>5 DEF EffectHandled
  <2>2. [c EXCEPT !.placeholder = FALSE] \in AppState
    BY DEF AppState
  <2> QED BY <1>1, <1>5, <2>1, <2>2, QuerySetIs DEF EffectOutcome
<1> QED BY <1>1, <1>2, <1>3, <1>4, <1>5

LEMMA ResponseHandledIs ==
  ASSUME WireTypeOK, NEW s \in AppState, NEW x \in Exts, NEW m \in Response, NEW final \in BOOLEAN
  PROVE  LET t == ResponseHandled(s, x, m, final) IN
         /\ t \in AppState /\ Closing(s, m) \in AppState
         /\ \/ ~Answers(s, x, m) /\ t = s
            \/ /\ Answers(s, x, m)
               /\ \E u \in AppState : /\ EffectOutcome(Closing(s, m), u, m, final)
                                      /\ t = IF Streams(m) THEN u ELSE [u EXCEPT !.pending = FALSE]
<1> DEFINE u == EffectHandled(Closing(s, m), m, final)
<1>1. Closing(s, m) \in AppState
  BY DEF Closing, AppState
<1>2. u \in AppState /\ EffectOutcome(Closing(s, m), u, m, final)
  BY <1>1, EffectHandledIs
<1>3. ResponseHandled(s, x, m, final) =
        IF ~Answers(s, x, m) THEN s ELSE IF Streams(m) THEN u ELSE [u EXCEPT !.pending = FALSE]
  BY DEF ResponseHandled, Closing
<1> HIDE DEF u
<1>4. [u EXCEPT !.pending = FALSE] \in AppState
  BY <1>2 DEF AppState
<1> QED BY <1>1, <1>2, <1>3, <1>4

(***************************************************************************)
(* What is buffered and painted is of the latest request                   *)
(***************************************************************************)

\* The rows of extensions among these are of the latest request to the extension
\* that was asked last, in whose mode the core still is.
OfRequest(rows, s) ==
  \A i \in DOMAIN rows : rows[i].ext # NoExt =>
     s.mode = "extension" /\ rows[i].ext = s.active /\ rows[i].req = s.req

Fresh(s) ==
  /\ s.buffer.held => OfRequest(s.buffer.rows, s)
  /\ s.buffer.painted => OfRequest(s.shown.rows, s)
  /\ s.buffer.timer => s.buffer.held
  /\ s.mode = "none" => s.shown.kind = "home" /\ s.buffer = NoBuffer /\ ~s.placeholder
  /\ s.placeholder => ~s.answered /\ ~s.buffer.held /\ ~s.buffer.painted

\* The list on screen stays, or becomes one of the latest request.
Repaints(s, t) == t.shown = s.shown \/ (t.shown.kind # "loading" /\ OfRequest(t.shown.rows, t))
\* The list on screen gives way to "Loading...".
Hides(s, t) == s.placeholder /\ t.shown = Shown("loading", <<>>)

LEMMA OfRequestConcat ==
  ASSUME NEW s, NEW a \in Seq(Row), NEW b \in Seq(Row), OfRequest(a, s), OfRequest(b, s)
  PROVE  OfRequest(a \o b, s)
<1> SUFFICES ASSUME NEW i \in DOMAIN (a \o b), (a \o b)[i].ext # NoExt
             PROVE  s.mode = "extension" /\ (a \o b)[i].ext = s.active /\ (a \o b)[i].req = s.req
  BY DEF OfRequest
<1>1. /\ i \in 1..Len(a) + Len(b) /\ Len(a) \in Nat /\ Len(b) \in Nat
      /\ (a \o b)[i] = IF i <= Len(a) THEN a[i] ELSE b[i - Len(a)]
  BY ConcatProperties, LenProperties
<1>2. CASE i <= Len(a)
  BY <1>1, <1>2 DEF OfRequest
<1>3. CASE ~(i <= Len(a))
  <2>1. i - Len(a) \in DOMAIN b
    BY <1>1, <1>3
  <2> QED BY <1>1, <1>3, <2>1 DEF OfRequest
<1> QED BY <1>2, <1>3

LEMMA NoRowsOfRequest ==
  ASSUME NEW s
  PROVE  OfRequest(<<>>, s) /\ OfRequest(<<LocalRow>>, s) /\ OfRequest(<<NoticeRow>>, s)
BY DEF OfRequest, LocalRow, NoticeRow

LEMMA DeliveryFresh ==
  ASSUME NEW s \in AppState, NEW t, NEW rows \in Seq(Row), NEW append \in BOOLEAN, NEW final \in BOOLEAN,
         Delivery(s, t, rows, append, final),
         s.buffer.held => OfRequest(s.buffer.rows, s),
         s.buffer.painted => OfRequest(s.shown.rows, s),
         s.mode # "none", OfRequest(rows, s)
  PROVE  Fresh(t) /\ Repaints(s, t)
<1> DEFINE b == Buffered(s.buffer, rows, append)
<1>1. /\ s.buffer \in Buffer(Row) /\ s.buffer.rows \in Seq(Row) /\ s.shown.rows \in Seq(Row)
      /\ s.buffer.held \in BOOLEAN
  BY DEF AppState, Buffer
<1>2. /\ b \in Buffer(Row) /\ b.rows \in Seq(Row) /\ b.painted = s.buffer.painted /\ b.held
      /\ b.rows = IF append /\ s.buffer.held THEN s.buffer.rows \o rows ELSE rows
  BY <1>1, BufferTypes DEF Buffer
<1>3. OfRequest(b.rows, s)
  BY <1>1, <1>2, OfRequestConcat
<1>4. \A rs : OfRequest(rs, s) => OfRequest(rs, t)
  BY DEF Delivery, Rest, OfRequest
<1> HIDE DEF b
<1>5. CASE final
  <2>1. OfRequest(t.shown.rows, s)
    <3>1. t.shown.rows = IF Extends(b) THEN s.shown.rows \o b.rows ELSE b.rows
      BY <1>5 DEF Delivery, b
    <3>2. Extends(b) => s.buffer.painted
      BY <1>2 DEF Extends
    <3> QED BY <1>1, <1>2, <1>3, <3>1, <3>2, OfRequestConcat
  <2>2. t.buffer = PaintedBuffer /\ ~t.placeholder /\ t.mode # "none" /\ t.shown.kind = "rows"
    BY <1>5 DEF Delivery, Rest
  <2> QED BY <1>4, <2>1, <2>2 DEF Fresh, Repaints, PaintedBuffer, NoBuffer
<1>6. CASE ~final
  <2>1. t.buffer = [b EXCEPT !.timer = TRUE] /\ t.shown = s.shown /\ ~t.placeholder /\ t.mode # "none"
    BY <1>6 DEF Delivery, Rest, b
  <2>2. t.buffer.held /\ t.buffer.rows = b.rows /\ t.buffer.painted = s.buffer.painted
    BY <2>1, <1>2 DEF Buffer
  <2> QED BY <1>3, <1>4, <2>1, <2>2 DEF Fresh, Repaints
<1> QED BY <1>5, <1>6

\* A new query leaves nothing of the one before in the buffer.
LEMMA QuerySetFresh ==
  ASSUME NEW s \in AppState, NEW t \in AppState, NEW text \in Texts, NEW final \in BOOLEAN,
         QueryOutcome(s, t, text, final)
  PROVE  Fresh(t) /\ Repaints(s, t)
<1> DEFINE b == Blank(s, text)
           e == [b EXCEPT !.mode = "extension"]
<1>1. /\ b \in AppState /\ b.buffer = NoBuffer /\ b.shown = s.shown /\ b.placeholder = (text # Empty)
      /\ ~b.answered
  BY ZenonT(40), BlankIs
<1>2. e \in AppState /\ e.buffer = NoBuffer /\ e.shown = s.shown /\ ~e.answered /\ e.mode = "extension"
  BY <1>1 DEF AppState
<1> HIDE DEF b
<1>3. CASE text = Empty /\ t = [b EXCEPT !.mode = "none", !.shown = Shown("home", <<>>)]
  <2>1. t.buffer = NoBuffer /\ t.shown = Shown("home", <<>>) /\ ~t.placeholder
    BY <1>1, <1>3 DEF AppState
  <2> QED BY <2>1, NoRowsOfRequest DEF Fresh, Repaints, Shown, NoBuffer
<1>4. CASE Delivery([b EXCEPT !.mode = "launcher"], t, <<LocalRow>>, FALSE, final)
  <2> DEFINE c == [b EXCEPT !.mode = "launcher"]
  <2>1. /\ c \in AppState /\ c.shown = s.shown /\ c.mode # "none"
        /\ c.buffer = NoBuffer
    BY <1>1 DEF AppState
  <2>3. Delivery(c, t, <<LocalRow>>, FALSE, final)
    BY <1>4
  <2> HIDE DEF c
  <2>2. Fresh(t) /\ Repaints(c, t)
    BY <2>1, <2>3, DeliveryFresh, RowTypes, NoRowsOfRequest
  <2> QED BY <2>1, <2>2 DEF Repaints
<1>5. CASE Delivery([e EXCEPT !.loading = FALSE], t, <<NoticeRow>>, FALSE, TRUE)
  <2> DEFINE c == [e EXCEPT !.loading = FALSE]
  <2>1. /\ c \in AppState /\ c.shown = s.shown /\ c.mode # "none"
        /\ c.buffer = NoBuffer
    BY <1>2 DEF AppState
  <2>3. Delivery(c, t, <<NoticeRow>>, FALSE, TRUE)
    BY <1>5
  <2> HIDE DEF c
  <2>2. Fresh(t) /\ Repaints(c, t)
    BY <2>1, <2>3, DeliveryFresh, RowTypes, NoRowsOfRequest
  <2> QED BY <2>1, <2>2 DEF Repaints
<1>6. CASE t = [e EXCEPT !.active = text, !.pending = TRUE, !.loading = TRUE]
  <2>1. t.buffer = NoBuffer /\ t.shown = s.shown /\ ~t.answered /\ t.mode = "extension"
    BY <1>2, <1>6 DEF AppState
  <2> QED BY <2>1 DEF Fresh, Repaints, NoBuffer
<1>7. CASE t = [e EXCEPT !.loading = FALSE, !.active = text,
                         !.req = s.req + 1, !.pending = TRUE, !.want = <<>>, !.open = s.req + 1,
                         !.sent = [s.sent EXCEPT ![text] = Append(@, InputRequest(s.req + 1))]]
  <2>1. t.buffer = NoBuffer /\ t.shown = s.shown /\ ~t.answered /\ t.mode = "extension"
    BY <1>2, <1>7 DEF AppState
  <2> QED BY <2>1 DEF Fresh, Repaints, NoBuffer
<1> QED BY <1>3, <1>4, <1>5, <1>6, <1>7 DEF QueryOutcome, b

LEMMA FreshKept ==
  ASSUME NEW s, NEW t, Fresh(s),
         t.buffer = s.buffer, t.shown = s.shown, t.mode = s.mode, t.active = s.active, t.req = s.req,
         t.placeholder => s.placeholder /\ t.answered = s.answered
  PROVE  Fresh(t) /\ Repaints(s, t)
<1>1. \A rows : OfRequest(rows, s) => OfRequest(rows, t)
  BY DEF OfRequest
<1> QED BY <1>1 DEF Fresh, Repaints

\* A new request finds the buffer empty.
LEMMA SentFresh ==
  ASSUME NEW s \in AppState, NEW request \in Request, Fresh(s), s.buffer = NoBuffer
  PROVE  Fresh(Sent(s, request)) /\ Repaints(s, Sent(s, request))
<1> DEFINE t == Sent(s, request)
<1>1. /\ t.buffer = NoBuffer /\ t.shown = s.shown /\ t.mode = s.mode
      /\ t.placeholder = s.placeholder /\ t.answered = s.answered
  <2> DEFINE x == s.active
             u == [s EXCEPT !.req = s.req + 1, !.pending = TRUE, !.want = <<>>, !.open = s.req + 1,
                            !.sent = [s.sent EXCEPT ![x] = Append(@, [request EXCEPT !.req = s.req + 1])]]
  <2>1. t = s \/ t = u
    BY SentIs
  <2>2. /\ u.buffer = s.buffer /\ u.shown = s.shown /\ u.mode = s.mode
        /\ u.placeholder = s.placeholder /\ u.answered = s.answered
    BY DEF AppState
  <2> HIDE DEF t, u
  <2> QED BY <2>1, <2>2
<1> HIDE DEF t
<1> QED BY <1>1, RowTypes DEF Fresh, Repaints, t

LEMMA LoadingFinishedFresh ==
  ASSUME NEW s \in AppState, NEW rows \in Seq(Row), Fresh(s), OfRequest(rows, s)
  PROVE  Fresh(LoadingFinished(s, rows)) /\ Repaints(s, LoadingFinished(s, rows))
<1> DEFINE t == LoadingFinished(s, rows)
           u == [s EXCEPT !.loading = FALSE, !.pending = FALSE]
<1>1. /\ u.buffer = s.buffer /\ u.shown = s.shown /\ u.mode = s.mode /\ u.active = s.active
      /\ u.req = s.req /\ u.placeholder = s.placeholder /\ u.answered = s.answered /\ u \in AppState
  BY DEF AppState
<1>2. t = u \/ (s.mode = "extension" /\ Delivery(u, t, rows, FALSE, TRUE))
  BY LoadingFinishedIs
<1> HIDE DEF u, t
<1>3. Fresh(u) /\ OfRequest(rows, u) /\ (Repaints(u, t) => Repaints(s, t))
  BY <1>1, FreshKept DEF OfRequest, Repaints
<1>4. CASE t = u
  BY <1>3, <1>4 DEF Repaints, t
<1>5. CASE s.mode = "extension" /\ Delivery(u, t, rows, FALSE, TRUE)
  <2>1. Fresh(t) /\ Repaints(u, t)
    BY <1>1, <1>3, <1>5, DeliveryFresh DEF Fresh
  <2> QED BY <1>3, <2>1 DEF t
<1> QED BY <1>2, <1>4, <1>5

LEMMA ErroredFresh ==
  ASSUME NEW s \in AppState, NEW x \in Exts, Fresh(s)
  PROVE  Fresh(Errored(s, x)) /\ Repaints(s, Errored(s, x))
<1> DEFINE t == Errored(s, x)
           u == [s EXCEPT !.open = 0, !.loading = FALSE, !.pending = FALSE]
           v == [s EXCEPT !.open = 0, !.pending = FALSE]
<1>1. /\ u.buffer = s.buffer /\ u.shown = s.shown /\ u.mode = s.mode /\ u.active = s.active
      /\ u.req = s.req /\ u.placeholder = s.placeholder /\ u.answered = s.answered /\ u \in AppState
      /\ v.buffer = s.buffer /\ v.shown = s.shown /\ v.mode = s.mode /\ v.active = s.active
      /\ v.req = s.req /\ v.placeholder = s.placeholder /\ v.answered = s.answered
  BY DEF AppState
<1>2. t = s \/ t = u \/ t = v \/ (s.mode = "extension" /\ Delivery(u, t, <<NoticeRow>>, FALSE, TRUE))
  BY ErroredIs
<1> HIDE DEF u, v, t
<1>3. Fresh(u) /\ Fresh(v) /\ (Repaints(u, t) => Repaints(s, t))
  BY <1>1, FreshKept DEF Repaints
<1>4. CASE t \in {s, u, v}
  BY <1>1, <1>3, <1>4 DEF Repaints, t
<1>5. CASE s.mode = "extension" /\ Delivery(u, t, <<NoticeRow>>, FALSE, TRUE)
  <2>1. Fresh(t) /\ Repaints(u, t)
    BY <1>1, <1>3, <1>5, DeliveryFresh, RowTypes, NoRowsOfRequest DEF Fresh
  <2> QED BY <1>3, <2>1 DEF t
<1> QED BY <1>2, <1>4, <1>5

\* What an extension says about its own request: the rows carry both.
Stamped(x, m) == \A i \in DOMAIN m.rows : m.rows[i].ext = x /\ m.rows[i].req = m.req

LEMMA ResponseHandledFresh ==
  ASSUME WireTypeOK, NEW s \in AppState, NEW x \in Exts, NEW m \in Response, NEW final \in BOOLEAN,
         Fresh(s), Stamped(x, m)
  PROVE  Fresh(ResponseHandled(s, x, m, final)) /\ Repaints(s, ResponseHandled(s, x, m, final))
<1> DEFINE t == ResponseHandled(s, x, m, final)
           c == Closing(s, m)
<1>1. CASE t = s
  BY <1>1 DEF Repaints
<1>2. ASSUME Answers(s, x, m), NEW u \in AppState, EffectOutcome(c, u, m, final),
             t = IF Streams(m) THEN u ELSE [u EXCEPT !.pending = FALSE]
      PROVE  Fresh(t) /\ Repaints(s, t)
  <2>1. /\ c \in AppState /\ c.buffer = s.buffer /\ c.shown = s.shown /\ c.mode = s.mode
        /\ c.active = s.active /\ c.req = s.req /\ c.placeholder = s.placeholder /\ c.answered = s.answered
    BY DEF Closing, AppState
  <2>2. c.active = x /\ c.req = m.req
    BY <1>2, <2>1 DEF Answers
  <2>3. /\ t.buffer = u.buffer /\ t.shown = u.shown /\ t.mode = u.mode /\ t.active = u.active
        /\ t.req = u.req /\ t.placeholder = u.placeholder /\ t.answered = u.answered
    BY <1>2 DEF AppState
  <2> HIDE DEF c, t
  <2>4. Fresh(c) /\ (Repaints(c, u) => Repaints(s, u))
    BY <2>1, FreshKept DEF Repaints
  <2>5. Fresh(u) /\ Repaints(c, u)
    <3>1. CASE u = c
      BY <2>4, <3>1 DEF Repaints
    <3>2. CASE m.type = "render" /\ c.mode = "extension" /\ Delivery(c, u, m.rows, m.append, m.final)
      <4>1. OfRequest(m.rows, c)
        BY <2>2, <3>2 DEF OfRequest, Stamped
      <4>2. m.rows \in Seq(Row) /\ m.append \in BOOLEAN /\ m.final \in BOOLEAN
        BY DEF Response
      <4> QED BY <2>1, <2>4, <3>2, <4>1, <4>2, DeliveryFresh DEF Fresh
    <3>3. CASE u = [c EXCEPT !.placeholder = FALSE, !.answered = TRUE]
      <4>1. /\ u.buffer = c.buffer /\ u.shown = c.shown /\ u.mode = c.mode /\ u.active = c.active
            /\ u.req = c.req /\ ~u.placeholder
        BY <2>1, <3>3 DEF AppState
      <4> QED BY <2>4, <4>1, FreshKept
    <3>4. CASE QueryOutcome([c EXCEPT !.placeholder = FALSE], u, m.query, final)
      <4> DEFINE d == [c EXCEPT !.placeholder = FALSE]
      <4>1. d \in AppState /\ d.shown = c.shown /\ m.query \in Texts
        BY <2>1 DEF AppState, Response
      <4>2. QueryOutcome(d, u, m.query, final)
        BY <3>4
      <4> HIDE DEF d
      <4>3. Fresh(u) /\ Repaints(d, u)
        BY <4>1, <4>2, QuerySetFresh
      <4> QED BY <4>1, <4>3 DEF Repaints
    <3> QED BY <1>2, <3>1, <3>2, <3>3, <3>4 DEF EffectOutcome, c
  <2>6. Fresh(t) /\ Repaints(u, t)
    BY <2>3, <2>5, FreshKept
  <2>7. OfRequest(u.shown.rows, u) => OfRequest(t.shown.rows, t)
    BY <2>3 DEF OfRequest
  <2> QED BY <2>3, <2>4, <2>5, <2>6, <2>7 DEF Repaints
<1> QED BY <1>1, <1>2, ResponseHandledIs

LEMMA PaintedFresh ==
  ASSUME NEW s \in AppState, Fresh(s), s.buffer.timer
  PROVE  Fresh(Painted(s)) /\ Repaints(s, Painted(s))
<1> DEFINE t == Painted(s)
<1>1. /\ t.buffer = PaintedBuffer /\ ~t.placeholder /\ t.mode = s.mode /\ t.active = s.active /\ t.req = s.req
      /\ t.shown.kind = "rows"
      /\ t.shown.rows = IF Extends(s.buffer) THEN s.shown.rows \o s.buffer.rows ELSE s.buffer.rows
  BY PaintedIs DEF Rest
<1> HIDE DEF t
<1>2. OfRequest(t.shown.rows, s)
  BY <1>1, OfRequestConcat DEF Fresh, Extends, AppState, Buffer
<1>3. OfRequest(t.shown.rows, t) /\ t.mode # "none"
  BY <1>1, <1>2, RowTypes DEF OfRequest, Fresh
<1> QED BY <1>1, <1>3 DEF Fresh, Repaints, PaintedBuffer, NoBuffer, t

(***************************************************************************)
(* What the steps of an extension's process do                             *)
(***************************************************************************)
ClientState == [debounce: Nat, input: Nat, threads: SUBSET Thread, idle: Seq(Response),
                cacheReq: Nat, cache: Seq(Row)]

LEMMA ClientUpdated ==
  ASSUME ClientTypeOK, NEW x \in Exts, NEW c \in ClientState, client' = [client EXCEPT ![x] = c]
  PROVE  ClientTypeOK' /\ client'[x] = c /\ \A y \in Exts \ {x} : client'[y] = client[y]
<1>1. client \in [Exts -> ClientState]
  BY DEF ClientTypeOK, ClientState
<1>2. client' \in [Exts -> ClientState] /\ client'[x] = c /\ \A y \in Exts \ {x} : client'[y] = client[y]
  BY <1>1
<1> QED BY <1>2 DEF ClientTypeOK, ClientState

LEMMA OnMessageIs ==
  ASSUME TypeOK, NEW x \in Exts, OnMessage(x)
  PROVE  LET m == Head(toExt[x])
             c == client[x]
         IN  /\ toExt[x] # <<>> /\ m \in Request /\ c \in ClientState
             /\ toExt' = [toExt EXCEPT ![x] = Tail(toExt[x])] /\ UNCHANGED <<status, toApp, used>>
             /\ \/ client' = client
                \/ client' = [client EXCEPT ![x] = [c EXCEPT !.debounce = m.req]]
                \/ \E t \in Thread : /\ t.req = m.req /\ t.input = 0 /\ t.meant = m.row
                                     /\ m.row.id + 1 \in 1..Len(c.cache) /\ t.got = c.cache[m.row.id + 1]
                                     /\ client' = [client EXCEPT ![x] = [c EXCEPT !.threads = @ \cup {t}]]
<1> DEFINE m == Head(toExt[x])
           c == client[x]
<1>1. toExt[x] # <<>> /\ toExt[x] \in Seq(Request) /\ m \in Request
  <2>1. toExt[x] # <<>> /\ toExt[x] \in Seq(Request)
    BY DEF OnMessage, TypeOK, WireTypeOK
  <2> QED BY <2>1, HeadTailProperties
<1>2. client \in [Exts -> ClientState] /\ c \in ClientState
  BY DEF TypeOK, ClientTypeOK, ClientState
<1>3. toExt' = [toExt EXCEPT ![x] = Tail(toExt[x])] /\ UNCHANGED <<status, toApp, used>>
  BY DEF OnMessage
<1>4. CASE client' = [client EXCEPT ![x].debounce = m.req]
  <2>1. client' = [client EXCEPT ![x] = [c EXCEPT !.debounce = m.req]]
    BY <1>2, <1>4
  <2> QED BY <1>1, <1>2, <1>3, <2>1
<1>5. CASE m.type = "activation" /\ m.row.id < Len(c.cache)
           /\ client' = [client EXCEPT ![x].threads =
                @ \cup {[req |-> m.req, input |-> 0, meant |-> m.row,
                         got |-> c.cache[m.row.id + 1], batches |-> 0]}]
  <2> DEFINE t == [req |-> m.req, input |-> 0, meant |-> m.row,
                   got |-> c.cache[m.row.id + 1], batches |-> 0]
  <2>1. m.req \in Nat /\ m.row \in Row /\ m.row.id \in Nat /\ c.cache \in Seq(Row)
    BY <1>1, <1>2 DEF Request, Row, ClientState
  <2>2. m.row.id + 1 \in 1..Len(c.cache)
    BY <1>5, <2>1, LenProperties
  <2>3. t \in Thread
    <3> HIDE DEF m, c
    <3>1. c.cache[m.row.id + 1] \in Row
      BY <2>1, <2>2, ElementOfSeq
    <3> QED BY <2>1, <3>1 DEF Thread
  <2>4. client' = [client EXCEPT ![x] = [c EXCEPT !.threads = @ \cup {t}]]
    BY <1>2, <1>5
  <2>5. t.req = m.req /\ t.input = 0 /\ t.meant = m.row /\ t.got = c.cache[m.row.id + 1]
    OBVIOUS
  <2> HIDE DEF t
  <2> QED BY <1>1, <1>2, <1>3, <2>2, <2>3, <2>4, <2>5
<1>6. CASE client' = client
  BY <1>1, <1>2, <1>3, <1>6
<1> QED BY <1>4, <1>5, <1>6 DEF OnMessage

LEMMA DebouncedIs ==
  ASSUME TypeOK, NEW x \in Exts, Debounced(x)
  PROVE  LET c == client[x] IN
         /\ c \in ClientState /\ c.debounce # 0 /\ UNCHANGED wireVars
         /\ \E t \in Thread :
              /\ t.req = c.debounce /\ t.input = c.input + 1
              /\ client' = [client EXCEPT ![x] = [c EXCEPT !.debounce = 0, !.input = c.input + 1,
                                                           !.threads = @ \cup {t}]]
<1> DEFINE c == client[x]
           t == [req |-> c.debounce, input |-> c.input + 1, meant |-> LocalRow, got |-> LocalRow, batches |-> 0]
<1>1. client \in [Exts -> ClientState] /\ c \in ClientState
  BY DEF TypeOK, ClientTypeOK, ClientState
<1>2. t \in Thread
  BY <1>1, RowTypes DEF ClientState, Thread
<1>3. client' = [client EXCEPT ![x] = [c EXCEPT !.debounce = 0, !.input = c.input + 1, !.threads = @ \cup {t}]]
  BY <1>1 DEF Debounced, ClientState
<1>4. t.req = c.debounce /\ t.input = c.input + 1
  OBVIOUS
<1>5. c.debounce # 0 /\ UNCHANGED wireVars
  BY DEF Debounced
<1> QED BY <1>1, <1>2, <1>3, <1>4, <1>5

\* Only results have rows, and only some activations answer with them.
Said(t, r) ==
  /\ r.type # "render" => r.rows = <<>>
  /\ r.type = "render" /\ t.input = 0 => ActivationReplies \cap {"stream", "list"} # {}

\* A handler ends without a word, or hands a response of its own request to the
\* main loop; after all but a batch of a stream it has ended too.
LEMMA HandlerIs ==
  ASSUME TypeOK, NEW x \in Exts, Handler(x)
  PROVE  LET c == client[x] IN
         /\ c \in ClientState /\ UNCHANGED <<status, toExt, toApp>> /\ WireTypeOK'
         /\ \E t \in c.threads :
              \/ client' = [client EXCEPT ![x] = [c EXCEPT !.threads = @ \ {t}]]
              \/ \E r \in Response : \E next \in SUBSET Thread :
                   /\ r.req = t.req /\ r.input = t.input /\ Stamped(x, r)
                   /\ r.type = "query" => "query" \in ActivationReplies
                   /\ Said(t, r)
                   /\ next = {} \/ (Streams(r) /\ next = {[t EXCEPT !.batches = @ + 1]})
                   /\ client' = [client EXCEPT ![x] = [c EXCEPT !.threads = (@ \ {t}) \cup next,
                                                                !.idle = Append(@, r)]]
<1> DEFINE c == client[x]
<1>1. client \in [Exts -> ClientState] /\ c \in ClientState /\ c.threads \subseteq Thread
  BY DEF TypeOK, ClientTypeOK, ClientState
<1>2. PICK t \in c.threads :
        \/ MayAnswer(t, "stream") /\ (YieldsBatch(x, t) \/ Exhausted(x, t))
        \/ MayAnswer(t, "list") /\ ReturnsList(x, t)
        \/ MayAnswer(t, "nothing") /\ ReturnsNothing(x, t)
        \/ MayAnswer(t, "query") /\ ReturnsQuery(x, t)
        \/ Raises(x, t)
  BY DEF Handler
<1>3. t \in Thread /\ t.req \in Nat /\ t.input \in Nat /\ t.batches \in Nat
  BY <1>1 DEF Thread
<1> DEFINE Says(r, next) == Emits(x, t, next, r)
<1>4. WireTypeOK
  BY DEF TypeOK
<1>5. ASSUME NEW r \in Response, NEW next \in SUBSET Thread, Emits(x, t, next, r),
             r.req = t.req, r.input = t.input, Stamped(x, r),
             r.type = "query" => "query" \in ActivationReplies, Said(t, r),
             next = {} \/ (Streams(r) /\ next = {[t EXCEPT !.batches = @ + 1]})
      PROVE  /\ UNCHANGED <<status, toExt, toApp>> /\ WireTypeOK'
             /\ \E q \in Response : \E n \in SUBSET Thread :
                   /\ q.req = t.req /\ q.input = t.input /\ Stamped(x, q)
                   /\ q.type = "query" => "query" \in ActivationReplies
                   /\ Said(t, q)
                   /\ n = {} \/ (Streams(q) /\ n = {[t EXCEPT !.batches = @ + 1]})
                   /\ client' = [client EXCEPT ![x] = [c EXCEPT !.threads = (@ \ {t}) \cup n,
                                                                !.idle = Append(@, q)]]
  <2>1. client' = [client EXCEPT ![x] = [c EXCEPT !.threads = (@ \ {t}) \cup next, !.idle = Append(@, r)]]
    BY <1>1, <1>5 DEF Emits, ClientState
  <2>2. UNCHANGED wireVars
    BY <1>5 DEF Emits
  <2> QED BY <1>4, <1>5, <2>1, <2>2 DEF wireVars, WireTypeOK
<1>6. ASSUME NEW type \in {"render", "nothing", "query"}, NEW rows \in Seq(Row), NEW append \in BOOLEAN,
             NEW final \in BOOLEAN, NEW query \in Texts
      PROVE  Answer(t, type, rows, append, final, query) \in Response
  BY <1>3 DEF Answer, Response
<1>7. ASSUME NEW n \in Nat
      PROVE  <<Result(x, t, n)>> \in Seq(Row)
  <2>1. Result(x, t, n) \in Row
    BY <1>3, <1>7 DEF Result, Row
  <2> QED BY <2>1
<1>8. <<>> \in Seq(Row) /\ Empty \in Texts /\ {} \in SUBSET Thread
  BY RowTypes DEF Texts
<1>9. ASSUME Ends(x, t) \/ Raises(x, t)
      PROVE  /\ UNCHANGED <<status, toExt, toApp>> /\ WireTypeOK'
             /\ client' = [client EXCEPT ![x] = [c EXCEPT !.threads = @ \ {t}]]
  <2>1. client' = [client EXCEPT ![x] = [c EXCEPT !.threads = @ \ {t}]]
    BY <1>1, <1>9 DEF Ends, Raises, ClientState
  <2>2. CASE Ends(x, t)
    BY <1>4, <2>1, <2>2 DEF Ends, wireVars, WireTypeOK
  <2>3. CASE Raises(x, t)
    <3>1. used' = [used EXCEPT !.failures = @ + 1] /\ UNCHANGED <<status, toExt, toApp>>
      BY <2>3 DEF Raises
    <3>2. used' \in [inputs: Nat, activations: Nat, stops: Nat, failures: Nat]
      <4>1. used \in [inputs: Nat, activations: Nat, stops: Nat, failures: Nat]
        BY <1>4 DEF WireTypeOK
      <4> QED BY <3>1, <4>1
    <3> QED BY <1>4, <2>1, <3>1, <3>2 DEF WireTypeOK
  <2> QED BY <1>9, <2>2, <2>3
<1>10. CASE MayAnswer(t, "stream") /\ YieldsBatch(x, t)
  <2>1. CASE Ends(x, t)
    BY <1>1, <1>9, <2>1
  <2>2. CASE ~Superseded(x, t.input) /\ t.batches < MaxBatches
             /\ \E append \in BOOLEAN :
                  Emits(x, t, {[t EXCEPT !.batches = @ + 1]},
                        Batch(t, <<Result(x, t, t.batches + 1)>>, append, FALSE))
    <3>1. PICK append \in BOOLEAN :
                 Emits(x, t, {[t EXCEPT !.batches = @ + 1]},
                       Batch(t, <<Result(x, t, t.batches + 1)>>, append, FALSE))
      BY <2>2
    <3> DEFINE r == Batch(t, <<Result(x, t, t.batches + 1)>>, append, FALSE)
               next == {[t EXCEPT !.batches = @ + 1]}
    <3>2. r \in Response
      <4>1. <<Result(x, t, t.batches + 1)>> \in Seq(Row)
        BY <1>3, <1>7
      <4> QED BY <1>6, <1>8, <4>1 DEF Batch
    <3>3. next \in SUBSET Thread
      BY <1>3 DEF Thread
    <3>4. r.req = t.req /\ r.input = t.input /\ Stamped(x, r) /\ r.type = "render" /\ Streams(r)
      BY DEF Batch, Answer, Stamped, Result, Streams
    <3>5. r.type # "query" /\ Said(t, r)
      BY <1>10, <3>4 DEF MayAnswer, Said
    <3> HIDE DEF r
    <3> QED BY <1>1, <1>5, <3>1, <3>2, <3>3, <3>4, <3>5 DEF r
  <2> QED BY <1>10, <2>1, <2>2 DEF YieldsBatch
<1>11. CASE MayAnswer(t, "stream") /\ Exhausted(x, t)
  <2> DEFINE r == Batch(t, <<>>, t.batches > 0, TRUE)
  <2>1. r \in Response
    <3>1. (t.batches > 0) \in BOOLEAN
      BY <1>3
    <3> QED BY <1>6, <1>8, <3>1 DEF Batch
  <2>2. r.req = t.req /\ r.input = t.input /\ Stamped(x, r) /\ r.type = "render" /\ Emits(x, t, {}, r)
    BY <1>11 DEF Batch, Answer, Stamped, Exhausted
  <2>3. Said(t, r) /\ r.type # "query"
    BY <1>11, <2>2 DEF MayAnswer, Said
  <2> HIDE DEF r
  <2> QED BY <1>1, <1>5, <1>8, <2>1, <2>2, <2>3
<1>12. CASE MayAnswer(t, "list") /\ ReturnsList(x, t)
  <2> DEFINE r == Batch(t, <<Result(x, t, 1)>>, FALSE, TRUE)
  <2>1. r \in Response
    BY <1>6, <1>7, <1>8 DEF Batch
  <2>2. r.req = t.req /\ r.input = t.input /\ Stamped(x, r) /\ r.type = "render" /\ Emits(x, t, {}, r)
    BY <1>12 DEF Batch, Answer, Stamped, ReturnsList, Result
  <2>3. Said(t, r) /\ r.type # "query"
    BY <1>12, <2>2 DEF MayAnswer, Said
  <2> HIDE DEF r
  <2> QED BY <1>1, <1>5, <1>8, <2>1, <2>2, <2>3
<1>13. CASE ReturnsNothing(x, t)
  <2> DEFINE r == Answer(t, "nothing", <<>>, FALSE, TRUE, Empty)
  <2>1. r \in Response
    BY <1>6, <1>8
  <2>2. r.req = t.req /\ r.input = t.input /\ Stamped(x, r) /\ r.type = "nothing" /\ r.rows = <<>> /\ Emits(x, t, {}, r)
    BY <1>13 DEF Answer, Stamped, ReturnsNothing
  <2>3. Said(t, r) /\ r.type # "query"
    BY <2>2 DEF Said
  <2> HIDE DEF r
  <2> QED BY <1>1, <1>5, <1>8, <2>1, <2>2, <2>3
<1>14. CASE MayAnswer(t, "query") /\ ReturnsQuery(x, t)
  <2>1. PICK text \in Typed : Emits(x, t, {}, Answer(t, "query", <<>>, FALSE, TRUE, text))
    BY <1>14 DEF ReturnsQuery
  <2> DEFINE r == Answer(t, "query", <<>>, FALSE, TRUE, text)
  <2>2. r \in Response
    BY <1>6, <1>8, TypedAssumption
  <2>3. r.req = t.req /\ r.input = t.input /\ Stamped(x, r) /\ Emits(x, t, {}, r) /\ Said(t, r)
    BY <2>1 DEF Answer, Stamped, Said
  <2>4. "query" \in ActivationReplies
    BY <1>14 DEF MayAnswer
  <2> HIDE DEF r
  <2> QED BY <1>1, <1>5, <1>8, <2>2, <2>3, <2>4
<1>15. CASE Raises(x, t)
  BY <1>1, <1>9, <1>15
<1> QED BY <1>2, <1>10, <1>11, <1>12, <1>13, <1>14, <1>15

\* The results of a response with their ids, and what the cache becomes.
WithIds(rows, cached) == [i \in DOMAIN rows |-> [rows[i] EXCEPT !.id = ResultId(cached, i)]]
Cached(x, c, m, k) ==
  IF Superseded(x, m.input) \/ m.type # "render"
  THEN k.cacheReq = c.cacheReq /\ k.cache = c.cache
  ELSE k.cacheReq = m.req /\ k.cache = CacheFor(c, m) \o WithIds(m.rows, CacheFor(c, m))

\* The main loop drops the next response, or sends it with ids.
LEMMA SendResponseIs ==
  ASSUME TypeOK, NEW x \in Exts, SendResponse(x)
  PROVE  LET c == client[x]
             m == Head(c.idle)
         IN  /\ c \in ClientState /\ c.idle # <<>> /\ m \in Response /\ UNCHANGED <<status, toExt, used>>
             /\ \E k \in ClientState :
                  /\ client' = [client EXCEPT ![x] = k]
                  /\ k.idle = Tail(c.idle) /\ k.threads = c.threads
                  /\ k.debounce = c.debounce /\ k.input = c.input
                  /\ Cached(x, c, m, k)
             /\ \/ Superseded(x, m.input) /\ toApp' = toApp
                \/ /\ ~Superseded(x, m.input)
                   /\ \E r \in Response :
                        /\ toApp' = [toApp EXCEPT ![x] = Append(toApp[x], r)]
                        /\ r.req = m.req /\ r.type = m.type /\ r.final = m.final /\ r.input = m.input
                        /\ Stamped(x, m) => Stamped(x, r)
                        /\ r.rows = WithIds(m.rows, CacheFor(c, m))
<1> DEFINE c == client[x]
           m == Head(c.idle)
           cached == CacheFor(c, m)
           rows == [i \in DOMAIN m.rows |-> [m.rows[i] EXCEPT !.id = ResultId(cached, i)]]
           r == [m EXCEPT !.rows = rows]
<1>1. client \in [Exts -> ClientState] /\ c \in ClientState /\ toApp \in [Exts -> Seq(Response)]
  BY DEF TypeOK, ClientTypeOK, ClientState, WireTypeOK
<1>2. c.idle # <<>> /\ c.idle \in Seq(Response) /\ Tail(c.idle) \in Seq(Response) /\ m \in Response
  <2>1. c.idle # <<>> /\ c.idle \in Seq(Response)
    BY <1>1 DEF SendResponse, ClientState
  <2> QED BY <2>1, HeadTailProperties
<1>3. UNCHANGED <<status, toExt, used>>
  BY DEF SendResponse
<1>4. m.rows \in Seq(Row) /\ m.req \in Nat /\ cached \in Seq(Row)
  BY <1>1, <1>2, RowTypes DEF Response, CacheFor, ClientState
<1> HIDE DEF m, cached
<1>5. rows \in Seq(Row) /\ \A i \in DOMAIN rows : rows[i].ext = m.rows[i].ext /\ rows[i].req = m.rows[i].req
  <2>1. /\ m.rows \in [1..Len(m.rows) -> Row] /\ DOMAIN m.rows = 1..Len(m.rows)
        /\ Len(m.rows) \in Nat /\ Len(cached) \in Nat
    BY <1>4, LenProperties
  <2>2. \A i \in DOMAIN m.rows : ResultId(cached, i) \in Nat
    BY <2>1 DEF ResultId
  <2>3. \A i \in DOMAIN m.rows : /\ [m.rows[i] EXCEPT !.id = ResultId(cached, i)] \in Row
                                 /\ [m.rows[i] EXCEPT !.id = ResultId(cached, i)].ext = m.rows[i].ext
                                 /\ [m.rows[i] EXCEPT !.id = ResultId(cached, i)].req = m.rows[i].req
    BY <2>1, <2>2 DEF Row
  <2>4. rows \in [1..Len(m.rows) -> Row]
    BY <2>1, <2>3
  <2>5. rows \in Seq(Row)
    BY <2>1, <2>4
  <2> QED BY <2>3, <2>5
<1> HIDE DEF rows
<1>6. /\ r \in Response /\ r.req = m.req /\ r.type = m.type /\ r.final = m.final /\ r.input = m.input
      /\ r.rows = rows
  BY <1>2, <1>5 DEF Response
<1>7. Stamped(x, m) => Stamped(x, r)
  <2>1. DOMAIN rows = DOMAIN m.rows
    BY DEF rows
  <2> QED BY <1>5, <1>6, <2>1 DEF Stamped
<1>8. CASE Superseded(x, m.input)
  <2> DEFINE k == [c EXCEPT !.idle = Tail(c.idle)]
  <2>1. client' = [client EXCEPT ![x].idle = Tail(@)] /\ toApp' = toApp
    BY <1>8 DEF SendResponse, m
  <2>2. client' = [client EXCEPT ![x] = k]
    BY <1>1, <2>1
  <2>3. /\ k \in ClientState /\ k.idle = Tail(c.idle) /\ k.threads = c.threads
        /\ k.debounce = c.debounce /\ k.input = c.input
        /\ k.cacheReq = c.cacheReq /\ k.cache = c.cache
    BY <1>1, <1>2 DEF ClientState
  <2>4. Cached(x, c, m, k)
    BY <1>8, <2>3 DEF Cached
  <2> HIDE DEF k
  <2> QED BY <1>1, <1>2, <1>3, <1>8, <2>1, <2>2, <2>3, <2>4 DEF m
<1>9. CASE ~Superseded(x, m.input)
  <2> DEFINE k == IF m.type = "render"
                  THEN [c EXCEPT !.idle = Tail(c.idle), !.cacheReq = m.req, !.cache = cached \o rows]
                  ELSE [c EXCEPT !.idle = Tail(c.idle)]
  <2>0. /\ client' = [client EXCEPT
                  ![x] = IF m.type = "render"
                         THEN [c EXCEPT !.idle = Tail(@), !.cacheReq = m.req, !.cache = cached \o rows]
                         ELSE [c EXCEPT !.idle = Tail(@)]]
        /\ toApp' = [toApp EXCEPT ![x] = Append(@, r)]
    BY <1>9 DEF SendResponse, m, rows, cached
  <2>1. client' = [client EXCEPT ![x] = k] /\ toApp' = [toApp EXCEPT ![x] = Append(@, r)]
    <3> HIDE DEF r
    <3> QED BY <2>0
  <2>2. cached \o rows \in Seq(Row)
    BY <1>4, <1>5, ConcatProperties
  <2>3. /\ k \in ClientState /\ k.idle = Tail(c.idle) /\ k.threads = c.threads
        /\ k.debounce = c.debounce /\ k.input = c.input
        /\ IF m.type = "render" THEN k.cacheReq = m.req /\ k.cache = cached \o rows
                                ELSE k.cacheReq = c.cacheReq /\ k.cache = c.cache
    BY <1>1, <1>2, <1>4, <2>2 DEF ClientState
  <2>4. toApp' = [toApp EXCEPT ![x] = Append(toApp[x], r)]
    BY <1>1, <2>1
  <2> HIDE DEF k, r
  <2>5. Cached(x, c, m, k) /\ r.rows = WithIds(m.rows, CacheFor(c, m))
    BY <1>6, <1>9, <2>3 DEF Cached, WithIds, rows, cached
  <2> QED BY <1>1, <1>2, <1>3, <1>6, <1>7, <1>9, <2>1, <2>3, <2>4, <2>5 DEF m
<1> QED BY <1>8, <1>9

(***************************************************************************)
(* What the events of the app's main loop do                               *)
(***************************************************************************)
LEMMA AppTyped ==
  ASSUME CoreTypeOK
  PROVE  app \in AppState /\ \A x \in Exts : app.sent[x] = <<>>
<1>1. app.sent \in [Exts -> {<<>>}] /\ app.sent \in [Exts -> Seq(Request)]
  <2>1. app.sent \in [Exts -> {<<>>}]
    BY DEF CoreTypeOK
  <2>2. <<>> \in Seq(Request)
    OBVIOUS
  <2> QED BY <2>1, <2>2
<1>2. app \in AppState
  BY <1>1 DEF CoreTypeOK, AppState
<1> QED BY <1>1, <1>2

\* At the end of an event what was sent is in the sockets, and the rest stays.
LEMMA AppIs ==
  ASSUME WireTypeOK, NEW s \in AppState, App(s)
  PROVE  /\ CoreTypeOK' /\ toExt' \in [Exts -> Seq(Request)]
         /\ \A x \in Exts : toExt'[x] = IF status[x] = "up" THEN toExt[x] \o s.sent[x] ELSE <<>>
         /\ app'.mode = s.mode /\ app'.text = s.text /\ app'.placeholder = s.placeholder
         /\ app'.buffer = s.buffer /\ app'.active = s.active /\ app'.pending = s.pending
         /\ app'.loading = s.loading /\ app'.req = s.req /\ app'.shown = s.shown
         /\ app'.reload = s.reload /\ app'.want = s.want /\ app'.answered = s.answered
         /\ app'.open = s.open
<1>1. app' = [s EXCEPT !.sent = [x \in Exts |-> <<>>]]
  BY DEF App
<1>2. CoreTypeOK'
  BY <1>1 DEF CoreTypeOK, AppState
<1>3. toExt' = [x \in Exts |-> IF status[x] = "up" THEN toExt[x] \o s.sent[x] ELSE <<>>]
  BY DEF App
<1>4. ASSUME NEW x \in Exts
      PROVE  (IF status[x] = "up" THEN toExt[x] \o s.sent[x] ELSE <<>>) \in Seq(Request)
  <2>1. toExt[x] \in Seq(Request) /\ s.sent[x] \in Seq(Request)
    BY <1>4 DEF WireTypeOK, AppState
  <2> QED BY <2>1, ConcatProperties
<1>5. toExt' \in [Exts -> Seq(Request)]
  BY <1>3, <1>4
<1>6. \A x \in Exts : toExt'[x] = IF status[x] = "up" THEN toExt[x] \o s.sent[x] ELSE <<>>
  BY <1>3
<1>7. /\ app'.mode = s.mode /\ app'.text = s.text /\ app'.placeholder = s.placeholder
      /\ app'.buffer = s.buffer /\ app'.active = s.active /\ app'.pending = s.pending
      /\ app'.loading = s.loading /\ app'.req = s.req /\ app'.shown = s.shown
      /\ app'.reload = s.reload /\ app'.want = s.want /\ app'.answered = s.answered
      /\ app'.open = s.open
  BY <1>1 DEF AppState
<1> QED BY <1>2, <1>5, <1>6, <1>7

\* The events, with what is known of the state s that each leaves.
Asks(s, text) == \E final \in BOOLEAN : QueryOutcome(app, s, text, final)
Activates(s) ==
  LET b == [app EXCEPT !.buffer = NoBuffer] IN
  /\ used.activations < MaxActivations
  /\ \/ app.mode = "extension" /\ \E m \in Request :
          s = Sent(b, m) /\ m.row \in {app.shown.rows[i] : i \in DOMAIN app.shown.rows}
     \/ app.mode = "extension" /\ s = b
     \/ app.mode = "launcher" /\ s = [b EXCEPT !.placeholder = FALSE]
Receives(s, x) ==
  /\ toApp[x] # <<>>
  /\ toApp' = [toApp EXCEPT ![x] = Tail(toApp[x])]
  /\ \E final \in BOOLEAN : s = ResponseHandled(app, x, Head(toApp[x]), final)
Waited(s) == app.placeholder /\ s = [app EXCEPT !.placeholder = FALSE, !.shown = Shown("loading", <<>>)]
AsksAgain(s) ==
  app.reload /\ \E final \in BOOLEAN : QueryOutcome([app EXCEPT !.reload = FALSE], s, app.text, final)

MainStep(s) ==
  \/ toApp' = toApp /\ \E text \in Texts : Asks(s, text)
  \/ toApp' = toApp /\ Activates(s)
  \/ \E x \in Exts : Receives(s, x)
  \/ toApp' = toApp /\ Waited(s)
  \/ toApp' = toApp /\ app.buffer.timer /\ s = Painted(app)
  \/ toApp' = toApp /\ app.loading /\ s = LoadingFinished(app, <<>>)
  \/ toApp' = toApp /\ AsksAgain(s)

LEMMA UsesTyped ==
  ASSUME WireTypeOK, NEW k \in {"inputs", "activations", "stops", "failures"}, NEW max, Uses(k, max)
  PROVE  used' \in [inputs: Nat, activations: Nat, stops: Nat, failures: Nat]
<1>1. used \in [inputs: Nat, activations: Nat, stops: Nat, failures: Nat] /\ used' = [used EXCEPT ![k] = @ + 1]
  BY DEF WireTypeOK, Uses
<1> QED BY <1>1

LEMMA MainLoopIs ==
  ASSUME TypeOK, Fresh(app), User \/ MainLoop
  PROVE  /\ UNCHANGED status /\ WireTypeOK'
         /\ \E s \in AppState : App(s) /\ MainStep(s)
<1>1. WireTypeOK /\ app \in AppState /\ app.text \in Texts /\ [app EXCEPT !.reload = FALSE] \in AppState
      /\ [app EXCEPT !.buffer = NoBuffer] \in AppState
      /\ [app EXCEPT !.buffer = NoBuffer, !.placeholder = FALSE] \in AppState
      /\ [app EXCEPT !.placeholder = FALSE, !.shown = Shown("loading", <<>>)] \in AppState
  <2>1. app \in AppState /\ WireTypeOK
    BY AppTyped DEF TypeOK
  <2>2. Shown("loading", <<>>) \in [kind: {"home", "loading", "rows"}, rows: Seq(Row)]
    BY RowTypes DEF Shown
  <2> QED BY <2>1, <2>2, RowTypes DEF AppState
<1>2. ASSUME UNCHANGED <<status, toApp>>, used' \in [inputs: Nat, activations: Nat, stops: Nat, failures: Nat],
             NEW s \in AppState, App(s)
      PROVE  WireTypeOK'
  BY <1>1, <1>2, AppIs DEF WireTypeOK
<1>3. used \in [inputs: Nat, activations: Nat, stops: Nat, failures: Nat]
  BY <1>1 DEF WireTypeOK
<1>4. ASSUME NEW text \in Typed, Edit(text)
      PROVE  UNCHANGED status /\ WireTypeOK' /\ \E s \in AppState : App(s) /\ MainStep(s)
  <2>1. PICK final \in BOOLEAN : App(QuerySet(app, text, final))
    BY <1>4 DEF Edit
  <2>2. text \in Texts
    BY TypedAssumption
  <2> DEFINE s == QuerySet(app, text, final)
  <2>3. s \in AppState /\ QueryOutcome(app, s, text, final) /\ App(s)
    BY <1>1, <2>1, <2>2, QuerySetIs
  <2>4. UNCHANGED <<status, toApp>> /\ Uses("inputs", MaxInputs)
    BY <1>4 DEF Edit
  <2>5. used' \in [inputs: Nat, activations: Nat, stops: Nat, failures: Nat]
    BY <1>1, <2>4, UsesTyped
  <2> HIDE DEF s
  <2>6. MainStep(s)
    BY <2>2, <2>3, <2>4 DEF MainStep, Asks
  <2> QED BY <1>2, <2>3, <2>4, <2>5, <2>6
<1>5. ASSUME NEW i \in DOMAIN app.shown.rows, Activate(i)
      PROVE  UNCHANGED status /\ WireTypeOK' /\ \E s \in AppState : App(s) /\ MainStep(s)
  <2> DEFINE row == app.shown.rows[i]
             b == [app EXCEPT !.buffer = NoBuffer]
  <2>1. /\ Uses("activations", MaxActivations) /\ app.shown.kind = "rows" /\ UNCHANGED <<status, toApp>>
        /\ CASE app.mode = "extension" /\ row.ext # NoExt -> App(Sent(b, ActivationRequest(0, row)))
             [] app.mode = "extension" /\ row.ext = NoExt -> App(b)
             [] app.mode = "launcher" -> row.ext # NoExt /\ App([b EXCEPT !.placeholder = FALSE])
    BY <1>5 DEF Activate
  <2>2. used' \in [inputs: Nat, activations: Nat, stops: Nat, failures: Nat] /\ used.activations < MaxActivations
    BY <1>1, <2>1, UsesTyped DEF Uses
  <2>3. app.mode \in {"launcher", "extension"}
    <3>1. app.mode # "none"
      BY <2>1 DEF Fresh
    <3> QED BY <1>1, <3>1 DEF AppState
  <2>4. ActivationRequest(0, row) \in Request /\ ActivationRequest(0, row).row = row
    <3>1. app.shown.rows \in Seq(Row)
      BY <1>1 DEF AppState
    <3>2. row \in Row
      BY <3>1, ElementOfSeq, LenProperties
    <3> QED BY <3>2 DEF ActivationRequest, Request
  <2>5. b \in AppState /\ [b EXCEPT !.placeholder = FALSE] \in AppState
    BY <1>1 DEF AppState
  <2>6. \E s \in AppState : App(s) /\ Activates(s)
    <3>1. CASE app.mode = "extension" /\ row.ext # NoExt
      <4>1. App(Sent(b, ActivationRequest(0, row))) /\ Sent(b, ActivationRequest(0, row)) \in AppState
        BY <2>1, <2>4, <2>5, <3>1, SentIs
      <4> QED BY <2>2, <2>4, <3>1, <4>1 DEF Activates
    <3>2. CASE app.mode = "extension" /\ row.ext = NoExt
      BY <2>1, <2>2, <2>5, <3>2 DEF Activates
    <3>3. CASE app.mode = "launcher"
      BY <2>1, <2>2, <2>5, <3>3 DEF Activates
    <3> QED BY <2>3, <3>1, <3>2, <3>3
  <2> QED BY <1>2, <2>1, <2>2, <2>6 DEF MainStep
<1>6. ASSUME NEW x \in Exts, Receive(x)
      PROVE  UNCHANGED status /\ WireTypeOK' /\ \E s \in AppState : App(s) /\ MainStep(s)
  <2> DEFINE m == Head(toApp[x])
  <2>1. /\ toApp[x] # <<>> /\ toApp[x] \in Seq(Response) /\ m \in Response
        /\ toApp' = [toApp EXCEPT ![x] = Tail(toApp[x])] /\ toApp' \in [Exts -> Seq(Response)]
        /\ UNCHANGED <<status, used>>
    <3>1. /\ toApp[x] # <<>> /\ toApp \in [Exts -> Seq(Response)] /\ UNCHANGED <<status, used>>
          /\ toApp' = [toApp EXCEPT ![x] = Tail(@)]
      BY <1>1, <1>6 DEF Receive, WireTypeOK
    <3>2. m \in Response /\ Tail(toApp[x]) \in Seq(Response)
      BY <3>1, HeadTailProperties
    <3> QED BY <3>1, <3>2
  <2>2. PICK final \in BOOLEAN : App(ResponseHandled(app, x, m, final))
    BY <1>6 DEF Receive
  <2> DEFINE s == ResponseHandled(app, x, m, final)
  <2>3. s \in AppState /\ App(s)
    BY <1>1, <2>1, <2>2, ResponseHandledIs
  <2>4. Receives(s, x)
    BY <2>1 DEF Receives
  <2>5. WireTypeOK'
    BY <1>1, <2>1, <2>3, AppIs DEF WireTypeOK
  <2> QED BY <2>1, <2>3, <2>4, <2>5 DEF MainStep
<1>7. CASE ShowPlaceholder
  <2> DEFINE s == [app EXCEPT !.placeholder = FALSE, !.shown = Shown("loading", <<>>)]
  <2>1. s \in AppState /\ App(s) /\ UNCHANGED <<status, toApp, used>> /\ Waited(s)
    BY <1>1, <1>7 DEF ShowPlaceholder, Waited
  <2> QED BY <1>2, <1>3, <2>1 DEF MainStep
<1>8. CASE ThrottledPaint
  <2>1. Painted(app) \in AppState /\ App(Painted(app)) /\ UNCHANGED <<status, toApp, used>> /\ app.buffer.timer
    BY <1>1, <1>8, PaintedIs DEF ThrottledPaint
  <2> QED BY <1>2, <1>3, <2>1 DEF MainStep
<1>9. CASE LoadingTimeout
  <2> DEFINE s == LoadingFinished(app, <<>>)
  <2>1. s \in AppState /\ App(s) /\ UNCHANGED <<status, toApp, used>> /\ app.loading
    BY <1>1, <1>9, LoadingFinishedIs, RowTypes DEF LoadingTimeout
  <2> QED BY <1>2, <1>3, <2>1 DEF MainStep
<1>10. CASE ReloadQuery
  <2>1. PICK final \in BOOLEAN : App(QuerySet([app EXCEPT !.reload = FALSE], app.text, final))
    BY <1>10 DEF ReloadQuery
  <2> DEFINE s == QuerySet([app EXCEPT !.reload = FALSE], app.text, final)
  <2>2. s \in AppState /\ App(s) /\ QueryOutcome([app EXCEPT !.reload = FALSE], s, app.text, final)
    BY <1>1, <2>1, QuerySetIs
  <2>3. app.reload /\ UNCHANGED <<status, toApp, used>>
    BY <1>10 DEF ReloadQuery
  <2>4. AsksAgain(s)
    BY <2>2, <2>3 DEF AsksAgain
  <2> QED BY <1>2, <1>3, <2>2, <2>3, <2>4 DEF MainStep
<1> QED BY <1>4, <1>5, <1>6, <1>7, <1>8, <1>9, <1>10 DEF User, MainLoop

(***************************************************************************)
(* Types, and what is buffered and painted, in every reachable state       *)
(***************************************************************************)

\* What an extension says: the rows of its own request, and only what its
\* handlers may answer with.
Honest(x, messages) ==
  \A i \in DOMAIN messages :
    Stamped(x, messages[i]) /\ (messages[i].type = "query" => "query" \in ActivationReplies)

QueryInv ==
  /\ TypeOK
  /\ Fresh(app)
  /\ \A x \in Exts : Honest(x, toApp[x]) /\ Honest(x, client[x].idle)

LEMMA HonestKept ==
  ASSUME NEW x, NEW messages \in Seq(Response), Honest(x, messages)
  PROVE  /\ messages # <<>> => /\ Honest(x, Tail(messages)) /\ Stamped(x, Head(messages))
                               /\ Head(messages).type = "query" => "query" \in ActivationReplies
         /\ \A r \in Response : (Stamped(x, r) /\ (r.type = "query" => "query" \in ActivationReplies))
                                  => Honest(x, Append(messages, r))
<1>1. ASSUME messages # <<>>
      PROVE  /\ Honest(x, Tail(messages)) /\ Stamped(x, Head(messages))
             /\ Head(messages).type = "query" => "query" \in ActivationReplies
  <2>1. /\ Len(messages) \in Nat /\ Len(messages) # 0 /\ DOMAIN messages = 1..Len(messages)
        /\ Head(messages) = messages[1] /\ Tail(messages) \in Seq(Response)
        /\ Len(Tail(messages)) = Len(messages) - 1 /\ DOMAIN Tail(messages) = 1..Len(Tail(messages))
        /\ \A i \in 1..Len(Tail(messages)) : Tail(messages)[i] = messages[i + 1]
    BY <1>1, HeadTailProperties, LenProperties, EmptySeq
  <2> QED BY <2>1 DEF Honest
<1>2. ASSUME NEW r \in Response, Stamped(x, r), r.type = "query" => "query" \in ActivationReplies
      PROVE  Honest(x, Append(messages, r))
  <2>1. /\ Len(messages) \in Nat /\ DOMAIN messages = 1..Len(messages)
        /\ DOMAIN Append(messages, r) = 1..(Len(messages) + 1)
        /\ \A i \in 1..Len(messages) : Append(messages, r)[i] = messages[i]
        /\ Append(messages, r)[Len(messages) + 1] = r
    BY AppendProperties, LenProperties
  <2> QED BY <1>2, <2>1 DEF Honest
<1> QED BY <1>1, <1>2

\* Freshness only depends on these.
LEMMA FreshSame ==
  ASSUME NEW s, NEW t,
         t.buffer = s.buffer, t.shown = s.shown, t.mode = s.mode, t.active = s.active, t.req = s.req,
         t.placeholder = s.placeholder, t.answered = s.answered
  PROVE  /\ Fresh(s) => Fresh(t)
         /\ OfRequest(s.shown.rows, s) => OfRequest(t.shown.rows, t)
BY DEF Fresh, OfRequest

LEMMA MainStepFresh ==
  ASSUME QueryInv, NEW s \in AppState, MainStep(s)
  PROVE  Fresh(s) /\ (Repaints(app, s) \/ Hides(app, s))
<1>1. app \in AppState /\ WireTypeOK /\ Fresh(app)
  BY AppTyped DEF QueryInv, TypeOK
<1>2. ASSUME NEW text \in Texts, Asks(s, text)
      PROVE  Fresh(s) /\ Repaints(app, s)
  BY <1>1, <1>2, QuerySetFresh DEF Asks
<1>3. ASSUME Activates(s)
      PROVE  Fresh(s) /\ Repaints(app, s)
  <2> DEFINE b == [app EXCEPT !.buffer = NoBuffer]
  <2>1. /\ b \in AppState /\ b.buffer = NoBuffer /\ b.shown = app.shown /\ b.mode = app.mode
        /\ b.placeholder = app.placeholder /\ b.answered = app.answered
    BY <1>1, RowTypes DEF AppState
  <2>2. Fresh(b) /\ Repaints(app, b)
    BY <1>1, <2>1, RowTypes DEF Fresh, Repaints
  <2>3. CASE \E m \in Request : s = Sent(b, m)
    <3>1. PICK m \in Request : s = Sent(b, m)
      BY <2>3
    <3> HIDE DEF b
    <3>2. Fresh(s) /\ Repaints(b, s)
      BY <2>1, <2>2, <3>1, SentFresh
    <3> QED BY <2>1, <3>2 DEF Repaints
  <2>4. CASE s = b
    BY <2>2, <2>4
  <2>5. CASE app.mode = "launcher" /\ s = [b EXCEPT !.placeholder = FALSE]
    <3>1. s.buffer = NoBuffer /\ s.shown = app.shown /\ s.mode = "launcher" /\ ~s.placeholder
      BY <2>1, <2>5 DEF AppState
    <3> QED BY <3>1, RowTypes DEF Fresh, Repaints
  <2> QED BY <1>3, <2>3, <2>4, <2>5 DEF Activates
<1>4. ASSUME NEW x \in Exts, Receives(s, x)
      PROVE  Fresh(s) /\ Repaints(app, s)
  <2>1. /\ toApp[x] # <<>> /\ toApp[x] \in Seq(Response) /\ Honest(x, toApp[x])
        /\ \E final \in BOOLEAN : s = ResponseHandled(app, x, Head(toApp[x]), final)
    BY <1>1, <1>4 DEF Receives, QueryInv, WireTypeOK
  <2>2. Head(toApp[x]) \in Response /\ Stamped(x, Head(toApp[x]))
    BY <2>1, HonestKept, HeadTailProperties
  <2> QED BY <1>1, <2>1, <2>2, ResponseHandledFresh
<1>5. ASSUME Waited(s)
      PROVE  Fresh(s) /\ Hides(app, s)
  <2>1. /\ s.buffer = app.buffer /\ s.shown = Shown("loading", <<>>) /\ s.mode = app.mode /\ ~s.placeholder
        /\ app.placeholder
    BY <1>1, <1>5 DEF Waited, AppState
  <2>2. s.active = app.active /\ s.req = app.req
    BY <1>1, <1>5 DEF Waited, AppState
  <2> QED BY <1>1, <2>1, <2>2 DEF Fresh, Hides
<1>6. ASSUME app.buffer.timer, s = Painted(app)
      PROVE  Fresh(s) /\ Repaints(app, s)
  BY <1>1, <1>6, PaintedFresh
<1>7. ASSUME s = LoadingFinished(app, <<>>)
      PROVE  Fresh(s) /\ Repaints(app, s)
  BY <1>1, <1>7, LoadingFinishedFresh, RowTypes, NoRowsOfRequest
<1>8. ASSUME AsksAgain(s)
      PROVE  Fresh(s) /\ Repaints(app, s)
  <2> DEFINE b == [app EXCEPT !.reload = FALSE]
  <2>1. b \in AppState /\ b.shown = app.shown /\ app.text \in Texts
    BY <1>1 DEF AppState
  <2>2. \E final \in BOOLEAN : QueryOutcome(b, s, app.text, final)
    BY <1>8 DEF AsksAgain
  <2> HIDE DEF b
  <2>3. Fresh(s) /\ Repaints(b, s)
    BY <2>1, <2>2, QuerySetFresh
  <2> QED BY <2>1, <2>3 DEF Repaints
<1> QED BY <1>2, <1>3, <1>4, <1>5, <1>6, <1>7, <1>8 DEF MainStep

\* A step of the main loop.
LEMMA MainLoopKeeps ==
  ASSUME QueryInv, User \/ MainLoop, UNCHANGED client
  PROVE  /\ QueryInv'
         /\ Repaints(app, app') \/ Hides(app, app')
<1>1. PICK s \in AppState : App(s) /\ MainStep(s)
  BY MainLoopIs DEF QueryInv
<1>2. UNCHANGED status /\ WireTypeOK' /\ WireTypeOK
  BY MainLoopIs DEF QueryInv, TypeOK
<1>3. Fresh(s) /\ (Repaints(app, s) \/ Hides(app, s))
  BY <1>1, MainStepFresh
<1>4. /\ CoreTypeOK' /\ app'.buffer = s.buffer /\ app'.shown = s.shown /\ app'.mode = s.mode
      /\ app'.active = s.active /\ app'.req = s.req /\ app'.placeholder = s.placeholder
      /\ app'.answered = s.answered
  BY <1>1, <1>2, AppIs
<1>5. Fresh(app') /\ (OfRequest(s.shown.rows, s) => OfRequest(app'.shown.rows, app'))
  BY <1>3, <1>4, FreshSame
<1>6. TypeOK'
  BY <1>2, <1>4 DEF TypeOK, QueryInv, ClientTypeOK
<1>7. ASSUME NEW x \in Exts
      PROVE  Honest(x, toApp'[x]) /\ Honest(x, client'[x].idle)
  <2>1. CASE toApp' = toApp
    BY <2>1 DEF QueryInv
  <2>2. ASSUME NEW y \in Exts, Receives(s, y)
        PROVE  Honest(x, toApp'[x])
    <3>1. /\ toApp \in [Exts -> Seq(Response)] /\ toApp[y] # <<>> /\ toApp' = [toApp EXCEPT ![y] = Tail(toApp[y])]
      BY <1>2, <2>2 DEF Receives, WireTypeOK
    <3>2. Honest(y, Tail(toApp[y]))
      BY <3>1, HonestKept DEF QueryInv
    <3> QED BY <3>1, <3>2 DEF QueryInv
  <2> QED BY <1>1, <2>1, <2>2 DEF MainStep, QueryInv
<1> QED BY <1>3, <1>4, <1>5, <1>6, <1>7 DEF QueryInv, Repaints, Hides

\* A step of an extension's process.
LEMMA ClientKeeps ==
  ASSUME QueryInv, NEW x \in Exts, Client(x), UNCHANGED app
  PROVE  QueryInv'
<1>1. /\ TypeOK /\ WireTypeOK /\ ClientTypeOK /\ CoreTypeOK /\ Fresh(app)
      /\ toExt \in [Exts -> Seq(Request)] /\ toApp \in [Exts -> Seq(Response)]
  BY DEF QueryInv, TypeOK, WireTypeOK
<1>2. CoreTypeOK' /\ Fresh(app')
  BY <1>1 DEF CoreTypeOK
<1>3. ASSUME WireTypeOK', UNCHANGED toApp, NEW k \in ClientState, client' = [client EXCEPT ![x] = k],
             k.idle = client[x].idle
      PROVE  QueryInv'
  <2>1. ClientTypeOK' /\ client'[x] = k /\ \A y \in Exts \ {x} : client'[y] = client[y]
    BY <1>1, <1>3, ClientUpdated
  <2>2. \A y \in Exts : client'[y].idle = client[y].idle
    BY <1>3, <2>1
  <2> QED BY <1>2, <1>3, <2>1, <2>2 DEF QueryInv, TypeOK
<1>4. CASE OnMessage(x)
  <2> DEFINE m == Head(toExt[x])
             c == client[x]
  <2>1. /\ toExt[x] # <<>> /\ m \in Request /\ c \in ClientState
        /\ toExt' = [toExt EXCEPT ![x] = Tail(toExt[x])] /\ UNCHANGED <<status, toApp, used>>
        /\ \/ client' = client
           \/ client' = [client EXCEPT ![x] = [c EXCEPT !.debounce = m.req]]
           \/ \E t \in Thread : /\ t.req = m.req /\ t.input = 0
                                /\ client' = [client EXCEPT ![x] = [c EXCEPT !.threads = @ \cup {t}]]
    BY <1>1, <1>4, OnMessageIs
  <2>2. WireTypeOK'
    <3>1. toExt[x] \in Seq(Request) /\ Tail(toExt[x]) \in Seq(Request)
      BY <1>1, <2>1, HeadTailProperties
    <3> QED BY <1>1, <2>1, <3>1 DEF WireTypeOK
  <2>3. CASE client' = client
    BY <1>1, <1>2, <2>1, <2>2, <2>3 DEF QueryInv, TypeOK, ClientTypeOK
  <2>4. CASE client' = [client EXCEPT ![x] = [c EXCEPT !.debounce = m.req]]
    <3> DEFINE k == [c EXCEPT !.debounce = m.req]
    <3>1. k \in ClientState /\ k.idle = c.idle
      BY <2>1 DEF ClientState, Request
    <3> HIDE DEF k
    <3> QED BY <1>3, <2>1, <2>2, <2>4, <3>1 DEF k
  <2>5. ASSUME NEW t \in Thread, client' = [client EXCEPT ![x] = [c EXCEPT !.threads = @ \cup {t}]]
        PROVE  QueryInv'
    <3> DEFINE k == [c EXCEPT !.threads = @ \cup {t}]
    <3>1. k \in ClientState /\ k.idle = c.idle
      BY <2>1, <2>5 DEF ClientState
    <3> HIDE DEF k
    <3> QED BY <1>3, <2>1, <2>2, <2>5, <3>1 DEF k
  <2> QED BY <2>1, <2>3, <2>4, <2>5
<1>5. CASE Debounced(x)
  <2> DEFINE c == client[x]
  <2>1. /\ c \in ClientState /\ c.debounce # 0 /\ UNCHANGED wireVars
        /\ \E t \in Thread :
              /\ t.req = c.debounce /\ t.input = c.input + 1
              /\ client' = [client EXCEPT ![x] = [c EXCEPT !.debounce = 0, !.input = c.input + 1,
                                                           !.threads = @ \cup {t}]]
    BY <1>1, <1>5, DebouncedIs
  <2>2. PICK t \in Thread :
          client' = [client EXCEPT ![x] = [c EXCEPT !.debounce = 0, !.input = c.input + 1,
                                                    !.threads = @ \cup {t}]]
    BY <2>1
  <2> DEFINE k == [c EXCEPT !.debounce = 0, !.input = c.input + 1, !.threads = @ \cup {t}]
  <2>3. k \in ClientState /\ k.idle = c.idle
    <3>1. c.input \in Nat /\ c.input + 1 \in Nat
      BY <2>1 DEF ClientState
    <3> QED BY <2>1, <3>1 DEF ClientState
  <2>4. WireTypeOK' /\ UNCHANGED toApp
    BY <1>1, <2>1 DEF wireVars, WireTypeOK
  <2> HIDE DEF k
  <2> QED BY <1>3, <2>2, <2>3, <2>4 DEF k
<1>6. CASE Handler(x)
  <2> DEFINE c == client[x]
  <2>1. /\ c \in ClientState /\ UNCHANGED <<status, toExt, toApp>> /\ WireTypeOK'
        /\ \E t \in c.threads :
             \/ client' = [client EXCEPT ![x] = [c EXCEPT !.threads = @ \ {t}]]
             \/ \E r \in Response : \E next \in SUBSET Thread :
                  /\ r.req = t.req /\ r.input = t.input /\ Stamped(x, r)
                  /\ r.type = "query" => "query" \in ActivationReplies
                  /\ Said(t, r)
                  /\ next = {} \/ (Streams(r) /\ next = {[t EXCEPT !.batches = @ + 1]})
                  /\ client' = [client EXCEPT ![x] = [c EXCEPT !.threads = (@ \ {t}) \cup next,
                                                               !.idle = Append(@, r)]]
    BY <1>1, <1>6, HandlerIs
  <2>2. ASSUME NEW t, client' = [client EXCEPT ![x] = [c EXCEPT !.threads = @ \ {t}]]
        PROVE  QueryInv'
    <3> DEFINE k == [c EXCEPT !.threads = @ \ {t}]
    <3>1. k \in ClientState /\ k.idle = c.idle
      BY <2>1 DEF ClientState
    <3> HIDE DEF k
    <3> QED BY <1>3, <2>1, <2>2, <3>1 DEF k
  <2>3. ASSUME NEW t, NEW r \in Response, NEW next \in SUBSET Thread, Stamped(x, r),
               r.type = "query" => "query" \in ActivationReplies,
               client' = [client EXCEPT ![x] = [c EXCEPT !.threads = (@ \ {t}) \cup next, !.idle = Append(@, r)]]
        PROVE  QueryInv'
    <3> DEFINE k == [c EXCEPT !.threads = (@ \ {t}) \cup next, !.idle = Append(@, r)]
    <3>1. c.idle \in Seq(Response) /\ Append(c.idle, r) \in Seq(Response)
      BY <2>1, AppendProperties DEF ClientState
    <3>2. k \in ClientState /\ k.idle = Append(c.idle, r)
      BY <2>1, <3>1 DEF ClientState
    <3>3. Honest(x, k.idle)
      BY <2>3, <3>1, <3>2, HonestKept DEF QueryInv
    <3> HIDE DEF k
    <3>4. ClientTypeOK' /\ client'[x] = k /\ \A y \in Exts \ {x} : client'[y] = client[y]
      BY <1>1, <2>3, <3>2, ClientUpdated DEF k
    <3>5. \A y \in Exts : Honest(y, client'[y].idle)
      BY <3>3, <3>4 DEF QueryInv
    <3> QED BY <1>2, <2>1, <3>4, <3>5 DEF QueryInv, TypeOK
  <2> QED BY <2>1, <2>2, <2>3
<1>7. CASE SendResponse(x)
  <2> DEFINE c == client[x]
             m == Head(c.idle)
  <2>1. /\ c \in ClientState /\ c.idle # <<>> /\ m \in Response /\ UNCHANGED <<status, toExt, used>>
        /\ \E k \in ClientState :
             /\ client' = [client EXCEPT ![x] = k]
             /\ k.idle = Tail(c.idle) /\ k.threads = c.threads
             /\ k.debounce = c.debounce /\ k.input = c.input
        /\ \/ Superseded(x, m.input) /\ toApp' = toApp
           \/ /\ ~Superseded(x, m.input)
              /\ \E r \in Response :
                   /\ toApp' = [toApp EXCEPT ![x] = Append(toApp[x], r)]
                   /\ r.req = m.req /\ r.type = m.type /\ r.final = m.final /\ r.input = m.input
                   /\ Stamped(x, m) => Stamped(x, r)
    BY <1>1, <1>7, SendResponseIs
  <2>2. PICK k \in ClientState : client' = [client EXCEPT ![x] = k] /\ k.idle = Tail(c.idle)
    BY <2>1
  <2>3. ClientTypeOK' /\ client'[x] = k /\ \A y \in Exts \ {x} : client'[y] = client[y]
    BY <1>1, <2>2, ClientUpdated
  <2>4. c.idle \in Seq(Response) /\ Honest(x, c.idle)
    BY <2>1 DEF ClientState, QueryInv
  <2>5. /\ Honest(x, Tail(c.idle)) /\ Stamped(x, m)
        /\ m.type = "query" => "query" \in ActivationReplies
    BY <2>1, <2>4, HonestKept
  <2>6. \A y \in Exts : Honest(y, client'[y].idle)
    BY <2>2, <2>3, <2>5 DEF QueryInv
  <2>7. WireTypeOK' /\ \A y \in Exts : Honest(y, toApp'[y])
    <3>1. CASE toApp' = toApp
      BY <1>1, <2>1, <3>1 DEF WireTypeOK, QueryInv
    <3>2. ASSUME NEW r \in Response, toApp' = [toApp EXCEPT ![x] = Append(toApp[x], r)],
                 r.type = m.type, Stamped(x, m) => Stamped(x, r)
          PROVE  WireTypeOK' /\ \A y \in Exts : Honest(y, toApp'[y])
      <4>1. toApp[x] \in Seq(Response) /\ Append(toApp[x], r) \in Seq(Response)
        BY <1>1, <3>2, AppendProperties
      <4>2. Honest(x, Append(toApp[x], r))
        BY <2>5, <3>2, <4>1, HonestKept DEF QueryInv
      <4>3. toApp' \in [Exts -> Seq(Response)] /\ \A y \in Exts : Honest(y, toApp'[y])
        BY <1>1, <3>2, <4>1, <4>2 DEF QueryInv
      <4> QED BY <1>1, <2>1, <4>3 DEF WireTypeOK
    <3> QED BY <2>1, <3>1, <3>2
  <2> QED BY <1>2, <2>3, <2>6, <2>7 DEF QueryInv, TypeOK
<1> QED BY <1>4, <1>5, <1>6, <1>7 DEF Client

\* A process is gone, with what it had to say.
LEMMA GoneKeeps ==
  ASSUME QueryInv, NEW x \in Exts, NEW now \in {"stopped", "down"}, Gone(x, now),
         used' \in [inputs: Nat, activations: Nat, stops: Nat, failures: Nat]
  PROVE  WireTypeOK' /\ ClientTypeOK' /\ \A y \in Exts : Honest(y, toApp'[y]) /\ Honest(y, client'[y].idle)
<1>1. /\ status \in [Exts -> {"up", "stopped", "down"}] /\ toExt \in [Exts -> Seq(Request)]
      /\ toApp \in [Exts -> Seq(Response)] /\ client \in [Exts -> ClientState] /\ ClientTypeOK
  BY DEF QueryInv, TypeOK, WireTypeOK, ClientTypeOK, ClientState
<1>2. <<>> \in Seq(Request) /\ <<>> \in Seq(Response) /\ <<>> \in Seq(Row) /\ Honest(x, <<>>)
  BY DEF Honest
<1>3. NewClient \in ClientState /\ NewClient.idle = <<>>
  BY <1>2 DEF NewClient, ClientState
<1>4. /\ status' = [status EXCEPT ![x] = now] /\ toExt' = [toExt EXCEPT ![x] = <<>>]
      /\ toApp' = [toApp EXCEPT ![x] = <<>>] /\ client' = [client EXCEPT ![x] = NewClient]
  BY DEF Gone
<1>5. ClientTypeOK' /\ client'[x] = NewClient /\ \A y \in Exts \ {x} : client'[y] = client[y]
  BY <1>1, <1>3, <1>4, ClientUpdated
<1>6. WireTypeOK'
  BY <1>1, <1>2, <1>4 DEF WireTypeOK
<1>7. \A y \in Exts : Honest(y, toApp'[y])
  BY <1>1, <1>2, <1>4 DEF QueryInv
<1>8. \A y \in Exts : Honest(y, client'[y].idle)
  BY <1>2, <1>3, <1>5 DEF QueryInv
<1> QED BY <1>5, <1>6, <1>7, <1>8

\* A step of the extension service.
LEMMA ServiceKeeps ==
  ASSUME QueryInv, Service
  PROVE  QueryInv' /\ Repaints(app, app')
<1>1. /\ TypeOK /\ WireTypeOK /\ ClientTypeOK /\ CoreTypeOK /\ Fresh(app) /\ app \in AppState
      /\ status \in [Exts -> {"up", "stopped", "down"}]
      /\ used \in [inputs: Nat, activations: Nat, stops: Nat, failures: Nat]
  BY AppTyped DEF QueryInv, TypeOK, WireTypeOK
<1>2. ASSUME NEW s \in AppState, app' = s, \A y \in Exts : s.sent[y] = <<>>
      PROVE  CoreTypeOK'
  <2>1. s.sent \in [Exts -> {<<>>}]
    BY <1>2 DEF AppState
  <2> QED BY <1>2, <2>1 DEF CoreTypeOK, AppState
<1>3. ASSUME NEW x \in Exts, StopExtension(x)
      PROVE  QueryInv' /\ app'.shown = app.shown
  <2>1. Uses("stops", MaxStops) /\ Gone(x, "stopped") /\ (app' = [app EXCEPT !.open = 0] \/ app' = app)
    BY <1>3 DEF StopExtension
  <2>2. /\ CoreTypeOK' /\ app'.shown = app.shown /\ app'.buffer = app.buffer /\ app'.mode = app.mode
        /\ app'.active = app.active /\ app'.req = app.req /\ app'.placeholder = app.placeholder
        /\ app'.answered = app.answered
    <3>1. CASE app' = [app EXCEPT !.open = 0]
      BY <1>1, <3>1 DEF CoreTypeOK
    <3>2. CASE app' = app
      BY <1>1, <3>2 DEF CoreTypeOK
    <3> QED BY <2>1, <3>1, <3>2
  <2>3. Fresh(app')
    BY <1>1, <2>2, FreshSame
  <2>4. used' \in [inputs: Nat, activations: Nat, stops: Nat, failures: Nat]
    BY <1>1, <2>1, UsesTyped
  <2> QED BY <2>1, <2>2, <2>3, <2>4, GoneKeeps DEF QueryInv, TypeOK
<1>4. ASSUME NEW x \in Exts, StartExtension(x)
      PROVE  QueryInv' /\ app'.shown = app.shown
  <2>1. /\ status' = [status EXCEPT ![x] = "up"] /\ app' = [app EXCEPT !.reload = @ \/ app.active = x]
        /\ UNCHANGED <<toExt, toApp, used, client>>
    BY <1>4 DEF StartExtension
  <2>2. /\ CoreTypeOK' /\ app'.shown = app.shown /\ app'.buffer = app.buffer /\ app'.mode = app.mode
        /\ app'.active = app.active /\ app'.req = app.req /\ app'.placeholder = app.placeholder
        /\ app'.answered = app.answered
    <3>1. (app.reload \/ app.active = x) \in BOOLEAN
      OBVIOUS
    <3>2. PICK b \in BOOLEAN : app' = [app EXCEPT !.reload = b]
      BY <2>1, <3>1
    <3> QED BY <1>1, <3>2 DEF CoreTypeOK
  <2>3. Fresh(app')
    BY <1>1, <2>2, FreshSame
  <2>4. WireTypeOK'
    BY <1>1, <2>1 DEF WireTypeOK
  <2> QED BY <1>1, <2>1, <2>2, <2>3, <2>4 DEF QueryInv, TypeOK, ClientTypeOK
<1>5. ASSUME NEW x \in Exts, ExtensionFails(x)
      PROVE  QueryInv' /\ Repaints(app, app')
  <2>1. Uses("failures", MaxFailures) /\ Gone(x, "down") /\ app' = Errored(app, x)
    BY <1>5 DEF ExtensionFails
  <2>2. app' \in AppState /\ app'.sent = app.sent
    <3> DEFINE u == [app EXCEPT !.open = 0, !.loading = FALSE, !.pending = FALSE]
               v == [app EXCEPT !.open = 0, !.pending = FALSE]
               t == Errored(app, x)
    <3>1. t \in AppState /\ (t = app \/ t = v \/ t = u \/ Delivery(u, t, <<NoticeRow>>, FALSE, TRUE))
      BY <1>1, ErroredIs
    <3>2. u.sent = app.sent /\ v.sent = app.sent
      BY <1>1 DEF AppState
    <3> HIDE DEF u, v, t
    <3>3. t.sent = app.sent
      BY <3>1, <3>2 DEF Delivery, Rest
    <3> QED BY <2>1, <3>1, <3>3 DEF t
  <2>3. CoreTypeOK'
    BY <1>1, <1>2, <2>2, AppTyped
  <2>4. Fresh(app') /\ Repaints(app, app')
    BY <1>1, <2>1, ErroredFresh
  <2>5. used' \in [inputs: Nat, activations: Nat, stops: Nat, failures: Nat]
    BY <1>1, <2>1, UsesTyped
  <2> QED BY <2>1, <2>3, <2>4, <2>5, GoneKeeps DEF QueryInv, TypeOK
<1>6. ASSUME NEW x \in Exts, LeftStopped(x)
      PROVE  QueryInv' /\ app'.shown = app.shown
  <2>1. /\ Uses("failures", MaxFailures) /\ status' = [status EXCEPT ![x] = "down"]
        /\ UNCHANGED <<toExt, toApp, app, client>>
    BY <1>6 DEF LeftStopped
  <2>2. used' \in [inputs: Nat, activations: Nat, stops: Nat, failures: Nat]
    BY <1>1, <2>1, UsesTyped
  <2>3. WireTypeOK'
    BY <1>1, <2>1, <2>2 DEF WireTypeOK
  <2>4. CoreTypeOK' /\ ClientTypeOK' /\ Fresh(app')
    BY <1>1, <2>1 DEF CoreTypeOK, ClientTypeOK
  <2> QED BY <2>1, <2>3, <2>4 DEF QueryInv, TypeOK
<1> QED BY <1>3, <1>4, <1>5, <1>6 DEF Service, Repaints

LEMMA QueryInvInit == Init => QueryInv
<1> SUFFICES ASSUME Init PROVE QueryInv
  OBVIOUS
<1>1. <<>> \in Seq(Request) /\ <<>> \in Seq(Response) /\ <<>> \in Seq(Row) /\ \A x : Honest(x, <<>>)
  BY DEF Honest
<1>2. WireTypeOK
  BY <1>1 DEF Init, WireInit, WireTypeOK
<1>3. NewClient \in ClientState /\ NewClient.idle = <<>>
  BY <1>1 DEF NewClient, ClientState
<1>4. ClientTypeOK /\ \A x \in Exts : client[x].idle = <<>>
  BY <1>3 DEF Init, ClientInit, ClientTypeOK, ClientState
<1>5. Shown("home", <<>>) \in [kind: {"home", "loading", "rows"}, rows: Seq(Row)]
  BY <1>1 DEF Shown
<1>6. CoreTypeOK
  BY <1>1, <1>5, RowTypes DEF Init, CoreInit, CoreTypeOK, Texts
<1>7. Fresh(app)
  <2>1. app.buffer = NoBuffer /\ ~app.placeholder /\ app.shown = Shown("home", <<>>)
    BY DEF Init, CoreInit
  <2> QED BY <2>1, RowTypes DEF Fresh, Shown
<1>8. \A x \in Exts : toApp[x] = <<>>
  BY DEF Init, WireInit
<1> QED BY <1>1, <1>2, <1>4, <1>6, <1>7, <1>8 DEF QueryInv, TypeOK

\* A step keeps the invariant; and it keeps the list on screen, shows one of the
\* latest request, or "Loading..." when that was due.
LEMMA QueryInvStep ==
  ASSUME QueryInv, [Next]_vars
  PROVE  /\ QueryInv'
         /\ Repaints(app, app') \/ Hides(app, app')
<1>1. CASE UNCHANGED vars
  <2>1. UNCHANGED <<status, toExt, toApp, used, app, client>>
    BY <1>1 DEF vars
  <2> QED BY <2>1 DEF QueryInv, TypeOK, WireTypeOK, CoreTypeOK, ClientTypeOK, Repaints
<1>2. CASE (User \/ MainLoop) /\ UNCHANGED client
  BY <1>2, MainLoopKeeps
<1>3. CASE (\E x \in Exts : Client(x)) /\ UNCHANGED app
  BY <1>3, ClientKeeps DEF Repaints
<1>4. CASE Service
  BY <1>4, ServiceKeeps
<1>5. CASE Finished
  BY <1>1, <1>5 DEF Finished
<1> QED BY <1>1, <1>2, <1>3, <1>4, <1>5 DEF Next

LEMMA QueryInvAlways == Spec => []QueryInv
BY QueryInvInit, QueryInvStep, PTL DEF Spec

\* The state has its type: no interleaving of edits, answers, restarts and
\* failures leaves the app or an extension in a state the code has no case for.
THEOREM QueryTypes == Spec => []TypeOK
<1>1. QueryInv => TypeOK
  BY DEF QueryInv
<1> QED BY <1>1, QueryInvAlways, PTL

\* Once a query was answered, "Loading..." does not come up for it again: neither the
\* placeholder timer nor a restart, a failure or an activation brings it back, for
\* any extensions and bounds (set_query, _show_placeholder, handle_query).
THEOREM NoLateLoading == Spec => AnswerStays
<1>1. ASSUME QueryInv, [Next]_vars
      PROVE  [app'.shown.kind = "loading" /\ app'.shown # app.shown => ~app.answered]_vars
  <2>1. Repaints(app, app') \/ Hides(app, app')
    BY <1>1, QueryInvStep
  <2>2. app.placeholder => ~app.answered
    BY <1>1 DEF QueryInv, Fresh
  <2> QED BY <2>1, <2>2 DEF Repaints, Hides
<1> QED BY <1>1, QueryInvAlways, PTL DEF Spec, AnswerStays

(***************************************************************************)
(* The rows of the query's own extension                                   *)
(***************************************************************************)

\* No extension fails while another is asked: ExtensionMode keeps the extension
\* that it asked last when the next one turns out to be unavailable.
Alone == MaxFailures = 0 \/ \A x, y \in Exts : x = y

\* In extension mode the query has the keyword of an extension, and that one
\* was asked last, or is not available.
Routed(s) ==
  s.mode = "extension" =>
    s.text \in Exts /\ (s.active \in {s.text, NoExt} \/ \E x \in Exts : status[x] = "down" /\ x # s.active)

RoutedInv ==
  /\ app.mode = "extension" => app.text \in Exts /\ (Alone => app.active \in {app.text, NoExt})
  /\ MaxFailures = 0 => \A x \in Exts : status[x] # "down"

SameRoute(s, t) == t.mode = s.mode /\ t.text = s.text /\ t.active = s.active

LEMMA QueryRouted ==
  ASSUME NEW s \in AppState, NEW t \in AppState, NEW text \in Texts, NEW final \in BOOLEAN,
         QueryOutcome(s, t, text, final)
  PROVE  Routed(t)
<1> DEFINE b == Blank(s, text)
           e == [b EXCEPT !.mode = "extension"]
<1>1. b \in AppState /\ e \in AppState /\ b.text = text /\ e.text = text /\ e.mode = "extension"
  BY BlankIs
<1> HIDE DEF b
<1>2. CASE t = [b EXCEPT !.mode = "none", !.shown = Shown("home", <<>>)]
  BY <1>1, <1>2 DEF Routed, AppState
<1>3. CASE Delivery([b EXCEPT !.mode = "launcher"], t, <<LocalRow>>, FALSE, final)
  <2>1. t.mode = "launcher"
    BY <1>1, <1>3 DEF Delivery, Rest, AppState
  <2> QED BY <2>1 DEF Routed
<1>4. CASE text \in Exts /\ status[text] = "down" /\ Delivery([e EXCEPT !.loading = FALSE], t, <<NoticeRow>>, FALSE, TRUE)
  <2>1. t.text = text
    BY <1>1, <1>4 DEF Delivery, Rest, AppState
  <2> QED BY <1>4, <2>1 DEF Routed
<1>5. CASE text \in Exts /\ t = [e EXCEPT !.active = text, !.pending = TRUE, !.loading = TRUE]
  <2>1. t.text = text /\ t.active = text
    BY <1>1, <1>5 DEF AppState
  <2> QED BY <1>5, <2>1 DEF Routed
<1>6. CASE text \in Exts
           /\ t = [e EXCEPT !.loading = FALSE, !.active = text,
                            !.req = s.req + 1, !.pending = TRUE, !.want = <<>>, !.open = s.req + 1,
                            !.sent = [s.sent EXCEPT ![text] = Append(@, InputRequest(s.req + 1))]]
  <2>1. t.text = text /\ t.active = text
    BY <1>1, <1>6 DEF AppState
  <2> QED BY <1>6, <2>1 DEF Routed
<1> QED BY <1>2, <1>3, <1>4, <1>5, <1>6 DEF QueryOutcome, b

LEMMA ResponseRouted ==
  ASSUME WireTypeOK, NEW s \in AppState, NEW x \in Exts, NEW m \in Response, NEW final \in BOOLEAN
  PROVE  SameRoute(s, ResponseHandled(s, x, m, final)) \/ Routed(ResponseHandled(s, x, m, final))
<1> DEFINE t == ResponseHandled(s, x, m, final)
           c == Closing(s, m)
<1>1. CASE t = s
  BY <1>1 DEF SameRoute
<1>2. ASSUME NEW u \in AppState, EffectOutcome(c, u, m, final),
             t = IF Streams(m) THEN u ELSE [u EXCEPT !.pending = FALSE]
      PROVE  SameRoute(s, t) \/ Routed(t)
  <2>1. c \in AppState /\ SameRoute(s, c)
    BY DEF Closing, AppState, SameRoute
  <2>2. SameRoute(u, t)
    BY <1>2 DEF AppState, SameRoute
  <2> HIDE DEF c, t
  <2>3. SameRoute(c, u) \/ Routed(u)
    <3>1. CASE u = c
      BY <3>1 DEF SameRoute
    <3>2. CASE Delivery(c, u, m.rows, m.append, m.final)
      BY <3>2 DEF Delivery, Rest, SameRoute
    <3>3. CASE u = [c EXCEPT !.placeholder = FALSE, !.answered = TRUE]
      BY <2>1, <3>3 DEF AppState, SameRoute
    <3>4. CASE QueryOutcome([c EXCEPT !.placeholder = FALSE], u, m.query, final)
      <4> DEFINE d == [c EXCEPT !.placeholder = FALSE]
      <4>1. d \in AppState /\ m.query \in Texts
        BY <2>1 DEF AppState, Response
      <4>2. QueryOutcome(d, u, m.query, final)
        BY <3>4
      <4> HIDE DEF d
      <4> QED BY <4>1, <4>2, QueryRouted
    <3> QED BY <1>2, <3>1, <3>2, <3>3, <3>4 DEF EffectOutcome, c
  <2> QED BY <2>1, <2>2, <2>3 DEF SameRoute, Routed, t
<1> QED BY <1>1, <1>2, ResponseHandledIs

\* Only a new query changes the mode, the text or the extension that is asked.
LEMMA MainStepRouted ==
  ASSUME QueryInv, NEW s \in AppState, MainStep(s)
  PROVE  SameRoute(app, s) \/ Routed(s)
<1>1. app \in AppState /\ WireTypeOK
  BY AppTyped DEF QueryInv, TypeOK
<1>2. ASSUME NEW text \in Texts, Asks(s, text)
      PROVE  Routed(s)
  BY <1>1, <1>2, QueryRouted DEF Asks
<1>3. ASSUME Activates(s)
      PROVE  SameRoute(app, s)
  <2> DEFINE b == [app EXCEPT !.buffer = NoBuffer]
  <2>1. b \in AppState /\ SameRoute(app, b)
    BY <1>1, RowTypes DEF AppState, SameRoute
  <2>2. ASSUME NEW m \in Request, s = Sent(b, m)
        PROVE  SameRoute(app, s)
    <3> HIDE DEF b
    <3>1. SameRoute(b, s)
      <4> DEFINE u == [b EXCEPT !.req = b.req + 1, !.pending = TRUE, !.want = <<>>, !.open = b.req + 1,
                       !.sent = [b.sent EXCEPT ![b.active] = Append(@, [m EXCEPT !.req = b.req + 1])]]
      <4>1. s = b \/ s = u
        BY <2>1, <2>2, SentIs
      <4>2. SameRoute(b, u)
        BY <2>1 DEF AppState, SameRoute
      <4> QED BY <4>1, <4>2 DEF SameRoute
    <3> QED BY <2>1, <3>1 DEF SameRoute
  <2>3. CASE s = [b EXCEPT !.placeholder = FALSE]
    BY <2>1, <2>3 DEF AppState, SameRoute
  <2> QED BY <1>3, <2>1, <2>2, <2>3 DEF Activates
<1>4. ASSUME NEW x \in Exts, Receives(s, x)
      PROVE  SameRoute(app, s) \/ Routed(s)
  <2>1. toApp[x] # <<>> /\ toApp[x] \in Seq(Response)
    BY <1>1, <1>4 DEF Receives, WireTypeOK
  <2>2. Head(toApp[x]) \in Response
    BY <2>1, HeadTailProperties
  <2> QED BY <1>1, <1>4, <2>2, ResponseRouted DEF Receives
<1>5. ASSUME Waited(s)
      PROVE  SameRoute(app, s)
  BY <1>1, <1>5 DEF Waited, AppState, SameRoute
<1>6. ASSUME s = Painted(app)
      PROVE  SameRoute(app, s)
  BY <1>1, <1>6, PaintedIs DEF Rest, SameRoute
<1>7. ASSUME s = LoadingFinished(app, <<>>)
      PROVE  SameRoute(app, s)
  <2> DEFINE u == [app EXCEPT !.loading = FALSE, !.pending = FALSE]
  <2>1. u \in AppState /\ SameRoute(app, u)
    BY <1>1 DEF AppState, SameRoute
  <2>2. s = u \/ Delivery(u, s, <<>>, FALSE, TRUE)
    BY <1>1, <1>7, LoadingFinishedIs, RowTypes
  <2> HIDE DEF u
  <2> QED BY <2>1, <2>2 DEF Delivery, Rest, SameRoute
<1>8. ASSUME AsksAgain(s)
      PROVE  Routed(s)
  <2> DEFINE b == [app EXCEPT !.reload = FALSE]
  <2>1. b \in AppState /\ app.text \in Texts
    BY <1>1 DEF AppState
  <2>2. \E final \in BOOLEAN : QueryOutcome(b, s, app.text, final)
    BY <1>8 DEF AsksAgain
  <2> HIDE DEF b
  <2> QED BY <2>1, <2>2, QueryRouted
<1> QED BY <1>2, <1>3, <1>4, <1>5, <1>6, <1>7, <1>8 DEF MainStep

LEMMA RoutedInvStep ==
  ASSUME QueryInv, RoutedInv, [Next]_vars
  PROVE  RoutedInv'
<1>1. app \in AppState /\ WireTypeOK /\ status \in [Exts -> {"up", "stopped", "down"}]
      /\ used \in [inputs: Nat, activations: Nat, stops: Nat, failures: Nat] /\ MaxFailures \in Nat
  BY AppTyped, LimitsAssumption DEF QueryInv, TypeOK, WireTypeOK
<1>2. ASSUME SameRoute(app, app'), \A x \in Exts : MaxFailures = 0 => status'[x] # "down"
      PROVE  RoutedInv'
  BY <1>2 DEF RoutedInv, SameRoute
<1>3. CASE (User \/ MainLoop) /\ UNCHANGED client
  <2>1. PICK s \in AppState : App(s) /\ MainStep(s)
    BY <1>3, MainLoopIs DEF QueryInv
  <2>2. UNCHANGED status /\ SameRoute(s, app') /\ s.active \in Exts \cup {NoExt} /\ s.text = app'.text
    <3>1. UNCHANGED status
      BY <1>3, MainLoopIs DEF QueryInv
    <3>2. app'.mode = s.mode /\ app'.text = s.text /\ app'.active = s.active
      BY <1>1, <2>1, AppIs
    <3> QED BY <3>1, <3>2 DEF SameRoute, AppState
  <2>3. CASE SameRoute(app, s)
    BY <1>2, <2>2, <2>3 DEF RoutedInv, SameRoute
  <2>4. CASE Routed(s)
    <3>1. ASSUME s.mode = "extension", Alone
          PROVE  s.active \in {s.text, NoExt}
      <4>1. s.text \in Exts
        BY <2>4, <3>1 DEF Routed
      <4>2. CASE MaxFailures = 0
        BY <2>4, <3>1, <4>2 DEF Routed, RoutedInv
      <4>3. CASE \A x, y \in Exts : x = y
        BY <2>2, <4>1, <4>3
      <4> QED BY <3>1, <4>2, <4>3 DEF Alone
    <3>2. s.mode = "extension" => s.text \in Exts
      BY <2>4 DEF Routed
    <3> QED BY <2>2, <3>1, <3>2 DEF RoutedInv, SameRoute
  <2> QED BY <2>1, <2>3, <2>4, MainStepRouted
<1>4. CASE (\E x \in Exts : Client(x)) /\ UNCHANGED app
  <2>1. UNCHANGED status
    BY <1>4, OnMessageIs, DebouncedIs, HandlerIs, SendResponseIs DEF Client, QueryInv, wireVars
  <2> QED BY <1>2, <1>4, <2>1 DEF RoutedInv, SameRoute
<1>5. ASSUME NEW x \in Exts, StopExtension(x)
      PROVE  RoutedInv'
  <2>1. SameRoute(app, app') /\ status' = [status EXCEPT ![x] = "stopped"]
    BY <1>1, <1>5 DEF StopExtension, Gone, SameRoute, AppState
  <2> QED BY <1>1, <1>2, <2>1 DEF RoutedInv
<1>6. ASSUME NEW x \in Exts, StartExtension(x)
      PROVE  RoutedInv'
  <2>1. status' = [status EXCEPT ![x] = "up"] /\ \E b : app' = [app EXCEPT !.reload = b]
    BY <1>6 DEF StartExtension
  <2>2. SameRoute(app, app')
    BY <1>1, <2>1 DEF SameRoute, AppState
  <2> QED BY <1>1, <1>2, <2>1, <2>2 DEF RoutedInv
<1>7. ASSUME NEW x \in Exts, ExtensionFails(x)
      PROVE  RoutedInv'
  <2>1. MaxFailures # 0
    BY <1>1, <1>7 DEF ExtensionFails, Uses
  <2>2. SameRoute(app, app')
    <3> DEFINE u == [app EXCEPT !.open = 0, !.loading = FALSE, !.pending = FALSE]
               v == [app EXCEPT !.open = 0, !.pending = FALSE]
               t == Errored(app, x)
    <3>1. t \in AppState /\ (t = app \/ t = v \/ t = u \/ Delivery(u, t, <<NoticeRow>>, FALSE, TRUE))
      BY <1>1, ErroredIs
    <3>2. SameRoute(app, u) /\ SameRoute(app, v)
      BY <1>1 DEF AppState, SameRoute
    <3>3. app' = t
      BY <1>7 DEF ExtensionFails
    <3> HIDE DEF u, v, t
    <3> QED BY <3>1, <3>2, <3>3 DEF Delivery, Rest, SameRoute
  <2> QED BY <1>2, <2>1, <2>2
<1>8. ASSUME NEW x \in Exts, LeftStopped(x)
      PROVE  RoutedInv'
  <2>1. MaxFailures # 0 /\ app' = app
    BY <1>1, <1>8 DEF LeftStopped, Uses
  <2> QED BY <1>2, <2>1 DEF SameRoute
<1>9. CASE UNCHANGED vars
  BY <1>9 DEF vars, RoutedInv
<1> QED BY <1>3, <1>4, <1>5, <1>6, <1>7, <1>8, <1>9 DEF Next, Service, Finished

LEMMA RoutedInvAlways == Spec => []RoutedInv
<1>1. Init => RoutedInv
  BY DEF Init, CoreInit, WireInit, RoutedInv
<1> QED BY <1>1, RoutedInvStep, QueryInvAlways, PTL DEF Spec

\* What is of the latest request is of the query in the input field.
LEMMA OfQuery ==
  ASSUME RoutedInv, Alone, NEW rows, OfRequest(rows, app)
  PROVE  \A r \in FromExtensions(rows) : r.ext = app.text /\ r.req = app.req
BY TextsAssumption DEF RoutedInv, OfRequest, FromExtensions

\* What waits to be painted answers the query in the input field, with any
\* number of extensions of which none fails, and with one that may: whatever a
\* handler still says about a query that was edited, restarted or replaced since.
THEOREM BufferedIsLatest == ASSUME Alone PROVE Spec => []BufferLatest
<1>1. QueryInv /\ RoutedInv => BufferLatest
  BY OfQuery DEF QueryInv, Fresh, BufferLatest
<1> QED BY <1>1, QueryInvAlways, RoutedInvAlways, PTL

\* Nothing else is painted either.
THEOREM PaintedIsLatest == ASSUME Alone PROVE Spec => PaintsLatest
<1>1. ASSUME QueryInv, RoutedInv, RoutedInv', [Next]_vars
      PROVE  [app'.shown # app.shown =>
                \A r \in FromExtensions(app'.shown.rows) : r.ext = app'.text /\ r.req = app'.req]_vars
  <2>1. Repaints(app, app') \/ Hides(app, app')
    BY <1>1, QueryInvStep
  <2>2. ASSUME OfRequest(app'.shown.rows, app')
        PROVE  \A r \in FromExtensions(app'.shown.rows) : r.ext = app'.text /\ r.req = app'.req
    BY <1>1, <2>2, TextsAssumption DEF RoutedInv, OfRequest, FromExtensions
  <2>3. Hides(app, app') => OfRequest(app'.shown.rows, app')
    BY DEF Hides, Shown, OfRequest
  <2> QED BY <2>1, <2>2, <2>3 DEF Repaints
<1> QED BY <1>1, QueryInvAlways, RoutedInvAlways, PTL DEF Spec, PaintsLatest

(***************************************************************************)
(* The request that is open can be answered                                *)
(***************************************************************************)

\* The wait for a stopped extension cannot end the one for an answer: when it
\* runs while a request is open, the query is about to be sent again.
Waits(s) ==
  /\ s.open # 0 => s.mode = "extension" /\ s.req = s.open /\ (s.pending \/ s.reload)
  /\ s.open # 0 /\ s.loading => s.reload
  /\ s.loading /\ s.mode = "extension" /\ s.active \in Exts => s.reload \/ status[s.active] # "up"

LEMMA WaitsSame ==
  ASSUME NEW s, NEW t, Waits(s), t.mode = s.mode, t.active = s.active, t.pending = s.pending,
         t.loading = s.loading, t.req = s.req, t.reload = s.reload, t.open = s.open
  PROVE  Waits(t)
BY DEF Waits

LEMMA QueryWaits ==
  ASSUME NEW s \in AppState, NEW t \in AppState, NEW text \in Texts, NEW final \in BOOLEAN,
         QueryOutcome(s, t, text, final)
  PROVE  Waits(t)
<1> DEFINE b == Blank(s, text)
           e == [b EXCEPT !.mode = "extension"]
<1>1. b \in AppState /\ e \in AppState /\ e.mode = "extension" /\ b.open = 0 /\ e.open = 0
      /\ b.req = s.req /\ s.req + 1 \in Nat /\ s.req + 1 # 0
  <2>1. s.req + 1 \in Nat /\ s.req + 1 # 0
    BY DEF AppState
  <2>2. b \in AppState /\ e \in AppState /\ e.mode = "extension" /\ b.open = 0 /\ e.open = 0 /\ b.req = s.req
    BY BlankIs
  <2> QED BY <2>1, <2>2
<1> HIDE DEF b
<1>2. CASE t = [b EXCEPT !.mode = "none", !.shown = Shown("home", <<>>)]
  <2>1. t.mode = "none" /\ t.open = 0
    BY <1>1, <1>2 DEF AppState
  <2> QED BY <2>1 DEF Waits
<1>3. CASE Delivery([b EXCEPT !.mode = "launcher"], t, <<LocalRow>>, FALSE, final)
  <2>1. t.mode = "launcher" /\ t.open = 0
    BY <1>1, <1>3 DEF Delivery, Rest, AppState
  <2> QED BY <2>1 DEF Waits
<1>4. CASE Delivery([e EXCEPT !.loading = FALSE], t, <<NoticeRow>>, FALSE, TRUE)
  <2>1. t.open = 0 /\ ~t.loading
    BY <1>1, <1>4 DEF Delivery, Rest, AppState
  <2> QED BY <2>1 DEF Waits
<1>5. CASE status[text] = "stopped" /\ t = [e EXCEPT !.active = text, !.pending = TRUE, !.loading = TRUE]
  <2>1. t.open = 0 /\ t.active = text
    BY <1>1, <1>5 DEF AppState
  <2> QED BY <1>5, <2>1 DEF Waits
<1>6. CASE t = [e EXCEPT !.loading = FALSE, !.active = text,
                         !.req = s.req + 1, !.pending = TRUE, !.want = <<>>, !.open = s.req + 1,
                         !.sent = [s.sent EXCEPT ![text] = Append(@, InputRequest(s.req + 1))]]
  <2>1. t.open = s.req + 1 /\ t.req = s.req + 1 /\ t.pending /\ ~t.loading /\ t.mode = "extension"
    BY <1>1, <1>6 DEF AppState
  <2> QED BY <2>1 DEF Waits
<1> QED BY <1>2, <1>3, <1>4, <1>5, <1>6 DEF QueryOutcome, b

\* A response that is not the last one leaves the callback to the next.
LEMMA ResponseWaits ==
  ASSUME WireTypeOK, NEW s \in AppState, NEW x \in Exts, NEW m \in Response, NEW final \in BOOLEAN,
         Waits(s), m.type # "query"
  PROVE  Waits(ResponseHandled(s, x, m, final))
<1> DEFINE t == ResponseHandled(s, x, m, final)
           c == Closing(s, m)
<1>1. CASE t = s
  BY <1>1
<1>2. ASSUME Answers(s, x, m), NEW u \in AppState, EffectOutcome(c, u, m, final),
             t = IF Streams(m) THEN u ELSE [u EXCEPT !.pending = FALSE]
      PROVE  Waits(t)
  <2>1. /\ c \in AppState /\ c.mode = s.mode /\ c.active = s.active /\ c.pending = s.pending
        /\ c.loading = s.loading /\ c.req = s.req /\ c.reload = s.reload
        /\ c.open = IF s.open = m.req /\ (m.type = "render" => m.final) THEN 0 ELSE s.open
    BY DEF Closing, AppState
  <2>2. /\ t.mode = u.mode /\ t.active = u.active /\ t.loading = u.loading /\ t.req = u.req
        /\ t.reload = u.reload /\ t.open = u.open /\ (Streams(m) => t.pending = u.pending)
    BY ZenonT(40), <1>2 DEF AppState
  <2> HIDE DEF c, t
  <2>3. /\ u.mode = c.mode /\ u.active = c.active /\ u.pending = c.pending /\ u.loading = c.loading
        /\ u.req = c.req /\ u.reload = c.reload /\ u.open = c.open
    <3>1. CASE u = c
      BY <3>1
    <3>2. CASE Delivery(c, u, m.rows, m.append, m.final)
      BY <3>2 DEF Delivery, Rest
    <3>3. CASE u = [c EXCEPT !.placeholder = FALSE, !.answered = TRUE]
      BY <2>1, <3>3 DEF AppState
    <3> QED BY <1>2, <3>1, <3>2, <3>3 DEF EffectOutcome, c
  <2>4. CASE Streams(m)
    BY <2>1, <2>2, <2>3, <2>4 DEF Waits, Streams
  <2>5. CASE ~Streams(m)
    <3>1. s.open = 0 \/ s.open = m.req
      BY <1>2 DEF Waits, Answers
    <3>2. t.open = 0
      BY <2>1, <2>2, <2>3, <2>5, <3>1 DEF Streams
    <3>3. /\ t.mode = s.mode /\ t.active = s.active /\ t.loading = s.loading /\ t.reload = s.reload
      BY <2>1, <2>2, <2>3
    <3> QED BY <3>2, <3>3 DEF Waits
  <2> QED BY <2>4, <2>5 DEF t
<1> QED BY <1>1, <1>2, ResponseHandledIs

LEMMA MainStepWaits ==
  ASSUME QueryInv, NEW s \in AppState, MainStep(s), Waits(app), "query" \notin ActivationReplies
  PROVE  Waits(s)
<1>1. app \in AppState /\ WireTypeOK
  BY AppTyped DEF QueryInv, TypeOK
<1>2. ASSUME NEW text \in Texts, Asks(s, text)
      PROVE  Waits(s)
  BY <1>1, <1>2, QueryWaits DEF Asks
<1>3. ASSUME Activates(s)
      PROVE  Waits(s)
  <2> DEFINE b == [app EXCEPT !.buffer = NoBuffer]
  <2>1. /\ b \in AppState /\ b.mode = app.mode /\ b.active = app.active /\ b.pending = app.pending
        /\ b.loading = app.loading /\ b.req = app.req /\ b.reload = app.reload /\ b.open = app.open
    BY <1>1, RowTypes DEF AppState
  <2>2. Waits(b)
    BY <2>1, WaitsSame
  <2>3. ASSUME app.mode = "extension", NEW m \in Request, s = Sent(b, m)
        PROVE  Waits(s)
    <3> HIDE DEF b
    <3> DEFINE u == [b EXCEPT !.req = b.req + 1, !.pending = TRUE, !.want = <<>>, !.open = b.req + 1,
                     !.sent = [b.sent EXCEPT ![b.active] = Append(@, [m EXCEPT !.req = b.req + 1])]]
    <3>1. s = b \/ (b.active \in Exts /\ status[b.active] = "up" /\ s = u)
      BY <2>1, <2>3, SentIs
    <3>2. /\ u.mode = b.mode /\ u.active = b.active /\ u.pending /\ u.loading = b.loading
          /\ u.req = b.req + 1 /\ u.reload = b.reload /\ u.open = b.req + 1
      BY <2>1 DEF AppState
    <3> HIDE DEF u
    <3> QED BY <2>1, <2>2, <2>3, <3>1, <3>2 DEF Waits
  <2>4. CASE s = [b EXCEPT !.placeholder = FALSE]
    <3>1. /\ s.mode = b.mode /\ s.active = b.active /\ s.pending = b.pending
          /\ s.loading = b.loading /\ s.req = b.req /\ s.reload = b.reload /\ s.open = b.open
      BY <2>1, <2>4 DEF AppState
    <3> QED BY <2>2, <3>1, WaitsSame
  <2> QED BY <1>3, <2>2, <2>3, <2>4 DEF Activates
<1>4. ASSUME NEW x \in Exts, Receives(s, x)
      PROVE  Waits(s)
  <2>1. toApp[x] # <<>> /\ toApp[x] \in Seq(Response) /\ Honest(x, toApp[x])
    BY <1>1, <1>4 DEF Receives, WireTypeOK, QueryInv
  <2>2. Head(toApp[x]) \in Response /\ Head(toApp[x]).type # "query"
    BY <2>1, HeadTailProperties, HonestKept
  <2> QED BY <1>1, <1>4, <2>2, ResponseWaits DEF Receives
<1>5. ASSUME Waited(s)
      PROVE  Waits(s)
  <2>1. /\ s.mode = app.mode /\ s.active = app.active /\ s.pending = app.pending
        /\ s.loading = app.loading /\ s.req = app.req /\ s.reload = app.reload /\ s.open = app.open
    BY <1>1, <1>5 DEF Waited, AppState
  <2> QED BY <2>1, WaitsSame
<1>6. ASSUME s = Painted(app)
      PROVE  Waits(s)
  <2>1. Rest(s) = Rest(app)
    BY <1>1, <1>6, PaintedIs
  <2> QED BY <2>1, WaitsSame DEF Rest
<1>7. ASSUME app.loading, s = LoadingFinished(app, <<>>)
      PROVE  Waits(s)
  <2> DEFINE u == [app EXCEPT !.loading = FALSE, !.pending = FALSE]
  <2>1. /\ u \in AppState /\ u.mode = app.mode /\ ~u.loading /\ u.req = app.req /\ u.reload = app.reload
        /\ u.open = app.open
    BY <1>1 DEF AppState
  <2>2. s = u \/ Delivery(u, s, <<>>, FALSE, TRUE)
    BY <1>1, <1>7, LoadingFinishedIs, RowTypes
  <2> HIDE DEF u
  <2>3. Waits(u)
    BY <1>7, <2>1 DEF Waits
  <2>4. s = u \/ Rest(s) = Rest(u)
    BY <2>2 DEF Delivery
  <2> QED BY <2>3, <2>4, WaitsSame DEF Rest
<1>8. ASSUME AsksAgain(s)
      PROVE  Waits(s)
  <2> DEFINE b == [app EXCEPT !.reload = FALSE]
  <2>1. b \in AppState /\ app.text \in Texts
    BY <1>1 DEF AppState
  <2>2. \E final \in BOOLEAN : QueryOutcome(b, s, app.text, final)
    BY <1>8 DEF AsksAgain
  <2> HIDE DEF b
  <2> QED BY <2>1, <2>2, QueryWaits
<1> QED BY <1>2, <1>3, <1>4, <1>5, <1>6, <1>7, <1>8 DEF MainStep

LEMMA WaitsStep ==
  ASSUME QueryInv, Waits(app), "query" \notin ActivationReplies, [Next]_vars
  PROVE  Waits(app)'
<1>1. app \in AppState /\ WireTypeOK /\ status \in [Exts -> {"up", "stopped", "down"}]
  BY AppTyped DEF QueryInv, TypeOK, WireTypeOK
<1>2. CASE (User \/ MainLoop) /\ UNCHANGED client
  <2>1. PICK s \in AppState : App(s) /\ MainStep(s)
    BY <1>2, MainLoopIs DEF QueryInv
  <2>2. UNCHANGED status /\ Waits(s)
    BY <1>2, <2>1, MainLoopIs, MainStepWaits DEF QueryInv
  <2>3. /\ app'.mode = s.mode /\ app'.active = s.active /\ app'.pending = s.pending
        /\ app'.loading = s.loading /\ app'.req = s.req /\ app'.reload = s.reload /\ app'.open = s.open
    BY <1>1, <2>1, AppIs
  <2> QED BY <2>2, <2>3 DEF Waits
<1>3. CASE (\E x \in Exts : Client(x)) /\ UNCHANGED app
  <2>1. UNCHANGED status
    BY <1>3, OnMessageIs, DebouncedIs, HandlerIs, SendResponseIs DEF Client, QueryInv, wireVars
  <2> QED BY <1>3, <2>1 DEF Waits
<1>4. ASSUME NEW x \in Exts, StopExtension(x)
      PROVE  Waits(app)'
  <2>1. status' = [status EXCEPT ![x] = "stopped"] /\ app' = IF app.active = x THEN [app EXCEPT !.open = 0] ELSE app
    BY <1>4 DEF StopExtension, Gone
  <2>2. CASE app.active = x
    <3>1. app'.open = 0 /\ app'.active = x
      BY <1>1, <2>1, <2>2 DEF AppState
    <3> QED BY <1>1, <2>1, <3>1 DEF Waits
  <2>3. CASE app.active # x
    BY <1>1, <2>1, <2>3 DEF Waits
  <2> QED BY <2>2, <2>3
<1>5. ASSUME NEW x \in Exts, StartExtension(x)
      PROVE  Waits(app)'
  <2> DEFINE b == app.reload \/ app.active = x
  <2>1. status' = [status EXCEPT ![x] = "up"] /\ app' = [app EXCEPT !.reload = b]
    BY <1>5 DEF StartExtension
  <2>2. b \in BOOLEAN /\ (app.reload => b) /\ (app.active = x => b)
    OBVIOUS
  <2> HIDE DEF b
  <2>3. /\ app'.mode = app.mode /\ app'.active = app.active /\ app'.pending = app.pending
        /\ app'.loading = app.loading /\ app'.req = app.req /\ app'.open = app.open /\ app'.reload = b
    BY <1>1, <2>1 DEF AppState
  <2>4. app.active \in Exts /\ app.active # x => status'[app.active] = status[app.active]
    BY <1>1, <2>1
  <2> QED BY <2>2, <2>3, <2>4 DEF Waits
<1>6. ASSUME NEW x \in Exts, ExtensionFails(x)
      PROVE  Waits(app)'
  <2> DEFINE u == [app EXCEPT !.open = 0, !.loading = FALSE, !.pending = FALSE]
             v == [app EXCEPT !.open = 0, !.pending = FALSE]
             t == Errored(app, x)
  <2>1. status' = [status EXCEPT ![x] = "down"] /\ app' = t
    BY <1>6 DEF ExtensionFails, Gone
  <2>2. t = app \/ (~app.loading /\ t = v) \/ t = u \/ Delivery(u, t, <<NoticeRow>>, FALSE, TRUE)
    BY <1>1, ErroredIs
  <2>3. u.open = 0 /\ ~u.loading /\ v.open = 0 /\ v.loading = app.loading
    BY <1>1 DEF AppState
  <2> HIDE DEF u, v, t
  <2>4. t = app \/ (t.open = 0 /\ ~t.loading)
    BY <2>2, <2>3 DEF Delivery, Rest
  <2>5. CASE t = app
    BY <1>1, <2>1, <2>5 DEF Waits
  <2>6. CASE t.open = 0 /\ ~t.loading
    BY <2>1, <2>6 DEF Waits
  <2> QED BY <2>4, <2>5, <2>6
<1>7. ASSUME NEW x \in Exts, LeftStopped(x)
      PROVE  Waits(app)'
  <2>1. status' = [status EXCEPT ![x] = "down"] /\ app' = app
    BY <1>7 DEF LeftStopped
  <2> QED BY <1>1, <2>1 DEF Waits
<1>8. CASE UNCHANGED vars
  BY <1>8 DEF vars, Waits
<1> QED BY <1>2, <1>3, <1>4, <1>5, <1>6, <1>7, <1>8 DEF Next, Service, Finished

\* ExtensionMode never stops waiting for the answer to its latest request, if no
\* action sets a query: not for a timer of an earlier wait, a late answer, a
\* restart, or an activation while an input is still answered.
THEOREM OpenRequestKept == ASSUME "query" \notin ActivationReplies PROVE Spec => []RequestKept
<1>1. Init => Waits(app)
  BY DEF Init, CoreInit, Waits
<1>2. Waits(app) => RequestKept
  BY DEF Waits, RequestKept
<1> QED BY <1>1, <1>2, WaitsStep, QueryInvAlways, PTL DEF Spec

(***************************************************************************)
(* The list on screen and in the buffer is what the handler built          *)
(***************************************************************************)

\* The list that the user sees, once what is buffered is painted.
Displayed(s) ==
  IF ~s.buffer.held THEN s.shown.rows
  ELSE (IF Extends(s.buffer) THEN s.shown.rows ELSE <<>>) \o s.buffer.rows

\* Before the first batch, nothing is wanted, whatever is still on screen.
Faithful(s) ==
  s.mode = "extension" => s.want = IF s.buffer.held \/ s.buffer.painted THEN Displayed(s) ELSE <<>>

LEMMA FaithfulSame ==
  ASSUME NEW s, NEW t, Faithful(s), t.mode = s.mode, t.want = s.want, t.buffer = s.buffer, t.shown = s.shown
  PROVE  Faithful(t)
BY DEF Faithful, Displayed

LEMMA Concats ==
  ASSUME NEW a \in Seq(Row), NEW b \in Seq(Row), NEW c \in Seq(Row)
  PROVE  (a \o b) \o c = a \o (b \o c) /\ <<>> \o a = a
BY ConcatAssociative, ConcatEmptySeq

LEMMA DeliveryFaithful ==
  ASSUME NEW s \in AppState, NEW t, NEW rows \in Seq(Row), NEW append \in BOOLEAN, NEW final \in BOOLEAN,
         Delivery(s, t, rows, append, final), Faithful(s)
  PROVE  Faithful(t)
<1> SUFFICES ASSUME s.mode = "extension" PROVE Faithful(t)
  BY DEF Delivery, Rest, Faithful
<1> DEFINE b == Buffered(s.buffer, rows, append)
           old == IF Extends(b) THEN s.shown.rows ELSE <<>>
<1>1. /\ s.buffer \in Buffer(Row) /\ s.buffer.rows \in Seq(Row) /\ s.shown.rows \in Seq(Row)
      /\ s.buffer.held \in BOOLEAN /\ s.buffer.painted \in BOOLEAN /\ s.buffer.appending \in BOOLEAN
      /\ <<>> \in Seq(Row)
  BY DEF AppState, Buffer
<1>2. /\ b \in Buffer(Row) /\ b.rows \in Seq(Row) /\ b.painted = s.buffer.painted /\ b.held
      /\ b.rows = IF append /\ s.buffer.held THEN s.buffer.rows \o rows ELSE rows
      /\ b.appending = IF append /\ s.buffer.held THEN s.buffer.appending ELSE append
  BY <1>1, BufferTypes DEF Buffer
<1>3. /\ t.mode = "extension" /\ t.want = IF append THEN s.want \o rows ELSE rows
      /\ IF final
         THEN /\ t.buffer = PaintedBuffer
              /\ t.shown.rows = IF Extends(b) THEN s.shown.rows \o b.rows ELSE b.rows
         ELSE t.buffer = [b EXCEPT !.timer = TRUE] /\ t.shown = s.shown
  BY DEF Delivery, Rest
<1> HIDE DEF b
<1>4. t.want = old \o b.rows
  <2>1. CASE append /\ s.buffer.held
    <3>1. Extends(b) = Extends(s.buffer)
      BY <1>2, <2>1 DEF Extends
    <3>2. s.want = old \o s.buffer.rows
      BY <2>1, <3>1 DEF Faithful, Displayed
    <3>3. old \in Seq(Row)
      BY <1>1
    <3>4. b.rows = s.buffer.rows \o rows /\ t.want = s.want \o rows
      BY <1>2, <1>3, <2>1
    <3> HIDE DEF old
    <3>5. (old \o s.buffer.rows) \o rows = old \o (s.buffer.rows \o rows)
      <4>1. s.buffer.rows \in Seq(Row) /\ rows \in Seq(Row)
        BY <1>1
      <4> QED BY ONLY ZenonT(40), <4>1, <3>3, Concats
    <3> QED BY <3>2, <3>4, <3>5
  <2>2. CASE append /\ ~s.buffer.held /\ s.buffer.painted
    <3>1. Extends(b) /\ s.want = s.shown.rows
      BY <1>2, <2>2 DEF Extends, Faithful, Displayed
    <3> QED BY <1>2, <1>3, <2>2, <3>1
  <2>3. CASE append /\ ~s.buffer.held /\ ~s.buffer.painted
    <3>1. ~Extends(b) /\ s.want = <<>>
      BY <1>2, <2>3 DEF Extends, Faithful
    <3> QED BY <1>2, <1>3, <2>3, <3>1
  <2>4. CASE ~append
    <3>1. ~Extends(b)
      BY <1>2, <2>4 DEF Extends
    <3> QED BY <1>1, <1>2, <1>3, <2>4, <3>1, Concats
  <2> QED BY <1>1, <2>1, <2>2, <2>3, <2>4
<1>5. CASE final
  <2>1. t.buffer.painted /\ ~t.buffer.held
    BY <1>3, <1>5 DEF PaintedBuffer, NoBuffer
  <2>2. t.shown.rows = old \o b.rows
    BY <1>1, <1>2, <1>3, <1>5, Concats
  <2> QED BY <1>4, <2>1, <2>2 DEF Faithful, Displayed
<1>6. CASE ~final
  <2>1. t.buffer.held /\ t.buffer.rows = b.rows /\ (Extends(t.buffer) <=> Extends(b)) /\ t.shown = s.shown
    BY <1>2, <1>3, <1>6 DEF Buffer, Extends
  <2> QED BY <1>4, <2>1 DEF Faithful, Displayed
<1> QED BY <1>5, <1>6

LEMMA QueryFaithful ==
  ASSUME NEW s \in AppState, NEW t \in AppState, NEW text \in Texts, NEW final \in BOOLEAN,
         QueryOutcome(s, t, text, final)
  PROVE  Faithful(t)
<1> DEFINE b == Blank(s, text)
           e == [b EXCEPT !.mode = "extension"]
<1>1. /\ b \in AppState /\ e \in AppState /\ b.buffer = NoBuffer /\ e.buffer = NoBuffer
      /\ e.want = <<>>
  BY BlankIs
<1> HIDE DEF b
<1>2. CASE t = [b EXCEPT !.mode = "none", !.shown = Shown("home", <<>>)]
  <2>1. t.mode = "none"
    BY <1>1, <1>2 DEF AppState
  <2> QED BY <2>1 DEF Faithful
<1>3. CASE Delivery([b EXCEPT !.mode = "launcher"], t, <<LocalRow>>, FALSE, final)
  <2>1. t.mode = "launcher"
    BY <1>1, <1>3 DEF Delivery, Rest, AppState
  <2> QED BY <2>1 DEF Faithful
<1>4. CASE Delivery([e EXCEPT !.loading = FALSE], t, <<NoticeRow>>, FALSE, TRUE)
  <2> DEFINE c == [e EXCEPT !.loading = FALSE]
  <2>1. c \in AppState /\ c.buffer = NoBuffer /\ c.want = <<>>
    BY <1>1 DEF AppState
  <2>2. Delivery(c, t, <<NoticeRow>>, FALSE, TRUE)
    BY <1>4
  <2> HIDE DEF c
  <2>3. Faithful(c)
    BY <2>1, RowTypes DEF Faithful
  <2> QED BY <2>1, <2>2, <2>3, DeliveryFaithful, RowTypes
<1>5. CASE t = [e EXCEPT !.active = text, !.pending = TRUE, !.loading = TRUE]
  <2>1. t.buffer = NoBuffer /\ t.want = <<>>
    BY <1>1, <1>5 DEF AppState
  <2> QED BY <2>1, RowTypes DEF Faithful
<1>6. CASE t = [e EXCEPT !.loading = FALSE, !.active = text,
                         !.req = s.req + 1, !.pending = TRUE, !.want = <<>>, !.open = s.req + 1,
                         !.sent = [s.sent EXCEPT ![text] = Append(@, InputRequest(s.req + 1))]]
  <2>1. t.buffer = NoBuffer /\ t.want = <<>>
    BY <1>1, <1>6 DEF AppState
  <2> QED BY <2>1, RowTypes DEF Faithful
<1> QED BY <1>2, <1>3, <1>4, <1>5, <1>6 DEF QueryOutcome, b

LEMMA ResponseFaithful ==
  ASSUME WireTypeOK, NEW s \in AppState, NEW x \in Exts, NEW m \in Response, NEW final \in BOOLEAN,
         Faithful(s)
  PROVE  Faithful(ResponseHandled(s, x, m, final))
<1> DEFINE t == ResponseHandled(s, x, m, final)
           c == Closing(s, m)
<1>1. CASE t = s
  BY <1>1
<1>2. ASSUME NEW u \in AppState, EffectOutcome(c, u, m, final),
             t = IF Streams(m) THEN u ELSE [u EXCEPT !.pending = FALSE]
      PROVE  Faithful(t)
  <2>1. c \in AppState /\ c.mode = s.mode /\ c.want = s.want /\ c.buffer = s.buffer /\ c.shown = s.shown
    BY DEF Closing, AppState
  <2>2. t.mode = u.mode /\ t.want = u.want /\ t.buffer = u.buffer /\ t.shown = u.shown
    BY <1>2 DEF AppState
  <2> HIDE DEF c, t
  <2>3. Faithful(c)
    BY <2>1, FaithfulSame
  <2>4. Faithful(u)
    <3>1. CASE u = c
      BY <2>3, <3>1
    <3>2. CASE Delivery(c, u, m.rows, m.append, m.final)
      <4>1. m.rows \in Seq(Row) /\ m.append \in BOOLEAN /\ m.final \in BOOLEAN
        BY DEF Response
      <4> QED BY <2>1, <2>3, <3>2, <4>1, DeliveryFaithful
    <3>3. CASE u = [c EXCEPT !.placeholder = FALSE, !.answered = TRUE]
      <4>1. u.mode = c.mode /\ u.want = c.want /\ u.buffer = c.buffer /\ u.shown = c.shown
        BY <2>1, <3>3 DEF AppState
      <4> QED BY <2>3, <4>1, FaithfulSame
    <3>4. CASE QueryOutcome([c EXCEPT !.placeholder = FALSE], u, m.query, final)
      <4> DEFINE d == [c EXCEPT !.placeholder = FALSE]
      <4>1. d \in AppState /\ m.query \in Texts
        BY <2>1 DEF AppState, Response
      <4>2. QueryOutcome(d, u, m.query, final)
        BY <3>4
      <4> HIDE DEF d
      <4> QED BY <4>1, <4>2, QueryFaithful
    <3> QED BY <1>2, <3>1, <3>2, <3>3, <3>4 DEF EffectOutcome, c
  <2>5. Faithful(t)
    BY <2>2, <2>4, FaithfulSame
  <2> QED BY <2>5 DEF t
<1> QED BY <1>1, <1>2, ResponseHandledIs

LEMMA MainStepFaithful ==
  ASSUME QueryInv, NEW s \in AppState, MainStep(s), Faithful(app), MaxActivations = 0
  PROVE  Faithful(s)
<1>1. app \in AppState /\ WireTypeOK /\ Fresh(app)
  BY AppTyped DEF QueryInv, TypeOK
<1>2. ASSUME NEW text \in Texts, Asks(s, text)
      PROVE  Faithful(s)
  BY <1>1, <1>2, QueryFaithful DEF Asks
<1>3. ~Activates(s)
  BY <1>1 DEF Activates, WireTypeOK
<1>4. ASSUME NEW x \in Exts, Receives(s, x)
      PROVE  Faithful(s)
  <2>1. toApp[x] # <<>> /\ toApp[x] \in Seq(Response)
    BY <1>1, <1>4 DEF Receives, WireTypeOK
  <2>2. Head(toApp[x]) \in Response
    BY <2>1, HeadTailProperties
  <2> QED BY <1>1, <1>4, <2>2, ResponseFaithful DEF Receives
<1>5. ASSUME Waited(s)
      PROVE  Faithful(s)
  <2>1. s.mode = app.mode /\ s.want = app.want /\ s.buffer = app.buffer
    BY <1>1, <1>5 DEF Waited, AppState
  <2>2. ~app.buffer.held /\ ~app.buffer.painted
    BY <1>1, <1>5 DEF Waited, Fresh
  <2> QED BY <2>1, <2>2 DEF Faithful
<1>6. ASSUME app.buffer.timer, s = Painted(app)
      PROVE  Faithful(s)
  <2>1. /\ s.mode = app.mode /\ s.want = app.want /\ s.buffer = PaintedBuffer
        /\ s.shown.rows = IF Extends(app.buffer) THEN app.shown.rows \o app.buffer.rows ELSE app.buffer.rows
    BY <1>1, <1>6, PaintedIs DEF Rest
  <2>2. app.buffer.held /\ app.buffer.rows \in Seq(Row)
    BY <1>1, <1>6 DEF Fresh, AppState, Buffer
  <2>3. <<>> \o app.buffer.rows = app.buffer.rows
    BY <2>2, Concats
  <2>4. ~s.buffer.held /\ s.buffer.painted
    BY <2>1 DEF PaintedBuffer, NoBuffer
  <2> QED BY <2>1, <2>2, <2>3, <2>4 DEF Faithful, Displayed
<1>7. ASSUME s = LoadingFinished(app, <<>>)
      PROVE  Faithful(s)
  <2> DEFINE u == [app EXCEPT !.loading = FALSE, !.pending = FALSE]
  <2>1. u \in AppState /\ u.mode = app.mode /\ u.want = app.want /\ u.buffer = app.buffer /\ u.shown = app.shown
    BY <1>1 DEF AppState
  <2>2. s = u \/ Delivery(u, s, <<>>, FALSE, TRUE)
    BY <1>1, <1>7, LoadingFinishedIs, RowTypes
  <2> HIDE DEF u
  <2>3. Faithful(u)
    BY <2>1, FaithfulSame
  <2> QED BY <2>1, <2>2, <2>3, DeliveryFaithful, RowTypes
<1>8. ASSUME AsksAgain(s)
      PROVE  Faithful(s)
  <2> DEFINE b == [app EXCEPT !.reload = FALSE]
  <2>1. b \in AppState /\ app.text \in Texts
    BY <1>1 DEF AppState
  <2>2. \E final \in BOOLEAN : QueryOutcome(b, s, app.text, final)
    BY <1>8 DEF AsksAgain
  <2> HIDE DEF b
  <2> QED BY <2>1, <2>2, QueryFaithful
<1> QED BY <1>2, <1>3, <1>4, <1>5, <1>6, <1>7, <1>8 DEF MainStep

LEMMA FaithfulStep ==
  ASSUME QueryInv, Faithful(app), MaxActivations = 0, [Next]_vars
  PROVE  Faithful(app)'
<1>1. app \in AppState /\ WireTypeOK
  BY AppTyped DEF QueryInv, TypeOK
<1>2. ASSUME app'.mode = app.mode, app'.want = app.want, app'.buffer = app.buffer, app'.shown = app.shown
      PROVE  Faithful(app')
  BY <1>2, FaithfulSame
<1>3. CASE (User \/ MainLoop) /\ UNCHANGED client
  <2>1. PICK s \in AppState : App(s) /\ MainStep(s)
    BY <1>3, MainLoopIs DEF QueryInv
  <2>2. Faithful(s)
    BY <2>1, MainStepFaithful
  <2>3. app'.mode = s.mode /\ app'.want = s.want /\ app'.buffer = s.buffer /\ app'.shown = s.shown
    BY <1>1, <2>1, AppIs
  <2>4. Faithful(app')
    BY <2>2, <2>3, FaithfulSame
  <2> QED BY <2>4 DEF Faithful, Displayed
<1>4. CASE UNCHANGED app
  BY <1>4 DEF Faithful, Displayed
<1>5. ASSUME NEW x \in Exts, StopExtension(x) \/ StartExtension(x)
      PROVE  Faithful(app)'
  <2>1. (\E b : app' = [app EXCEPT !.reload = b]) \/ app' = [app EXCEPT !.open = 0] \/ app' = app
    BY <1>5 DEF StopExtension, StartExtension
  <2>2. app'.mode = app.mode /\ app'.want = app.want /\ app'.buffer = app.buffer /\ app'.shown = app.shown
    BY <1>1, <2>1 DEF AppState
  <2> QED BY <1>2, <2>2 DEF Faithful, Displayed
<1>6. ASSUME NEW x \in Exts, ExtensionFails(x)
      PROVE  Faithful(app)'
  <2> DEFINE u == [app EXCEPT !.open = 0, !.loading = FALSE, !.pending = FALSE]
             v == [app EXCEPT !.open = 0, !.pending = FALSE]
             t == Errored(app, x)
  <2>1. app' = t
    BY <1>6 DEF ExtensionFails
  <2>2. u \in AppState /\ (t = app \/ t = v \/ t = u \/ Delivery(u, t, <<NoticeRow>>, FALSE, TRUE))
    BY <1>1, ErroredIs
  <2>3. /\ u.mode = app.mode /\ u.want = app.want /\ u.buffer = app.buffer /\ u.shown = app.shown
        /\ v.mode = app.mode /\ v.want = app.want /\ v.buffer = app.buffer /\ v.shown = app.shown
    BY <1>1 DEF AppState
  <2> HIDE DEF u, v, t
  <2>4. Faithful(u) /\ Faithful(v)
    BY <2>3, FaithfulSame
  <2>5. Faithful(t)
    BY <2>2, <2>4, DeliveryFaithful, RowTypes
  <2> QED BY <2>1, <2>5 DEF Faithful, Displayed
<1>7. CASE UNCHANGED vars
  BY <1>4, <1>7 DEF vars
<1> QED BY <1>3, <1>4, <1>5, <1>6, <1>7 DEF Next, Service, LeftStopped, Finished

\* While inputs are answered, the list on screen and what is buffered for it is
\* the list that the handler of the latest input built, batch for batch: across
\* throttled paints, edits, restarts, failures and messages of the app's own.
THEOREM StreamShown == ASSUME MaxActivations = 0 PROVE Spec => []StreamFaithful
<1>1. Init => Faithful(app)
  BY DEF Init, CoreInit, Faithful
<1>2. Faithful(app) => StreamFaithful
  BY DEF Faithful, Displayed, StreamFaithful
<1> QED BY <1>1, <1>2, FaithfulStep, QueryInvAlways, PTL DEF Spec

(***************************************************************************)
(* What an event sends                                                     *)
(***************************************************************************)

Among(ms) == {ms[i] : i \in DOMAIN ms}
\* At most one request is sent, and its number is the next one; the row that it
\* activates is on screen.
Sends(s, t) ==
  \/ t.req = s.req /\ t.sent = s.sent
  \/ \E x \in Exts : \E m \in Request :
       t.req = s.req + 1 /\ m.req = t.req /\ m.row \in Among(s.shown.rows) \cup {LocalRow} /\ t.sent = [s.sent EXCEPT ![x] = Append(@, m)]

LEMMA SendsSame ==
  ASSUME NEW s, NEW t, NEW d, NEW u, Sends(d, u), d.req = s.req, d.sent = s.sent,
         d.shown = s.shown, u.req = t.req, u.sent = t.sent
  PROVE  Sends(s, t)
BY DEF Sends

LEMMA QuerySends ==
  ASSUME NEW s \in AppState, NEW t \in AppState, NEW text \in Texts, NEW final \in BOOLEAN,
         QueryOutcome(s, t, text, final)
  PROVE  Sends(s, t)
<1> DEFINE b == Blank(s, text)
           e == [b EXCEPT !.mode = "extension"]
<1>1. b \in AppState /\ e \in AppState /\ b.req = s.req /\ b.sent = s.sent /\ e.req = s.req /\ e.sent = s.sent
  BY BlankIs
<1> HIDE DEF b
<1>2. CASE t = [b EXCEPT !.mode = "none", !.shown = Shown("home", <<>>)]
  BY <1>1, <1>2 DEF AppState, Sends
<1>3. CASE Delivery([b EXCEPT !.mode = "launcher"], t, <<LocalRow>>, FALSE, final)
  <2>1. t.req = s.req /\ t.sent = s.sent
    BY <1>1, <1>3 DEF Delivery, Rest, AppState
  <2> QED BY <2>1 DEF Sends
<1>4. CASE Delivery([e EXCEPT !.loading = FALSE], t, <<NoticeRow>>, FALSE, TRUE)
  <2>1. t.req = s.req /\ t.sent = s.sent
    BY <1>1, <1>4 DEF Delivery, Rest, AppState
  <2> QED BY <2>1 DEF Sends
<1>5. CASE t = [e EXCEPT !.active = text, !.pending = TRUE, !.loading = TRUE]
  <2>1. t.req = s.req /\ t.sent = s.sent
    BY <1>1, <1>5 DEF AppState
  <2> QED BY <2>1 DEF Sends
<1>6. CASE text \in Exts
           /\ t = [e EXCEPT !.loading = FALSE, !.active = text,
                         !.req = s.req + 1, !.pending = TRUE, !.want = <<>>, !.open = s.req + 1,
                         !.sent = [s.sent EXCEPT ![text] = Append(@, InputRequest(s.req + 1))]]
  <2> DEFINE m == InputRequest(s.req + 1)
  <2>1. m.req = s.req + 1 /\ m \in Request /\ m.row = LocalRow
    BY RowTypes DEF InputRequest, Request, AppState
  <2>2. t.req = s.req + 1 /\ t.sent = [s.sent EXCEPT ![text] = Append(@, m)]
    BY <1>1, <1>6 DEF AppState
  <2> HIDE DEF m
  <2> QED BY <1>6, <2>1, <2>2 DEF Sends
<1> QED BY <1>2, <1>3, <1>4, <1>5, <1>6 DEF QueryOutcome, b

LEMMA ResponseSends ==
  ASSUME WireTypeOK, NEW s \in AppState, NEW x \in Exts, NEW m \in Response, NEW final \in BOOLEAN
  PROVE  Sends(s, ResponseHandled(s, x, m, final))
<1> DEFINE t == ResponseHandled(s, x, m, final)
           c == Closing(s, m)
<1>1. CASE t = s
  BY <1>1 DEF Sends
<1>2. ASSUME NEW u \in AppState, EffectOutcome(c, u, m, final),
             t = IF Streams(m) THEN u ELSE [u EXCEPT !.pending = FALSE]
      PROVE  Sends(s, t)
  <2>1. c \in AppState /\ c.req = s.req /\ c.sent = s.sent /\ c.shown = s.shown
    BY DEF Closing, AppState
  <2>2. t.req = u.req /\ t.sent = u.sent
    BY <1>2 DEF AppState
  <2> HIDE DEF c, t
  <2>3. Sends(c, u)
    <3>1. CASE u = c
      BY <3>1 DEF Sends
    <3>2. CASE Delivery(c, u, m.rows, m.append, m.final)
      BY <3>2 DEF Delivery, Rest, Sends
    <3>3. CASE u = [c EXCEPT !.placeholder = FALSE, !.answered = TRUE]
      BY <2>1, <3>3 DEF AppState, Sends
    <3>4. CASE QueryOutcome([c EXCEPT !.placeholder = FALSE], u, m.query, final)
      <4> DEFINE d == [c EXCEPT !.placeholder = FALSE]
      <4>1. d \in AppState /\ d.req = c.req /\ d.sent = c.sent /\ d.shown = c.shown /\ m.query \in Texts
        BY <2>1 DEF AppState, Response
      <4>2. QueryOutcome(d, u, m.query, final)
        BY <3>4
      <4> HIDE DEF d
      <4>3. Sends(d, u)
        BY <4>1, <4>2, QuerySends
      <4> QED BY <4>1, <4>3, SendsSame
    <3> QED BY <1>2, <3>1, <3>2, <3>3, <3>4 DEF EffectOutcome, c
  <2> QED BY <2>1, <2>2, <2>3, SendsSame DEF t
<1> QED BY <1>1, <1>2, ResponseHandledIs

LEMMA MainStepSends ==
  ASSUME QueryInv, NEW s \in AppState, MainStep(s)
  PROVE  Sends(app, s)
<1>1. app \in AppState /\ WireTypeOK
  BY AppTyped DEF QueryInv, TypeOK
<1>2. ASSUME NEW text \in Texts, Asks(s, text)
      PROVE  Sends(app, s)
  BY <1>1, <1>2, QuerySends DEF Asks
<1>3. ASSUME Activates(s)
      PROVE  Sends(app, s)
  <2> DEFINE b == [app EXCEPT !.buffer = NoBuffer]
  <2>1. b \in AppState /\ b.req = app.req /\ b.sent = app.sent /\ b.shown = app.shown
    BY <1>1, RowTypes DEF AppState
  <2>2. ASSUME NEW m \in Request, s = Sent(b, m), m.row \in Among(app.shown.rows)
        PROVE  Sends(app, s)
    <3> HIDE DEF b
    <3> DEFINE k == [m EXCEPT !.req = b.req + 1]
               u == [b EXCEPT !.req = b.req + 1, !.pending = TRUE, !.want = <<>>, !.open = b.req + 1,
                     !.sent = [b.sent EXCEPT ![b.active] = Append(@, k)]]
    <3>1. s = b \/ (b.active \in Exts /\ s = u)
      BY <2>1, <2>2, SentIs
    <3>2. k \in Request /\ k.req = b.req + 1 /\ k.row = m.row
      <4>1. b.req + 1 \in Nat
        BY <2>1 DEF AppState
      <4> HIDE DEF b
      <4> QED BY <4>1 DEF Request
    <3>3. u.req = b.req + 1 /\ u.sent = [b.sent EXCEPT ![b.active] = Append(@, k)]
      BY <2>1 DEF AppState
    <3> HIDE DEF u, k
    <3>4. CASE s = b
      BY <2>1, <3>4 DEF Sends
    <3>5. CASE b.active \in Exts /\ s = u
      <4>1. s.req = app.req + 1 /\ k.req = s.req /\ s.sent = [app.sent EXCEPT ![b.active] = Append(@, k)]
        BY <2>1, <3>2, <3>3, <3>5
      <4>2. k.row \in Among(app.shown.rows) \cup {LocalRow}
        BY <2>2, <3>2
      <4> QED BY <3>2, <3>5, <4>1, <4>2 DEF Sends
    <3> QED BY <3>1, <3>4, <3>5
  <2>3. CASE s = b
    BY <2>1, <2>3 DEF Sends
  <2>4. CASE s = [b EXCEPT !.placeholder = FALSE]
    BY <2>1, <2>4 DEF AppState, Sends
  <2> QED BY <1>3, <2>2, <2>3, <2>4 DEF Activates, Among
<1>4. ASSUME NEW x \in Exts, Receives(s, x)
      PROVE  Sends(app, s)
  <2>1. toApp[x] # <<>> /\ toApp[x] \in Seq(Response)
    BY <1>1, <1>4 DEF Receives, WireTypeOK
  <2>2. Head(toApp[x]) \in Response
    BY <2>1, HeadTailProperties
  <2> QED BY <1>1, <1>4, <2>2, ResponseSends DEF Receives
<1>5. ASSUME Waited(s)
      PROVE  Sends(app, s)
  BY <1>1, <1>5 DEF Waited, AppState, Sends
<1>6. ASSUME s = Painted(app)
      PROVE  Sends(app, s)
  BY <1>1, <1>6, PaintedIs DEF Rest, Sends
<1>7. ASSUME s = LoadingFinished(app, <<>>)
      PROVE  Sends(app, s)
  <2> DEFINE u == [app EXCEPT !.loading = FALSE, !.pending = FALSE]
  <2>1. u \in AppState /\ u.req = app.req /\ u.sent = app.sent
    BY <1>1 DEF AppState
  <2>2. s = u \/ Delivery(u, s, <<>>, FALSE, TRUE)
    BY <1>1, <1>7, LoadingFinishedIs, RowTypes
  <2> HIDE DEF u
  <2> QED BY <2>1, <2>2 DEF Delivery, Rest, Sends
<1>8. ASSUME AsksAgain(s)
      PROVE  Sends(app, s)
  <2> DEFINE b == [app EXCEPT !.reload = FALSE]
  <2>1. b \in AppState /\ app.text \in Texts /\ b.req = app.req /\ b.sent = app.sent /\ b.shown = app.shown
    BY <1>1 DEF AppState
  <2>2. \E final \in BOOLEAN : QueryOutcome(b, s, app.text, final)
    BY <1>8 DEF AsksAgain
  <2> HIDE DEF b
  <2>3. Sends(b, s)
    BY <2>1, <2>2, QuerySends
  <2> QED BY <2>1, <2>3 DEF Sends
<1> QED BY <1>2, <1>3, <1>4, <1>5, <1>6, <1>7, <1>8 DEF MainStep

\* What an event of the main loop leaves in the socket towards an extension.
LEMMA MainLoopSends ==
  ASSUME QueryInv, User \/ MainLoop, NEW x \in Exts
  PROVE  /\ app'.req \in {app.req, app.req + 1}
         /\ \/ toExt'[x] \in {toExt[x], <<>>}
            \/ \E m \in Request : /\ app'.req = app.req + 1 /\ m.req = app'.req
                                  /\ m.row \in Among(app.shown.rows) \cup {LocalRow}
                                  /\ toExt'[x] = Append(toExt[x], m)
<1>1. app \in AppState /\ WireTypeOK /\ toExt[x] \in Seq(Request) /\ app.sent[x] = <<>>
      /\ app.sent \in [Exts -> Seq(Request)]
  BY AppTyped DEF QueryInv, TypeOK, WireTypeOK, AppState
<1>2. PICK s \in AppState : App(s) /\ MainStep(s)
  BY MainLoopIs DEF QueryInv
<1>3. app'.req = s.req /\ toExt'[x] = IF status[x] = "up" THEN toExt[x] \o s.sent[x] ELSE <<>>
  BY <1>1, <1>2, AppIs
<1>4. Sends(app, s)
  BY <1>2, MainStepSends
<1>5. toExt[x] \o <<>> = toExt[x]
  BY <1>1, ConcatEmptySeq
<1>6. CASE s.req = app.req /\ s.sent = app.sent
  BY <1>1, <1>3, <1>5, <1>6
<1>7. ASSUME NEW y \in Exts, NEW m \in Request, s.req = app.req + 1, m.req = s.req,
             m.row \in Among(app.shown.rows) \cup {LocalRow}, s.sent = [app.sent EXCEPT ![y] = Append(@, m)]
      PROVE  \/ toExt'[x] \in {toExt[x], <<>>}
             \/ \E k \in Request : /\ app'.req = app.req + 1 /\ k.req = app'.req
                                   /\ k.row \in Among(app.shown.rows) \cup {LocalRow}
                                   /\ toExt'[x] = Append(toExt[x], k)
  <2>1. CASE y = x
    <3>1. s.sent[x] = Append(<<>>, m)
      BY <1>1, <1>7, <2>1
    <3>2. toExt[x] \o Append(<<>>, m) = Append(toExt[x], m)
      <4>1. Append(<<>>, m) = <<m>>
        OBVIOUS
      <4> QED BY <1>1, <4>1, AppendIsConcat
    <3> QED BY <1>3, <1>7, <3>1, <3>2
  <2>2. CASE y # x
    <3>1. s.sent[x] = <<>>
      BY <1>1, <1>7, <2>2
    <3> QED BY <1>3, <1>5, <3>1
  <2> QED BY <2>1, <2>2
<1>8. s.req \in {app.req, app.req + 1}
  BY <1>4 DEF Sends
<1> QED BY <1>3, <1>4, <1>6, <1>7, <1>8 DEF Sends

(***************************************************************************)
(* The order of what is said                                               *)
(***************************************************************************)
\* Nothing of a request follows its closing response.
InOrder(ms) == \A i, j \in DOMAIN ms : i < j /\ ms[i].req = ms[j].req => Streams(ms[i])
Closed(before, after) == \A a \in before, b \in after : a.req = b.req => Streams(a)

\* Of the extension with the state c: its handlers, and what they said so far.
Items(c, out) == c.threads \cup Among(c.idle) \cup Among(out)

\* The requests on the way to it are newer than everything else.
Asked(c, in, out, n) ==
  /\ \A i, j \in DOMAIN in : i < j => in[i].req < in[j].req
  /\ \A m \in Among(in) : /\ c.debounce < m.req /\ m.req <= n
                          /\ \A a \in Items(c, out) : a.req < m.req
  /\ c.debounce <= n
\* Inputs have their numbers in the order of the requests; no request is handled twice.
Numbered(c, out, n) ==
  /\ \A a \in Items(c, out) :
       /\ a.req <= n /\ a.input <= c.input
       /\ c.debounce # 0 => a.req # c.debounce /\ (a.input # 0 => a.req < c.debounce)
  /\ \A a, b \in Items(c, out) : a.input # 0 /\ b.input # 0 => (a.input < b.input <=> a.req < b.req)
  /\ \A a, b \in c.threads : a.req = b.req => a = b
\* What was said goes from the threads to the main loop and from there to the
\* socket, and what is closed stays closed in all three.
Told(c, out) ==
  /\ InOrder(out) /\ InOrder(c.idle)
  /\ Closed(Among(out), Among(c.idle) \cup c.threads) /\ Closed(Among(c.idle), c.threads)
  /\ \A i, j \in DOMAIN out : i < j /\ out[i].input # 0 /\ out[j].input # 0 => out[i].input <= out[j].input

Ordered(c, in, out, n) == Asked(c, in, out, n) /\ Numbered(c, out, n) /\ Told(c, out)

LEMMA AmongAppend ==
  ASSUME NEW S, NEW ms \in Seq(S), NEW r \in S
  PROVE  /\ Among(Append(ms, r)) = Among(ms) \cup {r}
         /\ Among(ms) \subseteq S
<1>1. /\ Len(ms) \in Nat /\ DOMAIN ms = 1..Len(ms) /\ Append(ms, r) \in Seq(S)
      /\ DOMAIN Append(ms, r) = 1..(Len(ms) + 1)
      /\ \A i \in 1..Len(ms) : Append(ms, r)[i] = ms[i] /\ ms[i] \in S
      /\ Append(ms, r)[Len(ms) + 1] = r
  BY AppendProperties, LenProperties, ElementOfSeq
<1>2. ASSUME NEW a \in Among(Append(ms, r)) PROVE a \in Among(ms) \cup {r}
  <2>1. PICK i \in 1..(Len(ms) + 1) : a = Append(ms, r)[i]
    BY <1>1 DEF Among
  <2>2. i \in 1..Len(ms) \/ i = Len(ms) + 1
    BY <1>1
  <2> QED BY <1>1, <2>1, <2>2 DEF Among
<1>3. ASSUME NEW a \in Among(ms) PROVE a \in Among(Append(ms, r)) /\ a \in S
  <2>1. PICK i \in 1..Len(ms) : a = ms[i]
    BY <1>1 DEF Among
  <2>2. i \in 1..(Len(ms) + 1)
    BY <1>1
  <2> QED BY <1>1, <2>1, <2>2 DEF Among
<1>4. r \in Among(Append(ms, r))
  <2>1. Len(ms) + 1 \in 1..(Len(ms) + 1)
    BY <1>1
  <2> QED BY <1>1, <2>1 DEF Among
<1> QED BY <1>2, <1>3, <1>4

LEMMA AmongTail ==
  ASSUME NEW S, NEW ms \in Seq(S), ms # <<>>
  PROVE  /\ Among(Tail(ms)) \subseteq Among(ms) /\ Head(ms) \in Among(ms) /\ Among(ms) \subseteq S
         /\ \A b \in Among(Tail(ms)) : \E j \in DOMAIN ms : 1 < j /\ b = ms[j]
         /\ 1 \in DOMAIN ms /\ Head(ms) = ms[1]
<1>1. /\ Len(ms) \in Nat /\ Len(ms) # 0 /\ DOMAIN ms = 1..Len(ms) /\ Tail(ms) \in Seq(S)
      /\ Len(Tail(ms)) = Len(ms) - 1 /\ DOMAIN Tail(ms) = 1..Len(Tail(ms))
      /\ \A i \in 1..Len(Tail(ms)) : Tail(ms)[i] = ms[i + 1]
      /\ \A i \in 1..Len(ms) : ms[i] \in S
      /\ Head(ms) = ms[1]
  BY HeadTailProperties, LenProperties, ElementOfSeq, EmptySeq
<1>2. 1 \in DOMAIN ms
  BY <1>1
<1>3. Head(ms) \in Among(ms) /\ Among(ms) \subseteq S
  BY <1>1, <1>2 DEF Among
<1>4. ASSUME NEW b \in Among(Tail(ms))
      PROVE  \E j \in DOMAIN ms : 1 < j /\ b = ms[j]
  <2>1. PICK i \in 1..Len(Tail(ms)) : b = Tail(ms)[i]
    BY <1>1 DEF Among
  <2>2. i + 1 \in DOMAIN ms /\ 1 < i + 1 /\ b = ms[i + 1]
    BY <1>1, <2>1
  <2> QED BY <2>2
<1>5. Among(Tail(ms)) \subseteq Among(ms)
  BY <1>4 DEF Among
<1> QED BY <1>1, <1>2, <1>3, <1>4, <1>5

\* What a sequence that is in order is still like without its first, or with one more.
LEMMA InOrderTail ==
  ASSUME NEW ms \in Seq(Response), ms # <<>>, InOrder(ms)
  PROVE  InOrder(Tail(ms)) /\ Closed({Head(ms)}, Among(Tail(ms)))
<1>1. /\ Len(ms) \in Nat /\ Len(ms) # 0 /\ DOMAIN ms = 1..Len(ms) /\ Tail(ms) \in Seq(Response)
      /\ Len(Tail(ms)) = Len(ms) - 1 /\ DOMAIN Tail(ms) = 1..Len(Tail(ms))
      /\ \A i \in 1..Len(Tail(ms)) : Tail(ms)[i] = ms[i + 1]
  BY HeadTailProperties, LenProperties, EmptySeq
<1>2. InOrder(Tail(ms))
  <2> SUFFICES ASSUME NEW i \in DOMAIN Tail(ms), NEW j \in DOMAIN Tail(ms), i < j,
                      Tail(ms)[i].req = Tail(ms)[j].req
               PROVE  Streams(Tail(ms)[i])
    BY DEF InOrder
  <2>1. i + 1 \in DOMAIN ms /\ j + 1 \in DOMAIN ms /\ i + 1 < j + 1
        /\ Tail(ms)[i] = ms[i + 1] /\ Tail(ms)[j] = ms[j + 1]
    BY <1>1
  <2> QED BY <2>1 DEF InOrder
<1>3. Closed({Head(ms)}, Among(Tail(ms)))
  BY AmongTail DEF Closed, InOrder
<1> QED BY <1>2, <1>3

LEMMA InOrderAppend ==
  ASSUME NEW ms \in Seq(Response), NEW r \in Response, InOrder(ms), Closed(Among(ms), {r})
  PROVE  InOrder(Append(ms, r))
<1>1. /\ Len(ms) \in Nat /\ DOMAIN ms = 1..Len(ms) /\ Append(ms, r) \in Seq(Response)
      /\ DOMAIN Append(ms, r) = 1..(Len(ms) + 1)
      /\ \A i \in 1..Len(ms) : Append(ms, r)[i] = ms[i]
      /\ Append(ms, r)[Len(ms) + 1] = r
  BY AppendProperties, LenProperties
<1> SUFFICES ASSUME NEW i \in DOMAIN Append(ms, r), NEW j \in DOMAIN Append(ms, r), i < j,
                    Append(ms, r)[i].req = Append(ms, r)[j].req
             PROVE  Streams(Append(ms, r)[i])
  BY DEF InOrder
<1>2. i \in DOMAIN ms /\ Append(ms, r)[i] = ms[i]
  BY <1>1
<1>3. CASE j \in DOMAIN ms
  BY <1>1, <1>2, <1>3 DEF InOrder
<1>4. CASE j = Len(ms) + 1
  BY <1>1, <1>2, <1>4 DEF Closed, Among
<1> QED BY <1>1, <1>3, <1>4

LEMMA ItemsTyped ==
  ASSUME NEW c \in ClientState, NEW out \in Seq(Response)
  PROVE  \A a \in Items(c, out) : a.req \in Nat /\ a.input \in Nat
<1>1. Among(out) \subseteq Response /\ Among(c.idle) \subseteq Response /\ c.threads \subseteq Thread
  <2>1. c.idle \in Seq(Response) /\ c.threads \subseteq Thread
    BY DEF ClientState
  <2>2. \A ms \in Seq(Response) : Among(ms) \subseteq Response
    <3> SUFFICES ASSUME NEW ms \in Seq(Response), NEW i \in DOMAIN ms PROVE ms[i] \in Response
      BY DEF Among
    <3> QED BY ElementOfSeq, LenProperties
  <2> QED BY <2>1, <2>2
<1> QED BY <1>1 DEF Items, Response, Thread

\* The process only ever sees newer requests.
LEMMA OrderedSent ==
  ASSUME NEW c \in ClientState, NEW in \in Seq(Request), NEW out \in Seq(Response), NEW n \in Nat,
         NEW k \in {n, n + 1}, Ordered(c, in, out, n)
  PROVE  /\ Ordered(c, in, out, k) /\ Ordered(c, <<>>, out, k)
         /\ \A r \in Request : r.req = n + 1 => Ordered(c, Append(in, r), out, n + 1)
<1>1. /\ \A a \in Items(c, out) : a.req \in Nat /\ a.input \in Nat
      /\ c.debounce \in Nat /\ c.input \in Nat
  BY ItemsTyped DEF ClientState
<1>2. \A m \in Among(in) : m.req \in Nat
  <2> SUFFICES ASSUME NEW i \in DOMAIN in PROVE in[i].req \in Nat
    BY DEF Among
  <2>1. in[i] \in Request
    BY ElementOfSeq, LenProperties
  <2> QED BY <2>1 DEF Request
<1>3. ASSUME NEW j \in {n, n + 1} PROVE Numbered(c, out, j) /\ Told(c, out)
  BY <1>1, <1>3 DEF Ordered, Numbered
<1>4. Asked(c, in, out, k)
  BY <1>1, <1>2 DEF Ordered, Asked
<1>5. Asked(c, <<>>, out, k)
  BY <1>1 DEF Ordered, Asked, Among
<1>6. ASSUME NEW r \in Request, r.req = n + 1
      PROVE  Asked(c, Append(in, r), out, n + 1)
  <2>1. /\ Len(in) \in Nat /\ DOMAIN in = 1..Len(in) /\ Append(in, r) \in Seq(Request)
        /\ DOMAIN Append(in, r) = 1..(Len(in) + 1)
        /\ \A i \in 1..Len(in) : Append(in, r)[i] = in[i]
        /\ Append(in, r)[Len(in) + 1] = r
    BY AppendProperties, LenProperties
  <2>2. Among(Append(in, r)) = Among(in) \cup {r}
    BY AmongAppend
  <2>3. ASSUME NEW i \in DOMAIN Append(in, r), NEW j \in DOMAIN Append(in, r), i < j
        PROVE  Append(in, r)[i].req < Append(in, r)[j].req
    <3>1. i \in DOMAIN in /\ Append(in, r)[i] = in[i] /\ in[i].req <= n /\ in[i].req \in Nat
      BY <1>2, <2>1, <2>3 DEF Ordered, Asked, Among
    <3>2. CASE j \in DOMAIN in
      BY <2>1, <2>3, <3>1, <3>2 DEF Ordered, Asked
    <3>3. CASE j = Len(in) + 1
      BY <1>6, <2>1, <3>1, <3>3
    <3> QED BY <2>1, <3>2, <3>3
  <2>4. ASSUME NEW m \in Among(in) \cup {r}
        PROVE  c.debounce < m.req /\ m.req <= n + 1 /\ \A a \in Items(c, out) : a.req < m.req
    <3>1. CASE m \in Among(in)
      BY <1>1, <1>2, <3>1 DEF Ordered, Asked
    <3>2. CASE m = r
      BY <1>1, <1>6, <3>2 DEF Ordered, Asked, Numbered
    <3> QED BY <3>1, <3>2
  <2> QED BY <1>1, <2>2, <2>3, <2>4 DEF Ordered, Asked
<1> QED BY <1>3, <1>4, <1>5, <1>6 DEF Ordered

\* Fewer items, with the same numbers, keep their order.
LEMMA Fewer ==
  ASSUME NEW c \in ClientState, NEW d \in ClientState, NEW in, NEW out, NEW left, NEW n \in Nat,
         Items(d, left) \subseteq Items(c, out), d.threads \subseteq c.threads,
         d.debounce = c.debounce, d.input = c.input
  PROVE  /\ Asked(c, in, out, n) => Asked(d, in, left, n)
         /\ Numbered(c, out, n) => Numbered(d, left, n)
BY DEF Asked, Numbered

\* The app reads a response.
LEMMA OrderedReceived ==
  ASSUME NEW c \in ClientState, NEW in, NEW out \in Seq(Response), NEW n \in Nat,
         out # <<>>, Ordered(c, in, out, n)
  PROVE  Ordered(c, in, Tail(out), n)
<1>1. Among(Tail(out)) \subseteq Among(out)
  BY AmongTail
<1>2. Asked(c, in, Tail(out), n) /\ Numbered(c, Tail(out), n)
  BY <1>1, Fewer DEF Items, Ordered
<1>3. InOrder(Tail(out))
  BY InOrderTail DEF Ordered, Told
<1>4. /\ Len(out) \in Nat /\ Len(out) # 0 /\ DOMAIN out = 1..Len(out) /\ Tail(out) \in Seq(Response)
      /\ Len(Tail(out)) = Len(out) - 1 /\ DOMAIN Tail(out) = 1..Len(Tail(out))
      /\ \A i \in 1..Len(Tail(out)) : Tail(out)[i] = out[i + 1]
  BY HeadTailProperties, LenProperties, EmptySeq
<1>5. ASSUME NEW i \in DOMAIN Tail(out), NEW j \in DOMAIN Tail(out), i < j,
             Tail(out)[i].input # 0, Tail(out)[j].input # 0
      PROVE  Tail(out)[i].input <= Tail(out)[j].input
  <2>1. i + 1 \in DOMAIN out /\ j + 1 \in DOMAIN out /\ i + 1 < j + 1
        /\ Tail(out)[i] = out[i + 1] /\ Tail(out)[j] = out[j + 1]
    BY <1>4, <1>5
  <2> QED BY <1>5, <2>1 DEF Ordered, Told
<1>6. Told(c, Tail(out))
  BY <1>1, <1>3, <1>5 DEF Ordered, Told, Closed
<1> QED BY <1>2, <1>6 DEF Ordered

\* It reads a request: every other one on the way is newer.
LEMMA RequestTaken ==
  ASSUME NEW c \in ClientState, NEW in \in Seq(Request), NEW out \in Seq(Response), NEW n \in Nat,
         in # <<>>, Asked(c, in, out, n)
  PROVE  LET m == Head(in) IN
         /\ Asked(c, Tail(in), out, n)
         /\ m.req \in Nat /\ c.debounce < m.req /\ m.req <= n /\ \A a \in Items(c, out) : a.req < m.req
         /\ \A k \in Among(Tail(in)) : m.req < k.req
<1>1. /\ Len(in) \in Nat /\ Len(in) # 0 /\ DOMAIN in = 1..Len(in) /\ Tail(in) \in Seq(Request)
      /\ Len(Tail(in)) = Len(in) - 1 /\ DOMAIN Tail(in) = 1..Len(Tail(in))
      /\ \A i \in 1..Len(Tail(in)) : Tail(in)[i] = in[i + 1]
  BY HeadTailProperties, LenProperties, EmptySeq
<1>2. /\ Among(Tail(in)) \subseteq Among(in) /\ Head(in) \in Among(in) /\ Head(in) \in Request
      /\ \A k \in Among(Tail(in)) : \E j \in DOMAIN in : 1 < j /\ k = in[j]
      /\ 1 \in DOMAIN in /\ Head(in) = in[1]
  BY AmongTail
<1>3. ASSUME NEW i \in DOMAIN Tail(in), NEW j \in DOMAIN Tail(in), i < j
      PROVE  Tail(in)[i].req < Tail(in)[j].req
  <2>1. i + 1 \in DOMAIN in /\ j + 1 \in DOMAIN in /\ i + 1 < j + 1
        /\ Tail(in)[i] = in[i + 1] /\ Tail(in)[j] = in[j + 1]
    BY <1>1, <1>3
  <2> QED BY <2>1 DEF Asked
<1>4. Asked(c, Tail(in), out, n)
  BY <1>2, <1>3 DEF Asked
<1>5. \A k \in Among(Tail(in)) : Head(in).req < k.req
  BY <1>2 DEF Asked
<1> QED BY <1>2, <1>4, <1>5 DEF Asked, Request

\* An input takes the place of the one that waits for the debounce timer.
LEMMA OrderedInput ==
  ASSUME NEW c \in ClientState, NEW in \in Seq(Request), NEW out \in Seq(Response), NEW n \in Nat,
         in # <<>>, Ordered(c, in, out, n),
         NEW d \in ClientState, d = [c EXCEPT !.debounce = Head(in).req]
  PROVE  Ordered(d, Tail(in), out, n)
<1> DEFINE m == Head(in)
<1>1. /\ Asked(c, Tail(in), out, n)
      /\ m.req \in Nat /\ c.debounce < m.req /\ m.req <= n /\ \A a \in Items(c, out) : a.req < m.req
      /\ \A k \in Among(Tail(in)) : m.req < k.req
  BY RequestTaken DEF Ordered
<1>2. d.debounce = m.req /\ d.input = c.input /\ d.threads = c.threads /\ d.idle = c.idle
  BY DEF ClientState
<1>3. Items(d, out) = Items(c, out) /\ \A a \in Items(c, out) : a.req \in Nat
  BY <1>2, ItemsTyped DEF Items
<1> HIDE DEF m
<1>4. Asked(d, Tail(in), out, n)
  BY <1>1, <1>2, <1>3 DEF Asked
<1>5. Numbered(d, out, n)
  BY <1>1, <1>2, <1>3 DEF Ordered, Numbered
<1>6. Told(d, out)
  BY <1>2 DEF Ordered, Told
<1> QED BY <1>4, <1>5, <1>6 DEF Ordered

\* A handler starts, for a request that nothing was said about yet.
LEMMA Started ==
  ASSUME NEW c \in ClientState, NEW out \in Seq(Response), NEW t \in Thread, Told(c, out),
         NEW d \in ClientState, d.threads = c.threads \cup {t}, d.idle = c.idle,
         \A a \in Items(c, out) : a.req # t.req
  PROVE  Told(d, out)
BY DEF Told, Closed, Items

LEMMA OrderedActivation ==
  ASSUME NEW c \in ClientState, NEW in \in Seq(Request), NEW out \in Seq(Response), NEW n \in Nat,
         in # <<>>, Ordered(c, in, out, n), NEW t \in Thread, t.req = Head(in).req, t.input = 0,
         NEW d \in ClientState, d = [c EXCEPT !.threads = @ \cup {t}]
  PROVE  Ordered(d, Tail(in), out, n)
<1> DEFINE m == Head(in)
<1>1. /\ Asked(c, Tail(in), out, n)
      /\ m.req \in Nat /\ c.debounce < m.req /\ m.req <= n /\ \A a \in Items(c, out) : a.req < m.req
      /\ \A k \in Among(Tail(in)) : m.req < k.req
  BY RequestTaken DEF Ordered
<1>2. /\ d.debounce = c.debounce /\ d.input = c.input /\ d.threads = c.threads \cup {t} /\ d.idle = c.idle
      /\ c.debounce \in Nat /\ c.input \in Nat
  BY DEF ClientState
<1>3. /\ Items(d, out) = Items(c, out) \cup {t} /\ \A a \in Items(c, out) : a.req \in Nat
      /\ \A a \in c.threads : a \in Items(c, out)
  BY <1>2, ItemsTyped DEF Items
<1>4. t.req = m.req
  OBVIOUS
<1> HIDE DEF m
<1>5. Asked(d, Tail(in), out, n)
  BY <1>1, <1>2, <1>3, <1>4 DEF Asked
<1>6. \A a \in Items(c, out) : a.req # t.req
  BY <1>1, <1>3, <1>4
<1>7. Numbered(d, out, n)
  <2>1. ASSUME NEW a \in Items(c, out) \cup {t}
        PROVE  /\ a.req <= n /\ a.input <= d.input
               /\ d.debounce # 0 => a.req # d.debounce /\ (a.input # 0 => a.req < d.debounce)
    <3>1. CASE a \in Items(c, out)
      BY <1>2, <3>1 DEF Ordered, Numbered
    <3>2. CASE a = t
      BY <1>1, <1>2, <1>4, <3>2
    <3> QED BY <3>1, <3>2
  <2>2. ASSUME NEW a \in Items(c, out) \cup {t}, NEW b \in Items(c, out) \cup {t}, a.input # 0, b.input # 0
        PROVE  a.input < b.input <=> a.req < b.req
    <3>1. a # t /\ b # t
      BY <2>2
    <3> QED BY <2>2, <3>1 DEF Ordered, Numbered
  <2>3. ASSUME NEW a \in d.threads, NEW b \in d.threads, a.req = b.req PROVE a = b
    BY <1>2, <1>3, <1>6, <2>3 DEF Ordered, Numbered
  <2> QED BY <1>3, <2>1, <2>2, <2>3 DEF Numbered
<1>8. Told(d, out)
  <2>1. Told(c, out)
    BY DEF Ordered
  <2> QED BY <1>2, <1>6, <2>1, Started
<1> QED BY <1>5, <1>7, <1>8 DEF Ordered

LEMMA OrderedDebounced ==
  ASSUME NEW c \in ClientState, NEW in \in Seq(Request), NEW out \in Seq(Response), NEW n \in Nat,
         c.debounce # 0, Ordered(c, in, out, n), NEW t \in Thread, t.req = c.debounce, t.input = c.input + 1,
         NEW d \in ClientState,
         d = [c EXCEPT !.debounce = 0, !.input = c.input + 1, !.threads = @ \cup {t}]
  PROVE  Ordered(d, in, out, n)
<1>1. /\ d.debounce = 0 /\ d.input = c.input + 1 /\ d.threads = c.threads \cup {t} /\ d.idle = c.idle
      /\ c.debounce \in Nat /\ c.input \in Nat
  BY DEF ClientState
<1>2. /\ Items(d, out) = Items(c, out) \cup {t} /\ \A a \in Items(c, out) : a.req \in Nat /\ a.input \in Nat
      /\ \A a \in c.threads : a \in Items(c, out)
  BY <1>1, ItemsTyped DEF Items
<1>3. \A m \in Among(in) : m.req \in Nat
  <2> SUFFICES ASSUME NEW i \in DOMAIN in PROVE in[i].req \in Nat
    BY DEF Among
  <2>1. in[i] \in Request
    BY ElementOfSeq, LenProperties
  <2> QED BY <2>1 DEF Request
<1>4. Asked(d, in, out, n)
  BY <1>1, <1>2, <1>3 DEF Ordered, Asked
<1>5. /\ c.debounce <= n
      /\ \A a \in Items(c, out) : /\ a.req <= n /\ a.input <= c.input /\ a.req # c.debounce
                                  /\ a.input # 0 => a.req < c.debounce
  BY DEF Ordered, Asked, Numbered
<1>6. Numbered(d, out, n)
  <2>1. ASSUME NEW a \in Items(c, out) \cup {t} PROVE a.req <= n /\ a.input <= c.input + 1
    BY <1>1, <1>2, <1>5
  <2>2. ASSUME NEW a \in Items(c, out) \cup {t}, NEW b \in Items(c, out) \cup {t}, a.input # 0, b.input # 0
        PROVE  a.input < b.input <=> a.req < b.req
    <3>1. CASE a = t /\ b = t
      BY <1>1, <3>1
    <3>2. CASE a = t /\ b # t
      <4>1. b \in Items(c, out) /\ b.input <= c.input /\ b.req < c.debounce /\ b.req \in Nat /\ b.input \in Nat
        BY <1>2, <1>5, <2>2, <3>2
      <4> QED BY <1>1, <3>2, <4>1
    <3>3. CASE a # t /\ b = t
      <4>1. a \in Items(c, out) /\ a.input <= c.input /\ a.req < c.debounce /\ a.req \in Nat /\ a.input \in Nat
        BY <1>2, <1>5, <2>2, <3>3
      <4> QED BY <1>1, <3>3, <4>1
    <3>4. CASE a # t /\ b # t
      BY <2>2, <3>4 DEF Ordered, Numbered
    <3> QED BY <3>1, <3>2, <3>3, <3>4
  <2>3. ASSUME NEW a \in d.threads, NEW b \in d.threads, a.req = b.req PROVE a = b
    BY <1>1, <1>2, <1>5, <2>3 DEF Ordered, Numbered
  <2> QED BY <1>1, <1>2, <2>1, <2>2, <2>3 DEF Numbered
<1>7. Told(d, out)
  <2>1. Told(c, out) /\ \A a \in Items(c, out) : a.req # t.req
    BY <1>5 DEF Ordered
  <2> QED BY <1>1, <2>1, Started
<1> QED BY <1>4, <1>6, <1>7 DEF Ordered

LEMMA OrderedEnds ==
  ASSUME NEW c \in ClientState, NEW in, NEW out \in Seq(Response), NEW n \in Nat,
         Ordered(c, in, out, n), NEW t, NEW d \in ClientState, d = [c EXCEPT !.threads = @ \ {t}]
  PROVE  Ordered(d, in, out, n)
<1>1. /\ d.debounce = c.debounce /\ d.input = c.input /\ d.threads \subseteq c.threads /\ d.idle = c.idle
  BY DEF ClientState
<1>2. Asked(d, in, out, n) /\ Numbered(d, out, n)
  BY <1>1, Fewer DEF Items, Ordered
<1>3. Told(d, out)
  BY <1>1 DEF Ordered, Told, Closed
<1> QED BY <1>2, <1>3 DEF Ordered

\* What a handler says is said before it ends.
LEMMA OrderedEmits ==
  ASSUME NEW c \in ClientState, NEW in, NEW out \in Seq(Response), NEW n \in Nat,
         Ordered(c, in, out, n), NEW t \in c.threads, NEW r \in Response, NEW next \in SUBSET Thread,
         r.req = t.req, r.input = t.input,
         next = {} \/ (Streams(r) /\ next = {[t EXCEPT !.batches = @ + 1]}),
         NEW d \in ClientState, d = [c EXCEPT !.threads = (@ \ {t}) \cup next, !.idle = Append(@, r)]
  PROVE  Ordered(d, in, out, n)
<1>1. /\ d.debounce = c.debounce /\ d.input = c.input /\ d.threads = (c.threads \ {t}) \cup next
      /\ d.idle = Append(c.idle, r) /\ c.idle \in Seq(Response) /\ c.threads \subseteq Thread
  BY DEF ClientState
<1>2. Among(d.idle) = Among(c.idle) \cup {r}
  BY <1>1, AmongAppend
<1>3. \A u \in next : u.req = t.req /\ u.input = t.input /\ Streams(r)
  BY <1>1 DEF Thread
<1>4. \A u \in next : next = {u}
  OBVIOUS
<1>5. t \in Items(c, out)
  BY DEF Items
<1>6. ASSUME NEW a \in Items(d, out)
      PROVE  \E b \in Items(c, out) : a.req = b.req /\ a.input = b.input
  <2>1. CASE a \in Items(c, out)
    BY <2>1
  <2>2. CASE a \in next \cup {r}
    BY <1>3, <1>5, <2>2
  <2> QED BY <1>1, <1>2, <1>6, <2>1, <2>2 DEF Items
<1>7. Asked(d, in, out, n)
  <2>1. ASSUME NEW m \in Among(in), NEW a \in Items(d, out) PROVE a.req < m.req
    BY <1>6 DEF Ordered, Asked
  <2> QED BY <1>1, <2>1 DEF Ordered, Asked
<1>8. Numbered(d, out, n)
  <2>1. ASSUME NEW a \in Items(d, out)
        PROVE  /\ a.req <= n /\ a.input <= d.input
               /\ d.debounce # 0 => a.req # d.debounce /\ (a.input # 0 => a.req < d.debounce)
    BY <1>1, <1>6 DEF Ordered, Numbered
  <2>2. ASSUME NEW a \in Items(d, out), NEW b \in Items(d, out), a.input # 0, b.input # 0
        PROVE  a.input < b.input <=> a.req < b.req
    <3>1. PICK a1 \in Items(c, out) : a.req = a1.req /\ a.input = a1.input
      BY <1>6
    <3>2. PICK b1 \in Items(c, out) : b.req = b1.req /\ b.input = b1.input
      BY <1>6
    <3> QED BY <2>2, <3>1, <3>2 DEF Ordered, Numbered
  <2>3. ASSUME NEW a \in d.threads, NEW b \in d.threads, a.req = b.req PROVE a = b
    <3>1. \A e \in c.threads \ {t} : e.req # t.req
      BY DEF Ordered, Numbered
    <3> QED BY <1>1, <1>3, <1>4, <2>3, <3>1 DEF Ordered, Numbered
  <2> QED BY <2>1, <2>2, <2>3 DEF Numbered
<1>9. Told(d, out)
  <2>1. Closed(Among(c.idle), {r})
    BY DEF Ordered, Told, Closed
  <2>2. InOrder(d.idle)
    BY <1>1, <2>1, InOrderAppend DEF Ordered, Told
  <2>3. Closed(Among(out), Among(d.idle) \cup d.threads)
    BY <1>1, <1>2, <1>3 DEF Ordered, Told, Closed
  <2>4. Closed(Among(d.idle), d.threads)
    <3>1. \A e \in c.threads \ {t} : e.req # t.req
      BY DEF Ordered, Numbered
    <3> QED BY <1>1, <1>2, <1>3, <3>1 DEF Ordered, Told, Closed
  <2> QED BY <2>2, <2>3, <2>4 DEF Ordered, Told
<1> QED BY <1>7, <1>8, <1>9 DEF Ordered

\* The main loop of the extension drops a response of a superseded input.
LEMMA OrderedDropped ==
  ASSUME NEW c \in ClientState, NEW in, NEW out \in Seq(Response), NEW n \in Nat,
         Ordered(c, in, out, n), c.idle # <<>>,
         NEW d \in ClientState, d.idle = Tail(c.idle), d.threads = c.threads,
         d.debounce = c.debounce, d.input = c.input
  PROVE  Ordered(d, in, out, n)
<1>1. c.idle \in Seq(Response)
  BY DEF ClientState
<1>2. Among(d.idle) \subseteq Among(c.idle) /\ InOrder(d.idle)
  BY <1>1, AmongTail, InOrderTail DEF Ordered, Told
<1>3. Asked(d, in, out, n) /\ Numbered(d, out, n)
  BY <1>2, Fewer DEF Items, Ordered
<1>4. Told(d, out)
  BY <1>2 DEF Ordered, Told, Closed
<1> QED BY <1>3, <1>4 DEF Ordered

\* It sends one that is not superseded: no later input was answered.
LEMMA OrderedAnswered ==
  ASSUME NEW c \in ClientState, NEW in, NEW out \in Seq(Response), NEW n \in Nat,
         Ordered(c, in, out, n), c.idle # <<>>,
         NEW d \in ClientState, d.idle = Tail(c.idle), d.threads = c.threads,
         d.debounce = c.debounce, d.input = c.input,
         NEW r \in Response, r.req = Head(c.idle).req, r.type = Head(c.idle).type,
         r.final = Head(c.idle).final, r.input = Head(c.idle).input,
         r.input = 0 \/ r.input = c.input
  PROVE  Ordered(d, in, Append(out, r), n)
<1> DEFINE m == Head(c.idle)
<1>1. c.idle \in Seq(Response) /\ m \in Among(c.idle)
  BY AmongTail DEF ClientState
<1>2. Among(Append(out, r)) = Among(out) \cup {r} /\ Among(d.idle) \subseteq Among(c.idle)
  BY <1>1, AmongAppend, AmongTail
<1>3. r.req = m.req /\ r.input = m.input /\ (Streams(r) <=> Streams(m))
  BY DEF Streams
<1>4. InOrder(d.idle) /\ Closed({m}, Among(d.idle))
  BY <1>1, InOrderTail DEF Ordered, Told
<1> HIDE DEF m
<1>5. m \in Items(c, out) /\ \A a \in Items(d, Append(out, r)) : a \in Items(c, out) \/ a = r
  BY <1>1, <1>2 DEF Items
<1>6. ASSUME NEW a \in Items(d, Append(out, r))
      PROVE  \E b \in Items(c, out) : a.req = b.req /\ a.input = b.input
  BY <1>3, <1>5
<1>7. Asked(d, in, Append(out, r), n)
  <2>1. ASSUME NEW k \in Among(in), NEW a \in Items(d, Append(out, r)) PROVE a.req < k.req
    BY <1>6 DEF Ordered, Asked
  <2> QED BY <2>1 DEF Ordered, Asked
<1>8. Numbered(d, Append(out, r), n)
  <2>1. ASSUME NEW a \in Items(d, Append(out, r))
        PROVE  /\ a.req <= n /\ a.input <= d.input
               /\ d.debounce # 0 => a.req # d.debounce /\ (a.input # 0 => a.req < d.debounce)
    BY <1>6 DEF Ordered, Numbered
  <2>2. ASSUME NEW a \in Items(d, Append(out, r)), NEW b \in Items(d, Append(out, r)), a.input # 0, b.input # 0
        PROVE  a.input < b.input <=> a.req < b.req
    <3>1. PICK a1 \in Items(c, out) : a.req = a1.req /\ a.input = a1.input
      BY <1>6
    <3>2. PICK b1 \in Items(c, out) : b.req = b1.req /\ b.input = b1.input
      BY <1>6
    <3> QED BY <2>2, <3>1, <3>2 DEF Ordered, Numbered
  <2> QED BY <2>1, <2>2 DEF Ordered, Numbered
<1>9. Told(d, Append(out, r))
  <2>1. Closed(Among(out), {r})
    BY <1>1, <1>3 DEF Ordered, Told, Closed
  <2>2. InOrder(Append(out, r))
    BY <2>1, InOrderAppend DEF Ordered, Told
  <2>3. Closed(Among(Append(out, r)), Among(d.idle) \cup d.threads)
    <3>1. Closed({r}, Among(d.idle) \cup d.threads)
      BY <1>1, <1>3, <1>4 DEF Ordered, Told, Closed
    <3> QED BY <1>2, <3>1 DEF Ordered, Told, Closed
  <2>4. Closed(Among(d.idle), d.threads)
    BY <1>2 DEF Ordered, Told, Closed
  <2>5. ASSUME NEW i \in DOMAIN Append(out, r), NEW j \in DOMAIN Append(out, r), i < j,
               Append(out, r)[i].input # 0, Append(out, r)[j].input # 0
        PROVE  Append(out, r)[i].input <= Append(out, r)[j].input
    <3>1. /\ Len(out) \in Nat /\ DOMAIN out = 1..Len(out) /\ Append(out, r) \in Seq(Response)
          /\ DOMAIN Append(out, r) = 1..(Len(out) + 1)
          /\ \A k \in 1..Len(out) : Append(out, r)[k] = out[k]
          /\ Append(out, r)[Len(out) + 1] = r
      BY AppendProperties, LenProperties
    <3>2. i \in DOMAIN out /\ Append(out, r)[i] = out[i]
      BY <2>5, <3>1
    <3>3. CASE j \in DOMAIN out
      BY <2>5, <3>1, <3>2, <3>3 DEF Ordered, Told
    <3>4. CASE j = Len(out) + 1
      <4>1. out[i] \in Items(c, out)
        BY <3>2 DEF Items, Among
      <4>2. out[i].input <= c.input
        BY <4>1 DEF Ordered, Numbered
      <4> QED BY <2>5, <3>1, <3>2, <3>4, <4>2
    <3> QED BY <3>1, <3>3, <3>4
  <2> QED BY <1>4, <2>2, <2>3, <2>4, <2>5 DEF Told
<1> QED BY <1>7, <1>8, <1>9 DEF Ordered

OrderedInv == \A x \in Exts : Ordered(client[x], toExt[x], toApp[x], app.req)

LEMMA OrderedInit == Init => OrderedInv
<1> SUFFICES ASSUME Init, NEW x \in Exts PROVE Ordered(client[x], toExt[x], toApp[x], app.req)
  BY DEF OrderedInv
<1>1. client[x] = NewClient /\ toExt[x] = <<>> /\ toApp[x] = <<>> /\ app.req = 0
  BY DEF Init, WireInit, CoreInit, ClientInit
<1>2. /\ NewClient.debounce = 0 /\ NewClient.threads = {} /\ NewClient.idle = <<>>
      /\ Among(<<>>) = {}
  BY DEF NewClient, Among
<1> QED BY <1>1, <1>2 DEF Ordered, Asked, Numbered, Told, InOrder, Closed, Items

\* Nothing was said by a process that has just started, or is gone.
LEMMA OrderedNew == \A n \in Nat : Ordered(NewClient, <<>>, <<>>, n)
<1> SUFFICES ASSUME NEW n \in Nat PROVE Ordered(NewClient, <<>>, <<>>, n)
  OBVIOUS
<1>1. /\ NewClient.debounce = 0 /\ NewClient.threads = {} /\ NewClient.idle = <<>>
      /\ Among(<<>>) = {}
  BY DEF NewClient, Among
<1> QED BY <1>1 DEF Ordered, Asked, Numbered, Told, InOrder, Closed, Items

\* A step of one extension's process leaves the others in order.
LEMMA OrderedClient ==
  ASSUME QueryInv, OrderedInv, NEW x \in Exts, Client(x), UNCHANGED app
  PROVE  OrderedInv'
<1>1. /\ TypeOK /\ client \in [Exts -> ClientState] /\ client[x] \in ClientState
      /\ toExt \in [Exts -> Seq(Request)] /\ toApp \in [Exts -> Seq(Response)] /\ app.req \in Nat
      /\ Ordered(client[x], toExt[x], toApp[x], app.req)
  BY DEF QueryInv, TypeOK, WireTypeOK, ClientTypeOK, ClientState, CoreTypeOK, OrderedInv
<1> DEFINE c == client[x]
           n == app.req
<1>2. ASSUME NEW in, NEW out, NEW d, Ordered(d, in, out, n), client' = [client EXCEPT ![x] = d],
             toExt' = [toExt EXCEPT ![x] = in], toApp' = [toApp EXCEPT ![x] = out]
      PROVE  OrderedInv'
  <2>1. ASSUME NEW y \in Exts PROVE Ordered(client'[y], toExt'[y], toApp'[y], app'.req)
    <3>1. CASE y = x
      BY <1>1, <1>2, <3>1
    <3>2. CASE y # x
      BY <1>1, <1>2, <3>2 DEF OrderedInv
    <3> QED BY <3>1, <3>2
  <2> QED BY <2>1 DEF OrderedInv
<1>3. [toExt EXCEPT ![x] = toExt[x]] = toExt /\ [toApp EXCEPT ![x] = toApp[x]] = toApp
      /\ [client EXCEPT ![x] = c] = client
  BY <1>1
<1>4. CASE OnMessage(x)
  <2> DEFINE m == Head(toExt[x])
  <2>1. /\ toExt[x] # <<>> /\ m \in Request
        /\ toExt' = [toExt EXCEPT ![x] = Tail(toExt[x])] /\ UNCHANGED <<status, toApp, used>>
        /\ \/ client' = client
           \/ client' = [client EXCEPT ![x] = [c EXCEPT !.debounce = m.req]]
           \/ \E t \in Thread : /\ t.req = m.req /\ t.input = 0
                                /\ client' = [client EXCEPT ![x] = [c EXCEPT !.threads = @ \cup {t}]]
    BY <1>1, <1>4, OnMessageIs
  <2>2. toExt[x] \in Seq(Request) /\ toApp[x] \in Seq(Response)
    BY <1>1
  <2>3. CASE client' = client
    <3>1. Ordered(c, Tail(toExt[x]), toApp[x], n)
      BY <1>1, <2>1, <2>2, RequestTaken DEF Ordered
    <3> QED BY <1>2, <1>3, <2>1, <2>3, <3>1
  <2>4. CASE client' = [client EXCEPT ![x] = [c EXCEPT !.debounce = m.req]]
    <3> DEFINE d == [c EXCEPT !.debounce = m.req]
    <3>1. d \in ClientState
      BY <1>1, <2>1 DEF ClientState, Request
    <3>2. Ordered(d, Tail(toExt[x]), toApp[x], n)
      BY <1>1, <2>1, <2>2, <3>1, OrderedInput
    <3> HIDE DEF d
    <3> QED BY <1>2, <1>3, <2>1, <2>4, <3>2 DEF d
  <2>5. ASSUME NEW t \in Thread, t.req = m.req, t.input = 0,
               client' = [client EXCEPT ![x] = [c EXCEPT !.threads = @ \cup {t}]]
        PROVE  OrderedInv'
    <3> DEFINE d == [c EXCEPT !.threads = @ \cup {t}]
    <3>1. d \in ClientState
      BY <1>1 DEF ClientState
    <3>2. Ordered(d, Tail(toExt[x]), toApp[x], n)
      BY <1>1, <2>1, <2>2, <2>5, <3>1, OrderedActivation
    <3> HIDE DEF d
    <3> QED BY <1>2, <1>3, <2>1, <2>5, <3>2 DEF d
  <2> QED BY <2>1, <2>3, <2>4, <2>5
<1>5. CASE Debounced(x)
  <2>1. /\ c.debounce # 0 /\ UNCHANGED wireVars
        /\ \E t \in Thread :
              /\ t.req = c.debounce /\ t.input = c.input + 1
              /\ client' = [client EXCEPT ![x] = [c EXCEPT !.debounce = 0, !.input = c.input + 1,
                                                           !.threads = @ \cup {t}]]
    BY <1>1, <1>5, DebouncedIs
  <2>2. PICK t \in Thread :
              /\ t.req = c.debounce /\ t.input = c.input + 1
              /\ client' = [client EXCEPT ![x] = [c EXCEPT !.debounce = 0, !.input = c.input + 1,
                                                           !.threads = @ \cup {t}]]
    BY <2>1
  <2> DEFINE d == [c EXCEPT !.debounce = 0, !.input = c.input + 1, !.threads = @ \cup {t}]
  <2>3. d \in ClientState
    <3>1. c.input + 1 \in Nat
      BY <1>1 DEF ClientState
    <3> QED BY <1>1, <3>1 DEF ClientState
  <2>4. toExt[x] \in Seq(Request) /\ toApp[x] \in Seq(Response)
    BY <1>1
  <2>5. Ordered(d, toExt[x], toApp[x], n)
    BY <1>1, <2>1, <2>2, <2>3, <2>4, OrderedDebounced
  <2> HIDE DEF d
  <2> QED BY <1>2, <1>3, <2>1, <2>2, <2>5 DEF d, wireVars
<1>6. CASE Handler(x)
  <2>1. /\ UNCHANGED <<status, toExt, toApp>>
        /\ \E t \in c.threads :
             \/ client' = [client EXCEPT ![x] = [c EXCEPT !.threads = @ \ {t}]]
             \/ \E r \in Response : \E next \in SUBSET Thread :
                  /\ r.req = t.req /\ r.input = t.input /\ Stamped(x, r)
                  /\ r.type = "query" => "query" \in ActivationReplies
                  /\ Said(t, r)
                  /\ next = {} \/ (Streams(r) /\ next = {[t EXCEPT !.batches = @ + 1]})
                  /\ client' = [client EXCEPT ![x] = [c EXCEPT !.threads = (@ \ {t}) \cup next,
                                                               !.idle = Append(@, r)]]
    BY <1>1, <1>6, HandlerIs
  <2>2. toApp[x] \in Seq(Response)
    BY <1>1
  <2>3. ASSUME NEW t, client' = [client EXCEPT ![x] = [c EXCEPT !.threads = @ \ {t}]]
        PROVE  OrderedInv'
    <3> DEFINE d == [c EXCEPT !.threads = @ \ {t}]
    <3>1. d \in ClientState
      BY <1>1 DEF ClientState
    <3>2. Ordered(d, toExt[x], toApp[x], n)
      BY <1>1, <2>2, <3>1, OrderedEnds
    <3> HIDE DEF d
    <3> QED BY <1>2, <1>3, <2>1, <2>3, <3>2 DEF d
  <2>4. ASSUME NEW t \in c.threads, NEW r \in Response, NEW next \in SUBSET Thread,
               r.req = t.req, r.input = t.input,
               next = {} \/ (Streams(r) /\ next = {[t EXCEPT !.batches = @ + 1]}),
               client' = [client EXCEPT ![x] = [c EXCEPT !.threads = (@ \ {t}) \cup next, !.idle = Append(@, r)]]
        PROVE  OrderedInv'
    <3> DEFINE d == [c EXCEPT !.threads = (@ \ {t}) \cup next, !.idle = Append(@, r)]
    <3>1. d \in ClientState
      <4>1. c.idle \in Seq(Response) /\ Append(c.idle, r) \in Seq(Response)
        BY <1>1, AppendProperties DEF ClientState
      <4> QED BY <1>1, <4>1 DEF ClientState
    <3>2. Ordered(d, toExt[x], toApp[x], n)
      BY <1>1, <2>2, <2>4, <3>1, OrderedEmits
    <3> HIDE DEF d
    <3> QED BY <1>2, <1>3, <2>1, <2>4, <3>2 DEF d
  <2> QED BY <2>1, <2>3, <2>4
<1>7. CASE SendResponse(x)
  <2> DEFINE m == Head(c.idle)
  <2>1. /\ c.idle # <<>> /\ UNCHANGED <<status, toExt, used>>
        /\ \E k \in ClientState :
             /\ client' = [client EXCEPT ![x] = k]
             /\ k.idle = Tail(c.idle) /\ k.threads = c.threads
             /\ k.debounce = c.debounce /\ k.input = c.input
        /\ \/ Superseded(x, m.input) /\ toApp' = toApp
           \/ /\ ~Superseded(x, m.input)
              /\ \E r \in Response :
                   /\ toApp' = [toApp EXCEPT ![x] = Append(toApp[x], r)]
                   /\ r.req = m.req /\ r.type = m.type /\ r.final = m.final /\ r.input = m.input
                   /\ Stamped(x, m) => Stamped(x, r)
    BY <1>1, <1>7, SendResponseIs
  <2>2. PICK d \in ClientState :
             /\ client' = [client EXCEPT ![x] = d]
             /\ d.idle = Tail(c.idle) /\ d.threads = c.threads
             /\ d.debounce = c.debounce /\ d.input = c.input
    BY <2>1
  <2>3. toApp[x] \in Seq(Response)
    BY <1>1
  <2>4. CASE toApp' = toApp
    <3>1. Ordered(d, toExt[x], toApp[x], n)
      BY <1>1, <2>1, <2>2, <2>3, OrderedDropped
    <3> QED BY <1>2, <1>3, <2>1, <2>2, <2>4, <3>1
  <2>5. ASSUME ~Superseded(x, m.input), NEW r \in Response, toApp' = [toApp EXCEPT ![x] = Append(toApp[x], r)],
               r.req = m.req, r.type = m.type, r.final = m.final, r.input = m.input
        PROVE  OrderedInv'
    <3>1. r.input = 0 \/ r.input = c.input
      BY <2>5 DEF Superseded
    <3>2. Ordered(d, toExt[x], Append(toApp[x], r), n)
      BY <1>1, <2>1, <2>2, <2>3, <2>5, <3>1, OrderedAnswered
    <3> QED BY <1>2, <1>3, <2>1, <2>2, <2>5, <3>2
  <2> QED BY <2>1, <2>4, <2>5
<1> QED BY <1>4, <1>5, <1>6, <1>7 DEF Client

LEMMA OrderedStep ==
  ASSUME QueryInv, OrderedInv, [Next]_vars
  PROVE  OrderedInv'
<1>1. /\ TypeOK /\ app \in AppState /\ client \in [Exts -> ClientState] /\ app.req \in Nat
      /\ toExt \in [Exts -> Seq(Request)] /\ toApp \in [Exts -> Seq(Response)]
  BY AppTyped DEF QueryInv, TypeOK, WireTypeOK, ClientTypeOK, ClientState, AppState
<1>2. CASE (User \/ MainLoop) /\ UNCHANGED client
  <2>1. PICK s \in AppState : App(s) /\ MainStep(s)
    BY <1>2, MainLoopIs DEF QueryInv
  <2> SUFFICES ASSUME NEW x \in Exts PROVE Ordered(client'[x], toExt'[x], toApp'[x], app'.req)
    BY DEF OrderedInv
  <2> DEFINE c == client[x]
             n == app.req
  <2>2. c \in ClientState /\ toExt[x] \in Seq(Request) /\ toApp[x] \in Seq(Response)
        /\ Ordered(c, toExt[x], toApp[x], n)
    BY <1>1 DEF OrderedInv
  <2>3. app'.req \in {n, n + 1}
        /\ \/ toExt'[x] \in {toExt[x], <<>>}
           \/ \E m \in Request : /\ app'.req = n + 1 /\ m.req = app'.req
                                 /\ toExt'[x] = Append(toExt[x], m)
    BY <1>2, MainLoopSends
  <2>4. toApp'[x] \in Seq(Response) /\ (toApp'[x] = toApp[x] \/ (toApp[x] # <<>> /\ toApp'[x] = Tail(toApp[x])))
    <3>1. CASE toApp' = toApp
      BY <2>2, <3>1
    <3>2. ASSUME NEW y \in Exts, Receives(s, y)
          PROVE  toApp'[x] = toApp[x] \/ (toApp[x] # <<>> /\ toApp'[x] = Tail(toApp[x]))
      BY <1>1, <3>2 DEF Receives
    <3>3. toApp'[x] = toApp[x] \/ (toApp[x] # <<>> /\ toApp'[x] = Tail(toApp[x]))
      BY <2>1, <3>1, <3>2 DEF MainStep
    <3> QED BY <2>2, <3>3, HeadTailProperties
  <2> HIDE DEF c, n
  <2>5. Ordered(c, toExt'[x], toApp[x], app'.req)
    <3>1. n \in Nat
      BY <1>1 DEF n
    <3> QED BY <2>2, <2>3, <3>1, OrderedSent
  <2>6. Ordered(c, toExt'[x], toApp'[x], app'.req)
    <3>1. app'.req \in Nat
      BY <1>1, <2>3 DEF n
    <3> QED BY <2>2, <2>4, <2>5, <3>1, OrderedReceived
  <2> QED BY <1>2, <2>6 DEF c
<1>3. CASE (\E x \in Exts : Client(x)) /\ UNCHANGED app
  BY <1>3, OrderedClient
<1>4. ASSUME app'.req = app.req, UNCHANGED <<toExt, toApp, client>>
      PROVE  OrderedInv'
  BY <1>4 DEF OrderedInv
<1>5. ASSUME app'.req = app.req, NEW x \in Exts, NEW now, Gone(x, now)
      PROVE  OrderedInv'
  <2> SUFFICES ASSUME NEW y \in Exts PROVE Ordered(client'[y], toExt'[y], toApp'[y], app'.req)
    BY DEF OrderedInv
  <2>1. CASE y = x
    BY <1>1, <1>5, <2>1, OrderedNew DEF Gone
  <2>2. CASE y # x
    BY <1>1, <1>5, <2>2 DEF Gone, OrderedInv
  <2> QED BY <2>1, <2>2
<1>6. ASSUME NEW x \in Exts, StopExtension(x)
      PROVE  OrderedInv'
  <2>1. Gone(x, "stopped") /\ (app' = [app EXCEPT !.open = 0] \/ app' = app)
    BY <1>6 DEF StopExtension
  <2>2. app'.req = app.req
    BY <1>1, <2>1 DEF AppState
  <2> QED BY <1>5, <2>1, <2>2
<1>7. ASSUME NEW x \in Exts, StartExtension(x)
      PROVE  OrderedInv'
  <2>1. UNCHANGED <<toExt, toApp, client>> /\ \E b : app' = [app EXCEPT !.reload = b]
    BY <1>7 DEF StartExtension
  <2>2. app'.req = app.req
    BY <1>1, <2>1 DEF AppState
  <2> QED BY <1>4, <2>1, <2>2
<1>8. ASSUME NEW x \in Exts, ExtensionFails(x)
      PROVE  OrderedInv'
  <2> DEFINE u == [app EXCEPT !.open = 0, !.loading = FALSE, !.pending = FALSE]
             v == [app EXCEPT !.open = 0, !.pending = FALSE]
             t == Errored(app, x)
  <2>1. Gone(x, "down") /\ app' = t
    BY <1>8 DEF ExtensionFails
  <2>2. t = app \/ t = v \/ t = u \/ Delivery(u, t, <<NoticeRow>>, FALSE, TRUE)
    BY <1>1, ErroredIs
  <2>3. u.req = app.req /\ v.req = app.req
    BY <1>1 DEF AppState
  <2> HIDE DEF u, v, t
  <2>4. app'.req = app.req
    BY <2>1, <2>2, <2>3 DEF Delivery, Rest
  <2> QED BY <1>5, <2>1, <2>4
<1>9. ASSUME NEW x \in Exts, LeftStopped(x)
      PROVE  OrderedInv'
  BY <1>4, <1>9 DEF LeftStopped
<1>10. CASE UNCHANGED vars
  BY <1>4, <1>10 DEF vars
<1> QED BY <1>2, <1>3, <1>6, <1>7, <1>8, <1>9, <1>10 DEF Next, Service, Finished

\* On every socket the answers to inputs are in the order of the inputs, and
\* nothing of a request follows its closing response: whatever the extensions
\* answer, how long their handlers run, and what is superseded meanwhile.
THEOREM WireInOrder == Spec => []WireOrdered
<1>1. QueryInv /\ OrderedInv => WireOrdered
  <2> SUFFICES ASSUME QueryInv, OrderedInv, NEW x \in Exts,
                      NEW i \in DOMAIN toApp[x], NEW j \in DOMAIN toApp[x], i < j
               PROVE  /\ {i, j} \subseteq Inputs(toApp[x]) => toApp[x][i].req <= toApp[x][j].req
                      /\ toApp[x][i].req = toApp[x][j].req => Streams(toApp[x][i])
    BY DEF WireOrdered
  <2> DEFINE out == toApp[x]
             c == client[x]
  <2>1. out \in Seq(Response) /\ c \in ClientState /\ Ordered(c, toExt[x], out, app.req)
    BY DEF QueryInv, TypeOK, WireTypeOK, ClientTypeOK, ClientState, OrderedInv
  <2>2. out[i] \in Items(c, out) /\ out[j] \in Items(c, out)
    BY DEF Items, Among
  <2> HIDE DEF out, c
  <2>3. out[i].req \in Nat /\ out[j].req \in Nat /\ out[i].input \in Nat /\ out[j].input \in Nat
    BY <2>1, <2>2, ItemsTyped
  <2>4. out[i].req = out[j].req => Streams(out[i])
    BY <2>1 DEF Ordered, Told, InOrder, out
  <2>5. ASSUME out[i].input # 0, out[j].input # 0
        PROVE  out[i].req <= out[j].req
    <3>1. out[i].input <= out[j].input
      BY <2>1, <2>5 DEF Ordered, Told, out
    <3>2. (out[j].input < out[i].input) <=> (out[j].req < out[i].req)
      BY <2>1, <2>2, <2>5 DEF Ordered, Numbered
    <3> QED BY <2>3, <3>1, <3>2
  <2> QED BY <2>4, <2>5 DEF Inputs, out
<1> QED BY <1>1, OrderedInit, OrderedStep, QueryInvAlways, PTL DEF Spec

(***************************************************************************)
(* What an id names                                                        *)
(***************************************************************************)

\* The rows an app can show without being handed more.
InPlay(s) == Among(s.shown.rows) \cup Among(s.buffer.rows)
Takes(s, t, rows) == InPlay(t) \subseteq InPlay(s) \cup rows \cup {LocalRow, NoticeRow}

LEMMA AmongConcat ==
  ASSUME NEW S, NEW a \in Seq(S), NEW b \in Seq(S)
  PROVE  Among(a \o b) \subseteq Among(a) \cup Among(b)
<1> SUFFICES ASSUME NEW i \in DOMAIN (a \o b) PROVE (a \o b)[i] \in Among(a) \cup Among(b)
  BY DEF Among
<1>1. /\ i \in 1..Len(a) + Len(b) /\ Len(a) \in Nat /\ Len(b) \in Nat
      /\ (a \o b)[i] = IF i <= Len(a) THEN a[i] ELSE b[i - Len(a)]
      /\ DOMAIN a = 1..Len(a) /\ DOMAIN b = 1..Len(b)
  BY ConcatProperties, LenProperties
<1>2. CASE i <= Len(a)
  BY <1>1, <1>2 DEF Among
<1>3. CASE ~(i <= Len(a))
  <2>1. i - Len(a) \in DOMAIN b
    BY <1>1, <1>3
  <2> QED BY <1>1, <1>3, <2>1 DEF Among
<1> QED BY <1>2, <1>3

LEMMA AmongFew ==
  Among(<<>>) = {} /\ Among(<<LocalRow>>) = {LocalRow} /\ Among(<<NoticeRow>>) = {NoticeRow}
<1>1. ASSUME NEW r PROVE Among(<<r>>) = {r}
  <2>1. DOMAIN <<r>> = {1} /\ <<r>>[1] = r
    OBVIOUS
  <2> QED BY <2>1 DEF Among
<1>2. Among(<<>>) = {}
  <2>1. DOMAIN <<>> = {}
    OBVIOUS
  <2> QED BY <2>1 DEF Among
<1> QED BY <1>1, <1>2

LEMMA DeliveryTakes ==
  ASSUME NEW s \in AppState, NEW t, NEW rows \in Seq(Row), NEW append \in BOOLEAN, NEW final \in BOOLEAN,
         Delivery(s, t, rows, append, final)
  PROVE  Takes(s, t, Among(rows))
<1> DEFINE b == Buffered(s.buffer, rows, append)
<1>1. s.buffer \in Buffer(Row) /\ s.buffer.rows \in Seq(Row) /\ s.shown.rows \in Seq(Row)
  BY DEF AppState, Buffer
<1>2. /\ b \in Buffer(Row) /\ b.rows \in Seq(Row)
      /\ b.rows = IF append /\ s.buffer.held THEN s.buffer.rows \o rows ELSE rows
  BY <1>1, BufferTypes DEF Buffer
<1>3. Among(b.rows) \subseteq Among(s.buffer.rows) \cup Among(rows)
  BY <1>1, <1>2, AmongConcat
<1> HIDE DEF b
<1>4. CASE final
  <2>1. t.buffer.rows = <<>> /\ t.shown.rows = IF Extends(b) THEN s.shown.rows \o b.rows ELSE b.rows
    BY <1>4 DEF Delivery, b, PaintedBuffer, NoBuffer
  <2>2. Among(t.shown.rows) \subseteq Among(s.shown.rows) \cup Among(b.rows)
    <3>1. s.shown.rows \in Seq(Row) /\ b.rows \in Seq(Row)
      BY <1>1, <1>2
    <3>2. Among(s.shown.rows \o b.rows) \subseteq Among(s.shown.rows) \cup Among(b.rows)
      BY <3>1, AmongConcat
    <3> QED BY <2>1, <3>2
  <2> QED BY <1>3, <2>1, <2>2, AmongFew DEF Takes, InPlay
<1>5. CASE ~final
  <2>1. t.buffer = [b EXCEPT !.timer = TRUE] /\ t.shown = s.shown
    BY <1>5 DEF Delivery, b
  <2>2. t.buffer.rows = b.rows
    BY <1>2, <2>1 DEF Buffer
  <2> QED BY <1>3, <2>1, <2>2 DEF Takes, InPlay
<1> QED BY <1>4, <1>5

LEMMA QueryTakes ==
  ASSUME NEW s \in AppState, NEW t \in AppState, NEW text \in Texts, NEW final \in BOOLEAN,
         QueryOutcome(s, t, text, final)
  PROVE  Takes(s, t, {})
<1> DEFINE b == Blank(s, text)
           e == [b EXCEPT !.mode = "extension"]
<1>1. b \in AppState /\ e \in AppState /\ b.shown = s.shown /\ b.buffer = NoBuffer /\ e.buffer = NoBuffer
  BY BlankIs
<1>2. e.shown = b.shown
  BY <1>1 DEF AppState
<1>3. Among(NoBuffer.rows) = {}
  BY AmongFew DEF NoBuffer
<1> HIDE DEF b
<1>4. ASSUME NEW u \in AppState, u.shown = s.shown, u.buffer = NoBuffer, NEW row \in {LocalRow, NoticeRow},
             NEW f \in BOOLEAN, Delivery(u, t, <<row>>, FALSE, f)
      PROVE  Takes(s, t, {})
  <2>1. <<row>> \in Seq(Row) /\ Among(<<row>>) = {row}
    BY <1>4, RowTypes, AmongFew
  <2>2. Takes(u, t, {row})
    BY <1>4, <2>1, DeliveryTakes
  <2> QED BY <1>3, <1>4, <2>2 DEF Takes, InPlay
<1>5. ASSUME t.shown = s.shown \/ t.shown.rows = <<>>, t.buffer = NoBuffer
      PROVE  Takes(s, t, {})
  BY <1>3, <1>5, AmongFew DEF Takes, InPlay
<1>6. CASE t = [b EXCEPT !.mode = "none", !.shown = Shown("home", <<>>)]
  <2>1. t.shown.rows = <<>> /\ t.buffer = NoBuffer
    BY <1>1, <1>6 DEF AppState, Shown
  <2> QED BY <1>5, <2>1
<1>7. CASE Delivery([b EXCEPT !.mode = "launcher"], t, <<LocalRow>>, FALSE, final)
  <2> DEFINE u == [b EXCEPT !.mode = "launcher"]
  <2>1. u \in AppState /\ u.shown = s.shown /\ u.buffer = NoBuffer
    BY <1>1 DEF AppState
  <2> HIDE DEF u
  <2> QED BY <1>4, <1>7, <2>1 DEF u
<1>8. CASE Delivery([e EXCEPT !.loading = FALSE], t, <<NoticeRow>>, FALSE, TRUE)
  <2> DEFINE u == [e EXCEPT !.loading = FALSE]
  <2>1. u \in AppState /\ u.shown = s.shown /\ u.buffer = NoBuffer
    BY <1>1, <1>2 DEF AppState
  <2> HIDE DEF u
  <2> QED BY <1>4, <1>8, <2>1 DEF u
<1>9. CASE t = [e EXCEPT !.active = text, !.pending = TRUE, !.loading = TRUE]
  <2>1. t.shown = s.shown /\ t.buffer = NoBuffer
    BY <1>1, <1>2, <1>9 DEF AppState
  <2> QED BY <1>5, <2>1
<1>10. CASE text \in Exts
           /\ t = [e EXCEPT !.loading = FALSE, !.active = text,
                         !.req = s.req + 1, !.pending = TRUE, !.want = <<>>, !.open = s.req + 1,
                         !.sent = [s.sent EXCEPT ![text] = Append(@, InputRequest(s.req + 1))]]
  <2>1. t.shown = s.shown /\ t.buffer = NoBuffer
    BY <1>1, <1>2, <1>10 DEF AppState
  <2> QED BY <1>5, <2>1
<1> QED BY <1>6, <1>7, <1>8, <1>9, <1>10 DEF QueryOutcome, b

LEMMA ResponseTakes ==
  ASSUME WireTypeOK, NEW s \in AppState, NEW x \in Exts, NEW m \in Response, NEW final \in BOOLEAN
  PROVE  Takes(s, ResponseHandled(s, x, m, final), Among(m.rows))
<1> DEFINE t == ResponseHandled(s, x, m, final)
           c == Closing(s, m)
<1>1. CASE t = s
  BY <1>1 DEF Takes
<1>2. ASSUME NEW u \in AppState, EffectOutcome(c, u, m, final),
             t = IF Streams(m) THEN u ELSE [u EXCEPT !.pending = FALSE]
      PROVE  Takes(s, t, Among(m.rows))
  <2>1. c \in AppState /\ c.shown = s.shown /\ c.buffer = s.buffer
    BY DEF Closing, AppState
  <2>2. t.shown = u.shown /\ t.buffer = u.buffer
    BY <1>2 DEF AppState
  <2> HIDE DEF c, t
  <2>3. Takes(c, u, Among(m.rows))
    <3>1. CASE u = c
      BY <3>1 DEF Takes
    <3>2. CASE Delivery(c, u, m.rows, m.append, m.final)
      <4>1. m.rows \in Seq(Row) /\ m.append \in BOOLEAN /\ m.final \in BOOLEAN
        BY DEF Response
      <4> QED BY <2>1, <3>2, <4>1, DeliveryTakes
    <3>3. CASE u = [c EXCEPT !.placeholder = FALSE, !.answered = TRUE]
      <4>1. u.shown = c.shown /\ u.buffer = c.buffer
        BY <2>1, <3>3 DEF AppState
      <4> QED BY <4>1 DEF Takes, InPlay
    <3>4. CASE QueryOutcome([c EXCEPT !.placeholder = FALSE], u, m.query, final)
      <4> DEFINE d == [c EXCEPT !.placeholder = FALSE]
      <4>1. d \in AppState /\ d.shown = c.shown /\ d.buffer = c.buffer /\ m.query \in Texts
        BY <2>1 DEF AppState, Response
      <4>2. QueryOutcome(d, u, m.query, final)
        BY <3>4
      <4> HIDE DEF d
      <4>3. Takes(d, u, {})
        BY <1>2, <4>1, <4>2, QueryTakes
      <4> QED BY <4>1, <4>3 DEF Takes, InPlay
    <3> QED BY <1>2, <3>1, <3>2, <3>3, <3>4 DEF EffectOutcome, c
  <2>4. InPlay(c) = InPlay(s) /\ InPlay(t) = InPlay(u)
    BY <2>1, <2>2 DEF InPlay
  <2> QED BY <2>3, <2>4 DEF Takes, t
<1> QED BY <1>1, <1>2, ResponseHandledIs

\* The rows in the socket towards the app.
RowsIn(ms) == UNION {Among(m.rows) : m \in Among(ms)}
OnTheWay == UNION {RowsIn(toApp[x]) : x \in Exts}

LEMMA MainStepTakes ==
  ASSUME QueryInv, NEW s \in AppState, MainStep(s)
  PROVE  Takes(app, s, OnTheWay)
<1>1. app \in AppState /\ WireTypeOK
  BY AppTyped DEF QueryInv, TypeOK
<1>2. ASSUME NEW u \in AppState, u.shown = app.shown, u.buffer = app.buffer \/ u.buffer = NoBuffer,
             Takes(u, s, {}) \/ s = u
      PROVE  Takes(app, s, OnTheWay)
  <2>1. Among(NoBuffer.rows) = {}
    BY AmongFew DEF NoBuffer
  <2>2. InPlay(u) \subseteq InPlay(app)
    BY <1>2, <2>1 DEF InPlay
  <2> QED BY <1>2, <2>2 DEF Takes
<1>3. ASSUME NEW text \in Texts, Asks(s, text)
      PROVE  Takes(app, s, OnTheWay)
  BY <1>1, <1>2, <1>3, QueryTakes DEF Asks
<1>4. ASSUME Activates(s)
      PROVE  Takes(app, s, OnTheWay)
  <2> DEFINE b == [app EXCEPT !.buffer = NoBuffer]
  <2>1. b \in AppState /\ b.shown = app.shown /\ b.buffer = NoBuffer
    BY <1>1, RowTypes DEF AppState
  <2>2. ASSUME NEW m \in Request, s = Sent(b, m)
        PROVE  s.shown = b.shown /\ s.buffer = b.buffer
    <3> HIDE DEF b
    <3> DEFINE k == [m EXCEPT !.req = b.req + 1]
               u == [b EXCEPT !.req = b.req + 1, !.pending = TRUE, !.want = <<>>, !.open = b.req + 1,
                     !.sent = [b.sent EXCEPT ![b.active] = Append(@, k)]]
    <3>1. s = b \/ s = u
      BY <2>1, <2>2, SentIs
    <3>2. u.shown = b.shown /\ u.buffer = b.buffer
      BY <2>1 DEF AppState
    <3> QED BY <3>1, <3>2
  <2>3. [b EXCEPT !.placeholder = FALSE].shown = b.shown /\ [b EXCEPT !.placeholder = FALSE].buffer = b.buffer
    BY <2>1 DEF AppState
  <2> HIDE DEF b
  <2>4. s.shown = b.shown /\ s.buffer = b.buffer
    BY <1>4, <2>2, <2>3 DEF Activates, b
  <2> QED BY <1>2, <2>1, <2>4
<1>5. ASSUME NEW x \in Exts, Receives(s, x)
      PROVE  Takes(app, s, OnTheWay)
  <2>1. toApp[x] # <<>> /\ toApp[x] \in Seq(Response)
    BY <1>1, <1>5 DEF Receives, WireTypeOK
  <2>2. Head(toApp[x]) \in Response /\ Head(toApp[x]) \in Among(toApp[x])
    BY <2>1, HeadTailProperties, AmongTail
  <2>3. Takes(app, s, Among(Head(toApp[x]).rows))
    BY <1>1, <1>5, <2>2, ResponseTakes DEF Receives
  <2>4. Among(Head(toApp[x]).rows) \subseteq OnTheWay
    BY <2>2 DEF OnTheWay, RowsIn
  <2> QED BY <2>3, <2>4 DEF Takes
<1>6. ASSUME Waited(s)
      PROVE  Takes(app, s, OnTheWay)
  <2>1. s.shown.rows = <<>> /\ s.buffer = app.buffer
    BY <1>1, <1>6 DEF Waited, AppState, Shown
  <2> QED BY <2>1, AmongFew DEF Takes, InPlay
<1>7. ASSUME s = Painted(app)
      PROVE  Takes(app, s, OnTheWay)
  <2>1. app.shown.rows \in Seq(Row) /\ app.buffer.rows \in Seq(Row)
    BY <1>1 DEF AppState, Buffer
  <2>2. s.buffer.rows = <<>> /\ s.shown.rows \in {app.shown.rows \o app.buffer.rows, app.buffer.rows}
    BY <1>1, <1>7, PaintedIs DEF PaintedBuffer, NoBuffer
  <2>3. Among(app.shown.rows \o app.buffer.rows) \subseteq Among(app.shown.rows) \cup Among(app.buffer.rows)
    BY <2>1, AmongConcat
  <2>4. Among(s.shown.rows) \subseteq InPlay(app)
    BY <2>2, <2>3 DEF InPlay
  <2> QED BY <2>2, <2>4, AmongFew DEF Takes, InPlay
<1>8. ASSUME s = LoadingFinished(app, <<>>)
      PROVE  Takes(app, s, OnTheWay)
  <2> DEFINE u == [app EXCEPT !.loading = FALSE, !.pending = FALSE]
  <2>1. u \in AppState /\ u.shown = app.shown /\ u.buffer = app.buffer
    BY <1>1 DEF AppState
  <2>2. s = u \/ Delivery(u, s, <<>>, FALSE, TRUE)
    BY <1>1, <1>8, LoadingFinishedIs, RowTypes
  <2> HIDE DEF u
  <2>3. s = u \/ Takes(u, s, {})
    BY <2>1, <2>2, RowTypes, DeliveryTakes, AmongFew
  <2> QED BY <1>2, <2>1, <2>3
<1>9. ASSUME AsksAgain(s)
      PROVE  Takes(app, s, OnTheWay)
  <2> DEFINE b == [app EXCEPT !.reload = FALSE]
  <2>1. b \in AppState /\ app.text \in Texts /\ b.shown = app.shown /\ b.buffer = app.buffer
    BY <1>1 DEF AppState
  <2>2. \E final \in BOOLEAN : QueryOutcome(b, s, app.text, final)
    BY <1>9 DEF AsksAgain
  <2> HIDE DEF b
  <2>3. Takes(b, s, {})
    BY <2>1, <2>2, QueryTakes
  <2> QED BY <1>2, <2>1, <2>3
<1> QED BY <1>3, <1>4, <1>5, <1>6, <1>7, <1>8, <1>9 DEF MainStep

\* The requests a process is still busy with.
Queue(c, in) == ({c.debounce} \ {0}) \cup {t.req : t \in c.threads \cup Among(c.idle) \cup Among(in)}
\* An activation got the row that was meant.
Exact(t) ==
  t.input = 0 /\ t.meant.ext = t.got.ext /\ t.meant.req = t.got.req => SameResult(t.meant, t.got)
\* The cache holds the results of one request in the order of their ids.
InCache(x, rows, req) == \A i \in DOMAIN rows : rows[i].ext = x /\ rows[i].req = req /\ rows[i].id = i - 1
Held(x, c, in, n) ==
  /\ Queue(c, in) \subseteq 1..n /\ c.cacheReq <= n
  /\ InCache(x, c.cache, c.cacheReq)
  /\ \A m \in Among(c.idle) : m.type # "render" => m.rows = <<>>
  /\ \A t \in c.threads : Exact(t)
\* A row that was sent is the one its id names, or of a request whose results
\* do not come to the cache any more.
Kept(c, in, r) ==
  \/ r.req < c.cacheReq
  \/ r.req = c.cacheReq /\ r.id < Len(c.cache) /\ SameResult(c.cache[r.id + 1], r)
  \/ r.req > c.cacheReq /\ r.req \notin Queue(c, in)

RequestRows == UNION {{m.row : m \in Among(toExt[x])} : x \in Exts}
Carried == InPlay(app) \cup OnTheWay \cup RequestRows
Known(r) == r.ext # NoExt => r.req \in 1..app.req /\ Kept(client[r.ext], toExt[r.ext], r)
IdsInv ==
  /\ \A x \in Exts : Held(x, client[x], toExt[x], app.req)
  /\ \A r \in Carried : Known(r)

\* The requests whose results reach the cache of a process come in their order.
Rising == \A x \in Exts : client'[x].cacheReq >= client[x].cacheReq \/ client'[x].cacheReq = 0

LEMMA CarriedRows ==
  ASSUME QueryInv
  PROVE  Carried \subseteq Row /\ \A r \in Carried : r.ext # NoExt => r.ext \in Exts
<1>1. app \in AppState /\ toApp \in [Exts -> Seq(Response)] /\ toExt \in [Exts -> Seq(Request)]
  BY AppTyped DEF QueryInv, TypeOK, WireTypeOK
<1>2. InPlay(app) \subseteq Row
  <2>1. app.shown.rows \in Seq(Row) /\ app.buffer.rows \in Seq(Row)
    BY <1>1 DEF AppState, Buffer
  <2> QED BY <2>1, ElementOfSeq DEF InPlay, Among
<1>3. ASSUME NEW x \in Exts, NEW m \in Among(toApp[x]) PROVE Among(m.rows) \subseteq Row
  <2>1. m \in Response
    BY <1>1, <1>3, ElementOfSeq DEF Among
  <2>2. m.rows \in Seq(Row)
    BY <2>1 DEF Response
  <2> QED BY <2>2, ElementOfSeq DEF Among
<1>4. ASSUME NEW x \in Exts, NEW m \in Among(toExt[x]) PROVE m.row \in Row
  <2>1. m \in Request
    BY <1>1, <1>4, ElementOfSeq DEF Among
  <2> QED BY <2>1 DEF Request
<1>5. OnTheWay \subseteq Row
  BY <1>3 DEF OnTheWay, RowsIn
<1>6. RequestRows \subseteq Row
  BY <1>4 DEF RequestRows
<1>7. Carried \subseteq Row
  BY <1>2, <1>5, <1>6 DEF Carried
<1> QED BY <1>7 DEF Row

\* A step that leaves the cache keeps what is known of the rows.
LEMMA HeldSame ==
  ASSUME NEW x, NEW c \in ClientState, NEW d \in ClientState, NEW in, NEW next, NEW n \in Nat, NEW k \in Nat,
         Held(x, c, in, n), n <= k, d.cacheReq = c.cacheReq, d.cache = c.cache,
         Queue(d, next) \subseteq Queue(c, in) \cup ((n + 1)..k),
         \A m \in Among(d.idle) : m \in Among(c.idle) \/ (m.type # "render" => m.rows = <<>>),
         \A t \in d.threads : t \in c.threads \/ Exact(t)
  PROVE  /\ Held(x, d, next, k)
         /\ \A r \in Row : r.req \in 1..n /\ Kept(c, in, r) => Kept(d, next, r)
<1>1. c.cacheReq \in Nat
  BY DEF ClientState
<1>2. Queue(d, next) \subseteq 1..k
  BY DEF Held
<1>3. Held(x, d, next, k)
  BY <1>1, <1>2 DEF Held
<1>4. ASSUME NEW r \in Row, r.req \in 1..n, Kept(c, in, r) PROVE Kept(d, next, r)
  <2>1. r.req \notin (n + 1)..k
    BY <1>4
  <2> QED BY <1>4, <2>1 DEF Kept
<1> QED BY <1>3, <1>4

LEMMA NewProcess ==
  ASSUME NEW x, NEW n \in Nat
  PROVE  /\ Held(x, NewClient, <<>>, n)
         /\ \A r \in Row : r.req \in 1..n => Kept(NewClient, <<>>, r)
<1>1. /\ NewClient.debounce = 0 /\ NewClient.threads = {} /\ NewClient.idle = <<>>
      /\ NewClient.cacheReq = 0 /\ NewClient.cache = <<>> /\ Among(<<>>) = {}
  BY AmongFew DEF NewClient
<1>2. Queue(NewClient, <<>>) = {}
  BY <1>1 DEF Queue
<1> QED BY <1>1, <1>2 DEF Held, Kept, InCache

LEMMA WithIdsIs ==
  ASSUME NEW rows \in Seq(Row), NEW cached \in Seq(Row)
  PROVE  LET new == WithIds(rows, cached) IN
         /\ new \in Seq(Row) /\ Len(new) = Len(rows)
         /\ \A i \in 1..Len(new) : /\ new[i].ext = rows[i].ext /\ new[i].req = rows[i].req
                                   /\ new[i].id = Len(cached) + i - 1
<1> DEFINE new == WithIds(rows, cached)
<1>1. /\ rows \in [1..Len(rows) -> Row] /\ DOMAIN rows = 1..Len(rows)
      /\ Len(rows) \in Nat /\ Len(cached) \in Nat
  BY LenProperties
<1>2. \A i \in DOMAIN rows : ResultId(cached, i) \in Nat /\ ResultId(cached, i) = Len(cached) + i - 1
  BY <1>1 DEF ResultId
<1>3. \A i \in DOMAIN rows : LET r == [rows[i] EXCEPT !.id = ResultId(cached, i)] IN
        r \in Row /\ r.ext = rows[i].ext /\ r.req = rows[i].req /\ r.id = ResultId(cached, i)
  BY <1>1, <1>2 DEF Row
<1>4. new \in [1..Len(rows) -> Row] /\ \A i \in 1..Len(rows) : new[i] = [rows[i] EXCEPT !.id = ResultId(cached, i)]
  BY <1>1, <1>3 DEF WithIds
<1>5. new \in Seq(Row) /\ Len(new) = Len(rows)
  BY <1>1, <1>4
<1> HIDE DEF new
<1>6. ASSUME NEW i \in 1..Len(new)
      PROVE  new[i].ext = rows[i].ext /\ new[i].req = rows[i].req /\ new[i].id = Len(cached) + i - 1
  BY <1>1, <1>2, <1>3, <1>4, <1>5
<1> QED BY <1>5, <1>6 DEF new

\* The next response m goes out with the rows new.
GoesOut(c, d, m, new) ==
  /\ c.idle # <<>> /\ m = Head(c.idle) /\ new = WithIds(m.rows, CacheFor(c, m))
  /\ d.idle = Tail(c.idle) /\ d.threads = c.threads /\ d.debounce = c.debounce
  /\ d.cacheReq = m.req /\ d.cache = CacheFor(c, m) \o new
\* The results of a request that is not older than the cache get ids of their own.
LEMMA HeldSent ==
  ASSUME NEW x, NEW c \in ClientState, NEW d \in ClientState, NEW in, NEW n \in Nat, NEW m \in Response,
         NEW new, GoesOut(c, d, m, new), Held(x, c, in, n), Stamped(x, m), c.cacheReq <= m.req
  PROVE  /\ Held(x, d, in, n)
         /\ \A r \in Row : r.ext = x /\ r.req \in 1..n /\ Kept(c, in, r) => Kept(d, in, r)
         /\ \A r \in Among(new) : r.ext = x /\ r.req \in 1..n /\ Kept(d, in, r)
<1>0. /\ c.idle # <<>> /\ m = Head(c.idle) /\ new = WithIds(m.rows, CacheFor(c, m))
      /\ d.idle = Tail(c.idle) /\ d.threads = c.threads /\ d.debounce = c.debounce
      /\ d.cacheReq = m.req /\ d.cache = CacheFor(c, m) \o new
  BY DEF GoesOut
<1> DEFINE cached == CacheFor(c, m)
           p == Len(cached)
           q == Len(new)
<1>1. /\ c.cache \in Seq(Row) /\ c.cacheReq \in Nat /\ m.req \in Nat /\ m.rows \in Seq(Row)
      /\ c.idle \in Seq(Response) /\ cached \in Seq(Row)
  BY RowTypes DEF ClientState, Response, CacheFor
<1>2. Queue(d, in) \subseteq Queue(c, in) /\ m.req \in Queue(c, in) /\ Among(d.idle) \subseteq Among(c.idle)
  <2>1. Among(Tail(c.idle)) \subseteq Among(c.idle) /\ m \in Among(c.idle)
    BY <1>0, <1>1, AmongTail
  <2> QED BY <1>0, <2>1 DEF Queue
<1>3. m.req \in 1..n /\ Queue(d, in) \subseteq 1..n
  BY <1>2 DEF Held
<1>4. InCache(x, cached, m.req)
  BY DEF CacheFor, Held, InCache
<1> HIDE DEF cached
<1>5. /\ new \in Seq(Row) /\ p \in Nat /\ q \in Nat /\ q = Len(m.rows)
      /\ \A i \in 1..q : new[i].ext = x /\ new[i].req = m.req /\ new[i].id = p + i - 1
  <2> DEFINE w == WithIds(m.rows, cached)
  <2>0. /\ w \in Seq(Row) /\ Len(w) = Len(m.rows)
        /\ \A i \in 1..Len(w) : /\ w[i].ext = m.rows[i].ext /\ w[i].req = m.rows[i].req
                                /\ w[i].id = Len(cached) + i - 1
    BY <1>1, WithIdsIs
  <2> HIDE DEF w
  <2>1. /\ new \in Seq(Row) /\ Len(new) = Len(m.rows)
        /\ \A i \in 1..Len(new) : /\ new[i].ext = m.rows[i].ext /\ new[i].req = m.rows[i].req
                                  /\ new[i].id = Len(cached) + i - 1
    <3>1. new = w
      BY <1>0 DEF w, cached
    <3> QED BY <2>0, <3>1
  <2>2. DOMAIN m.rows = 1..Len(m.rows)
    BY <1>1, LenProperties
  <2>3. q = Len(m.rows) /\ p \in Nat /\ q \in Nat
    BY <1>1, <2>1, LenProperties
  <2>4. \A i \in 1..q : m.rows[i].ext = x /\ m.rows[i].req = m.req
    BY <2>2, <2>3 DEF Stamped
  <2> QED BY <2>1, <2>3, <2>4
<1>6. /\ d.cache = cached \o new /\ Len(d.cache) = p + q /\ DOMAIN d.cache = 1..(p + q)
      /\ \A i \in 1..(p + q) : d.cache[i] = IF i <= p THEN cached[i] ELSE new[i - p]
  <2>1. d.cache = cached \o new
    BY <1>0 DEF cached
  <2>2. cached \in Seq(Row) /\ new \in Seq(Row) /\ p \in Nat /\ q \in Nat
    BY <1>1, <1>5
  <2>3. /\ Len(cached \o new) = p + q /\ cached \o new \in Seq(Row)
        /\ \A i \in 1..(p + q) : (cached \o new)[i] = IF i <= p THEN cached[i] ELSE new[i - p]
    BY <2>2, ConcatProperties
  <2>4. DOMAIN (cached \o new) = 1..(p + q)
    BY <2>3, LenProperties
  <2> QED BY <2>1, <2>3, <2>4
<1>7. InCache(x, d.cache, m.req)
  <2> SUFFICES ASSUME NEW i \in 1..(p + q)
               PROVE  d.cache[i].ext = x /\ d.cache[i].req = m.req /\ d.cache[i].id = i - 1
    BY <1>6 DEF InCache
  <2>1. CASE i <= p
    <3>1. DOMAIN cached = 1..p
      BY <1>1, LenProperties
    <3>2. i \in DOMAIN cached /\ d.cache[i] = cached[i]
      BY <1>5, <1>6, <2>1, <3>1
    <3> QED BY <1>4, <3>2 DEF InCache
  <2>2. CASE ~(i <= p)
    <3>1. i - p \in 1..q /\ d.cache[i] = new[i - p]
      BY <1>5, <1>6, <2>2
    <3>2. p + (i - p) - 1 = i - 1
      BY <1>5
    <3> QED BY <1>5, <3>1, <3>2
  <2> QED BY <2>1, <2>2
<1>8. Held(x, d, in, n)
  BY <1>0, <1>2, <1>3, <1>7 DEF Held
<1>9. ASSUME NEW r \in Row, r.ext = x, r.req \in 1..n, Kept(c, in, r) PROVE Kept(d, in, r)
  <2>1. CASE r.req = m.req
    <3>1. r.req = c.cacheReq /\ r.id < Len(c.cache) /\ SameResult(c.cache[r.id + 1], r)
      BY <1>1, <1>2, <1>9, <2>1 DEF Kept
    <3>2. cached = c.cache
      BY <2>1, <3>1 DEF cached, CacheFor
    <3>3. r.id \in Nat /\ r.id + 1 \in 1..(p + q) /\ r.id + 1 <= p /\ r.id < Len(d.cache)
      <4>1. r.id \in Nat
        BY DEF Row
      <4>2. r.id < p
        BY <3>1, <3>2
      <4> QED BY <1>5, <1>6, <4>1, <4>2
    <3>4. d.cache[r.id + 1] = c.cache[r.id + 1]
      BY <1>6, <3>2, <3>3
    <3> QED BY <1>0, <2>1, <3>1, <3>3, <3>4 DEF Kept
  <2>2. CASE r.req # m.req
    <3>1. r.req < m.req \/ (r.req > m.req /\ r.req > c.cacheReq)
      BY <1>1, <1>9, <2>2
    <3>2. CASE r.req > m.req /\ r.req > c.cacheReq
      <4>1. r.req \notin Queue(c, in)
        BY <1>1, <1>9, <3>2 DEF Kept
      <4> QED BY <1>0, <1>2, <3>2, <4>1 DEF Kept
    <3> QED BY <1>0, <3>1, <3>2 DEF Kept
  <2> QED BY <2>1, <2>2
<1>10. ASSUME NEW r \in Among(new) PROVE r.ext = x /\ r.req \in 1..n /\ Kept(d, in, r)
  <2>1. PICK i \in 1..q : r = new[i]
    BY <1>5, LenProperties DEF Among
  <2>2. r.ext = x /\ r.req = m.req /\ r.id = p + i - 1
    BY <1>5, <2>1
  <2>3. r.id < Len(d.cache) /\ r.id + 1 = p + i /\ p + i \in 1..(p + q) /\ ~(p + i <= p) /\ (p + i) - p = i
    <3>1. p \in Nat /\ q \in Nat /\ i \in 1..q /\ Len(d.cache) = p + q /\ r.id = p + i - 1
      BY <1>5, <1>6, <2>1, <2>2
    <3> QED BY <3>1
  <2>4. d.cache[r.id + 1] = r
    BY <1>6, <2>1, <2>3
  <2> QED BY <1>0, <1>3, <2>2, <2>3, <2>4 DEF Kept, SameResult
<1> QED BY <1>8, <1>9, <1>10 DEF cached

LEMMA IdsInit == Init => IdsInv
<1> SUFFICES ASSUME Init PROVE IdsInv
  OBVIOUS
<1>1. /\ app.req = 0 /\ app.shown.rows = <<>> /\ app.buffer.rows = <<>>
      /\ \A x \in Exts : client[x] = NewClient /\ toExt[x] = <<>> /\ toApp[x] = <<>>
  BY DEF Init, WireInit, CoreInit, ClientInit, Shown, NoBuffer
<1>2. Carried = {}
  BY <1>1, AmongFew DEF Carried, InPlay, OnTheWay, RowsIn, RequestRows
<1>3. \A x \in Exts : Held(x, client[x], toExt[x], app.req)
  BY <1>1, NewProcess
<1> QED BY <1>2, <1>3 DEF IdsInv

\* What an event of the main loop leaves in the sockets.
LEMMA MainLoopRows ==
  ASSUME QueryInv, User \/ MainLoop
  PROVE  /\ Carried' \subseteq Carried \cup {LocalRow, NoticeRow}
         /\ \A x \in Exts : Among(toApp'[x]) \subseteq Among(toApp[x])
<1>1. PICK s \in AppState : App(s) /\ MainStep(s)
  BY MainLoopIs DEF QueryInv
<1>2. toApp \in [Exts -> Seq(Response)] /\ app'.shown = s.shown /\ app'.buffer = s.buffer
      /\ toExt \in [Exts -> Seq(Request)]
  BY <1>1, AppIs DEF QueryInv, TypeOK, WireTypeOK
<1>3. ASSUME NEW x \in Exts PROVE Among(toApp'[x]) \subseteq Among(toApp[x])
  <2>1. CASE toApp' = toApp
    BY <2>1
  <2>2. ASSUME NEW y \in Exts, Receives(s, y) PROVE Among(toApp'[x]) \subseteq Among(toApp[x])
    <3>1. toApp[y] # <<>> /\ toApp'[x] = IF x = y THEN Tail(toApp[y]) ELSE toApp[x]
      BY <1>2, <2>2 DEF Receives
    <3>2. Among(Tail(toApp[y])) \subseteq Among(toApp[y])
      BY <1>2, <3>1, AmongTail
    <3> QED BY <3>1, <3>2
  <2> QED BY <1>1, <2>1, <2>2 DEF MainStep
<1>4. OnTheWay' \subseteq OnTheWay
  BY <1>3 DEF OnTheWay, RowsIn
<1>5. InPlay(app') \subseteq InPlay(app) \cup OnTheWay \cup {LocalRow, NoticeRow}
  <2>1. Takes(app, s, OnTheWay)
    BY <1>1, MainStepTakes
  <2>2. InPlay(app') = InPlay(s)
    BY <1>2 DEF InPlay
  <2> QED BY <2>1, <2>2 DEF Takes
<1>6. RequestRows' \subseteq RequestRows \cup InPlay(app) \cup {LocalRow}
  <2> SUFFICES ASSUME NEW x \in Exts, NEW m \in Among(toExt'[x])
               PROVE  m.row \in RequestRows \cup InPlay(app) \cup {LocalRow}
    BY DEF RequestRows
  <2>1. \/ toExt'[x] \in {toExt[x], <<>>}
        \/ \E k \in Request : /\ k.row \in Among(app.shown.rows) \cup {LocalRow}
                              /\ toExt'[x] = Append(toExt[x], k)
    BY MainLoopSends
  <2>2. ASSUME NEW k \in Request, k.row \in Among(app.shown.rows) \cup {LocalRow}, toExt'[x] = Append(toExt[x], k)
        PROVE  m.row \in RequestRows \cup InPlay(app) \cup {LocalRow}
    <3>1. m = k \/ m \in Among(toExt[x])
      BY <1>2, <2>2, AmongAppend
    <3> QED BY <2>2, <3>1 DEF RequestRows, InPlay
  <2>3. CASE toExt'[x] = toExt[x]
    BY <2>3 DEF RequestRows
  <2>4. CASE toExt'[x] = <<>>
    BY <2>4, AmongFew
  <2> QED BY <2>1, <2>2, <2>3, <2>4
<1> QED BY <1>3, <1>4, <1>5, <1>6 DEF Carried

LEMMA IdsMainLoop ==
  ASSUME QueryInv, IdsInv, User \/ MainLoop, UNCHANGED client
  PROVE  IdsInv'
<1>1. /\ client \in [Exts -> ClientState] /\ toExt \in [Exts -> Seq(Request)]
      /\ app.req \in Nat /\ app'.req \in Nat /\ app'.req \in {app.req, app.req + 1}
  <2>1. PICK s \in AppState : App(s) /\ MainStep(s)
    BY MainLoopIs DEF QueryInv
  <2>2. app \in AppState /\ app'.req = s.req
    BY <2>1, AppIs, AppTyped DEF QueryInv, TypeOK
  <2>3. s.req \in {app.req, app.req + 1}
    BY <2>1, MainStepSends DEF Sends
  <2>4. client \in [Exts -> ClientState] /\ toExt \in [Exts -> Seq(Request)]
    BY DEF QueryInv, TypeOK, ClientTypeOK, ClientState, WireTypeOK
  <2> QED BY <2>2, <2>3, <2>4 DEF AppState
<1>2. ASSUME NEW x \in Exts
      PROVE  /\ Held(x, client[x], toExt'[x], app'.req)
             /\ \A r \in Row : r.req \in 1..app.req /\ Kept(client[x], toExt[x], r) => Kept(client[x], toExt'[x], r)
  <2> DEFINE c == client[x]
  <2>1. c \in ClientState /\ toExt[x] \in Seq(Request) /\ Held(x, c, toExt[x], app.req)
    BY <1>1 DEF IdsInv
  <2>2. Among(toExt'[x]) \subseteq Among(toExt[x]) \cup {m \in Request : m.req = app.req + 1 /\ m.req = app'.req}
    <3>1. \/ toExt'[x] \in {toExt[x], <<>>}
          \/ \E m \in Request : /\ app'.req = app.req + 1 /\ m.req = app'.req
                                /\ toExt'[x] = Append(toExt[x], m)
      BY MainLoopSends
    <3>2. CASE toExt'[x] \in {toExt[x], <<>>}
      BY <3>2, AmongFew
    <3>3. ASSUME NEW m \in Request, app'.req = app.req + 1, m.req = app'.req, toExt'[x] = Append(toExt[x], m)
          PROVE  Among(toExt'[x]) \subseteq Among(toExt[x]) \cup {k \in Request : k.req = app.req + 1 /\ k.req = app'.req}
      <4>1. Among(toExt'[x]) = Among(toExt[x]) \cup {m}
        BY <2>1, <3>3, AmongAppend
      <4> QED BY <3>3, <4>1
    <3> QED BY <3>1, <3>2, <3>3
  <2>3. Queue(c, toExt'[x]) \subseteq Queue(c, toExt[x]) \cup ((app.req + 1)..app'.req)
    <3>1. ASSUME NEW t \in Among(toExt'[x]) PROVE t.req \in Queue(c, toExt[x]) \cup ((app.req + 1)..app'.req)
      BY <1>1, <2>2, <3>1 DEF Queue
    <3> QED BY <3>1 DEF Queue
  <2> HIDE DEF c
  <2>4. app.req <= app'.req
    BY <1>1
  <2> QED BY <1>1, <2>1, <2>3, <2>4, HeldSame DEF c
<1>3. ASSUME NEW r \in Carried' PROVE Known(r)'
  <2>1. r \in Carried \cup {LocalRow, NoticeRow} /\ client' = client
    BY MainLoopRows
  <2>2. LocalRow.ext = NoExt /\ NoticeRow.ext = NoExt
    BY DEF LocalRow, NoticeRow
  <2>3. ASSUME r \in Carried, r.ext # NoExt
        PROVE  r.req \in 1..app'.req /\ Kept(client[r.ext], toExt'[r.ext], r)
    <3>1. r \in Row /\ r.ext \in Exts
      BY <2>3, CarriedRows
    <3>2. r.req \in 1..app.req /\ Kept(client[r.ext], toExt[r.ext], r)
      BY <2>3 DEF IdsInv, Known
    <3>3. Kept(client[r.ext], toExt'[r.ext], r)
      BY <1>2, <3>1, <3>2
    <3> QED BY <1>1, <3>2, <3>3
  <2> QED BY <2>1, <2>2, <2>3 DEF Known
<1> QED BY <1>2, <1>3 DEF IdsInv

\* What a step of the process of x has to show.
LEMMA IdsUpdated ==
  ASSUME QueryInv, IdsInv, app'.req = app.req, NEW x \in Exts, NEW d, NEW in,
         client' = [client EXCEPT ![x] = d], toExt' = [toExt EXCEPT ![x] = in],
         Held(x, d, in, app.req),
         \A r \in Row : r.ext = x /\ r.req \in 1..app.req /\ Kept(client[x], toExt[x], r) => Kept(d, in, r),
         \A r \in Carried' : \/ r \in Carried \/ r.ext = NoExt
                             \/ r.ext = x /\ r.req \in 1..app.req /\ Kept(d, in, r)
  PROVE  IdsInv'
<1>1. client \in [Exts -> ClientState] /\ toExt \in [Exts -> Seq(Request)]
  BY DEF QueryInv, TypeOK, ClientTypeOK, ClientState, WireTypeOK
<1>2. /\ client'[x] = d /\ toExt'[x] = in
      /\ \A y \in Exts \ {x} : client'[y] = client[y] /\ toExt'[y] = toExt[y]
  BY <1>1
<1>3. ASSUME NEW y \in Exts PROVE Held(y, client'[y], toExt'[y], app'.req)
  <2>1. CASE y = x
    BY <1>2, <2>1
  <2>2. CASE y # x
    BY <1>2, <2>2 DEF IdsInv
  <2> QED BY <2>1, <2>2
<1>4. ASSUME NEW r \in Carried', r.ext # NoExt
      PROVE  r.req \in 1..app'.req /\ Kept(client'[r.ext], toExt'[r.ext], r)
  <2>1. CASE r \in Carried
    <3>1. r \in Row /\ r.ext \in Exts
      BY <1>4, <2>1, CarriedRows
    <3>2. r.req \in 1..app.req /\ Kept(client[r.ext], toExt[r.ext], r)
      BY <1>4, <2>1 DEF IdsInv, Known
    <3>3. CASE r.ext = x
      BY <1>2, <3>1, <3>2, <3>3
    <3>4. CASE r.ext # x
      BY <1>2, <3>1, <3>2, <3>4
    <3> QED BY <3>3, <3>4
  <2>2. CASE r \notin Carried
    BY <1>2, <1>4, <2>2
  <2> QED BY <2>1, <2>2
<1> QED BY <1>3, <1>4 DEF IdsInv, Known

LEMMA CarriedSame ==
  ASSUME UNCHANGED <<app, toExt, toApp>>
  PROVE  Carried' = Carried
BY DEF Carried, OnTheWay, RequestRows

LEMMA CarriedOf ==
  ASSUME QueryInv, UNCHANGED app, NEW x \in Exts, NEW in, NEW out, NEW rows,
         toExt' = [toExt EXCEPT ![x] = in], Among(in) \subseteq Among(toExt[x]),
         toApp' = [toApp EXCEPT ![x] = out], RowsIn(out) \subseteq RowsIn(toApp[x]) \cup rows
  PROVE  Carried' \subseteq Carried \cup rows
<1>1. toApp \in [Exts -> Seq(Response)] /\ toExt \in [Exts -> Seq(Request)]
  BY DEF QueryInv, TypeOK, WireTypeOK
<1>2. InPlay(app') = InPlay(app)
  OBVIOUS
<1>3. RequestRows' \subseteq RequestRows
  <2>1. \A y \in Exts : Among(toExt'[y]) \subseteq Among(toExt[y])
    BY <1>1
  <2> QED BY <2>1 DEF RequestRows
<1>4. OnTheWay' \subseteq OnTheWay \cup rows
  <2>1. \A y \in Exts : RowsIn(toApp'[y]) \subseteq RowsIn(toApp[y]) \cup rows
    BY <1>1
  <2> QED BY <2>1 DEF OnTheWay
<1> QED BY <1>2, <1>3, <1>4 DEF Carried

LEMMA IdsClient ==
  ASSUME QueryInv, IdsInv, NEW x \in Exts, Client(x), UNCHANGED app, Rising
  PROVE  IdsInv'
<1> DEFINE c == client[x]
           n == app.req
<1>1. /\ TypeOK /\ client \in [Exts -> ClientState] /\ c \in ClientState
      /\ toExt \in [Exts -> Seq(Request)] /\ toApp \in [Exts -> Seq(Response)] /\ app.req \in Nat
      /\ Held(x, c, toExt[x], n) /\ c.idle \in Seq(Response) /\ c.threads \subseteq Thread
  BY DEF QueryInv, TypeOK, WireTypeOK, ClientTypeOK, ClientState, CoreTypeOK, IdsInv
<1>2. [toExt EXCEPT ![x] = toExt[x]] = toExt /\ [toApp EXCEPT ![x] = toApp[x]] = toApp
      /\ [client EXCEPT ![x] = c] = client
  BY <1>1
<1>3. ASSUME NEW d \in ClientState, NEW in, client' = [client EXCEPT ![x] = d],
             toExt' = [toExt EXCEPT ![x] = in], Among(in) \subseteq Among(toExt[x]),
             d.cacheReq = c.cacheReq, d.cache = c.cache, Queue(d, in) \subseteq Queue(c, toExt[x]),
             \A m \in Among(d.idle) : m \in Among(c.idle) \/ (m.type # "render" => m.rows = <<>>),
             \A t \in d.threads : t \in c.threads \/ Exact(t),
             Carried' \subseteq Carried
      PROVE  IdsInv'
  <2>1. /\ Held(x, d, in, n)
        /\ \A r \in Row : r.req \in 1..n /\ Kept(c, toExt[x], r) => Kept(d, in, r)
    <3>1. n <= n /\ Queue(d, in) \subseteq Queue(c, toExt[x]) \cup ((n + 1)..n)
      BY <1>1, <1>3
    <3> HIDE DEF c, n
    <3> QED BY <1>1, <1>3, <3>1, HeldSame DEF n
  <2> QED BY <1>3, <2>1, IdsUpdated
<1>4. CASE OnMessage(x)
  <2> DEFINE m == Head(toExt[x])
             in == Tail(toExt[x])
  <2>1. /\ toExt[x] # <<>> /\ m \in Request
        /\ toExt' = [toExt EXCEPT ![x] = in] /\ UNCHANGED <<status, toApp, used>>
        /\ \/ client' = client
           \/ client' = [client EXCEPT ![x] = [c EXCEPT !.debounce = m.req]]
           \/ \E t \in Thread : /\ t.req = m.req /\ t.input = 0 /\ t.meant = m.row
                                /\ m.row.id + 1 \in 1..Len(c.cache) /\ t.got = c.cache[m.row.id + 1]
                                /\ client' = [client EXCEPT ![x] = [c EXCEPT !.threads = @ \cup {t}]]
    BY <1>1, <1>4, OnMessageIs
  <2>2. m \in Among(toExt[x]) /\ Among(in) \subseteq Among(toExt[x])
    BY <1>1, <2>1, AmongTail
  <2>3. Carried' \subseteq Carried
    <3>1. RowsIn(toApp[x]) \subseteq RowsIn(toApp[x]) \cup {}
      OBVIOUS
    <3>2. Carried' \subseteq Carried \cup {}
      BY <1>2, <2>1, <2>2, <3>1, CarriedOf
    <3> QED BY <3>2
  <2> HIDE DEF m, in
  <2>4. CASE client' = client
    <3>1. Queue(c, in) \subseteq Queue(c, toExt[x])
      BY <2>2 DEF Queue
    <3> QED BY <1>1, <1>2, <1>3, <2>1, <2>2, <2>3, <2>4, <3>1
  <2>5. CASE client' = [client EXCEPT ![x] = [c EXCEPT !.debounce = m.req]]
    <3> DEFINE d == [c EXCEPT !.debounce = m.req]
    <3>1. /\ d \in ClientState /\ d.debounce = m.req /\ d.threads = c.threads /\ d.idle = c.idle
          /\ d.cacheReq = c.cacheReq /\ d.cache = c.cache
      BY <1>1, <2>1 DEF ClientState, Request
    <3> HIDE DEF d
    <3>2. Queue(d, in) \subseteq Queue(c, toExt[x])
      BY <2>2, <3>1 DEF Queue
    <3> QED BY <1>3, <2>1, <2>2, <2>3, <2>5, <3>1, <3>2 DEF d
  <2>6. ASSUME NEW t \in Thread, t.req = m.req, t.input = 0, t.meant = m.row,
               m.row.id + 1 \in 1..Len(c.cache), t.got = c.cache[m.row.id + 1],
               client' = [client EXCEPT ![x] = [c EXCEPT !.threads = @ \cup {t}]]
        PROVE  IdsInv'
    <3> DEFINE d == [c EXCEPT !.threads = @ \cup {t}]
    <3>1. /\ d \in ClientState /\ d.debounce = c.debounce /\ d.threads = c.threads \cup {t}
          /\ d.idle = c.idle /\ d.cacheReq = c.cacheReq /\ d.cache = c.cache
      BY <1>1 DEF ClientState
    <3> HIDE DEF d
    <3>2. Queue(d, in) \subseteq Queue(c, toExt[x])
      BY <2>2, <2>6, <3>1 DEF Queue
    <3>3. Exact(t)
      <4> SUFFICES ASSUME t.meant.ext = t.got.ext, t.meant.req = t.got.req PROVE SameResult(t.meant, t.got)
        BY DEF Exact
      <4>1. c.cache \in Seq(Row) /\ DOMAIN c.cache = 1..Len(c.cache)
        BY <1>1, LenProperties DEF ClientState
      <4>2. t.got.ext = x /\ t.got.req = c.cacheReq
        BY <1>1, <2>6, <4>1 DEF Held, InCache
      <4>3. m.row \in Carried /\ m.row.ext = x /\ x # NoExt
        BY <2>2, <2>6, <4>2, TextsAssumption DEF Carried, RequestRows
      <4>4. m.row.req = c.cacheReq /\ c.cacheReq \in Nat
        BY <1>1, <2>6, <4>2 DEF ClientState
      <4>5. Kept(c, toExt[x], m.row)
        BY <4>3 DEF IdsInv, Known
      <4>6. SameResult(c.cache[m.row.id + 1], m.row)
        BY <4>4, <4>5 DEF Kept
      <4> QED BY <2>6, <4>6 DEF SameResult
    <3> QED BY <1>3, <2>1, <2>2, <2>3, <2>6, <3>1, <3>2, <3>3 DEF d
  <2> QED BY <2>1, <2>4, <2>5, <2>6
<1>5. CASE Debounced(x)
  <2>1. /\ c.debounce # 0 /\ UNCHANGED wireVars
        /\ \E t \in Thread :
              /\ t.req = c.debounce /\ t.input = c.input + 1
              /\ client' = [client EXCEPT ![x] = [c EXCEPT !.debounce = 0, !.input = c.input + 1,
                                                           !.threads = @ \cup {t}]]
    BY <1>1, <1>5, DebouncedIs
  <2>2. PICK t \in Thread :
              /\ t.req = c.debounce /\ t.input = c.input + 1
              /\ client' = [client EXCEPT ![x] = [c EXCEPT !.debounce = 0, !.input = c.input + 1,
                                                           !.threads = @ \cup {t}]]
    BY <2>1
  <2> DEFINE d == [c EXCEPT !.debounce = 0, !.input = c.input + 1, !.threads = @ \cup {t}]
  <2>3. /\ d \in ClientState /\ d.debounce = 0 /\ d.threads = c.threads \cup {t}
        /\ d.idle = c.idle /\ d.cacheReq = c.cacheReq /\ d.cache = c.cache /\ t.input # 0
    <3>1. c.input + 1 \in Nat /\ c.input + 1 # 0
      BY <1>1 DEF ClientState
    <3> QED BY <1>1, <2>2, <3>1 DEF ClientState
  <2> HIDE DEF d
  <2>4. Queue(d, toExt[x]) \subseteq Queue(c, toExt[x]) /\ Exact(t)
    BY <2>1, <2>2, <2>3 DEF Queue, Exact
  <2>5. Carried' = Carried
    BY <2>1 DEF wireVars, Carried, OnTheWay, RequestRows
  <2>6. toExt' = [toExt EXCEPT ![x] = toExt[x]] /\ client' = [client EXCEPT ![x] = d]
    BY <1>2, <2>1, <2>2 DEF d, wireVars
  <2> QED BY <1>3, <2>3, <2>4, <2>5, <2>6
<1>6. CASE Handler(x)
  <2>1. /\ UNCHANGED <<status, toExt, toApp>>
        /\ \E t \in c.threads :
             \/ client' = [client EXCEPT ![x] = [c EXCEPT !.threads = @ \ {t}]]
             \/ \E r \in Response : \E next \in SUBSET Thread :
                  /\ r.req = t.req /\ r.input = t.input /\ Stamped(x, r)
                  /\ r.type = "query" => "query" \in ActivationReplies
                  /\ Said(t, r)
                  /\ next = {} \/ (Streams(r) /\ next = {[t EXCEPT !.batches = @ + 1]})
                  /\ client' = [client EXCEPT ![x] = [c EXCEPT !.threads = (@ \ {t}) \cup next,
                                                               !.idle = Append(@, r)]]
    BY <1>1, <1>6, HandlerIs
  <2>2. Carried' \subseteq Carried
    BY <2>1, CarriedSame
  <2>3. ASSUME NEW t, client' = [client EXCEPT ![x] = [c EXCEPT !.threads = @ \ {t}]]
        PROVE  IdsInv'
    <3> DEFINE d == [c EXCEPT !.threads = @ \ {t}]
    <3>1. /\ d \in ClientState /\ d.debounce = c.debounce /\ d.threads = c.threads \ {t}
          /\ d.idle = c.idle /\ d.cacheReq = c.cacheReq /\ d.cache = c.cache
      BY <1>1 DEF ClientState
    <3> HIDE DEF d
    <3>2. Queue(d, toExt[x]) \subseteq Queue(c, toExt[x])
      BY <3>1 DEF Queue
    <3> QED BY <1>2, <1>3, <2>1, <2>2, <2>3, <3>1, <3>2 DEF d
  <2>4. ASSUME NEW t \in c.threads, NEW r \in Response, NEW next \in SUBSET Thread,
               r.req = t.req, Said(t, r),
               next = {} \/ (Streams(r) /\ next = {[t EXCEPT !.batches = @ + 1]}),
               client' = [client EXCEPT ![x] = [c EXCEPT !.threads = (@ \ {t}) \cup next, !.idle = Append(@, r)]]
        PROVE  IdsInv'
    <3> DEFINE d == [c EXCEPT !.threads = (@ \ {t}) \cup next, !.idle = Append(@, r)]
    <3>1. /\ d \in ClientState /\ d.debounce = c.debounce /\ d.threads = (c.threads \ {t}) \cup next
          /\ d.idle = Append(c.idle, r) /\ d.cacheReq = c.cacheReq /\ d.cache = c.cache
      <4>1. Append(c.idle, r) \in Seq(Response)
        BY <1>1, AppendProperties
      <4> QED BY <1>1, <4>1 DEF ClientState
    <3> HIDE DEF d
    <3>2. \A u \in next : u.req = t.req /\ u.input = t.input /\ u.meant = t.meant /\ u.got = t.got
      <4>1. t \in Thread
        BY <1>1
      <4> QED BY <2>4, <4>1 DEF Thread
    <3>3. Among(d.idle) = Among(c.idle) \cup {r}
      BY <1>1, <3>1, AmongAppend
    <3>4. Queue(d, toExt[x]) \subseteq Queue(c, toExt[x])
      BY <2>4, <3>1, <3>2, <3>3 DEF Queue
    <3>5. \A u \in d.threads : u \in c.threads \/ Exact(u)
      <4>1. Exact(t)
        BY <1>1 DEF Held
      <4> QED BY <3>1, <3>2, <4>1 DEF Exact
    <3>6. \A m \in Among(d.idle) : m \in Among(c.idle) \/ (m.type # "render" => m.rows = <<>>)
      BY <2>4, <3>3 DEF Said
    <3> QED BY <1>2, <1>3, <2>1, <2>2, <2>4, <3>1, <3>4, <3>5, <3>6 DEF d
  <2> QED BY <2>1, <2>3, <2>4
<1>7. CASE SendResponse(x)
  <2> DEFINE m == Head(c.idle)
             cached == CacheFor(c, m)
             new == WithIds(m.rows, cached)
  <2>1. /\ c.idle # <<>> /\ m \in Response /\ UNCHANGED <<status, toExt, used>>
        /\ \E k \in ClientState :
             /\ client' = [client EXCEPT ![x] = k]
             /\ k.idle = Tail(c.idle) /\ k.threads = c.threads
             /\ k.debounce = c.debounce /\ k.input = c.input
             /\ Cached(x, c, m, k)
        /\ \/ Superseded(x, m.input) /\ toApp' = toApp
           \/ /\ ~Superseded(x, m.input)
              /\ \E r \in Response :
                   /\ toApp' = [toApp EXCEPT ![x] = Append(toApp[x], r)]
                   /\ r.req = m.req /\ r.type = m.type /\ r.final = m.final /\ r.input = m.input
                   /\ Stamped(x, m) => Stamped(x, r)
                   /\ r.rows = new
    BY <1>1, <1>7, SendResponseIs
  <2>2. PICK d \in ClientState :
             /\ client' = [client EXCEPT ![x] = d]
             /\ d.idle = Tail(c.idle) /\ d.threads = c.threads
             /\ d.debounce = c.debounce /\ d.input = c.input
             /\ Cached(x, c, m, d)
    BY <2>1
  <2>3. m \in Among(c.idle) /\ Among(d.idle) \subseteq Among(c.idle)
    BY <1>1, <2>1, <2>2, AmongTail
  <2> HIDE DEF m, new
  <2>4. Carried' \subseteq Carried \cup (IF Superseded(x, m.input) THEN {} ELSE Among(new))
    <3>1. CASE Superseded(x, m.input)
      BY <2>1, <3>1 DEF Carried, OnTheWay, RequestRows
    <3>2. ASSUME ~Superseded(x, m.input), NEW r \in Response, r.rows = new,
                 toApp' = [toApp EXCEPT ![x] = Append(toApp[x], r)]
          PROVE  Carried' \subseteq Carried \cup Among(new)
      <4>1. Among(Append(toApp[x], r)) = Among(toApp[x]) \cup {r}
        BY <1>1, AmongAppend
      <4>2. RowsIn(Append(toApp[x], r)) \subseteq RowsIn(toApp[x]) \cup Among(new)
        BY <3>2, <4>1 DEF RowsIn
      <4> QED BY <1>2, <2>1, <3>2, <4>2, CarriedOf
    <3> QED BY <2>1, <3>1, <3>2
  <2>5. CASE Superseded(x, m.input) \/ m.type # "render"
    <3>1. d.cacheReq = c.cacheReq /\ d.cache = c.cache
      BY <2>2, <2>5 DEF Cached
    <3>2. Queue(d, toExt[x]) \subseteq Queue(c, toExt[x])
      BY <2>2, <2>3 DEF Queue
    <3>3. Carried' \subseteq Carried
      <4>1. CASE Superseded(x, m.input)
        BY <2>4, <4>1
      <4>2. CASE m.type # "render"
        <5>1. m.rows = <<>>
          BY <1>1, <2>3, <4>2 DEF Held
        <5>2. DOMAIN <<>> = {}
          OBVIOUS
        <5>3. Among(new) = {}
          BY <5>1, <5>2 DEF Among, new, WithIds
        <5> QED BY <2>4, <5>3
      <4> QED BY <2>5, <4>1, <4>2
    <3> QED BY <1>2, <1>3, <2>1, <2>2, <2>3, <3>1, <3>2, <3>3
  <2>6. CASE ~Superseded(x, m.input) /\ m.type = "render"
    <3>1. d.cacheReq = m.req /\ d.cache = cached \o new
      BY <2>2, <2>6 DEF Cached, new
    <3>2. m.req \in 1..n
      BY <1>1, <2>3 DEF Held, Queue
    <3>3. c.cacheReq <= m.req
      <4>1. client'[x] = d
        BY <1>1, <2>2
      <4>2. d.cacheReq >= c.cacheReq \/ d.cacheReq = 0
        BY <4>1 DEF Rising
      <4> QED BY <1>1, <3>1, <3>2, <4>2 DEF ClientState
    <3>4. Stamped(x, m)
      <4>1. Honest(x, c.idle)
        BY DEF QueryInv
      <4> QED BY <2>3, <4>1 DEF Honest, Among
    <3> HIDE DEF c, n
    <3>5. /\ Held(x, d, toExt[x], n)
          /\ \A r \in Row : r.ext = x /\ r.req \in 1..n /\ Kept(c, toExt[x], r) => Kept(d, toExt[x], r)
          /\ \A r \in Among(new) : r.ext = x /\ r.req \in 1..n /\ Kept(d, toExt[x], r)
      <4>1. n \in Nat /\ m = Head(c.idle)
        BY <1>1 DEF n, m
      <4>2. c \in ClientState /\ Held(x, c, toExt[x], n) /\ c.idle # <<>> /\ m \in Response
        BY <1>1, <2>1
      <4>3. d.idle = Tail(c.idle) /\ d.threads = c.threads /\ d.debounce = c.debounce
        BY <2>2
      <4>4. GoesOut(c, d, m, new)
        BY <3>1, <4>1, <4>2, <4>3 DEF GoesOut, new
      <4> HIDE DEF cached, new
      <4> QED BY <3>3, <3>4, <4>1, <4>2, <4>4, HeldSent
    <3>6. \A r \in Carried' : r \in Carried \/ (r.ext = x /\ r.req \in 1..n /\ Kept(d, toExt[x], r))
      BY <2>4, <2>6, <3>5
    <3> QED BY <1>2, <2>1, <2>2, <3>5, <3>6, IdsUpdated DEF n, c
  <2> QED BY <2>5, <2>6
<1> QED BY <1>4, <1>5, <1>6, <1>7 DEF Client

LEMMA IdsService ==
  ASSUME QueryInv, IdsInv, Service
  PROVE  IdsInv'
<1>1. /\ app \in AppState /\ client \in [Exts -> ClientState] /\ app.req \in Nat
      /\ toExt \in [Exts -> Seq(Request)] /\ toApp \in [Exts -> Seq(Response)]
  BY AppTyped DEF QueryInv, TypeOK, WireTypeOK, ClientTypeOK, ClientState, AppState
<1>2. NoticeRow.ext = NoExt /\ LocalRow.ext = NoExt
  BY DEF NoticeRow, LocalRow
<1>3. ASSUME app'.req = app.req, InPlay(app') = InPlay(app), UNCHANGED <<toExt, toApp, client>>
      PROVE  IdsInv'
  <2>1. Carried' = Carried
    BY <1>3 DEF Carried, OnTheWay, RequestRows
  <2>2. ASSUME NEW r, Known(r) PROVE Known(r)'
    BY <1>3, <2>2 DEF Known
  <2> QED BY <1>3, <2>1, <2>2 DEF IdsInv
<1>4. ASSUME app'.req = app.req, Takes(app, app', {}), NEW x \in Exts, NEW now, Gone(x, now)
      PROVE  IdsInv'
  <2>1. /\ client' = [client EXCEPT ![x] = NewClient] /\ toExt' = [toExt EXCEPT ![x] = <<>>]
        /\ toApp' = [toApp EXCEPT ![x] = <<>>]
    BY <1>4 DEF Gone
  <2>2. /\ Held(x, NewClient, <<>>, app.req)
        /\ \A r \in Row : r.req \in 1..app.req => Kept(NewClient, <<>>, r)
    BY <1>1, NewProcess
  <2>3. \A y \in Exts : toExt'[y] \in {toExt[y], <<>>} /\ toApp'[y] \in {toApp[y], <<>>}
    BY <1>1, <2>1
  <2>4. RequestRows' \subseteq RequestRows /\ OnTheWay' \subseteq OnTheWay
    BY <2>3, AmongFew DEF RequestRows, OnTheWay, RowsIn
  <2>5. Carried' \subseteq Carried \cup {LocalRow, NoticeRow}
    BY <1>4, <2>4 DEF Carried, Takes
  <2> QED BY <1>2, <1>4, <2>1, <2>2, <2>5, IdsUpdated
<1>5. ASSUME NEW x \in Exts, StopExtension(x)
      PROVE  IdsInv'
  <2>1. Gone(x, "stopped") /\ (app' = [app EXCEPT !.open = 0] \/ app' = app)
    BY <1>5 DEF StopExtension
  <2>2. app'.req = app.req /\ app'.shown = app.shown /\ app'.buffer = app.buffer
    BY <1>1, <2>1 DEF AppState
  <2> QED BY <1>4, <2>1, <2>2 DEF Takes, InPlay
<1>6. ASSUME NEW x \in Exts, StartExtension(x)
      PROVE  IdsInv'
  <2>1. UNCHANGED <<toExt, toApp, client>> /\ \E b : app' = [app EXCEPT !.reload = b]
    BY <1>6 DEF StartExtension
  <2>2. app'.req = app.req /\ app'.shown = app.shown /\ app'.buffer = app.buffer
    BY <1>1, <2>1 DEF AppState
  <2> QED BY <1>3, <2>1, <2>2 DEF InPlay
<1>7. ASSUME NEW x \in Exts, ExtensionFails(x)
      PROVE  IdsInv'
  <2> DEFINE u == [app EXCEPT !.open = 0, !.loading = FALSE, !.pending = FALSE]
             v == [app EXCEPT !.open = 0, !.pending = FALSE]
             t == Errored(app, x)
  <2>1. Gone(x, "down") /\ app' = t
    BY <1>7 DEF ExtensionFails
  <2>2. t = app \/ t = v \/ t = u \/ Delivery(u, t, <<NoticeRow>>, FALSE, TRUE)
    BY <1>1, ErroredIs
  <2>3. /\ u \in AppState /\ u.req = app.req /\ u.shown = app.shown /\ u.buffer = app.buffer
        /\ v.req = app.req /\ v.shown = app.shown /\ v.buffer = app.buffer
    BY <1>1 DEF AppState
  <2> HIDE DEF u, v, t
  <2>4. Delivery(u, t, <<NoticeRow>>, FALSE, TRUE) => Takes(u, t, {NoticeRow})
    <3>1. <<NoticeRow>> \in Seq(Row) /\ Among(<<NoticeRow>>) = {NoticeRow}
      BY RowTypes, AmongFew
    <3> QED BY <2>3, <3>1, DeliveryTakes
  <2>5. Takes(app, t, {})
    BY <2>2, <2>3, <2>4 DEF Takes, InPlay
  <2>6. t.req = app.req
    BY <2>2, <2>3 DEF Delivery, Rest
  <2> QED BY <1>4, <2>1, <2>5, <2>6
<1>8. ASSUME NEW x \in Exts, LeftStopped(x)
      PROVE  IdsInv'
  BY <1>3, <1>8 DEF LeftStopped
<1> QED BY <1>5, <1>6, <1>7, <1>8 DEF Service

LEMMA IdsStep ==
  ASSUME QueryInv, IdsInv, [Next]_vars, [Rising]_vars
  PROVE  IdsInv'
<1>1. CASE UNCHANGED vars
  BY <1>1 DEF vars, IdsInv, Known, Carried, OnTheWay, RequestRows
<1>2. CASE Next /\ Rising
  BY <1>2, IdsMainLoop, IdsClient, IdsService, <1>1 DEF Next, Finished
<1> QED BY <1>1, <1>2

LEMMA IdsInvExact == IdsInv => IdsExact
BY DEF IdsInv, Held, Exact, IdsExact, Activations

\* Whatever the extensions answer: as long as the cache of a process only takes
\* in requests in their order, an id names the result it was sent with, and an
\* activation never gets a sibling of the row that was activated.
THEOREM IdsOfRequest == Spec /\ [][Rising]_vars => []IdsExact
BY IdsInit, IdsStep, IdsInvExact, QueryInvAlways, PTL DEF Spec

(***************************************************************************)
(* When only inputs are answered with results                              *)
(***************************************************************************)
\* What can still reach the cache is not older than it.
Rises(c, in) ==
  /\ \A m \in Among(c.idle) : m.type = "render" => m.input # 0
  /\ \A a \in c.threads \cup Among(c.idle) : a.input # 0 /\ a.input = c.input => c.cacheReq <= a.req
  /\ c.debounce # 0 => c.cacheReq <= c.debounce
  /\ \A m \in Among(in) : c.cacheReq <= m.req
RisesInv == \A x \in Exts : Rises(client[x], toExt[x])

\* What a step of the process of x has to show.
LEMMA RisesUpdated ==
  ASSUME QueryInv, RisesInv, NEW x \in Exts, NEW d, NEW in,
         client' = [client EXCEPT ![x] = d], toExt' = [toExt EXCEPT ![x] = in],
         Rises(d, in),
         d.cacheReq = client[x].cacheReq \/ d.cacheReq >= client[x].cacheReq \/ d.cacheReq = 0
  PROVE  RisesInv' /\ Rising
<1>1. client \in [Exts -> ClientState] /\ toExt \in [Exts -> Seq(Request)]
  BY DEF QueryInv, TypeOK, ClientTypeOK, ClientState, WireTypeOK
<1>2. /\ client'[x] = d /\ toExt'[x] = in
      /\ \A y \in Exts \ {x} : client'[y] = client[y] /\ toExt'[y] = toExt[y]
  BY <1>1
<1>3. ASSUME NEW y \in Exts
      PROVE  Rises(client'[y], toExt'[y]) /\ (client'[y].cacheReq >= client[y].cacheReq \/ client'[y].cacheReq = 0)
  <2> client[y].cacheReq \in Nat
    BY <1>1 DEF ClientState
  <2>1. CASE y = x
    BY <1>2, <2>1
  <2>2. CASE y # x
    BY <1>2, <2>2 DEF RisesInv
  <2> QED BY <2>1, <2>2
<1> QED BY <1>3 DEF RisesInv, Rising

LEMMA RisesSame ==
  ASSUME NEW c, NEW d, NEW in, NEW next, Rises(c, in), d.cacheReq = c.cacheReq,
         d.input = c.input, Among(next) \subseteq Among(in),
         d.debounce = c.debounce \/ \E m \in Among(in) : d.debounce = m.req,
         \A a \in Among(d.idle) : a \in Among(c.idle) \/ (a.type = "render" => a.input # 0),
         \A a \in d.threads \cup Among(d.idle) : a.input = 0 \/
           \E b \in c.threads \cup Among(c.idle) : b.input = a.input /\ b.req = a.req
  PROVE  Rises(d, next)
<1>1. \A m \in Among(d.idle) : m.type = "render" => m.input # 0
  BY DEF Rises
<1>2. \A a \in d.threads \cup Among(d.idle) : a.input # 0 /\ a.input = d.input => d.cacheReq <= a.req
  <2> SUFFICES ASSUME NEW a \in d.threads \cup Among(d.idle), a.input # 0, a.input = d.input
               PROVE  d.cacheReq <= a.req
    OBVIOUS
  <2>1. PICK b \in c.threads \cup Among(c.idle) : b.input = a.input /\ b.req = a.req
    OBVIOUS
  <2>2. c.cacheReq <= b.req
    BY <2>1 DEF Rises
  <2> QED BY <2>1, <2>2
<1>3. d.debounce # 0 => d.cacheReq <= d.debounce
  BY DEF Rises
<1>4. \A m \in Among(next) : d.cacheReq <= m.req
  BY DEF Rises
<1> QED BY <1>1, <1>2, <1>3, <1>4 DEF Rises

LEMMA RisesClient ==
  ASSUME ActivationReplies \cap {"stream", "list"} = {},
         QueryInv, OrderedInv, RisesInv, NEW x \in Exts, Client(x), UNCHANGED app
  PROVE  RisesInv' /\ Rising
<1> DEFINE c == client[x]
<1>1. /\ TypeOK /\ client \in [Exts -> ClientState] /\ c \in ClientState
      /\ toExt \in [Exts -> Seq(Request)] /\ toApp \in [Exts -> Seq(Response)]
      /\ Ordered(c, toExt[x], toApp[x], app.req) /\ Rises(c, toExt[x])
      /\ c.idle \in Seq(Response) /\ c.threads \subseteq Thread
      /\ c.cacheReq \in Nat /\ c.debounce \in Nat /\ c.input \in Nat
  BY DEF QueryInv, TypeOK, WireTypeOK, ClientTypeOK, ClientState, OrderedInv, RisesInv
<1>2. [toExt EXCEPT ![x] = toExt[x]] = toExt
  BY <1>1
<1>3. CASE OnMessage(x)
  <2> DEFINE m == Head(toExt[x])
             in == Tail(toExt[x])
  <2>1. /\ toExt[x] # <<>> /\ m \in Request
        /\ toExt' = [toExt EXCEPT ![x] = in] /\ UNCHANGED <<status, toApp, used>>
        /\ \/ client' = client
           \/ client' = [client EXCEPT ![x] = [c EXCEPT !.debounce = m.req]]
           \/ \E t \in Thread : /\ t.req = m.req /\ t.input = 0
                                /\ client' = [client EXCEPT ![x] = [c EXCEPT !.threads = @ \cup {t}]]
    BY <1>1, <1>3, OnMessageIs
  <2>2. m \in Among(toExt[x]) /\ Among(in) \subseteq Among(toExt[x])
    BY <1>1, <2>1, AmongTail
  <2> HIDE DEF m, in
  <2>3. \E d \in ClientState :
          /\ client' = [client EXCEPT ![x] = d] /\ d.cacheReq = c.cacheReq /\ d.input = c.input
          /\ d.idle = c.idle /\ d.debounce \in {c.debounce, m.req}
          /\ \A t \in d.threads : t \in c.threads \/ t.input = 0
    <3>1. CASE client' = client
      <4>1. client' = [client EXCEPT ![x] = c]
        BY <1>1, <3>1
      <4> QED BY <1>1, <4>1
    <3>2. CASE client' = [client EXCEPT ![x] = [c EXCEPT !.debounce = m.req]]
      <4> DEFINE d == [c EXCEPT !.debounce = m.req]
      <4>1. /\ d \in ClientState /\ d.debounce = m.req /\ d.threads = c.threads /\ d.idle = c.idle
            /\ d.cacheReq = c.cacheReq /\ d.input = c.input
        BY <1>1, <2>1 DEF ClientState, Request
      <4> HIDE DEF d
      <4> QED BY <3>2, <4>1 DEF d
    <3>3. ASSUME NEW t \in Thread, t.input = 0, client' = [client EXCEPT ![x] = [c EXCEPT !.threads = @ \cup {t}]]
          PROVE  \E d \in ClientState :
                   /\ client' = [client EXCEPT ![x] = d] /\ d.cacheReq = c.cacheReq /\ d.input = c.input
                   /\ d.idle = c.idle /\ d.debounce \in {c.debounce, m.req}
                   /\ \A u \in d.threads : u \in c.threads \/ u.input = 0
      <4> DEFINE d == [c EXCEPT !.threads = @ \cup {t}]
      <4>1. /\ d \in ClientState /\ d.debounce = c.debounce /\ d.threads = c.threads \cup {t}
            /\ d.idle = c.idle /\ d.cacheReq = c.cacheReq /\ d.input = c.input
        BY <1>1 DEF ClientState
      <4> HIDE DEF d
      <4> QED BY <3>3, <4>1 DEF d
    <3> QED BY <2>1, <3>1, <3>2, <3>3
  <2>4. PICK d \in ClientState :
          /\ client' = [client EXCEPT ![x] = d] /\ d.cacheReq = c.cacheReq /\ d.input = c.input
          /\ d.idle = c.idle /\ d.debounce \in {c.debounce, m.req}
          /\ \A t \in d.threads : t \in c.threads \/ t.input = 0
    BY <2>3
  <2>5. Rises(d, in)
    <3>1. d.debounce = c.debounce \/ \E k \in Among(toExt[x]) : d.debounce = k.req
      BY <2>2, <2>4
    <3>2. \A a \in d.threads \cup Among(d.idle) : a.input = 0 \/
            \E b \in c.threads \cup Among(c.idle) : b.input = a.input /\ b.req = a.req
      BY <2>4
    <3> HIDE DEF c
    <3> QED BY <1>1, <2>2, <2>4, <3>1, <3>2, RisesSame
  <2> QED BY <1>1, <2>1, <2>4, <2>5, RisesUpdated
<1>4. CASE Debounced(x)
  <2>1. /\ c.debounce # 0 /\ UNCHANGED wireVars
        /\ \E t \in Thread :
              /\ t.req = c.debounce /\ t.input = c.input + 1
              /\ client' = [client EXCEPT ![x] = [c EXCEPT !.debounce = 0, !.input = c.input + 1,
                                                           !.threads = @ \cup {t}]]
    BY <1>1, <1>4, DebouncedIs
  <2>2. PICK t \in Thread :
              /\ t.req = c.debounce /\ t.input = c.input + 1
              /\ client' = [client EXCEPT ![x] = [c EXCEPT !.debounce = 0, !.input = c.input + 1,
                                                           !.threads = @ \cup {t}]]
    BY <2>1
  <2> DEFINE d == [c EXCEPT !.debounce = 0, !.input = c.input + 1, !.threads = @ \cup {t}]
  <2>3. /\ d.debounce = 0 /\ d.threads = c.threads \cup {t} /\ d.input = c.input + 1
        /\ d.idle = c.idle /\ d.cacheReq = c.cacheReq
    BY <1>1 DEF ClientState
  <2>4. client' = [client EXCEPT ![x] = d] /\ toExt' = [toExt EXCEPT ![x] = toExt[x]]
    BY <1>2, <2>1, <2>2 DEF wireVars
  <2> HIDE DEF d
  <2>5. \A a \in c.threads \cup Among(c.idle) : a.input \in Nat /\ a.input <= c.input
    <3>1. \A a \in c.threads \cup Among(c.idle) : a \in Items(c, toApp[x])
      BY DEF Items
    <3> QED BY <1>1, <3>1, ItemsTyped DEF Ordered, Numbered
  <2>6. Rises(d, toExt[x])
    <3>1. \A a \in c.threads \cup Among(c.idle) : a.input # c.input + 1
      BY <1>1, <2>5
    <3>2. \A a \in d.threads \cup Among(d.idle) : a.input # 0 /\ a.input = d.input => d.cacheReq <= a.req
      <4>1. ASSUME NEW a \in d.threads \cup Among(d.idle), a.input = d.input
            PROVE  a = t
        BY <2>3, <3>1, <4>1
      <4>2. c.cacheReq <= t.req
        BY <1>1, <2>1, <2>2 DEF Rises
      <4> QED BY <2>3, <4>1, <4>2
    <3>3. \A m \in Among(d.idle) : m.type = "render" => m.input # 0
      BY <1>1, <2>3 DEF Rises
    <3>4. \A m \in Among(toExt[x]) : d.cacheReq <= m.req
      BY <1>1, <2>3 DEF Rises
    <3> QED BY <2>3, <3>2, <3>3, <3>4 DEF Rises
  <2> QED BY <1>1, <2>3, <2>4, <2>6, RisesUpdated
<1>5. CASE Handler(x)
  <2>1. /\ UNCHANGED <<status, toExt, toApp>>
        /\ \E t \in c.threads :
             \/ client' = [client EXCEPT ![x] = [c EXCEPT !.threads = @ \ {t}]]
             \/ \E r \in Response : \E next \in SUBSET Thread :
                  /\ r.req = t.req /\ r.input = t.input /\ Stamped(x, r)
                  /\ r.type = "query" => "query" \in ActivationReplies
                  /\ Said(t, r)
                  /\ next = {} \/ (Streams(r) /\ next = {[t EXCEPT !.batches = @ + 1]})
                  /\ client' = [client EXCEPT ![x] = [c EXCEPT !.threads = (@ \ {t}) \cup next,
                                                               !.idle = Append(@, r)]]
    BY <1>1, <1>5, HandlerIs
  <2>2. toExt' = [toExt EXCEPT ![x] = toExt[x]]
    BY <1>2, <2>1
  <2>3. ASSUME NEW t, client' = [client EXCEPT ![x] = [c EXCEPT !.threads = @ \ {t}]]
        PROVE  RisesInv' /\ Rising
    <3> DEFINE d == [c EXCEPT !.threads = @ \ {t}]
    <3>1. /\ d.debounce = c.debounce /\ d.threads = c.threads \ {t} /\ d.input = c.input
          /\ d.idle = c.idle /\ d.cacheReq = c.cacheReq
      BY <1>1 DEF ClientState
    <3>2. client' = [client EXCEPT ![x] = d]
      BY <2>3
    <3> HIDE DEF d
    <3>3. Rises(d, toExt[x])
      <4> HIDE DEF c
      <4> QED BY <1>1, <3>1, RisesSame
    <3> QED BY <1>1, <2>2, <3>1, <3>2, <3>3, RisesUpdated
  <2>4. ASSUME NEW t \in c.threads, NEW r \in Response, NEW next \in SUBSET Thread,
               r.req = t.req, r.input = t.input, Said(t, r),
               next = {} \/ (Streams(r) /\ next = {[t EXCEPT !.batches = @ + 1]}),
               client' = [client EXCEPT ![x] = [c EXCEPT !.threads = (@ \ {t}) \cup next, !.idle = Append(@, r)]]
        PROVE  RisesInv' /\ Rising
    <3> DEFINE d == [c EXCEPT !.threads = (@ \ {t}) \cup next, !.idle = Append(@, r)]
    <3>1. /\ d.debounce = c.debounce /\ d.threads = (c.threads \ {t}) \cup next /\ d.input = c.input
          /\ d.idle = Append(c.idle, r) /\ d.cacheReq = c.cacheReq
      BY <1>1 DEF ClientState
    <3>2. client' = [client EXCEPT ![x] = d]
      BY <2>4
    <3> HIDE DEF d
    <3>3. \A u \in next : u.req = t.req /\ u.input = t.input
      <4>1. t \in Thread
        BY <1>1
      <4> QED BY <2>4, <4>1 DEF Thread
    <3>4. Among(d.idle) = Among(c.idle) \cup {r}
      BY <1>1, <3>1, AmongAppend
    <3>5. r.type = "render" => r.input # 0
      BY <2>4 DEF Said
    <3>6. Rises(d, toExt[x])
      <4>1. \A a \in d.threads \cup Among(d.idle) :
              \E b \in c.threads \cup Among(c.idle) : b.input = a.input /\ b.req = a.req
        BY <2>4, <3>1, <3>3, <3>4
      <4>2. \A a \in Among(d.idle) : a \in Among(c.idle) \/ (a.type = "render" => a.input # 0)
        BY <3>4, <3>5
      <4> HIDE DEF c
      <4> QED BY <1>1, <3>1, <4>1, <4>2, RisesSame
    <3> QED BY <1>1, <2>2, <3>1, <3>2, <3>6, RisesUpdated
  <2> QED BY <2>1, <2>3, <2>4
<1>6. CASE SendResponse(x)
  <2> DEFINE m == Head(c.idle)
  <2>1. /\ c.idle # <<>> /\ m \in Response /\ UNCHANGED <<status, toExt, used>>
        /\ \E k \in ClientState :
             /\ client' = [client EXCEPT ![x] = k]
             /\ k.idle = Tail(c.idle) /\ k.threads = c.threads
             /\ k.debounce = c.debounce /\ k.input = c.input
             /\ Cached(x, c, m, k)
    BY <1>1, <1>6, SendResponseIs
  <2>2. PICK d \in ClientState :
             /\ client' = [client EXCEPT ![x] = d]
             /\ d.idle = Tail(c.idle) /\ d.threads = c.threads
             /\ d.debounce = c.debounce /\ d.input = c.input
             /\ Cached(x, c, m, d)
    BY <2>1
  <2>3. m \in Among(c.idle) /\ Among(d.idle) \subseteq Among(c.idle)
    BY <1>1, <2>1, <2>2, AmongTail
  <2>4. toExt' = [toExt EXCEPT ![x] = toExt[x]]
    BY <1>2, <2>1
  <2> HIDE DEF m
  <2>5. CASE d.cacheReq = c.cacheReq
    <3>1. Rises(d, toExt[x])
      <4> HIDE DEF c
      <4> QED BY <1>1, <2>2, <2>3, <2>5, RisesSame
    <3> QED BY <1>1, <2>2, <2>4, <2>5, <3>1, RisesUpdated
  <2>6. CASE ~Superseded(x, m.input) /\ m.type = "render" /\ d.cacheReq = m.req
    <3>1. m.input # 0 /\ m.input = c.input /\ m.input \in Nat /\ m.req \in Nat
      BY <1>1, <2>1, <2>3, <2>6 DEF Rises, Superseded, Response
    <3>2. c.cacheReq <= m.req
      BY <1>1, <2>3, <3>1 DEF Rises
    <3>3. m \in Items(c, toApp[x]) /\ c.threads \cup Among(c.idle) \subseteq Items(c, toApp[x])
      BY <2>3 DEF Items
    <3>4. ASSUME NEW a \in c.threads \cup Among(c.idle), a.input # 0, a.input = c.input
          PROVE  m.req <= a.req
      <4>1. a \in Items(c, toApp[x]) /\ a.req \in Nat
        BY <1>1, <3>3, ItemsTyped
      <4>2. a.input < m.input <=> a.req < m.req
        BY <1>1, <3>1, <3>3, <3>4, <4>1 DEF Ordered, Numbered
      <4>3. ~(a.input < m.input)
        BY <1>1, <3>1, <3>4
      <4> QED BY <3>1, <4>1, <4>2, <4>3
    <3>5. c.debounce # 0 => m.req <= c.debounce
      <4>1. c.debounce # 0 => m.req < c.debounce
        BY <1>1, <3>1, <3>3 DEF Ordered, Numbered
      <4> QED BY <1>1, <3>1, <4>1
    <3>6. \A k \in Among(toExt[x]) : m.req <= k.req
      <4> SUFFICES ASSUME NEW k \in Among(toExt[x]) PROVE m.req <= k.req
        OBVIOUS
      <4>1. k \in Request
        BY <1>1, ElementOfSeq DEF Among
      <4>2. m.req < k.req
        BY <1>1, <3>3 DEF Ordered, Asked
      <4> QED BY <3>1, <4>1, <4>2 DEF Request
    <3>7. Rises(d, toExt[x])
      BY <1>1, <2>2, <2>3, <2>6, <3>4, <3>5, <3>6 DEF Rises
    <3> QED BY <1>1, <2>2, <2>4, <2>6, <3>1, <3>2, <3>7, RisesUpdated
  <2> QED BY <2>2, <2>5, <2>6 DEF Cached
<1> QED BY <1>3, <1>4, <1>5, <1>6 DEF Client

LEMMA RisesStep ==
  ASSUME ActivationReplies \cap {"stream", "list"} = {},
         QueryInv, OrderedInv, IdsInv, RisesInv, [Next]_vars
  PROVE  RisesInv' /\ [Rising]_vars
<1>1. client \in [Exts -> ClientState] /\ toExt \in [Exts -> Seq(Request)] /\ app.req \in Nat
  BY DEF QueryInv, TypeOK, WireTypeOK, ClientTypeOK, ClientState, CoreTypeOK
<1>2. \A x \in Exts : client[x].cacheReq \in Nat
  BY <1>1 DEF ClientState
<1>3. CASE UNCHANGED vars
  BY <1>3 DEF vars, RisesInv
<1>4. ASSUME UNCHANGED <<toExt, client>>
      PROVE  RisesInv' /\ Rising
  BY <1>2, <1>4 DEF RisesInv, Rising
<1>5. ASSUME NEW x \in Exts, NEW now, Gone(x, now)
      PROVE  RisesInv' /\ Rising
  <2>1. /\ NewClient.debounce = 0 /\ NewClient.threads = {} /\ NewClient.idle = <<>>
        /\ NewClient.cacheReq = 0 /\ Among(<<>>) = {}
    BY AmongFew DEF NewClient
  <2>2. Rises(NewClient, <<>>)
    BY <2>1 DEF Rises
  <2> QED BY <1>5, <2>1, <2>2, RisesUpdated DEF Gone
<1>6. CASE (User \/ MainLoop) /\ UNCHANGED client
  <2>1. ASSUME NEW x \in Exts
        PROVE  \A m \in Among(toExt'[x]) : client[x].cacheReq <= m.req
    <3>1. app'.req \in {app.req, app.req + 1}
          /\ \/ toExt'[x] \in {toExt[x], <<>>}
             \/ \E m \in Request : /\ app'.req = app.req + 1 /\ m.req = app'.req
                                   /\ toExt'[x] = Append(toExt[x], m)
      BY <1>6, MainLoopSends
    <3>2. client[x].cacheReq <= app.req /\ \A m \in Among(toExt[x]) : client[x].cacheReq <= m.req
      BY DEF IdsInv, Held, RisesInv, Rises
    <3>3. CASE toExt'[x] \in {toExt[x], <<>>}
      BY <3>2, <3>3, AmongFew
    <3>4. ASSUME NEW m \in Request, m.req = app.req + 1, toExt'[x] = Append(toExt[x], m)
          PROVE  \A k \in Among(toExt'[x]) : client[x].cacheReq <= k.req
      <4>1. Among(toExt'[x]) = Among(toExt[x]) \cup {m}
        BY <1>1, <3>4, AmongAppend
      <4>2. client[x].cacheReq <= m.req
        BY <1>1, <1>2, <3>2, <3>4
      <4> QED BY <3>2, <4>1, <4>2
    <3> QED BY <3>1, <3>3, <3>4
  <2> QED BY <1>2, <1>6, <2>1 DEF RisesInv, Rises, Rising
<1>7. CASE (\E x \in Exts : Client(x)) /\ UNCHANGED app
  BY <1>7, RisesClient
<1>8. CASE Service
  BY <1>4, <1>5, <1>8 DEF Service, StopExtension, StartExtension, ExtensionFails, LeftStopped
<1> QED BY <1>3, <1>6, <1>7, <1>8 DEF Next, Finished

\* With activations that are not answered with results, every process takes in
\* the requests in their order, so that ids name one result for the whole
\* request (extension.py:279-280) and an activated row never becomes a sibling,
\* whatever is superseded, restarted or sent late.
THEOREM IdsStayExact == ASSUME ActivationReplies \cap {"stream", "list"} = {} PROVE Spec => []IdsExact
<1>1. Init => RisesInv
  <2> SUFFICES ASSUME Init, NEW x \in Exts PROVE Rises(client[x], toExt[x])
    BY DEF RisesInv
  <2>1. client[x] = NewClient /\ toExt[x] = <<>>
    BY DEF Init, WireInit, ClientInit
  <2>2. /\ NewClient.debounce = 0 /\ NewClient.threads = {} /\ NewClient.idle = <<>> /\ Among(<<>>) = {}
    BY AmongFew DEF NewClient
  <2> QED BY <2>1, <2>2 DEF Rises
<1>2. QueryInv /\ OrderedInv /\ IdsInv /\ RisesInv /\ [Next]_vars => IdsInv' /\ RisesInv'
  BY RisesStep, IdsStep
<1> QED BY <1>1, <1>2, IdsInit, IdsInvExact, OrderedInit, OrderedStep, QueryInvAlways, PTL DEF Spec
=============================================================================
