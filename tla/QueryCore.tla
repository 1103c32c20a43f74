------------------------------ MODULE QueryCore -------------------------------
(***************************************************************************)
(* The app's side of a query: ulauncher/core.py (UlauncherCore) and        *)
(* modes/extensions/extension_mode.py (ExtensionMode), which call each     *)
(* other synchronously, on the app's main loop.  The operators below take  *)
(* and return the state of both, so that nested calls compose; the actions *)
(* at the end are the events of the main loop.                             *)
(***************************************************************************)
EXTENDS QueryWire, ResultBuffer

VARIABLE app
(* mode, text    the core's mode and query
   placeholder   the "Loading..." timer runs
   buffer        the result buffer
   active        ExtensionMode._active_ext
   pending       ExtensionMode._pending_callback is set
   loading       ExtensionMode._loading_timer runs
   req           ExtensionMode._request_id
   shown         what the launcher window lists
   reload        an idle "app:reload_query" is due
   sent          what was written to the sockets
   history:
   want          the list the extension has asked to show for the latest request
   answered      the current query was answered
   open          the latest request, until its closing response arrived        *)

Shown(kind, rows) == [kind |-> kind, rows |-> rows]

\* _render_results: also ends the wait for the placeholder.
Rendered(s, rows, extend) ==
  [s EXCEPT !.placeholder = FALSE,
            !.shown = Shown("rows", IF extend THEN s.shown.rows \o rows ELSE rows)]

\* The buffer's _paint.
Painted(s) ==
  Rendered([s EXCEPT !.buffer = PaintedBuffer], s.buffer.rows, Extends(s.buffer))

\* A RENDER_RESULTS effect reaches the core's callback.
Delivered(s, rows, append, final) ==
  LET t == [s EXCEPT !.placeholder = FALSE,
                     !.buffer = Buffered(s.buffer, rows, append),
                     !.want = IF append THEN @ \o rows ELSE rows,
                     !.answered = TRUE]
  IN IF final THEN Painted(t) ELSE [t EXCEPT !.buffer.timer = TRUE]

\* Mutant: the mode is asked without a check that it is still active.
CallbackUnchecked(s, rows, append, final) == Delivered(s, rows, append, final)
\* The core drops what a mode that is no longer active hands to its callback.
ExtensionRenders(s, rows, append, final) ==
  IF s.mode = "extension" THEN Delivered(s, rows, append, final) ELSE s

-------------------------------------------------------------------------------
(* ExtensionMode *)

\* _send_request to the active extension.
Sent(s, request) ==
  LET x == s.active
      r == s.req + 1
  IN IF x = NoExt \/ status[x] # "up" THEN s
     ELSE [s EXCEPT !.req = r, !.pending = TRUE, !.want = <<>>, !.open = r,
                    !.sent[x] = Append(@, [request EXCEPT !.req = r])]

\* handle_query: a stopped extension is waited for; one that is not enabled or
\* not there gets a message.
QueryHandled(s, x) ==
  LET t == [s EXCEPT !.loading = FALSE] IN
  CASE status[x] = "down"    -> ExtensionRenders(t, <<NoticeRow>>, FALSE, TRUE)
    [] status[x] = "stopped" -> [t EXCEPT !.active = x, !.pending = TRUE, !.loading = TRUE]
    [] status[x] = "up"      -> Sent([t EXCEPT !.active = x], InputRequest(0))

\* _finish_loading
LoadingFinished(s, rows) ==
  LET t == [s EXCEPT !.loading = FALSE, !.pending = FALSE]
  IN IF s.pending THEN ExtensionRenders(t, rows, FALSE, TRUE) ELSE t

\* errored(ext_id)
Errored(s, x) ==
  IF s.active # x THEN s
  ELSE LET t == [s EXCEPT !.open = 0]
       IN IF s.loading THEN LoadingFinished(t, <<NoticeRow>>) ELSE [t EXCEPT !.pending = FALSE]

-------------------------------------------------------------------------------
(* UlauncherCore *)

\* set_query and handle_change; a launcher query may be painted at once or
\* buffered while it waits for asynchronous providers.
QuerySet(s, text, final) ==
  LET t == [s EXCEPT !.text = text, !.buffer = NoBuffer, !.placeholder = text # Empty,
                     !.want = <<>>, !.answered = FALSE, !.open = 0]
  IN CASE text = Empty -> [t EXCEPT !.mode = "none", !.shown = Shown("home", <<>>)]
       [] text = Plain -> Delivered([t EXCEPT !.mode = "launcher"], <<LocalRow>>, FALSE, final)
       [] OTHER        -> QueryHandled([t EXCEPT !.mode = "extension"], text)

\* The effect of a response reaches the core's callback.
EffectHandled(s, m, final) ==
  CASE m.type = "render"  -> ExtensionRenders(s, m.rows, m.append, m.final)
    [] m.type # "render" /\ s.mode # "extension" -> s
    [] m.type = "nothing" /\ s.mode = "extension" -> [s EXCEPT !.placeholder = FALSE, !.answered = TRUE]
    [] m.type = "query" /\ s.mode = "extension" -> QuerySet([s EXCEPT !.placeholder = FALSE], m.query, final)

\* Mutant: any batch of a stream ends it.
StreamsNever(m) == FALSE
Streams(m) == m.type = "render" /\ ~m.final

\* Mutant: stale responses are not told apart.
AnswersAny(s, x, m) == s.active = x /\ s.pending

\* A response is for the request that is pending.
Answers(s, x, m) == s.active = x /\ s.pending /\ m.req = s.req

\* handle_message and _handle_response: a stream keeps the callback, anything
\* else is terminal, and the callback is dropped after it has run.
ResponseHandled(s, x, m, final) ==
  IF ~Answers(s, x, m) THEN s
  ELSE LET closed(r) == IF r = m.req /\ (m.type = "render" => m.final) THEN 0 ELSE r
           t == EffectHandled([s EXCEPT !.open = closed(@)], m, final)
       IN IF Streams(m) THEN t ELSE [t EXCEPT !.pending = FALSE]

-------------------------------------------------------------------------------
(* Events of the app's main loop *)

App(s) == app' = [s EXCEPT !.sent = [x \in Exts |-> <<>>]]
          /\ toExt' = [x \in Exts |-> IF status[x] = "up" THEN toExt[x] \o s.sent[x] ELSE <<>>]

\* The user edits the query text.
Edit(text) ==
  /\ Uses("inputs", MaxInputs)
  /\ \E final \in BOOLEAN : (text = Plain \/ final) /\ App(QuerySet(app, text, final))
  /\ UNCHANGED <<status, toApp>>

\* activate_result on a row of the list, by the mode that is active: only the
\* extension mode knows rows of extensions, and only the launcher its own (which
\* it launches, closing the window: not modelled).
Activate(i) ==
  /\ Uses("activations", MaxActivations)
  /\ app.shown.kind = "rows" /\ i \in DOMAIN app.shown.rows
  /\ LET row == app.shown.rows[i]
         s   == [app EXCEPT !.buffer = NoBuffer]
     IN /\ row # NoticeRow
        /\ CASE app.mode = "extension" /\ row.ext # NoExt -> App(Sent(s, ActivationRequest(0, row)))
             [] app.mode = "extension" /\ row.ext = NoExt -> App(s)
             [] app.mode = "launcher" -> row.ext # NoExt /\ App([s EXCEPT !.placeholder = FALSE])
  /\ UNCHANGED <<status, toApp>>

\* The next response of extension x is read from its socket.
Receive(x) ==
  /\ toApp[x] # <<>>
  /\ toApp' = [toApp EXCEPT ![x] = Tail(@)]
  /\ \E final \in BOOLEAN : App(ResponseHandled(app, x, Head(toApp[x]), final))
  /\ UNCHANGED <<status, used>>

ShowPlaceholder ==
  /\ app.placeholder
  /\ App([app EXCEPT !.placeholder = FALSE, !.shown = Shown("loading", <<>>)])
  /\ UNCHANGED <<status, toApp, used>>

ThrottledPaint ==
  /\ app.buffer.timer
  /\ App(Painted(app))
  /\ UNCHANGED <<status, toApp, used>>

LoadingTimeout ==
  /\ app.loading
  /\ App(LoadingFinished(app, <<>>))
  /\ UNCHANGED <<status, toApp, used>>

ReloadQuery ==
  /\ app.reload
  /\ \E final \in BOOLEAN : App(QuerySet([app EXCEPT !.reload = FALSE], app.text, final))
  /\ UNCHANGED <<status, toApp, used>>

CoreInit ==
  app = [mode |-> "none", text |-> Empty, placeholder |-> FALSE, buffer |-> NoBuffer,
         active |-> NoExt, pending |-> FALSE, loading |-> FALSE, req |-> 0,
         shown |-> Shown("home", <<>>), reload |-> FALSE, sent |-> [x \in Exts |-> <<>>],
         want |-> <<>>, answered |-> TRUE, open |-> 0]

CoreTypeOK ==
  app \in [mode: {"none", "launcher", "extension"}, text: Texts, placeholder: BOOLEAN,
           buffer: Buffer(Row), active: Exts \cup {NoExt}, pending: BOOLEAN, loading: BOOLEAN,
           req: Nat, shown: [kind: {"home", "loading", "rows"}, rows: Seq(Row)],
           reload: BOOLEAN, sent: [Exts -> {<<>>}],
           want: Seq(Row), answered: BOOLEAN, open: Nat]
===============================================================================
