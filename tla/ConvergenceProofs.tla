---------------------------- MODULE ConvergenceProofs ----------------------------
(* Once nothing is under way for an id, it runs exactly when it should, from the *)
(* record and the files it should (Converged of ExtensionService), and a preview *)
(* that failed is never launched again (NoCrashLoop): for any number of          *)
(* extensions, processes, previews and requests.                                 *)
(*                                                                               *)
(* _reconcile does nothing while a job holds the id or a stop is in flight, and  *)
(* an exit that is reported as an error does not reconcile at all.  So the proof *)
(* follows what is still due for an id (Due), what will replace a process that   *)
(* runs from the wrong record (Redone), and what the call on top relies on.      *)
EXTENDS SlotsProofs

\* The calls of the stack, and those below the call on top.
Frames == {calls[i] : i \in DOMAIN calls}
Below  == {calls[i] : i \in {k \in DOMAIN calls : k > 1}}

\* An id that waits for its boot has no other call on the stack.
WaitsAlone == \A i, j \in DOMAIN calls : i # j /\ calls[i].op = "boot" => calls[j].ext # calls[i].ext

\* Some calls only ever run next; an id waits for its boot with no other call;
\* a loop over jobs that is marked is on the stack.
Upright ==
  /\ \A c \in Below : c.op \notin {"start", "stop", "stopPreview", "pollExit"}
  /\ WaitsAlone
  /\ \A c \in Frames : c.op = "pollExit" => procs[c.proc].ext = c.ext
  /\ \A c \in Frames : c.op = "stopPreview" =>
       Below = {} \/ preview = NoPreview \/ preview.ext = c.ext
  /\ \A e \in Exts : draining[e] => \E c \in Frames : c.op = "drain" /\ c.ext = e

\* A preview is told from the ones before it by its token, wherever it is named.
PreviewRec(r) == r.tok # 0 <=> r.kind = "preview"
Overlaid(r, e) == r.tok # 0 /\ r.tok = preview.tok => e = preview.ext
Tokened ==
  /\ preview = NoPreview \/ preview.tok # 0
  /\ \A p \in Procs : PreviewRec(procs[p].rec) /\ Overlaid(procs[p].rec, procs[p].ext)

\* What is started, now or after other boots, is what the id resolves to.
Startable(c) ==
  /\ c.rec.kind # "none" /\ PreviewRec(c.rec)
  /\ c.rec.tok # 0 => c.rec.tok = preview.tok /\ c.ext = preview.ext
  /\ dirty[c.ext] \/ c.rec = Get(c.ext)
StartsRight == \A c \in Frames : c.op \in {"start", "boot"} => Startable(c)

\* The overlay of a preview that failed is about to be dropped.
FailedDropped ==
  /\ 0 \notin failed
  /\ preview.tok \in failed => \E c \in Frames : c.op = "stopPreview"

\* A restart of the id is coming: what runs for it now will be stopped.
Restarts(c) ==
  \/ c.op \in {"enqueue", "job"} /\ c.arg = "restart"
  \/ c.op = "stop" /\ c.arg = "release"
Redone(e) ==
  \/ \E k \in DOMAIN jobs[e] : jobs[e][k] = "restart"
  \/ \E c \in Frames : c.ext = e /\ Restarts(c)
  \/ pendingStop[e].cbs # <<>>

\* Otherwise it runs from the record the id resolves to, and its files.
FitsAt(e) ==
  \A p \in Procs : Unreported(p) /\ procs[p].ext = e =>
    \/ dirty[e] \/ Redone(e)
    \/ procs[p].rec = Get(e) /\ (runtime[e] = p => ~procs[p].stale)

\* A preview that was stopped to stay stopped is not the overlay any more.
DroppedAt(e) ==
  \A p \in Procs : Unreported(p) /\ procs[p].ext = e =>
    (runtime[e] # p /\ pendingStop[e].cbs = <<>> /\ procs[p].rec.tok # 0
       => procs[p].rec.tok # preview.tok)

\* When callbacks are drained after other calls, there are some if a stop is in flight.
ReturnedAt(e) ==
  \A c \in Below : c.op = "drainCallbacks" /\ c.ext = e /\ pendingStop[e].on =>
    pendingStop[e].cbs # <<>>

\* Nothing holds the id, or only an exit that is being reported.
Rests(e) ==
  /\ ~dirty[e] /\ ~jobActive[e] /\ jobs[e] = <<>>
  /\ pendingStop[e].on => Running("drainCallbacks") /\ Head(calls).ext = e

\* A call on the stack will start or stop what has to be.
Working == {"enqueue", "runNext", "drain", "reconcile", "start"}
Settles(c, e) ==
  \/ c.ext = e /\ (c.op \in Working \/ (c.op = "stop" /\ c.arg = "none"))
  \/ c.op = "stopPreview" /\ preview.ext = e
Due(e) == \E c \in Frames : Settles(c, e)

BootsLater(e) == ~booted \/ \E c \in Frames : c.op = "boot" /\ c.ext = e
Wanted(e) == Get(e) # NoRec /\ IsEnabled(Get(e), file[e])
Synced(e) == Get(e) # NoRec => mem[e] = file[e]

\* An id for which nothing is due is as it should be, but for the first boot.
ReconciledAt(e) ==
  Rests(e) /\ ~Due(e) =>
    /\ Synced(e)
    /\ runtime[e] # 0 => Wanted(e)
    /\ Wanted(e) /\ runtime[e] = 0 => BootsLater(e) /\ preview.ext # e

\* What the call on top relies on.
StartFits(c) ==
  /\ c.rec.kind = "preview" \/ mem[c.ext].enabled
  /\ Rests(c.ext) => Synced(c.ext) /\ (runtime[c.ext] # 0 => Wanted(c.ext))
StopFits(c) == runtime[c.ext] # 0 /\ preview.ext # c.ext
TopFits ==
  \A c \in Frames : /\ c.op = "start" => StartFits(c)
                    /\ c.op = "stop" /\ c.arg = "none" => StopFits(c)

At(e) == FitsAt(e) /\ DroppedAt(e) /\ ReturnedAt(e) /\ ReconciledAt(e)
Steady == Upright /\ Tokened /\ StartsRight /\ FailedDropped /\ TopFits /\ \A e \in Exts : At(e)
Known == Typed /\ Orderly /\ Sound

(***************************************************************************)
(* How a step moves the stack                                              *)
(***************************************************************************)
\* The call on top goes on as the calls in tops, on top, and in under.
Runs(tops, under) ==
  \E n \in 0..2 :
    /\ Moves(n) /\ 1..n \subseteq DOMAIN calls'
    /\ n = 0 => tops = {} /\ under = {}
    /\ n = 1 => tops = {calls'[1]} /\ under = {}
    /\ n = 2 => tops = {calls'[1]} /\ under = {calls'[2]}

LEMMA RunsFrames ==
  ASSUME Typed, Typed', NEW tops, NEW under, Runs(tops, under)
  PROVE  /\ Frames' = tops \cup under \cup Below /\ Below' \subseteq under \cup Below
         /\ calls' # <<>> => Head(calls') \in Frames'
         /\ tops # {} => calls' # <<>> /\ Head(calls') \in tops
         /\ tops = {} /\ calls' # <<>> => Head(calls') \in Below
<1>1. PICK n \in 0..2 :
        /\ Moves(n) /\ 1..n \subseteq DOMAIN calls'
        /\ n = 0 => tops = {} /\ under = {}
        /\ n = 1 => tops = {calls'[1]} /\ under = {}
        /\ n = 2 => tops = {calls'[1]} /\ under = {calls'[2]}
  BY DEF Runs
<1>2. /\ DOMAIN calls \subseteq Int /\ \A i \in DOMAIN calls : i >= 1
  BY Positions
<1>3. /\ DOMAIN calls' \subseteq Int /\ \A i \in DOMAIN calls' : i >= 1
      /\ calls' # <<>> => 1 \in DOMAIN calls' /\ calls'[1] = Head(calls')
      /\ calls' = <<>> => DOMAIN calls' = {}
  <2>1. Len(calls') \in Nat /\ DOMAIN calls' = 1..Len(calls')
    BY LenProperties DEF Typed
  <2>2. calls' # <<>> => Len(calls') >= 1 /\ Head(calls') = calls'[1]
    BY <2>1, EmptySeq DEF Typed
  <2>3. calls' = <<>> => DOMAIN calls' = {}
    BY EmptySeq
  <2>4. QED
    BY <2>1, <2>2, <2>3
<1>4. \A i \in DOMAIN calls' : i > n => calls'[i] \in Below
  <2>1. ASSUME NEW i \in DOMAIN calls', i > n PROVE calls'[i] \in Below
    <3>1. i + 1 - n \in DOMAIN calls /\ calls'[i] = calls[i + 1 - n] /\ i + 1 - n > 1
      BY <1>1, <1>3, <2>1 DEF Moves
    <3>2. QED
      BY <3>1 DEF Below
  <2>2. QED
    BY <2>1
<1>5. \A c \in Below : \E i \in DOMAIN calls' : i > n /\ calls'[i] = c
  <2>1. ASSUME NEW i \in DOMAIN calls, i > 1 PROVE i + n - 1 \in DOMAIN calls' /\ i + n - 1 > n
                                                  /\ calls'[i + n - 1] = calls[i]
    BY <1>1, <1>2, <2>1 DEF Moves
  <2>2. QED
    BY <2>1 DEF Below
<1>6. \A i \in 1..n : i \in DOMAIN calls' /\ calls'[i] \in tops \cup under
  BY <1>1
<1>7. \A c \in tops \cup under : \E i \in 1..n : calls'[i] = c
  <2>1. CASE n = 0
    BY <1>1, <2>1
  <2>2. CASE n = 1
    BY <1>1, <2>2
  <2>3. CASE n = 2
    BY <1>1, <2>3
  <2>4. QED
    BY <2>1, <2>2, <2>3
<1>8. Frames' = tops \cup under \cup Below
  <2>1. \A i \in DOMAIN calls' : calls'[i] \in tops \cup under \cup Below
    BY <1>3, <1>4, <1>6
  <2>2. \A c \in tops \cup under \cup Below : \E i \in DOMAIN calls' : calls'[i] = c
    BY <1>5, <1>6, <1>7
  <2>3. QED
    BY <2>1, <2>2 DEF Frames
<1>9. Below' \subseteq under \cup Below
  <2>1. ASSUME NEW i \in DOMAIN calls', i > 1 PROVE calls'[i] \in under \cup Below
    <3>1. i <= n => i = 2 /\ n = 2
      BY <1>3, <2>1
    <3>2. QED
      BY <1>1, <1>3, <1>4, <2>1, <3>1
  <2>2. QED
    BY <2>1 DEF Below
<1>10. calls' # <<>> => Head(calls') \in Frames'
  BY <1>3 DEF Frames
<1>11. tops # {} => calls' # <<>> /\ Head(calls') \in tops
  <2>1. tops # {} => n \in {1, 2} /\ tops = {calls'[1]} /\ 1 \in DOMAIN calls'
    BY <1>1
  <2>2. QED
    BY <1>3, <2>1
<1>12. tops = {} /\ calls' # <<>> => Head(calls') \in Below
  <2>1. tops = {} => n = 0
    BY <1>1
  <2>2. QED
    BY <1>3, <1>4, <2>1
<1>13. QED
  BY <1>8, <1>9, <1>10, <1>11, <1>12

\* Before the step: the call on top and the ones below, or none.
LEMMA FramesNow ==
  ASSUME Typed
  PROVE  /\ calls # <<>> => Frames = {Head(calls)} \cup Below /\ Head(calls) \in Frames
         /\ calls = <<>> => Frames = {} /\ Below = {}
         /\ \A c \in Frames : c \in GoodFrame /\ c.ext \in Exts /\ c.rec \in Rec
         /\ Below \subseteq Frames
<1>1. /\ DOMAIN calls \subseteq Int /\ \A i \in DOMAIN calls : i >= 1
      /\ calls # <<>> => 1 \in DOMAIN calls /\ calls[1] = Head(calls)
      /\ calls = <<>> => DOMAIN calls = {}
  BY Positions
<1>2. \A i \in DOMAIN calls : calls[i] \in GoodFrame
  BY Stack
<1>3. \A c \in GoodFrame : c.ext \in Exts /\ c.rec \in Rec
  BY DEF GoodFrame, Frame
<1>4. QED
  BY <1>1, <1>2, <1>3 DEF Frames, Below

LEMMA RunsNone ==
  ASSUME Typed, calls # <<>>, Return
  PROVE  Runs({}, {})
BY ReturnMoves DEF Runs

LEMMA RunsOne ==
  ASSUME Typed, calls # <<>>, NEW c \in GoodFrame, Becomes(<<c>>)
  PROVE  Runs({c}, {})
<1>1. Moves(1) /\ 1 \in DOMAIN calls' /\ calls'[1] = c
  BY OneMoves
<1>2. QED
  BY <1>1 DEF Runs

LEMMA RunsTwo ==
  ASSUME Typed, calls # <<>>, NEW c \in GoodFrame, NEW d \in GoodFrame, Becomes(<<c, d>>)
  PROVE  Runs({c}, {d})
<1>1. /\ Moves(2) /\ 1 \in DOMAIN calls' /\ 2 \in DOMAIN calls'
      /\ calls'[1] = c /\ calls'[2] = d
  BY TwoMoves
<1>2. 1..2 \subseteq DOMAIN calls'
  BY <1>1
<1>3. QED
  BY <1>1, <1>2 DEF Runs

LEMMA RunsFirst ==
  ASSUME Typed, Typed', calls = <<>>
  PROVE  /\ \A c : calls' = <<c>> => Runs({c}, {})
         /\ \A c, d : calls' = <<c, d>> => Runs({c}, {d})
<1> DEFINE n == Len(calls')
<1>1. Moves(n) /\ n \in Nat /\ DOMAIN calls' = 1..n
  BY EventMoves
<1>2. ASSUME NEW c, calls' = <<c>> PROVE Runs({c}, {})
  <2>1. n = 1 /\ calls'[1] = c
    BY <1>2
  <2> HIDE DEF n
  <2>2. QED
    BY <1>1, <2>1 DEF Runs
<1>3. ASSUME NEW c, NEW d, calls' = <<c, d>> PROVE Runs({c}, {d})
  <2>1. n = 2 /\ calls'[1] = c /\ calls'[2] = d
    BY <1>3
  <2> HIDE DEF n
  <2>2. QED
    BY <1>1, <2>1 DEF Runs
<1>4. QED
  BY <1>2, <1>3

\* What the exit handler goes on as.
Torn(e, r) == r.kind = "preview" /\ preview = [ext |-> e, tok |-> r.tok]

LEMMA RunsExit ==
  ASSUME Typed, Typed', NEW e \in Exts, NEW r \in Rec, NEW errored \in BOOLEAN,
         NEW rest \in Seq(GoodFrame), HandleExit(e, r, errored, rest),
         IF calls = <<>> THEN rest = <<>> ELSE rest = Tail(calls)
  PROVE  /\ errored /\ Torn(e, r) => Runs({Call("stopPreview", e)}, {Call("drainCallbacks", e)})
         /\ errored /\ ~Torn(e, r) => Runs({Call("drainCallbacks", e)}, {})
         /\ ~errored => Runs({Call("drainCallbacks", e)}, {Call("reconcile", e)})
<1> DEFINE a == Call("stopPreview", e)
           b == Call("drainCallbacks", e)
           c == Call("reconcile", e)
           before == IF errored /\ Torn(e, r) THEN <<a>> ELSE <<>>
           after == IF errored THEN <<>> ELSE <<c>>
<1>1. a \in GoodFrame /\ b \in GoodFrame /\ c \in GoodFrame
  BY CallGood DEF Op
<1>2. calls' = ((before \o <<b>>) \o after) \o rest
  BY DEF HandleExit, Torn
<1> HIDE DEF a, b, c
<1>3. <<b>> \in Seq(GoodFrame) /\ <<a, b>> \in Seq(GoodFrame) /\ <<b, c>> \in Seq(GoodFrame)
  BY <1>1
<1>4. ASSUME NEW s \in Seq(GoodFrame), calls' = s \o rest
      PROVE  IF calls = <<>> THEN calls' = s ELSE Becomes(s)
  BY <1>4, ConcatEmptySeq DEF Becomes
<1>5. CASE errored /\ Torn(e, r)
  <2>1. <<a>> \o <<b>> = <<a, b>>
    BY <1>1, TwoCalls
  <2>2. (<<a>> \o <<b>>) \o <<>> = <<a, b>>
    BY <1>3, <2>1, ConcatEmptySeq
  <2>3. calls' = <<a, b>> \o rest
    BY <1>2, <1>5, <2>2
  <2>4. Runs({a}, {b})
    BY <1>1, <1>3, <1>4, <2>3, RunsFirst, RunsTwo
  <2>5. QED
    BY <1>5, <2>4 DEF a, b
<1>6. CASE errored /\ ~Torn(e, r)
  <2>1. (<<>> \o <<b>>) \o <<>> = <<b>>
    BY <1>3, ConcatEmptySeq
  <2>2. calls' = <<b>> \o rest
    BY <1>2, <1>6, <2>1
  <2>3. Runs({b}, {})
    BY <1>1, <1>3, <1>4, <2>2, RunsFirst, RunsOne
  <2>4. QED
    BY <1>6, <2>3 DEF b
<1>7. CASE ~errored
  <2>1. <<>> \o <<b>> = <<b>>
    BY <1>3, ConcatEmptySeq
  <2>2. <<b>> \o <<c>> = <<b, c>>
    BY <1>1, TwoCalls
  <2>3. calls' = <<b, c>> \o rest
    BY <1>2, <1>7, <2>1, <2>2
  <2>4. Runs({b}, {c})
    BY <1>1, <1>3, <1>4, <2>3, RunsFirst, RunsTwo
  <2>5. QED
    BY <1>7, <2>4 DEF b, c
<1>8. QED
  BY <1>5, <1>6, <1>7

\* An id that waits for its boot keeps waiting alone.
LEMMA BootsAlone ==
  ASSUME Typed, Typed', WaitsAlone, NEW tops, NEW under, Runs(tops, under),
         \A c \in tops \cup under : c.op # "boot" /\ (Below = {} \/ c.ext = Head(calls).ext)
  PROVE  WaitsAlone'
<1>1. PICK n \in 0..2 :
        /\ Moves(n) /\ 1..n \subseteq DOMAIN calls'
        /\ n = 0 => tops = {} /\ under = {}
        /\ n = 1 => tops = {calls'[1]} /\ under = {}
        /\ n = 2 => tops = {calls'[1]} /\ under = {calls'[2]}
  BY DEF Runs
<1>2. /\ DOMAIN calls \subseteq Int /\ \A i \in DOMAIN calls : i >= 1
      /\ calls # <<>> => 1 \in DOMAIN calls /\ calls[1] = Head(calls)
      /\ calls = <<>> => DOMAIN calls = {}
  BY Positions
<1>3. DOMAIN calls' \subseteq Int /\ \A i \in DOMAIN calls' : i >= 1
  BY LenProperties DEF Typed
<1>4. \A i \in 1..n : calls'[i] \in tops \cup under
  BY <1>1
<1>5. SUFFICES ASSUME NEW i \in DOMAIN calls', NEW j \in DOMAIN calls', i # j, calls'[i].op = "boot"
               PROVE  calls'[j].ext # calls'[i].ext
  BY DEF WaitsAlone
<1>6. i > n
  <2>1. ~(i \in 1..n)
    BY <1>4, <1>5
  <2>2. QED
    BY <1>3, <2>1
<1> DEFINE k == i + 1 - n
<1>7. k \in DOMAIN calls /\ calls'[i] = calls[k] /\ k > 1
  BY <1>1, <1>3, <1>6 DEF Moves
<1>8. CASE j > n
  <2>1. j + 1 - n \in DOMAIN calls /\ calls'[j] = calls[j + 1 - n] /\ j + 1 - n # k
    BY <1>1, <1>3, <1>5, <1>8 DEF Moves
  <2>2. QED
    BY <1>5, <1>7, <2>1 DEF WaitsAlone
<1>9. CASE j <= n
  <2>1. calls'[j] \in tops \cup under
    BY <1>3, <1>4, <1>9
  <2>2. calls[k] \in Below
    BY <1>7 DEF Below
  <2>3. calls'[j].ext = Head(calls).ext
    BY <2>1, <2>2
  <2>4. 1 \in DOMAIN calls /\ calls[1] = Head(calls) /\ 1 # k
    BY <1>2, <1>7
  <2>5. calls[1].ext # calls[k].ext
    BY <1>5, <1>7, <2>4 DEF WaitsAlone
  <2>6. QED
    BY <1>7, <2>3, <2>4, <2>5
<1>10. QED
  BY <1>1, <1>3, <1>8, <1>9

\* The id that boots, or whose call is on top, is no other's that waits.
LEMMA BootsElsewhere ==
  ASSUME Typed, WaitsAlone, calls # <<>>, NEW c \in Below
  PROVE  /\ c.op = "boot" => c.ext # Head(calls).ext
         /\ Head(calls).op = "boot" => c.ext # Head(calls).ext
<1>1. 1 \in DOMAIN calls /\ calls[1] = Head(calls)
  BY Positions
<1>2. PICK i \in DOMAIN calls : i > 1 /\ calls[i] = c
  BY DEF Below
<1>3. QED
  BY <1>1, <1>2 DEF WaitsAlone

(***************************************************************************)
(* What a step keeps                                                       *)
(***************************************************************************)
LEMMA UprightKept ==
  ASSUME Typed, Typed', Upright, NEW tops, NEW under, Runs(tops, under),
         \A c \in tops \cup under : c.op # "boot" /\ (Below = {} \/ c.ext = Head(calls).ext),
         \A c \in under : c.op \notin {"start", "stop", "stopPreview", "pollExit"},
         \A c \in tops : /\ c.op = "pollExit" => procs'[c.proc].ext = c.ext
                         /\ c.op = "stopPreview" =>
                              Below' = {} \/ preview' = NoPreview \/ preview'.ext = c.ext,
         \A e \in Exts : draining'[e] =>
           \/ draining[e] /\ (calls # <<>> => ~(Head(calls).op = "drain" /\ Head(calls).ext = e))
           \/ \E c \in tops \cup under : c.op = "drain" /\ c.ext = e
  PROVE  Upright'
<1>1. Frames' = tops \cup under \cup Below /\ Below' \subseteq under \cup Below
  BY RunsFrames
<1>2. WaitsAlone'
  BY BootsAlone DEF Upright
<1>3. \A c \in Below' : c.op \notin {"start", "stop", "stopPreview", "pollExit"}
  BY <1>1 DEF Upright
<1>4. \A c \in Frames' : c.op \in {"stopPreview", "pollExit"} => c \in tops
  BY <1>1 DEF Upright
<1>5. \A e \in Exts : draining'[e] => \E c \in Frames' : c.op = "drain" /\ c.ext = e
  BY <1>1, FramesNow DEF Upright
<1>6. \A c \in Frames' : c.op = "pollExit" => procs'[c.proc].ext = c.ext
  BY <1>4
<1>7. \A c \in Frames' : c.op = "stopPreview" =>
        Below' = {} \/ preview' = NoPreview \/ preview'.ext = c.ext
  BY <1>4
<1>8. QED
  BY <1>2, <1>3, <1>5, <1>6, <1>7 DEF Upright

SameNames == \A p \in Procs : procs'[p].rec = procs[p].rec /\ procs'[p].ext = procs[p].ext

LEMMA TokenedKept ==
  ASSUME Tokened, UNCHANGED preview, SameNames
  PROVE  Tokened'
BY DEF Tokened, SameNames, PreviewRec, Overlaid

LEMMA StartsKept ==
  ASSUME Typed, Typed', Upright, StartsRight, NEW tops, NEW under, Runs(tops, under),
         UNCHANGED preview, calls # <<>> => \A e \in Exts : dirty[e] => dirty'[e],
         \A c \in tops \cup under : c.op \in {"start", "boot"} => Startable(c)',
         \A e \in Exts : (calls # <<>> /\ e = Head(calls).ext) \/ dirty'[e] \/ userCopy'[e] = userCopy[e]
  PROVE  StartsRight'
<1>1. Frames' = tops \cup under \cup Below
  BY RunsFrames
<1>2. ASSUME NEW c \in Below, c.op \in {"start", "boot"} PROVE Startable(c)'
  <2>1. c.op = "boot" /\ c \in Frames /\ c.ext \in Exts
    BY <1>2, FramesNow DEF Upright
  <2>0. calls # <<>>
    BY <1>2, FramesNow
  <2>2. Startable(c)
    BY <2>1 DEF StartsRight
  <2>3. calls # <<>> => c.ext # Head(calls).ext
    BY <2>1, BootsElsewhere DEF Upright
  <2>4. dirty'[c.ext] \/ userCopy'[c.ext] = userCopy[c.ext]
    BY <2>1, <2>3
  <2>5. userCopy'[c.ext] = userCopy[c.ext] => Get(c.ext)' = Get(c.ext)
    BY DEF Get, Locate
  <2>6. QED
    BY <2>0, <2>1, <2>2, <2>4, <2>5 DEF Startable
<1>3. QED
  BY <1>1, <1>2 DEF StartsRight

LEMMA FailedKept ==
  ASSUME Typed, Typed', FailedDropped, NEW tops, NEW under, Runs(tops, under),
         UNCHANGED <<preview, failed>>, calls # <<>> => Head(calls).op # "stopPreview"
  PROVE  FailedDropped'
BY RunsFrames, FramesNow DEF FailedDropped

LEMMA TopFitsKept ==
  ASSUME Typed, Typed', Upright, NEW tops, NEW under, Runs(tops, under),
         \A c \in tops \cup under : /\ c.op = "start" => StartFits(c)'
                                    /\ c.op = "stop" /\ c.arg = "none" => StopFits(c)'
  PROVE  TopFits'
BY RunsFrames DEF Upright, TopFits

\* The step is about e: nothing it changes is of another id.
Touches(e) ==
  /\ UNCHANGED <<preview, booted>>
  /\ \A x \in Exts \ {e} :
       /\ runtime'[x] = runtime[x] /\ pendingStop'[x] = pendingStop[x] /\ jobs'[x] = jobs[x]
       /\ jobActive'[x] = jobActive[x] /\ dirty'[x] = dirty[x] /\ file'[x] = file[x]
       /\ mem'[x] = mem[x] /\ userCopy'[x] = userCopy[x]
  /\ \A p \in Procs : \/ procs'[p] = procs[p]
                      \/ procs'[p].ext = e /\ (procs[p].ext = e \/ ~Unreported(p))

\* A stop in flight is not taken for one whose callbacks are drained now.
LEMMA RestsBack ==
  ASSUME Typed, Typed', Held, NEW x \in Exts, ReturnedAt(x), NEW tops, NEW under, Runs(tops, under),
         \A c \in tops : c.op # "drainCallbacks" \/ c.ext # x,
         pendingStop'[x] = pendingStop[x], jobActive'[x] = jobActive[x], Rests(x)'
  PROVE  ~pendingStop[x].on
<1>1. SUFFICES ASSUME pendingStop[x].on PROVE FALSE
  OBVIOUS
<1>2. calls' # <<>> /\ Head(calls').op = "drainCallbacks" /\ Head(calls').ext = x
  BY <1>1 DEF Rests, Running
<1>3. Head(calls') \in Below
  BY <1>2, RunsFrames
<1>4. pendingStop[x].cbs # <<>>
  BY <1>1, <1>2, <1>3 DEF ReturnedAt
<1>5. jobActive[x]
  BY <1>4 DEF Held, OneHolder, Stops
<1>6. QED
  BY <1>5 DEF Rests

LEMMA Elsewhere ==
  ASSUME Typed, Typed', Held, NEW e \in Exts, NEW x \in Exts \ {e}, At(x),
         NEW tops, NEW under, Runs(tops, under), Touches(e),
         calls # <<>> => Head(calls).ext = e /\ Head(calls).op # "stopPreview",
         \A c \in tops \cup under : c.ext = e
  PROVE  At(x)'
<1>1. /\ Frames' = tops \cup under \cup Below /\ Below' \subseteq under \cup Below
      /\ \A c \in Frames : (c.ext = x \/ c.op = "stopPreview") => c \in Frames'
      /\ \A c \in Below' : c.ext = x => c \in Below
  BY RunsFrames, FramesNow
<1>2. /\ runtime'[x] = runtime[x] /\ pendingStop'[x] = pendingStop[x] /\ jobs'[x] = jobs[x]
      /\ jobActive'[x] = jobActive[x] /\ dirty'[x] = dirty[x] /\ file'[x] = file[x]
      /\ mem'[x] = mem[x] /\ Get(x)' = Get(x) /\ preview' = preview /\ booted' = booted
  BY DEF Touches, Get, Locate
<1>3. \A p \in Procs : procs'[p].ext = x => procs'[p] = procs[p]
  BY DEF Touches
<1>4. Redone(x) => Redone(x)'
  BY <1>1, <1>2 DEF Redone
<1>5. FitsAt(x)' /\ DroppedAt(x)'
  BY <1>2, <1>3, <1>4 DEF At, FitsAt, DroppedAt, Unreported
<1>6. ReturnedAt(x)'
  BY <1>1, <1>2 DEF At, ReturnedAt
<1>7. ReconciledAt(x)'
  <2>1. SUFFICES ASSUME Rests(x)', ~Due(x)'
                 PROVE  /\ Synced(x)' /\ (runtime'[x] # 0 => Wanted(x)')
                        /\ Wanted(x)' /\ runtime'[x] = 0 => BootsLater(x)' /\ preview'.ext # x
    BY DEF ReconciledAt
  <2>2. ~pendingStop[x].on
    BY <1>2, <2>1, RestsBack DEF At
  <2>3. Rests(x)
    BY <1>2, <2>1, <2>2 DEF Rests
  <2>4. ~Due(x)
    BY <1>1, <1>2, <2>1 DEF Due, Settles
  <2>5. BootsLater(x) => BootsLater(x)'
    BY <1>1, <1>2 DEF BootsLater
  <2>6. (Synced(x)' <=> Synced(x)) /\ (Wanted(x)' <=> Wanted(x))
    BY <1>2 DEF Synced, Wanted, IsEnabled
  <2>7. QED
    BY <1>2, <2>3, <2>4, <2>5, <2>6 DEF At, ReconciledAt
<1>8. QED
  BY <1>5, <1>6, <1>7 DEF At

\* The step moves only the stack and the jobs of e, and what has to follow is due.
LEMMA AtPlain ==
  ASSUME Typed, Typed', NEW e \in Exts, At(e), NEW tops, NEW under, Runs(tops, under),
         UNCHANGED <<preview, procs>>, runtime'[e] = runtime[e], pendingStop'[e] = pendingStop[e],
         dirty'[e] = dirty[e], userCopy'[e] = userCopy[e],
         \A c \in under : c.op # "drainCallbacks",
         Redone(e) => Redone(e)', jobActive'[e] \/ Due(e)'
  PROVE  At(e)'
<1>1. Below' \subseteq under \cup Below
  BY RunsFrames
<1>2. Get(e)' = Get(e)
  BY DEF Get, Locate
<1>3. FitsAt(e)' /\ DroppedAt(e)'
  BY <1>2 DEF At, FitsAt, DroppedAt, Unreported
<1>4. ReturnedAt(e)'
  BY <1>1 DEF At, ReturnedAt
<1>5. ReconciledAt(e)'
  BY DEF ReconciledAt, Rests
<1>6. QED
  BY <1>3, <1>4, <1>5 DEF At

\* A call that is made is ready to run.
Fitting(c) ==
  /\ c.op # "boot"
  /\ c.op = "start" => Startable(c)' /\ StartFits(c)'
  /\ c.op = "stop" /\ c.arg = "none" => StopFits(c)'
  /\ c.op = "pollExit" => procs'[c.proc].ext = c.ext
  /\ c.op = "stopPreview" => preview' = NoPreview \/ preview'.ext = c.ext

LEMMA SteadyMoves ==
  ASSUME Typed, Typed', Held, Steady, NEW e \in Exts, NEW tops, NEW under, Runs(tops, under),
         Touches(e), FailedDropped', Tokened',
         calls # <<>> => /\ Head(calls).ext = e /\ Head(calls).op # "stopPreview"
                         /\ dirty[e] => dirty'[e],
         \A c \in tops \cup under : c.ext = e /\ Fitting(c),
         \A c \in under : c.op \notin {"start", "stop", "stopPreview", "pollExit"},
         \A x \in Exts : draining'[x] =>
           \/ draining[x] /\ (calls # <<>> => ~(Head(calls).op = "drain" /\ Head(calls).ext = x))
           \/ \E c \in tops \cup under : c.op = "drain" /\ c.ext = x,
         calls # <<>> \/ userCopy' = userCopy,
         At(e)'
  PROVE  Steady'
<1>0. /\ Upright /\ Tokened /\ StartsRight /\ FailedDropped /\ TopFits
      /\ \A x \in Exts : At(x)
  BY DEF Steady
<1>1. Upright'
  <2>1. \A c \in tops \cup under : c.op # "boot" /\ (Below = {} \/ c.ext = Head(calls).ext)
    BY FramesNow DEF Fitting
  <2>2. \A c \in tops : /\ c.op = "pollExit" => procs'[c.proc].ext = c.ext
                        /\ c.op = "stopPreview" =>
                             Below' = {} \/ preview' = NoPreview \/ preview'.ext = c.ext
    BY DEF Fitting
  <2>3. QED
    BY <1>0, <2>1, <2>2, UprightKept
<1>2. StartsRight'
  <2>1. calls # <<>> => \A x \in Exts : dirty[x] => dirty'[x]
    BY DEF Touches
  <2>2. \A c \in tops \cup under : c.op \in {"start", "boot"} => Startable(c)'
    BY DEF Fitting
  <2>3. \A x \in Exts : (calls # <<>> /\ x = Head(calls).ext) \/ dirty'[x] \/ userCopy'[x] = userCopy[x]
    BY DEF Touches
  <2>4. UNCHANGED preview
    BY DEF Touches
  <2>5. QED
    BY <1>0, <2>1, <2>2, <2>3, <2>4, StartsKept
<1>3. TopFits'
  BY <1>0, TopFitsKept DEF Fitting
<1>4. \A x \in Exts : At(x)'
  BY <1>0, Elsewhere
<1>5. QED
  BY <1>1, <1>2, <1>3, <1>4 DEF Steady

LEMMA SteadyKept ==
  ASSUME Typed, Typed', Held, Steady, NEW e \in Exts, NEW tops, NEW under, Runs(tops, under),
         Touches(e), UNCHANGED failed, SameNames,
         calls # <<>> => /\ Head(calls).ext = e /\ Head(calls).op # "stopPreview"
                         /\ dirty[e] => dirty'[e],
         \A c \in tops \cup under : c.ext = e /\ Fitting(c),
         \A c \in under : c.op \notin {"start", "stop", "stopPreview", "pollExit"},
         \A x \in Exts : draining'[x] =>
           \/ draining[x] /\ (calls # <<>> => ~(Head(calls).op = "drain" /\ Head(calls).ext = x))
           \/ \E c \in tops \cup under : c.op = "drain" /\ c.ext = x,
         calls # <<>> \/ userCopy' = userCopy,
         At(e)'
  PROVE  Steady'
<1>1. Tokened'
  BY TokenedKept DEF Touches, Steady
<1>2. FailedDropped'
  BY FailedKept DEF Touches, Steady
<1>3. QED
  BY <1>1, <1>2, SteadyMoves

\* Most calls are always ready.
Ready == {"reconcile", "enqueue", "runNext", "drain", "job", "drainCallbacks"} \cup Callback

LEMMA ReadyFits ==
  /\ \A c : c.op \in Ready => Fitting(c)
  /\ \A c : c.op = "stop" /\ c.arg # "none" => Fitting(c)
BY DEF Ready, Callback, Fitting

LEMMA CallNames ==
  ASSUME NEW e \in Exts
  PROVE  /\ \A op \in Op : Call(op, e).op = op /\ Call(op, e).ext = e /\ Call(op, e).arg = "none"
         /\ \A op \in Op, x \in JobKind \cup Callback \cup {"none"} :
              CallWith(op, e, x).op = op /\ CallWith(op, e, x).ext = e /\ CallWith(op, e, x).arg = x
         /\ \A op \in Op, r \in Rec :
              CallRec(op, e, r).op = op /\ CallRec(op, e, r).ext = e /\ CallRec(op, e, r).rec = r
         /\ \A op \in Op, p \in Procs :
              CallProc(op, e, p).op = op /\ CallProc(op, e, p).ext = e /\ CallProc(op, e, p).proc = p
         /\ Op = {"boot", "enqueue", "runNext", "drain", "job", "stop", "pollExit", "reconcile",
                  "start", "stopPreview", "drainCallbacks", "release", "swap", "remove"}
         /\ JobKind = {"restart", "install", "update", "uninstall"}
         /\ Callback = {"release", "swap", "remove"}
BY RecordTypes, BoundsAssumption DEF Call, CallWith, CallRec, CallProc, Op, JobKind, Callback, Procs

LEMMA SameNamesUnchanged == ASSUME UNCHANGED procs PROVE SameNames
BY DEF SameNames

-------------------------------------------------------------------------------
(* One lemma per operation *)

LEMMA EnqueueSteady == Typed /\ Typed' /\ Held /\ Steady /\ Enqueue => Steady'
<1> SUFFICES ASSUME Typed, Typed', Held, Steady, Enqueue PROVE Steady'
  OBVIOUS
<1>0. calls # <<>> /\ Head(calls).op = "enqueue" /\ Head(calls).ext \in Exts /\ Head(calls).arg \in JobKind
  BY TopTyped DEF Enqueue, Running, GoodFrame
<1>1. PICK e \in Exts, k \in JobKind :
        /\ Head(calls).ext = e /\ Head(calls).arg = k
        /\ jobs' = [jobs EXCEPT ![e] = Append(@, k)] /\ Becomes(<<Call("runNext", e)>>)
        /\ UNCHANGED <<lifeVars, jobActive, draining, fetching, confVars, histVars, reqVars,
                       preview, userCopy, procs>>
  BY <1>0 DEF Enqueue
<1> DEFINE c == Call("runNext", e)
<1>2. c \in GoodFrame /\ c.op = "runNext" /\ c.ext = e
  BY <1>1, CallGood, CallNames
<1>3. Runs({c}, {})
  BY <1>0, <1>1, <1>2, RunsOne
<1>4. /\ Frames' = {c} \cup Below /\ Frames = {Head(calls)} \cup Below
  BY <1>0, <1>3, RunsFrames, FramesNow
<1>5. jobs \in [Exts -> Seq(JobKind)] /\ jobs'[e] = Append(jobs[e], k)
  BY <1>1 DEF Typed, TypeOK
<1>6. /\ Len(jobs[e]) \in Nat /\ DOMAIN jobs[e] = 1..Len(jobs[e])
      /\ DOMAIN jobs'[e] = 1..(Len(jobs[e]) + 1)
      /\ jobs'[e][Len(jobs[e]) + 1] = k
      /\ \A i \in 1..Len(jobs[e]) : jobs'[e][i] = jobs[e][i]
  <2>1. jobs[e] \in Seq(JobKind)
    BY <1>1, <1>5
  <2>2. QED
    BY <1>1, <1>5, <2>1, AppendProperties, LenProperties
<1> HIDE DEF c
<1>7. Redone(e) => Redone(e)'
  <2>1. CASE \E i \in DOMAIN jobs[e] : jobs[e][i] = "restart"
    BY <1>6, <2>1 DEF Redone
  <2>2. CASE \E d \in Frames : d.ext = e /\ Restarts(d)
    <3>1. PICK d \in Frames : d.ext = e /\ Restarts(d)
      BY <2>2
    <3>2. CASE d \in Below
      BY <1>4, <3>1, <3>2 DEF Redone
    <3>3. CASE d = Head(calls)
      <4>1. k = "restart"
        BY <1>0, <1>1, <3>1, <3>3 DEF Restarts
      <4>2. Len(jobs[e]) + 1 \in DOMAIN jobs'[e]
        BY <1>6
      <4>3. QED
        BY <1>6, <4>1, <4>2 DEF Redone
    <3>4. QED
      BY <1>4, <3>1, <3>2, <3>3
  <2>3. CASE pendingStop[e].cbs # <<>>
    BY <1>1, <2>3 DEF Redone, lifeVars
  <2>4. QED
    BY <2>1, <2>2, <2>3 DEF Redone
<1>8. Due(e)'
  <2>1. Settles(c, e)'
    BY <1>2 DEF Settles, Working
  <2>2. QED
    BY <1>4, <2>1 DEF Due
<1>9. At(e)'
  BY <1>1, <1>3, <1>7, <1>8, AtPlain DEF Steady, lifeVars, histVars
<1>10. Touches(e)
  <2>1. \A x \in Exts \ {e} : jobs'[x] = jobs[x]
    BY <1>1, <1>5
  <2>2. QED
    BY <1>1, <2>1 DEF Touches, lifeVars, confVars, histVars, reqVars
<1>11. Fitting(c)
  BY <1>2, ReadyFits DEF Ready
<1>12. QED
  <2>1. Head(calls).ext = e /\ UNCHANGED <<failed, draining, dirty, userCopy, procs>>
    BY <1>1 DEF histVars
  <2>2. QED
    BY <1>0, <1>1, <1>2, <1>3, <1>9, <1>10, <1>11, <2>1, SteadyKept, SameNamesUnchanged

\* Steps that move jobs and calls only, and leave the id busy or something due.
LEMMA SteadyPlain ==
  ASSUME Typed, Typed', Held, Steady, NEW e \in Exts, NEW tops, NEW under, Runs(tops, under),
         UNCHANGED <<lifeVars, confVars, histVars, booted, preview, userCopy, procs>>,
         \A x \in Exts \ {e} : jobs'[x] = jobs[x] /\ jobActive'[x] = jobActive[x],
         calls # <<>> => Head(calls).ext = e /\ Head(calls).op # "stopPreview",
         \A c \in tops \cup under : c.ext = e /\ (c.op \in Ready \/ (c.op = "stop" /\ c.arg # "none")),
         \A c \in under : c.op \notin {"drainCallbacks", "stop"},
         \A x \in Exts : draining'[x] =>
           \/ draining[x] /\ (calls # <<>> => ~(Head(calls).op = "drain" /\ Head(calls).ext = x))
           \/ \E c \in tops \cup under : c.op = "drain" /\ c.ext = x,
         Redone(e) => Redone(e)', jobActive'[e] \/ Due(e)'
  PROVE  Steady'
<1>1. At(e)'
  BY AtPlain DEF Steady, lifeVars, histVars
<1>2. Touches(e)
  BY DEF Touches, lifeVars, confVars, histVars
<1>3. \A c \in tops \cup under : Fitting(c)
  BY ReadyFits
<1>4. \A c \in under : c.op \notin {"start", "stop", "stopPreview", "pollExit"}
  BY DEF Ready, Callback
<1>5. UNCHANGED <<failed, dirty, userCopy, procs>>
  BY DEF histVars
<1>6. QED
  BY <1>1, <1>2, <1>3, <1>4, <1>5, SteadyKept, SameNamesUnchanged

\* Nothing that restarts the id was on top, and nothing else changes.
LEMMA RedoneRests ==
  ASSUME Typed, Typed', NEW e \in Exts, NEW tops, NEW under, Runs(tops, under),
         UNCHANGED <<jobs, pendingStop>>,
         calls # <<>> /\ Head(calls).ext = e /\ Restarts(Head(calls)) =>
           \E c \in tops \cup under : c.ext = e /\ Restarts(c)
  PROVE  Redone(e) => Redone(e)'
BY RunsFrames, FramesNow DEF Redone

LEMMA RunNextSteady == Typed /\ Typed' /\ Held /\ Steady /\ RunNext => Steady'
<1> SUFFICES ASSUME Typed, Typed', Held, Steady, RunNext PROVE Steady'
  OBVIOUS
<1>0. calls # <<>> /\ Head(calls).op = "runNext" /\ Head(calls).ext \in Exts
  BY TopTyped DEF RunNext, Running
<1>1. PICK e \in Exts : Head(calls).ext = e
  BY <1>0
<1>2. /\ UNCHANGED <<lifeVars, jobs, jobActive, confVars, histVars, booted, preview, userCopy, procs>>
      /\ ~Restarts(Head(calls))
  BY <1>0 DEF RunNext, reqVars, Restarts
<1>3. CASE draining[e]
  <2>1. Return /\ UNCHANGED draining
    BY <1>1, <1>3 DEF RunNext
  <2>2. Runs({}, {})
    BY <1>0, <2>1, RunsNone
  <2>3. Below \subseteq Frames' /\ Frames = {Head(calls)} \cup Below
    <3>1. Frames' = {} \cup {} \cup Below
      BY <2>2, RunsFrames
    <3>2. QED
      BY <1>0, <3>1, FramesNow
  <2>4. PICK c \in Frames : c.op = "drain" /\ c.ext = e
    BY <1>3 DEF Steady, Upright
  <2>5. c \in Frames'
    BY <1>0, <2>3, <2>4
  <2>6. Settles(c, e)'
    BY <2>4 DEF Settles, Working
  <2>7. Due(e)'
    BY <2>5, <2>6 DEF Due
  <2>8. Redone(e) => Redone(e)'
    BY <1>2, <2>2, RedoneRests DEF lifeVars
  <2>9. QED
    BY <1>0, <1>1, <1>2, <2>1, <2>2, <2>7, <2>8, SteadyPlain
<1>4. CASE ~draining[e]
  <2> DEFINE c == Call("drain", e)
  <2>1. draining' = [draining EXCEPT ![e] = TRUE] /\ Becomes(<<c>>)
    BY <1>1, <1>4 DEF RunNext
  <2>2. c \in GoodFrame /\ c.op = "drain" /\ c.ext = e
    BY CallGood, CallNames
  <2> HIDE DEF c
  <2>3. Runs({c}, {})
    BY <1>0, <2>1, <2>2, RunsOne
  <2>4. c \in Frames'
    BY <2>3, RunsFrames
  <2>5. Settles(c, e)'
    BY <2>2 DEF Settles, Working
  <2>6. Due(e)'
    BY <2>4, <2>5 DEF Due
  <2>7. Redone(e) => Redone(e)'
    BY <1>2, <2>3, RedoneRests DEF lifeVars
  <2>8. \A x \in Exts : draining'[x] => draining[x] \/ x = e
    BY <2>1 DEF Typed, TypeOK
  <2>9. c.op \in Ready
    BY <2>2 DEF Ready
  <2>10. QED
    BY <1>0, <1>1, <1>2, <2>2, <2>3, <2>6, <2>7, <2>8, <2>9, SteadyPlain
<1>5. QED
  BY <1>3, <1>4

LEMMA DrainSteady == Typed /\ Typed' /\ Held /\ Steady /\ Drain => Steady'
<1> SUFFICES ASSUME Typed, Typed', Held, Steady, Drain PROVE Steady'
  OBVIOUS
<1>0. calls # <<>> /\ Head(calls).op = "drain" /\ Head(calls).ext \in Exts
  BY TopTyped DEF Drain, Running
<1>1. PICK e \in Exts : Head(calls).ext = e
  BY <1>0
<1>2. /\ UNCHANGED <<lifeVars, confVars, histVars, booted, preview, userCopy, procs>>
      /\ ~Restarts(Head(calls)) /\ pendingStop' = pendingStop
  BY <1>0 DEF Drain, reqVars, Restarts, lifeVars
<1>3. CASE ~jobActive[e] /\ jobs[e] # <<>>
  <2>1. jobs[e] \in Seq(JobKind)
    BY DEF Typed, TypeOK
  <2>2. PICK k \in JobKind : k = Head(jobs[e])
    BY <1>3, <2>1, HeadTailProperties
  <2> DEFINE c == CallWith("job", e, k)
             d == Call("drain", e)
  <2>3. /\ jobActive' = [jobActive EXCEPT ![e] = TRUE] /\ jobs' = [jobs EXCEPT ![e] = Tail(@)]
        /\ Becomes(<<c, d>>) /\ UNCHANGED draining
    BY <1>1, <1>3, <2>2 DEF Drain
  <2>4. /\ c \in GoodFrame /\ c.op = "job" /\ c.ext = e /\ c.arg = k
        /\ d \in GoodFrame /\ d.op = "drain" /\ d.ext = e
    <3>1. c.op = "job" /\ c.ext = e /\ c.arg = k /\ d.op = "drain" /\ d.ext = e
      BY DEF CallWith, Call
    <3>2. c \in GoodFrame /\ d \in GoodFrame
      BY CallGood, CallWithGood, CallNames
    <3>3. QED
      BY <3>1, <3>2
  <2> HIDE DEF c, d
  <2>5. Runs({c}, {d})
    BY <1>0, <2>3, <2>4, RunsTwo
  <2>6. Frames' = {c, d} \cup Below /\ Frames = {Head(calls)} \cup Below
    BY <1>0, <2>5, RunsFrames, FramesNow
  <2>7. jobs'[e] = Tail(jobs[e]) /\ jobActive'[e] /\ \A x \in Exts \ {e} :
           jobs'[x] = jobs[x] /\ jobActive'[x] = jobActive[x]
    BY <2>3 DEF Typed, TypeOK
  <2>8. ASSUME NEW i \in DOMAIN jobs[e], jobs[e][i] = "restart" PROVE Redone(e)'
    <3>1. /\ Len(jobs[e]) \in Nat /\ DOMAIN jobs[e] = 1..Len(jobs[e]) /\ Head(jobs[e]) = jobs[e][1]
          /\ Len(Tail(jobs[e])) = Len(jobs[e]) - 1
          /\ DOMAIN Tail(jobs[e]) = 1..Len(Tail(jobs[e]))
          /\ \A j \in 1..Len(Tail(jobs[e])) : Tail(jobs[e])[j] = jobs[e][j + 1]
      BY <1>3, <2>1, HeadTailProperties, LenProperties
    <3>2. CASE i = 1
      <4>1. c \in Frames' /\ Restarts(c)
        BY <2>2, <2>4, <2>6, <2>8, <3>1, <3>2 DEF Restarts
      <4>2. QED
        BY <2>4, <4>1 DEF Redone
    <3>3. CASE i # 1
      <4>1. i - 1 \in DOMAIN jobs'[e] /\ jobs'[e][i - 1] = "restart"
        BY <2>7, <2>8, <3>1, <3>3
      <4>2. QED
        BY <4>1 DEF Redone
    <3>4. QED
      BY <3>2, <3>3
  <2>9. Redone(e) => Redone(e)'
    <3>1. \A f \in Frames : f.ext = e /\ Restarts(f) => f \in Frames'
      BY <1>2, <2>6
    <3>2. QED
      BY <1>2, <2>8, <3>1 DEF Redone
  <2>10. c.op \in Ready /\ d.op \in Ready
    BY <2>4 DEF Ready
  <2>11. \A x \in Exts : draining'[x] => draining[x] /\ (x # e \/ \E f \in {c} \cup {d} : f.op = "drain" /\ f.ext = x)
    BY <2>3, <2>4
  <2>12. QED
    BY <1>0, <1>1, <1>2, <2>4, <2>5, <2>7, <2>9, <2>10, <2>11, SteadyPlain
<1>4. CASE ~(~jobActive[e] /\ jobs[e] # <<>>)
  <2>1. /\ draining' = [draining EXCEPT ![e] = FALSE] /\ UNCHANGED <<jobs, jobActive>>
        /\ IF jobActive[e] THEN Return ELSE Becomes(<<Call("reconcile", e)>>)
    BY <1>1, <1>4 DEF Drain
  <2>2. \A x \in Exts : draining'[x] => draining[x] /\ x # e
    BY <2>1 DEF Typed, TypeOK
  <2>3. CASE jobActive[e]
    <3>1. Runs({}, {})
      BY <1>0, <2>1, <2>3, RunsNone
    <3>2. Redone(e) => Redone(e)'
      BY <1>2, <2>1, <3>1, RedoneRests
    <3>3. QED
      BY <1>0, <1>1, <1>2, <2>1, <2>2, <2>3, <3>1, <3>2, SteadyPlain
  <2>4. CASE ~jobActive[e]
    <3> DEFINE c == Call("reconcile", e)
    <3>1. c \in GoodFrame /\ c.op = "reconcile" /\ c.ext = e /\ Becomes(<<c>>)
      BY <2>1, <2>4, CallGood, CallNames
    <3> HIDE DEF c
    <3>2. Runs({c}, {})
      BY <1>0, <3>1, RunsOne
    <3>3. c \in Frames' /\ Settles(c, e)' /\ c.op \in Ready
      BY <3>1, <3>2, RunsFrames DEF Settles, Working, Ready
    <3>4. Due(e)'
      BY <3>3 DEF Due
    <3>5. Redone(e) => Redone(e)'
      BY <1>2, <2>1, <3>2, RedoneRests
    <3>6. QED
      BY <1>0, <1>1, <1>2, <2>1, <2>2, <3>1, <3>2, <3>3, <3>4, <3>5, SteadyPlain
  <2>5. QED
    BY <2>3, <2>4
<1>5. QED
  BY <1>3, <1>4

LEMMA ReleaseSteady == Typed /\ Typed' /\ Held /\ Steady /\ Release => Steady'
<1> SUFFICES ASSUME Typed, Typed', Held, Steady, Release PROVE Steady'
  OBVIOUS
<1>0. calls # <<>> /\ Head(calls).op = "release" /\ Head(calls).ext \in Exts
  BY TopTyped DEF Release, Running
<1>1. PICK e \in Exts : Head(calls).ext = e
  BY <1>0
<1> DEFINE c == Call("runNext", e)
<1>2. /\ UNCHANGED <<lifeVars, jobs, draining, confVars, histVars, booted, preview, userCopy, procs>>
      /\ jobActive' = [jobActive EXCEPT ![e] = FALSE] /\ Becomes(<<c>>)
  BY <1>1 DEF Release, reqVars
<1>3. c \in GoodFrame /\ c.op = "runNext" /\ c.ext = e
  BY CallGood, CallNames
<1> HIDE DEF c
<1>4. Runs({c}, {})
  BY <1>0, <1>2, <1>3, RunsOne
<1>5. c \in Frames' /\ Settles(c, e)' /\ c.op \in Ready
  BY <1>3, <1>4, RunsFrames DEF Settles, Working, Ready
<1>6. Due(e)'
  BY <1>5 DEF Due
<1>7. Redone(e) => Redone(e)'
  <2>1. ~Restarts(Head(calls))
    BY <1>0 DEF Restarts
  <2>2. QED
    BY <1>2, <1>4, <2>1, RedoneRests DEF lifeVars
<1>8. \A x \in Exts \ {e} : jobActive'[x] = jobActive[x]
  BY <1>2 DEF Typed, TypeOK
<1>9. /\ UNCHANGED <<lifeVars, confVars, histVars, booted, preview, userCopy, procs>>
      /\ jobs' = jobs /\ draining' = draining
  BY <1>2
<1>10. /\ Head(calls).ext = e /\ Head(calls).op # "stopPreview" /\ Head(calls).op # "drain"
       /\ c.ext = e /\ c.op \in Ready
  BY <1>0, <1>1, <1>3, <1>5
<1>11. QED
  BY <1>4, <1>6, <1>7, <1>8, <1>9, <1>10, SteadyPlain

LEMMA JobSteady == Typed /\ Typed' /\ Held /\ Steady /\ Job => Steady'
<1> SUFFICES ASSUME Typed, Typed', Held, Steady, Job PROVE Steady'
  OBVIOUS
<1>0. calls # <<>> /\ Head(calls).op = "job" /\ Head(calls).ext \in Exts
  BY TopTyped DEF Job, Running
<1>1. PICK e \in Exts : Head(calls).ext = e
  BY <1>0
<1>2. /\ UNCHANGED <<lifeVars, jobs, jobActive, draining, confVars, histVars, booted, preview, userCopy, procs>>
      /\ pendingStop' = pendingStop
  BY DEF Job, reqVars, lifeVars
<1>3. jobActive[e]
  <2>1. WillRelease(Head(calls))
    BY <1>0 DEF WillRelease
  <2>2. QED
    BY <1>0, <1>1, <2>1, TopHolds
<1>4. /\ CallWith("stop", e, "release") \in GoodFrame /\ Call("release", e) \in GoodFrame
      /\ CallWith("stop", e, "remove") \in GoodFrame /\ Call("remove", e) \in GoodFrame
  BY CallGood, CallWithGood, CallNames
<1>5. /\ CallWith("stop", e, "release").op = "stop" /\ CallWith("stop", e, "release").ext = e
      /\ CallWith("stop", e, "release").arg = "release"
      /\ CallWith("stop", e, "remove").op = "stop" /\ CallWith("stop", e, "remove").ext = e
      /\ CallWith("stop", e, "remove").arg = "remove"
      /\ Call("release", e).op = "release" /\ Call("release", e).ext = e
      /\ Call("remove", e).op = "remove" /\ Call("remove", e).ext = e
  BY DEF CallWith, Call
<1>6. \/ Return /\ ~Restarts(Head(calls))
      \/ \E c \in GoodFrame :
           /\ Becomes(<<c>>) /\ c.ext = e
           /\ c.op \in Ready \/ (c.op = "stop" /\ c.arg # "none")
           /\ Restarts(Head(calls)) => Restarts(c)
  <2>1. CASE Head(calls).arg = "restart"
    <3>1. Becomes(<<CallWith("stop", e, "release")>>)
      BY <1>1, <2>1 DEF Job
    <3>2. QED
      BY <1>4, <1>5, <3>1 DEF Restarts
  <2>2. CASE Head(calls).arg # "restart"
    <3>1. ~Restarts(Head(calls))
      BY <1>0, <2>2 DEF Restarts
    <3>2. \/ Return \/ Becomes(<<Call("release", e)>>)
          \/ Becomes(<<CallWith("stop", e, "remove")>>) \/ Becomes(<<Call("remove", e)>>)
      BY <1>1, <2>2 DEF Job, StopExtension
    <3>3. QED
      BY <1>4, <1>5, <3>1, <3>2 DEF Ready, Callback
  <2>3. QED
    BY <2>1, <2>2
<1>7. CASE Return /\ ~Restarts(Head(calls))
  <2>1. Runs({}, {})
    BY <1>0, <1>7, RunsNone
  <2>2. Redone(e) => Redone(e)'
    BY <1>2, <1>7, <2>1, RedoneRests
  <2>3. QED
    BY <1>0, <1>1, <1>2, <1>3, <2>1, <2>2, SteadyPlain
<1>8. CASE \E c \in GoodFrame :
             /\ Becomes(<<c>>) /\ c.ext = e
             /\ c.op \in Ready \/ (c.op = "stop" /\ c.arg # "none")
             /\ Restarts(Head(calls)) => Restarts(c)
  <2>1. PICK c \in GoodFrame :
             /\ Becomes(<<c>>) /\ c.ext = e
             /\ c.op \in Ready \/ (c.op = "stop" /\ c.arg # "none")
             /\ Restarts(Head(calls)) => Restarts(c)
    BY <1>8
  <2>2. Runs({c}, {})
    BY <1>0, <2>1, RunsOne
  <2>3. Redone(e) => Redone(e)'
    BY <1>2, <2>1, <2>2, RedoneRests
  <2>4. QED
    BY <1>0, <1>1, <1>2, <1>3, <2>1, <2>2, <2>3, SteadyPlain
<1>9. QED
  BY <1>6, <1>7, <1>8

LEMMA FilesSteady == Typed /\ Typed' /\ Orderly /\ Sound /\ Steady /\ (Swap \/ Remove) => Steady'
<1> SUFFICES ASSUME Typed, Typed', Orderly, Sound, Steady, Swap \/ Remove PROVE Steady'
  OBVIOUS
<1>0. calls # <<>> /\ Head(calls).op \in {"swap", "remove"} /\ Head(calls).ext \in Exts
  BY TopTyped DEF Swap, Remove, Running
<1>1. PICK e \in Exts : Head(calls).ext = e
  BY <1>0
<1> DEFINE c == Call("release", e)
<1>2. /\ UNCHANGED <<lifeVars, jobVars, dirty, failed, booted, preview>> /\ Becomes(<<c>>)
      /\ pendingStop' = pendingStop /\ runtime' = runtime /\ jobs' = jobs /\ jobActive' = jobActive
      /\ draining' = draining
  BY <1>1 DEF Swap, Remove, reqVars, lifeVars, jobVars
<1>3. \/ UNCHANGED <<procs, userCopy, confVars>>
      \/ /\ \E v \in BOOLEAN : userCopy' = [userCopy EXCEPT ![e] = v]
         /\ \/ procs' = MarkStale(e, {"user", "distro"})
            \/ procs' = MarkStale(e, {"user"})
         /\ UNCHANGED confVars \/ \E s : Save(e, s)
  <2>1. CASE Swap
    BY <1>1, <2>1 DEF Swap
  <2>2. CASE Remove
    <3>1. userCopy = [userCopy EXCEPT ![e] = userCopy[e]] /\ userCopy[e] \in BOOLEAN
      BY DEF Typed, TypeOK
    <3>2. \/ UNCHANGED <<procs, userCopy, confVars>>
          \/ /\ \/ userCopy' = [userCopy EXCEPT ![e] = FALSE]
                \/ userCopy' = userCopy
             /\ procs' = MarkStale(e, {"user"})
             /\ UNCHANGED confVars \/ \E s : Save(e, s)
      BY <1>1, <2>2 DEF Remove
    <3> QED
      BY <3>1, <3>2
  <2>3. QED
    BY <2>1, <2>2
<1>4. c \in GoodFrame /\ c.op = "release" /\ c.ext = e
  BY CallGood, CallNames
<1> HIDE DEF c
<1>5. Runs({c}, {})
  BY <1>0, <1>2, <1>4, RunsOne
<1>6. jobActive[e] /\ ~(Restarts(Head(calls)))
  <2>1. WillRelease(Head(calls)) /\ ~Restarts(Head(calls))
    BY <1>0 DEF WillRelease, Callback, Restarts
  <2>2. QED
    BY <1>0, <1>1, <2>1, TopHolds DEF Sound
<1>7. \A p \in Procs : ~RunsCopy(p, e)
  BY <1>0, <1>1, Positions DEF Sound, Quiet
<1>8. /\ \A x \in Exts \ {e} : userCopy'[x] = userCopy[x] /\ file'[x] = file[x] /\ mem'[x] = mem[x]
      /\ \A x \in Exts : preview.ext = x => Get(x)' = Get(x)
  <2>1. file \in [Exts -> State] /\ mem \in [Exts -> State] /\ userCopy \in [Exts -> BOOLEAN]
    BY DEF Typed, TypeOK
  <2>2. ASSUME NEW x \in Exts \ {e} PROVE userCopy'[x] = userCopy[x]
    BY ONLY <1>3, <2>1, <2>2
  <2>3. ASSUME NEW x \in Exts \ {e} PROVE file'[x] = file[x] /\ mem'[x] = mem[x]
    <3>1. UNCHANGED confVars \/ \E s : Save(e, s)
      BY ONLY <1>3
    <3>2. CASE UNCHANGED confVars
      BY <3>2 DEF confVars
    <3>3. ASSUME NEW s, Save(e, s) PROVE file'[x] = file[x] /\ mem'[x] = mem[x]
      BY ONLY <2>1, <2>3, <3>3 DEF Save
    <3>4. QED
      BY <3>1, <3>2, <3>3
  <2>4. QED
    BY <1>2, <2>2, <2>3 DEF Get
<1>9. ASSUME NEW p \in Procs
      PROVE  /\ procs'[p].rec = procs[p].rec /\ procs'[p].ext = procs[p].ext /\ procs'[p].st = procs[p].st
             /\ procs'[p] # procs[p] => procs[p].ext = e
             /\ procs[p].rec.kind = "preview" => procs'[p] = procs[p]
  <2>1. CASE procs' = procs
    BY <2>1
  <2>2. CASE \E kinds \in {{"user", "distro"}, {"user"}} : procs' = MarkStale(e, kinds)
    <3>1. PICK kinds \in {{"user", "distro"}, {"user"}} : procs' = MarkStale(e, kinds)
      BY <2>2
    <3>2. /\ procs'[p].st = procs[p].st /\ procs'[p].ext = procs[p].ext
      BY <3>1, MarkStaleTyped
    <3>3. procs'[p].rec = procs[p].rec
      BY <3>1, StaleRecs DEF SameRecs
    <3>4. procs'[p] # procs[p] => procs[p].ext = e /\ procs[p].rec.kind \in kinds
      BY <3>1 DEF MarkStale
    <3>5. QED
      BY <3>2, <3>3, <3>4
  <2>3. QED
    BY <1>3, <2>1, <2>2
<1>10. Redone(e) => Redone(e)'
  BY <1>2, <1>5, <1>6, RedoneRests
<1>11. At(e)'
  <2>1. FitsAt(e)'
    <3>1. SUFFICES ASSUME NEW p \in Procs, Unreported(p)', procs'[p].ext = e, ~dirty'[e], ~Redone(e)'
                   PROVE  procs'[p].rec = Get(e)' /\ (runtime'[e] = p => ~procs'[p].stale)
      BY DEF FitsAt
    <3>2. Unreported(p) /\ procs[p].ext = e /\ ~dirty[e] /\ ~Redone(e)
      BY <1>2, <1>9, <1>10, <3>1 DEF Unreported
    <3>3. procs[p].rec = Get(e) /\ (runtime[e] = p => ~procs[p].stale)
      BY <3>2 DEF Steady, At, FitsAt
    <3>4. procs[p].rec.kind = "preview"
      BY <1>7, <3>2 DEF RunsCopy
    <3>5. preview.ext = e
      <4>1. Get(e).kind = "preview"
        BY <3>3, <3>4
      <4>2. Locate(e).kind # "preview"
        BY DEF Locate, NoRec
      <4>3. QED
        BY <4>1, <4>2 DEF Get
    <3>6. QED
      BY <1>2, <1>8, <1>9, <3>3, <3>4, <3>5
  <2>2. DroppedAt(e)'
    BY <1>2, <1>9 DEF Steady, At, DroppedAt, Unreported
  <2>3. ReturnedAt(e)'
    <3>1. Below' \subseteq Below
      BY <1>5, RunsFrames
    <3>2. QED
      BY <1>2, <3>1 DEF Steady, At, ReturnedAt
  <2>4. ReconciledAt(e)'
    BY <1>2, <1>6 DEF ReconciledAt, Rests
  <2>5. QED
    BY <2>1, <2>2, <2>3, <2>4 DEF At
<1>12. Touches(e)
  BY <1>2, <1>8, <1>9 DEF Touches
<1>13. SameNames
  BY <1>9 DEF SameNames
<1>14. c.op \in Ready
  BY <1>4 DEF Ready, Callback
<1>15. QED
  BY <1>0, <1>1, <1>2, <1>4, <1>5, <1>11, <1>12, <1>13, <1>14, ReadyFits, SteadyKept DEF Sound

LEMMA OneCallback ==
  ASSUME NEW e \in Exts, NEW cb \in Callback
  PROVE  [i \in DOMAIN <<cb>> |-> Call(<<cb>>[i], e)] = <<Call(cb, e)>>
OBVIOUS

\* Nothing runs for an id that is neither registered nor being stopped.
LEMMA NoneRuns ==
  ASSUME Typed, Orderly, NEW e \in Exts, runtime[e] = 0, ~pendingStop[e].on, NEW p \in Procs,
         Unreported(p), procs[p].ext = e
  PROVE  FALSE
<1>1. p # 0
  BY DEF Procs
<1>2. QED
  BY <1>1 DEF Orderly, Owned

LEMMA StopSteady == Typed /\ Typed' /\ Orderly /\ Sound /\ Steady /\ Stop => Steady'
<1> SUFFICES ASSUME Typed, Typed', Orderly, Sound, Steady, Stop PROVE Steady'
  OBVIOUS
<1>0. /\ calls # <<>> /\ Head(calls).op = "stop" /\ Head(calls).ext \in Exts
      /\ Head(calls).arg \in Callback \cup {"none"} /\ Head(calls) \in Frames
  BY TopTyped, FramesNow DEF Stop, Running, GoodFrame
<1>1. PICK e \in Exts, a \in Callback \cup {"none"} : Head(calls).ext = e /\ Head(calls).arg = a
  BY <1>0
<1> DEFINE cbs == IF a = "none" THEN <<>> ELSE <<a>>
<1>2. /\ UNCHANGED <<jobVars, confVars, histVars, booted, preview, userCopy>>
      /\ jobs' = jobs /\ jobActive' = jobActive /\ draining' = draining /\ dirty' = dirty
      /\ failed' = failed /\ userCopy' = userCopy
  BY DEF Stop, reqVars, jobVars, histVars
<1>3. At(e) /\ (a = "none" => runtime[e] # 0 /\ preview.ext # e) /\ Tokened
  BY <1>0, <1>1 DEF Steady, TopFits, StopFits
<1>4. a # "none" => jobActive[e] /\ pendingStop[e].cbs = <<>>
  <2>1. a # "none" => WillRelease(Head(calls))
    BY <1>0, <1>1 DEF WillRelease
  <2>2. QED
    BY <1>0, <1>1, <2>1, TopHolds DEF Sound, Stops
<1>5. pendingStop \in [Exts -> [on: BOOLEAN, cbs: Seq(Callback)]] /\ runtime \in [Exts -> 0..MaxProcs]
      /\ procs \in [Procs -> Proc]
  BY DEF Typed, TypeOK
<1>6. "none" \notin Callback /\ (a # "none" => a \in Callback)
  BY DEF Callback
<1>7. CASE runtime[e] # 0
  <2>0. PICK p \in Procs : p = runtime[e]
    BY <1>5, <1>7 DEF Procs
  <2>1. /\ runtime' = [runtime EXCEPT ![e] = 0]
        /\ pendingStop' = [pendingStop EXCEPT ![e] = [on |-> TRUE, cbs |-> cbs]]
        /\ \/ procs' = [procs EXCEPT ![p].aborted = TRUE] /\ Becomes(<<CallProc("pollExit", e, p)>>)
           \/ UNCHANGED procs /\ Return
    BY <1>1, <1>7, <2>0 DEF Stop
  <2>2. procs[p].ext = e /\ Unreported(p) /\ ~pendingStop[e].on /\ pendingStop[e].cbs = <<>>
    BY <1>7, <2>0 DEF Orderly, Owned
  <2>3. \A c \in Frames : c.op # "drainCallbacks"
    <3>1. \A i \in DOMAIN calls : ~Waiting(i)
      BY <1>0, <1>1, <1>7, TopAbove
    <3>2. QED
      BY <3>1 DEF Waiting, Frames
  <2>4. ASSUME NEW q \in Procs
        PROVE  /\ procs'[q].rec = procs[q].rec /\ procs'[q].ext = procs[q].ext /\ procs'[q].st = procs[q].st
               /\ procs'[q] # procs[q] => procs[q].ext = e
    <3>1. PICK pr \in Proc : pr = procs[p]
      BY <1>5
    <3>2. /\ [pr EXCEPT !.aborted = TRUE].rec = pr.rec /\ [pr EXCEPT !.aborted = TRUE].ext = pr.ext
          /\ [pr EXCEPT !.aborted = TRUE].st = pr.st
      BY DEF Proc
    <3>3. procs' = procs \/ (IF q = p THEN procs'[q] = [pr EXCEPT !.aborted = TRUE] ELSE procs'[q] = procs[q])
      BY <1>5, <2>1, <3>1
    <3>4. QED
      BY <2>2, <3>1, <3>2, <3>3
  <2>5. \E tops : /\ Runs(tops, {})
                  /\ \A c \in tops : c.ext = e /\ c.op = "pollExit" /\ c.proc = p
    <3>1. CASE Becomes(<<CallProc("pollExit", e, p)>>)
      <4>1. CallProc("pollExit", e, p) \in GoodFrame
        BY CallProcGood
      <4>2. /\ CallProc("pollExit", e, p).ext = e /\ CallProc("pollExit", e, p).op = "pollExit"
            /\ CallProc("pollExit", e, p).proc = p
        BY DEF CallProc, Call
      <4>3. Runs({CallProc("pollExit", e, p)}, {})
        BY <1>0, <3>1, <4>1, RunsOne
      <4>4. QED
        BY <4>2, <4>3
    <3>2. CASE Return
      BY <1>0, <3>2, RunsNone
    <3>3. QED
      BY <2>1, <3>1, <3>2
  <2>6. PICK tops : Runs(tops, {}) /\ \A c \in tops : c.ext = e /\ c.op = "pollExit" /\ c.proc = p
    BY <2>5
  <2>7. Frames' = tops \cup {} \cup Below /\ Below' \subseteq {} \cup Below
        /\ Frames = {Head(calls)} \cup Below /\ (calls' # <<>> => Head(calls') \in Frames')
    BY <1>0, <2>6, RunsFrames, FramesNow
  <2>8. /\ pendingStop'[e] = [on |-> TRUE, cbs |-> cbs] /\ runtime'[e] = 0
        /\ \A x \in Exts \ {e} : pendingStop'[x] = pendingStop[x] /\ runtime'[x] = runtime[x]
    BY <1>5, <2>1
  <2>9. Get(e)' = Get(e)
    BY <1>2 DEF Get, Locate
  <2>10. Redone(e) => Redone(e)'
    <3>1. \A c \in Below : c \in Frames'
      BY <2>7
    <3>2. Restarts(Head(calls)) => cbs # <<>>
      BY <1>0, <1>1 DEF Restarts
    <3>3. QED
      BY <1>2, <2>2, <2>7, <2>8, <3>1, <3>2 DEF Redone
  <2>11. FitsAt(e)'
    <3>1. SUFFICES ASSUME NEW q \in Procs, Unreported(q)', procs'[q].ext = e
                   PROVE  dirty'[e] \/ Redone(e)' \/ (procs'[q].rec = Get(e)' /\ runtime'[e] # q)
      BY DEF FitsAt
    <3>2. Unreported(q) /\ procs[q].ext = e /\ q # 0
      BY <2>4, <3>1 DEF Unreported, Procs
    <3>3. QED
      BY <1>2, <1>3, <2>4, <2>8, <2>9, <2>10, <3>2 DEF At, FitsAt
  <2>12. DroppedAt(e)'
    <3>1. SUFFICES ASSUME NEW q \in Procs, procs'[q].ext = e, cbs = <<>>, procs'[q].rec.tok # 0
                   PROVE  procs'[q].rec.tok # preview'.tok
      BY <2>8 DEF DroppedAt
    <3>2. a = "none"
      BY <3>1
    <3>3. QED
      BY <1>2, <1>3, <2>4, <3>1, <3>2 DEF Tokened, Overlaid
  <2>13. ReturnedAt(e)' /\ ReconciledAt(e)'
    <3>1. \A c \in Frames' : c.op # "drainCallbacks"
      BY <2>3, <2>6, <2>7
    <3>2. \A c \in Below' : c.op # "drainCallbacks"
      BY <2>3, <2>7
    <3>3. ~Rests(e)'
      BY <2>7, <2>8, <3>1 DEF Rests, Running
    <3>4. QED
      BY <3>2, <3>3 DEF ReturnedAt, ReconciledAt
  <2>14. Touches(e)
    BY <1>2, <2>4, <2>8 DEF Touches, jobVars, confVars, histVars
  <2>15. \A c \in tops : Fitting(c)
    BY <2>2, <2>4, <2>6 DEF Fitting
  <2>16. At(e)' /\ SameNames
    BY <2>4, <2>11, <2>12, <2>13 DEF At, SameNames
  <2>17. QED
    BY <1>0, <1>1, <1>2, <2>6, <2>14, <2>15, <2>16, SteadyKept DEF Sound
<1>8. CASE runtime[e] = 0
  <2>1. a \in Callback /\ a # "none" /\ jobActive[e] /\ pendingStop[e].cbs = <<>> /\ cbs = <<a>>
    BY <1>3, <1>4, <1>6, <1>8
  <2>2. UNCHANGED <<runtime, procs>>
    BY <1>1, <1>8 DEF Stop
  <2>3. Get(e)' = Get(e)
    BY <1>2 DEF Get, Locate
  <2>4. ReconciledAt(e)'
    BY <1>2, <2>1 DEF ReconciledAt, Rests
  <2>5. CASE pendingStop[e].on
    <3>1. pendingStop' = [pendingStop EXCEPT ![e].cbs = @ \o cbs] /\ Return
      BY <1>1, <1>8, <2>5 DEF Stop
    <3>2. /\ pendingStop'[e].cbs = <<>> \o <<a>>
          /\ \A x \in Exts \ {e} : pendingStop'[x] = pendingStop[x]
      BY <1>5, <2>1, <3>1
    <3>3. <<>> \o <<a>> = <<a>> /\ <<a>> # <<>>
      <4>1. <<a>> \in Seq(Callback)
        BY <2>1
      <4>2. QED
        BY <4>1, ConcatEmptySeq
    <3>4. pendingStop'[e].cbs # <<>>
      BY <3>2, <3>3
    <3>5. Runs({}, {})
      BY <1>0, <3>1, RunsNone
    <3>6. At(e)'
      BY <2>4, <3>4 DEF At, FitsAt, DroppedAt, ReturnedAt, Redone
    <3>7. Touches(e)
      BY <1>2, <2>2, <3>2 DEF Touches, jobVars, confVars, histVars
    <3>8. QED
      BY <1>0, <1>1, <1>2, <2>2, <3>5, <3>6, <3>7, SteadyKept, SameNamesUnchanged DEF Sound
  <2>6. CASE ~pendingStop[e].on
    <3> DEFINE c == Call(a, e)
    <3>1. UNCHANGED pendingStop /\ Becomes([i \in DOMAIN cbs |-> Call(cbs[i], e)])
      BY <1>1, <1>8, <2>6 DEF Stop
    <3>2. Becomes(<<c>>)
      BY <2>1, <3>1, OneCallback
    <3>3. c \in GoodFrame /\ c.op = a /\ c.ext = e
      BY <2>1, CallGood, CallNames
    <3> HIDE DEF c
    <3>4. Runs({c}, {})
      BY <1>0, <3>2, <3>3, RunsOne
    <3>5. \A q \in Procs : ~(Unreported(q) /\ procs[q].ext = e)
      BY <1>8, <2>6, NoneRuns
    <3>6. At(e)'
      BY <2>2, <2>4, <2>6, <3>1, <3>5 DEF At, FitsAt, DroppedAt, ReturnedAt, Unreported
    <3>7. Touches(e)
      BY <1>2, <2>2, <3>1 DEF Touches, jobVars, confVars, histVars
    <3>8. c.op \in Ready
      BY <2>1, <3>3 DEF Ready
    <3>9. QED
      BY <1>0, <1>1, <1>2, <2>2, <3>3, <3>4, <3>6, <3>7, <3>8, ReadyFits, SteadyKept, SameNamesUnchanged DEF Sound
  <2>7. QED
    BY <2>5, <2>6
<1>9. QED
  BY <1>7, <1>8

\* What an id resolves to: the overlay iff a preview is on.
LEMMA Resolved ==
  ASSUME Tokened, NEW e \in Exts
  PROVE  /\ Get(e) # NoRec <=> Get(e).kind # "none"
         /\ PreviewRec(Get(e))
         /\ Get(e).kind = "preview" <=> preview.ext = e
         /\ preview.ext = e => Get(e).tok = preview.tok /\ preview.tok # 0 /\ Wanted(e)
<1>1. /\ Locate(e).tok = 0 /\ Locate(e).kind # "preview"
      /\ Locate(e) # NoRec => Locate(e).kind # "none"
  BY DEF Locate, NoRec
<1>2. CASE preview.ext = e
  <2>1. preview # NoPreview
    BY <1>2, ExtsAssumption DEF NoPreview
  <2>2. preview.tok # 0
    BY <2>1 DEF Tokened
  <2>3. Get(e) = [kind |-> "preview", tok |-> preview.tok]
    BY <1>2 DEF Get
  <2>4. Get(e).kind = "preview" /\ Get(e).tok = preview.tok /\ Get(e) # NoRec
    BY <2>3 DEF NoRec
  <2>5. QED
    BY <1>2, <2>2, <2>4 DEF PreviewRec, Wanted, IsEnabled
<1>3. CASE preview.ext # e
  <2>1. Get(e) = Locate(e)
    BY <1>3 DEF Get
  <2>2. NoRec.kind = "none"
    BY DEF NoRec
  <2>3. QED
    BY <1>1, <1>3, <2>1, <2>2 DEF PreviewRec
<1>4. QED
  BY <1>2, <1>3

\* The step moves only the stack, and takes away nothing that restarts the id.
LEMMA AtRests ==
  ASSUME Typed, Typed', NEW e \in Exts, At(e), NEW tops, NEW under, Runs(tops, under),
         UNCHANGED <<preview, procs>>, runtime'[e] = runtime[e], pendingStop'[e] = pendingStop[e],
         dirty'[e] = dirty[e], userCopy'[e] = userCopy[e],
         \A c \in under : c.op # "drainCallbacks",
         Redone(e) => Redone(e)', ReconciledAt(e)'
  PROVE  At(e)'
<1>1. Below' \subseteq under \cup Below
  BY RunsFrames
<1>2. Get(e)' = Get(e)
  BY DEF Get, Locate
<1>3. FitsAt(e)' /\ DroppedAt(e)'
  BY <1>2 DEF At, FitsAt, DroppedAt, Unreported
<1>4. ReturnedAt(e)'
  BY <1>1 DEF At, ReturnedAt
<1>5. QED
  BY <1>3, <1>4 DEF At

LEMMA ReconcileSteady == Typed /\ Typed' /\ Held /\ Steady /\ Reconcile => Steady'
<1> SUFFICES ASSUME Typed, Typed', Held, Steady, Reconcile PROVE Steady'
  OBVIOUS
<1>0. calls # <<>> /\ Head(calls).op = "reconcile" /\ Head(calls).ext \in Exts
  BY TopTyped DEF Reconcile, Running
<1>1. PICK e \in Exts : Head(calls).ext = e
  BY <1>0
<1>2. /\ UNCHANGED <<lifeVars, jobVars, file, histVars, booted, preview, userCopy, procs>>
      /\ UNCHANGED <<runtime, pendingStop, jobs, jobActive, draining, dirty, failed, userCopy>>
  BY DEF Reconcile, reqVars, lifeVars, jobVars, histVars
<1>3. ~Restarts(Head(calls))
  BY <1>0 DEF Restarts
<1>4. Get(e)' = Get(e) /\ At(e) /\ Tokened /\ Get(e) \in Rec
  BY <1>2, RegistryTyped DEF Get, Locate, Steady
<1> DEFINE enabled == Get(e) # NoRec /\ IsEnabled(Get(e), file[e])
<1>5. ASSUME NEW tops, Runs(tops, {}), \A c \in tops : c.ext = e /\ c.op \in {"start", "stop"} /\ Fitting(c),
             mem' = mem \/ \E s \in State : mem' = [mem EXCEPT ![e] = s], ReconciledAt(e)'
      PROVE  Steady'
  <2>1. \A x \in Exts \ {e} : mem'[x] = mem[x]
    BY <1>5 DEF Typed, TypeOK
  <2>2. Touches(e)
    BY <1>2, <2>1 DEF Touches
  <2>3. Redone(e) => Redone(e)'
    BY <1>2, <1>3, <1>5, RedoneRests
  <2>4. At(e)'
    BY <1>2, <1>4, <1>5, <2>3, AtRests
  <2>5. QED
    BY <1>0, <1>1, <1>2, <1>5, <2>2, <2>4, SteadyKept, SameNamesUnchanged
<1>6. CASE jobActive[e] \/ pendingStop[e].on
  <2>1. Return /\ UNCHANGED mem
    BY <1>1, <1>6 DEF Reconcile
  <2>2. Runs({}, {})
    BY <1>0, <2>1, RunsNone
  <2>3. ~Rests(e)'
    <3>1. SUFFICES ASSUME Rests(e)' PROVE FALSE
      OBVIOUS
    <3>2. ~jobActive[e]
      BY <1>2, <3>1 DEF Rests
    <3>3. pendingStop'[e] = pendingStop[e] /\ jobActive'[e] = jobActive[e] /\ ReturnedAt(e)
      BY <1>2, <1>4 DEF At
    <3>4. ~pendingStop[e].on
      BY <2>2, <3>1, <3>3, RestsBack
    <3>5. QED
      BY <1>6, <3>2, <3>4
  <2>4. ReconciledAt(e)'
    BY <2>3 DEF ReconciledAt
  <2>5. QED
    BY <1>5, <2>1, <2>2, <2>4
<1>7. CASE ~(jobActive[e] \/ pendingStop[e].on)
  <2>1. mem' = IF Get(e) = NoRec THEN mem ELSE [mem EXCEPT ![e] = file[e]]
    BY <1>1, <1>7 DEF Reconcile
  <2>2. file[e] \in State /\ mem \in [Exts -> State]
    BY DEF Typed, TypeOK
  <2>3. mem' = mem \/ \E s \in State : mem' = [mem EXCEPT ![e] = s]
    BY <2>1, <2>2
  <2>4. (Get(e) # NoRec => mem'[e] = file[e]) /\ Synced(e)'
    BY <1>2, <1>4, <2>1, <2>2 DEF Synced
  <2>5. (Wanted(e)' <=> enabled) /\ runtime'[e] = runtime[e] /\ runtime[e] \in 0..MaxProcs
    BY <1>2, <1>4 DEF Wanted, IsEnabled, Typed, TypeOK
  <2>6. CASE enabled /\ runtime[e] = 0
    <3>0. CallRec("start", e, Get(e)) \in GoodFrame
      BY <1>4, CallRecGood
    <3>1. Becomes(<<CallRec("start", e, Get(e))>>)
      BY <1>1, <1>7, <2>6 DEF Reconcile
    <3>2. PICK c \in GoodFrame : c = CallRec("start", e, Get(e)) /\ Becomes(<<c>>)
      BY <3>0, <3>1
    <3>3. c.op = "start" /\ c.ext = e /\ c.rec = Get(e)
      BY <3>2 DEF CallRec, Call
    <3>4. Runs({c}, {})
      BY <1>0, <3>2, RunsOne
    <3>5. Startable(c)'
      <4>1. Get(e).kind # "none" /\ PreviewRec(Get(e))
        BY <1>4, <2>6, Resolved
      <4>2. Get(e).tok # 0 => Get(e).tok = preview.tok /\ e = preview.ext
        BY <1>4, Resolved DEF PreviewRec
      <4>3. QED
        BY <1>2, <1>4, <3>3, <4>1, <4>2 DEF Startable, PreviewRec
    <3>6. StartFits(c)'
      <4>1. Get(e).kind = "preview" \/ mem'[e].enabled
        BY <2>4, <2>6 DEF IsEnabled
      <4>2. QED
        BY <2>4, <2>5, <2>6, <3>3, <4>1 DEF StartFits
    <3>7. Fitting(c)
      BY <3>3, <3>5, <3>6 DEF Fitting
    <3>8. c \in Frames' /\ Settles(c, e)'
      BY <3>3, <3>4, RunsFrames DEF Settles, Working
    <3>9. ReconciledAt(e)'
      BY <3>8 DEF ReconciledAt, Due
    <3>10. QED
      BY <1>5, <2>3, <3>3, <3>4, <3>7, <3>9
  <2>7. CASE ~enabled /\ runtime[e] # 0
    <3> DEFINE c == Call("stop", e)
    <3>1. Becomes(<<c>>)
      BY <1>1, <1>7, <2>7 DEF Reconcile
    <3>2. c \in GoodFrame /\ c.op = "stop" /\ c.ext = e /\ c.arg = "none"
      BY CallGood, CallNames
    <3> HIDE DEF c
    <3>3. Runs({c}, {})
      BY <1>0, <3>1, <3>2, RunsOne
    <3>4. preview.ext # e
      BY <1>4, <2>7, Resolved DEF Wanted
    <3>5. Fitting(c)
      BY <1>2, <2>7, <3>2, <3>4 DEF Fitting, StopFits
    <3>6. c \in Frames' /\ Settles(c, e)'
      BY <3>2, <3>3, RunsFrames DEF Settles
    <3>7. ReconciledAt(e)'
      BY <3>6 DEF ReconciledAt, Due
    <3>8. QED
      BY <1>5, <2>3, <3>2, <3>3, <3>5, <3>7
  <2>8. CASE ~(enabled /\ runtime[e] = 0) /\ ~(~enabled /\ runtime[e] # 0)
    <3>1. Return
      BY <1>1, <1>7, <2>8 DEF Reconcile
    <3>2. Runs({}, {})
      BY <1>0, <3>1, RunsNone
    <3>3. ReconciledAt(e)'
      BY <2>4, <2>5, <2>8 DEF ReconciledAt
    <3>4. QED
      BY <1>5, <2>3, <3>2, <3>3
  <2>9. QED
    BY <2>6, <2>7, <2>8
<1>8. QED
  BY <1>6, <1>7

LEMMA BootSteady == Typed /\ Typed' /\ Held /\ Steady /\ Boot => Steady'
<1> SUFFICES ASSUME Typed, Typed', Held, Steady, Boot PROVE Steady'
  OBVIOUS
<1>0. /\ calls # <<>> /\ Head(calls).op = "boot" /\ Head(calls).ext \in Exts
      /\ Head(calls).rec \in Rec /\ Head(calls) \in Frames /\ Frames = {Head(calls)} \cup Below
  BY TopTyped, FramesNow DEF Boot, Running
<1>1. PICK e \in Exts, r \in Rec : Head(calls).ext = e /\ Head(calls).rec = r
  BY <1>0
<1>2. UNCHANGED <<runtime, pendingStop, jobs, jobActive, draining, file, mem, dirty, failed,
                  booted, preview, userCopy, procs>>
  BY DEF Boot, reqVars, lifeVars, jobVars, histVars, confVars
<1>3. /\ ~Restarts(Head(calls)) /\ Get(e)' = Get(e) /\ At(e) /\ Startable(Head(calls))
      /\ Synced(e)' = Synced(e) /\ Wanted(e)' = Wanted(e)
  BY <1>0, <1>2 DEF Get, Locate, Steady, StartsRight, Restarts, Synced, Wanted, IsEnabled
<1>4. \A c \in Below : c.ext # e
  BY <1>0, <1>1, BootsElsewhere DEF Steady, Upright
<1>5. ~Due(e)
  <2>1. \A c \in Below : c.op # "stopPreview"
    BY DEF Steady, Upright
  <2>2. QED
    BY <1>0, <1>4, <2>1 DEF Due, Settles, Working
<1>6. Rests(e) => Synced(e) /\ (runtime[e] # 0 => Wanted(e))
                  /\ (Wanted(e) /\ runtime[e] = 0 => preview.ext # e)
  BY <1>3, <1>5 DEF At, ReconciledAt
<1>7. Touches(e)
  BY <1>2 DEF Touches
<1>8. ASSUME NEW tops, Runs(tops, {}), \A c \in tops : c.ext = e /\ Fitting(c), ReconciledAt(e)'
      PROVE  Steady'
  <2>1. Redone(e) => Redone(e)'
    BY <1>2, <1>3, <1>8, RedoneRests
  <2>2. At(e)'
    BY <1>2, <1>3, <1>8, <2>1, AtRests
  <2>3. QED
    BY <1>0, <1>1, <1>2, <1>7, <1>8, <2>2, SteadyKept, SameNamesUnchanged
<1>9. CASE mem[e].enabled
  <2> DEFINE c == CallRec("start", e, r)
  <2>1. Becomes(<<c>>)
    BY <1>1, <1>9 DEF Boot
  <2>2. c \in GoodFrame
    BY CallRecGood
  <2>3. c.op = "start" /\ c.ext = e /\ c.rec = r
    BY DEF CallRec, Call
  <2> HIDE DEF c
  <2>4. Runs({c}, {})
    BY <1>0, <2>1, <2>2, RunsOne
  <2>5. Startable(c)'
    BY <1>1, <1>2, <1>3, <2>3 DEF Startable, PreviewRec
  <2>6. StartFits(c)'
    <3>1. calls' # <<>> /\ Head(calls') = c
      BY <2>4, RunsFrames
    <3>2. Rests(e)' => Rests(e)
      BY <1>2, <2>3, <3>1 DEF Rests, Running
    <3>3. QED
      BY <1>2, <1>3, <1>6, <1>9, <2>3, <3>2 DEF StartFits
  <2>7. Fitting(c)
    BY <2>3, <2>5, <2>6 DEF Fitting
  <2>8. c \in Frames' /\ Settles(c, e)'
    BY <2>3, <2>4, RunsFrames DEF Settles, Working
  <2>9. ReconciledAt(e)'
    BY <2>8 DEF ReconciledAt, Due
  <2>10. QED
    BY <1>8, <2>3, <2>4, <2>7, <2>9
<1>10. CASE ~mem[e].enabled
  <2>1. Return
    BY <1>1, <1>10 DEF Boot
  <2>2. Runs({}, {})
    BY <1>0, <2>1, RunsNone
  <2>3. Rests(e)' => Rests(e)
    <3>1. calls' # <<>> => Head(calls').ext # e
      BY <1>4, <2>2, RunsFrames
    <3>2. QED
      BY <1>2, <3>1 DEF Rests, Running
  <2>4. Synced(e) /\ Wanted(e) => preview.ext = e
    <3>1. SUFFICES ASSUME Synced(e), Wanted(e), preview.ext # e PROVE FALSE
      OBVIOUS
    <3>2. Get(e).kind # "preview"
      BY <3>1, Resolved DEF Steady
    <3>3. file[e].enabled /\ mem[e] = file[e]
      BY <3>1, <3>2 DEF Wanted, IsEnabled, Synced
    <3>4. QED
      BY <1>10, <3>3
  <2>5. ReconciledAt(e)'
    BY <1>2, <1>3, <1>6, <2>3, <2>4 DEF ReconciledAt
  <2>6. QED
    BY <1>8, <2>2, <2>5
<1>11. QED
  BY <1>9, <1>10

LEMMA DrainCallbacksSteady == Typed /\ Typed' /\ Orderly /\ Held /\ Steady /\ DrainCallbacks => Steady'
<1> SUFFICES ASSUME Typed, Typed', Orderly, Held, Steady, DrainCallbacks PROVE Steady'
  OBVIOUS
<1>0. /\ calls # <<>> /\ Head(calls).op = "drainCallbacks" /\ Head(calls).ext \in Exts
      /\ Frames = {Head(calls)} \cup Below /\ Running("drainCallbacks")
  BY TopTyped, FramesNow DEF DrainCallbacks, Running
<1>1. PICK e \in Exts : Head(calls).ext = e
  BY <1>0
<1>2. UNCHANGED <<runtime, jobs, jobActive, draining, file, mem, dirty, failed,
                  booted, preview, userCopy, procs>>
  BY DEF DrainCallbacks, reqVars, jobVars, histVars, confVars
<1>3. /\ ~Restarts(Head(calls)) /\ Get(e)' = Get(e) /\ At(e)
      /\ Synced(e)' = Synced(e) /\ Wanted(e)' = Wanted(e)
  BY <1>0, <1>2 DEF Get, Locate, Steady, Restarts, Synced, Wanted, IsEnabled
<1>4. /\ pendingStop'[e] = NoStop /\ \A x \in Exts \ {e} : pendingStop'[x] = pendingStop[x]
      /\ Becomes([i \in DOMAIN pendingStop[e].cbs |-> Call(pendingStop[e].cbs[i], e)])
      /\ pendingStop[e].cbs \in Seq(Callback) /\ Len(pendingStop[e].cbs) <= 1
  <2>1. /\ pendingStop' = [pendingStop EXCEPT ![e] = NoStop]
        /\ Becomes([i \in DOMAIN pendingStop[e].cbs |-> Call(pendingStop[e].cbs[i], e)])
    BY <1>1 DEF DrainCallbacks
  <2>2. pendingStop \in [Exts -> [on: BOOLEAN, cbs: Seq(Callback)]]
    BY DEF Typed, TypeOK
  <2>3. Len(pendingStop[e].cbs) <= 1
    BY DEF Held, OneHolder
  <2>4. pendingStop'[e] = NoStop /\ \A x \in Exts \ {e} : pendingStop'[x] = pendingStop[x]
    BY <2>1, <2>2
  <2>5. QED
    BY <2>1, <2>2, <2>3, <2>4
<1>5. \A p \in Procs : Unreported(p) /\ procs[p].ext = e => runtime[e] = p /\ pendingStop[e].cbs = <<>>
  <2>1. Waiting(1) /\ calls[1].ext = e
    BY <1>0, <1>1, Positions DEF Waiting
  <2>2. \A p \in Procs : Unreported(p) /\ procs[p].ext = e => runtime[e] = p
    <3>1. 1 \in DOMAIN calls
      BY <2>1 DEF Waiting
    <3>2. QED
      BY <2>1, <3>1 DEF Orderly, Handled
  <2>3. \A p \in Procs : p # 0
    BY DEF Procs
  <2>4. QED
    BY <2>2, <2>3 DEF Orderly, Owned
<1>6. pendingStop[e].cbs # <<>> => jobActive[e]
  BY DEF Held, OneHolder, Stops
<1>7. NoStop.on = FALSE /\ NoStop.cbs = <<>>
  BY DEF NoStop
<1>8. Touches(e)
  BY <1>2, <1>4 DEF Touches
<1>9. ASSUME NEW tops, Runs(tops, {}), \A c \in tops : c.ext = e /\ Fitting(c),
             pendingStop[e].cbs = <<>> => tops = {}
      PROVE  Steady'
  <2>1. Frames' = tops \cup {} \cup Below
    BY <1>9, RunsFrames
  <2>2. pendingStop[e].cbs = <<>> /\ Redone(e) => Redone(e)'
    BY <1>0, <1>2, <1>3, <2>1 DEF Redone
  <2>3. FitsAt(e)' /\ DroppedAt(e)' /\ ReturnedAt(e)'
    BY <1>2, <1>3, <1>4, <1>5, <1>7, <2>2 DEF At, FitsAt, DroppedAt, ReturnedAt, Unreported
  <2>4. ReconciledAt(e)'
    <3>1. SUFFICES ASSUME Rests(e)', ~Due(e)'
                   PROVE  /\ Synced(e)' /\ (runtime'[e] # 0 => Wanted(e)')
                          /\ Wanted(e)' /\ runtime'[e] = 0 => BootsLater(e)' /\ preview'.ext # e
      BY DEF ReconciledAt
    <3>2. ~jobActive[e] /\ tops = {} /\ Frames' = Below
      BY <1>2, <1>6, <1>9, <2>1, <3>1 DEF Rests
    <3>3. Rests(e)
      BY <1>0, <1>1, <1>2, <3>1 DEF Rests
    <3>4. ~Due(e)
      BY <1>0, <1>2, <3>1, <3>2 DEF Due, Settles, Working
    <3>5. BootsLater(e) => BootsLater(e)'
      BY <1>0, <1>2, <3>2 DEF BootsLater
    <3>6. QED
      BY <1>2, <1>3, <3>3, <3>4, <3>5 DEF At, ReconciledAt
  <2>5. At(e)'
    BY <2>3, <2>4 DEF At
  <2>6. QED
    BY <1>0, <1>1, <1>2, <1>8, <1>9, <2>5, SteadyKept, SameNamesUnchanged
<1>10. CASE pendingStop[e].cbs = <<>>
  <2>1. [i \in DOMAIN pendingStop[e].cbs |-> Call(pendingStop[e].cbs[i], e)] = <<>>
    BY <1>10
  <2>2. Return
    <3>1. Tail(calls) \in Seq(GoodFrame)
      BY <1>0, TopTyped
    <3>2. calls' = <<>> \o Tail(calls)
      BY <1>4, <2>1 DEF Becomes
    <3>3. QED
      BY <3>1, <3>2, ConcatEmptySeq DEF Return
  <2>3. Runs({}, {})
    BY <1>0, <2>2, RunsNone
  <2>4. QED
    BY <1>9, <2>3
<1>11. CASE pendingStop[e].cbs # <<>>
  <2>1. \E a \in Callback : pendingStop[e].cbs = <<a>>
    <3>1. Len(pendingStop[e].cbs) = 1 /\ pendingStop[e].cbs[1] \in Callback
      <4>1. PICK n \in Nat : n = Len(pendingStop[e].cbs) /\ n # 0
        BY <1>4, <1>11, EmptySeq
      <4>2. n <= 1 /\ n # 0
        BY <1>4, <4>1
      <4>3. n = 1
        BY <4>2
      <4>4. Len(pendingStop[e].cbs) = 1
        BY <4>1, <4>3
      <4>5. 1 \in 1..Len(pendingStop[e].cbs)
        BY <4>4
      <4>6. QED
        BY <1>4, <4>4, <4>5, ElementOfSeq
    <3>2. pendingStop[e].cbs = <<pendingStop[e].cbs[1]>>
      BY <1>4, <3>1
    <3>3. QED
      BY <3>1, <3>2
  <2>2. PICK a \in Callback : pendingStop[e].cbs = <<a>>
    BY <2>1
  <2> DEFINE c == Call(a, e)
  <2>3. Becomes(<<c>>)
    BY <1>4, <2>2, OneCallback
  <2>4. c \in GoodFrame /\ c.op = a /\ c.ext = e
    BY CallGood, CallNames
  <2> HIDE DEF c
  <2>5. Runs({c}, {})
    BY <1>0, <2>3, <2>4, RunsOne
  <2>6. Fitting(c)
    BY <2>4, ReadyFits DEF Ready
  <2>7. QED
    BY <1>9, <1>11, <2>4, <2>5, <2>6
<1>12. QED
  BY <1>10, <1>11

\* What runs for an id that rests is not restarted.
LEMMA RestsStay ==
  ASSUME Typed, Held, NEW e \in Exts, ~jobActive[e], jobs[e] = <<>>,
         \A c \in Frames : c.ext = e => c.op # "enqueue"
  PROVE  ~Redone(e)
<1>1. DOMAIN jobs[e] = {}
  OBVIOUS
<1>2. pendingStop[e].cbs = <<>>
  BY DEF Held, OneHolder, Stops
<1>3. ASSUME NEW c \in Frames, c.ext = e, Restarts(c) PROVE FALSE
  <2>1. WillRelease(c)
    BY <1>3 DEF Restarts, WillRelease
  <2>2. PICK i \in DOMAIN calls : calls[i] = c
    BY DEF Frames
  <2>3. Claim(i, e)
    BY <1>3, <2>1, <2>2 DEF Claim
  <2>4. QED
    BY <2>3 DEF Held, OneHolder
<1>4. QED
  BY <1>1, <1>2, <1>3 DEF Redone

\* An exit that is an error, or a start that fails: nothing of the id runs any more.
LEMMA FailSteady ==
  ASSUME Typed, Typed', Held, Steady, NEW e \in Exts, NEW r \in Rec, NEW rest \in Seq(GoodFrame),
         HandleExit(e, r, TRUE, rest), IF calls = <<>> THEN rest = <<>> ELSE rest = Tail(calls),
         UNCHANGED <<pendingStop, jobs, jobActive, draining, dirty, booted, preview, userCopy>>,
         calls # <<>> => Head(calls).ext = e /\ Head(calls).op \in {"start", "pollExit"},
         SameNames, \A p \in Procs : procs'[p] = procs[p] \/ procs[p].ext = e,
         \A p \in Procs : ~(Unreported(p)' /\ procs[p].ext = e),
         PreviewRec(r), Overlaid(r, e),
         Torn(e, r) /\ pendingStop[e].on => pendingStop[e].cbs # <<>>,
         ~Torn(e, r) /\ Rests(e)' /\ ~Due(e)' => r.kind # "preview" /\ preview.ext # e
  PROVE  Steady'
<1>1. /\ runtime' = [runtime EXCEPT ![e] = 0]
      /\ IF r.kind = "preview"
         THEN failed' = failed \cup {r.tok} /\ UNCHANGED <<file, mem>>
         ELSE Save(e, [mem[e] EXCEPT !.error = TRUE]) /\ UNCHANGED failed
  BY DEF HandleExit, confVars
<1>2. /\ runtime'[e] = 0 /\ \A x \in Exts \ {e} : runtime'[x] = runtime[x]
      /\ \A x \in Exts \ {e} : file'[x] = file[x] /\ mem'[x] = mem[x]
      /\ r.kind # "preview" => file'[e] = mem'[e] /\ file'[e].error
  <2>1. runtime \in [Exts -> 0..MaxProcs] /\ file \in [Exts -> State] /\ mem \in [Exts -> State]
    BY DEF Typed, TypeOK
  <2>2. [mem[e] EXCEPT !.error = TRUE].error
    BY <2>1 DEF State
  <2>3. QED
    BY <1>1, <2>1, <2>2 DEF Save
<1>3. Call("stopPreview", e).op = "stopPreview" /\ Call("drainCallbacks", e).op = "drainCallbacks"
      /\ Call("stopPreview", e).ext = e /\ Call("drainCallbacks", e).ext = e
  BY DEF Call
<1>4. PICK c, under :
        /\ Runs({c}, under) /\ c.ext = e /\ \A d \in under : d.ext = e /\ d.op = "drainCallbacks"
        /\ IF Torn(e, r) THEN c.op = "stopPreview" ELSE c.op = "drainCallbacks" /\ under = {}
  <2>1. /\ Torn(e, r) => Runs({Call("stopPreview", e)}, {Call("drainCallbacks", e)})
        /\ ~Torn(e, r) => Runs({Call("drainCallbacks", e)}, {})
    BY RunsExit
  <2> DEFINE a == Call("stopPreview", e)
             b == Call("drainCallbacks", e)
  <2>2. a.op = "stopPreview" /\ a.ext = e /\ b.op = "drainCallbacks" /\ b.ext = e
    BY <1>3
  <2>3. (Torn(e, r) => Runs({a}, {b})) /\ (~Torn(e, r) => Runs({b}, {}))
    BY <2>1
  <2> HIDE DEF a, b
  <2>4. \A d \in {b} : d.ext = e /\ d.op = "drainCallbacks"
    BY <2>2
  <2>5. CASE Torn(e, r)
    <3> DEFINE u == {b}
    <3>1. /\ Runs({a}, u) /\ a.ext = e /\ a.op = "stopPreview"
          /\ \A d \in u : d.ext = e /\ d.op = "drainCallbacks"
      BY <2>2, <2>3, <2>4, <2>5
    <3> HIDE DEF u
    <3>2. QED
      BY <2>5, <3>1
  <2>6. CASE ~Torn(e, r)
    BY <2>2, <2>3, <2>6
  <2>7. QED
    BY <2>5, <2>6
<1>5. Frames' = {c} \cup under \cup Below /\ Below' \subseteq under \cup Below /\ c \in Frames'
  BY <1>4, RunsFrames
<1>6. Touches(e)
  BY <1>2 DEF Touches, SameNames
<1>7. Tokened'
  BY TokenedKept DEF Steady
<1>8. Torn(e, r) => preview.ext = e /\ preview.tok = r.tok
  BY DEF Torn
<1>9. r.tok # 0 /\ r.tok = preview.tok => Torn(e, r)
  <2>1. preview \in [ext: Exts \cup {NoExt}, tok: 0..MaxPreviews]
    BY DEF Typed, TypeOK
  <2>2. QED
    BY <2>1 DEF Overlaid, PreviewRec, Torn
<1>10. FailedDropped'
  <2>1. 0 \notin failed'
    BY <1>1 DEF Steady, FailedDropped, PreviewRec
  <2>2. preview.tok \in failed => \E d \in Frames' : d.op = "stopPreview"
    <3>1. \A d \in Frames : d.op # "stopPreview"
      BY FramesNow DEF Steady, Upright
    <3>2. QED
      BY <3>1 DEF Steady, FailedDropped
  <2>3. preview.tok \in failed' => preview.tok \in failed \/ Torn(e, r)
    BY <1>1, <1>9, <2>1
  <2>4. QED
    BY <1>4, <1>5, <2>1, <2>2, <2>3 DEF FailedDropped
<1>11. At(e)'
  <2>1. FitsAt(e)' /\ DroppedAt(e)'
    BY DEF FitsAt, DroppedAt, SameNames
  <2>2. ReturnedAt(e)'
    BY <1>4, <1>5 DEF Steady, At, ReturnedAt
  <2>3. ReconciledAt(e)'
    <3>1. SUFFICES ASSUME Rests(e)', ~Due(e)'
                   PROVE  Synced(e)' /\ ~Wanted(e)'
      BY <1>2 DEF ReconciledAt
    <3>2. ~Torn(e, r)
      <4>1. Torn(e, r) => Settles(c, e)'
        BY <1>4, <1>8 DEF Settles
      <4>2. QED
        BY <1>5, <3>1, <4>1 DEF Due
    <3>3. r.kind # "preview" /\ preview.ext # e
      BY <3>1, <3>2
    <3>4. Get(e)' = Locate(e)' /\ Locate(e)'.kind # "preview"
      BY <3>3 DEF Get, Locate, NoRec
    <3>5. QED
      BY <1>2, <3>3, <3>4 DEF Synced, Wanted, IsEnabled
  <2>4. QED
    BY <2>1, <2>2, <2>3 DEF At
<1>12. \A d \in {c} \cup under : d.ext = e /\ Fitting(d)
  <2>1. \A d : d.op = "drainCallbacks" => Fitting(d)
    BY ReadyFits DEF Ready
  <2>2. Torn(e, r) => Fitting(c)
    BY <1>4, <1>8 DEF Fitting
  <2>3. QED
    BY <1>4, <2>1, <2>2
<1>13. /\ calls # <<>> => /\ Head(calls).ext = e /\ Head(calls).op # "stopPreview"
                          /\ dirty[e] => dirty'[e]
       /\ \A d \in under : d.op \notin {"start", "stop", "stopPreview", "pollExit"}
       /\ \A x \in Exts : draining'[x] =>
            draining[x] /\ (calls # <<>> => ~(Head(calls).op = "drain" /\ Head(calls).ext = x))
       /\ userCopy' = userCopy
  BY <1>4
<1>14. QED
  BY <1>4, <1>6, <1>7, <1>10, <1>11, <1>12, <1>13, SteadyMoves

\* The exit of a process of the id is reported.
LEMMA ExitSteady ==
  ASSUME Typed, Typed', Orderly, Held, Steady, NEW p \in Procs, NEW rest \in Seq(GoodFrame),
         ExitOf(p, rest), IF calls = <<>> THEN rest = <<>> ELSE rest = Tail(calls),
         UNCHANGED <<pendingStop, jobs, jobActive, draining, dirty, booted, preview, userCopy>>,
         calls # <<>> => Head(calls).ext = procs[p].ext /\ Head(calls).op = "pollExit"
  PROVE  Steady'
<1>1. PICK e \in Exts, r \in Rec : e = procs[p].ext /\ r = procs[p].rec
  BY DEF ExitOf, Typed, TypeOK, Proc
<1>2. /\ procs[p].st = "dead" /\ procs' = [procs EXCEPT ![p].st = "gone"]
      /\ HandleExit(e, r, ~procs[p].aborted, rest)
  BY <1>1 DEF ExitOf
<1>3. \A q \in Procs : /\ procs'[q].rec = procs[q].rec /\ procs'[q].ext = procs[q].ext
                       /\ procs'[q] = procs[q] \/ procs[q].ext = e
                       /\ Unreported(q)' <=> Unreported(q) /\ q # p
  <2>1. PICK pr \in Proc : pr = procs[p]
    BY DEF Typed, TypeOK
  <2>2. /\ [pr EXCEPT !.st = "gone"].rec = pr.rec /\ [pr EXCEPT !.st = "gone"].ext = pr.ext
        /\ [pr EXCEPT !.st = "gone"].st = "gone"
    BY DEF Proc
  <2>3. procs \in [Procs -> Proc]
    BY DEF Typed, TypeOK
  <2>4. \A q \in Procs : procs'[q] = IF q = p THEN [pr EXCEPT !.st = "gone"] ELSE procs[q]
    BY <1>2, <2>1, <2>3
  <2>5. QED
    BY <1>1, <1>2, <2>1, <2>2, <2>4 DEF Unreported
<1>4. Unreported(p) /\ \A q \in Procs : ~(Unreported(q)' /\ procs[q].ext = e)
  BY <1>1, <1>2, <1>3 DEF Orderly, OneProcess, Unreported
<1>5. SameNames
  BY <1>3 DEF SameNames
<1>6. /\ PreviewRec(r) /\ Overlaid(r, e) /\ At(e)
  BY <1>1 DEF Steady, Tokened
<1>7. CASE ~procs[p].aborted
  <2>1. HandleExit(e, r, TRUE, rest)
    BY <1>2, <1>7
  <2>2. Torn(e, r) /\ pendingStop[e].on => pendingStop[e].cbs # <<>>
    <3>1. SUFFICES ASSUME Torn(e, r), pendingStop[e].on, pendingStop[e].cbs = <<>> PROVE FALSE
      OBVIOUS
    <3>2. runtime[e] = 0 /\ p # 0
      BY <3>1 DEF Orderly, Owned, Procs
    <3>3. r.tok # 0 /\ r.tok = preview.tok
      BY <1>6, <3>1 DEF Torn, PreviewRec
    <3>4. QED
      BY <1>1, <1>4, <1>6, <3>1, <3>2, <3>3 DEF At, DroppedAt
  <2>3. ~Torn(e, r) /\ Rests(e)' /\ ~Due(e)' => r.kind # "preview" /\ preview.ext # e
    <3>1. SUFFICES ASSUME ~Torn(e, r), Rests(e)', ~Due(e)' PROVE r.kind # "preview" /\ preview.ext # e
      OBVIOUS
    <3>2. \E tops, under : Runs(tops, under)
      BY <2>1, RunsExit
    <3>3. \A c \in Below : c \in Frames'
      BY <3>2, RunsFrames
    <3>4. ~dirty[e] /\ ~jobActive[e] /\ jobs[e] = <<>>
      BY <3>1 DEF Rests
    <3>5. \A c \in Frames : c.ext = e => c.op # "enqueue"
      <4>1. \A c \in Frames' : c.ext = e => c.op # "enqueue"
        BY <3>1 DEF Due, Settles, Working
      <4>2. QED
        BY <3>3, <4>1, FramesNow
    <3>6. r = Get(e)
      BY <1>1, <1>4, <1>6, <3>4, <3>5, RestsStay DEF At, FitsAt
    <3>7. r.kind = "preview" <=> preview.ext = e
      BY <3>6, Resolved DEF Steady
    <3>8. preview.ext = e => Torn(e, r)
      <4>1. preview \in [ext: Exts \cup {NoExt}, tok: 0..MaxPreviews]
        BY DEF Typed, TypeOK
      <4>2. preview.ext = e => r.tok = preview.tok
        BY <3>6, Resolved DEF Steady
      <4>3. QED
        BY <3>7, <4>1, <4>2 DEF Torn
    <3>9. QED
      BY <3>1, <3>7, <3>8
  <2>4. calls # <<>> => Head(calls).ext = e /\ Head(calls).op \in {"start", "pollExit"}
    BY <1>1
  <2>5. QED
    BY <1>3, <1>4, <1>5, <1>6, <2>1, <2>2, <2>3, <2>4, FailSteady
<1>8. CASE procs[p].aborted
  <2>1. HandleExit(e, r, FALSE, rest)
    <3>1. (~procs[p].aborted) = FALSE
      BY <1>8
    <3>2. QED
      BY <1>2, <3>1
  <2>2. UNCHANGED <<runtime, file, mem, failed>>
    BY <2>1 DEF HandleExit, confVars
  <2> DEFINE c == Call("drainCallbacks", e)
             d == Call("reconcile", e)
  <2>3. c.op = "drainCallbacks" /\ c.ext = e /\ d.op = "reconcile" /\ d.ext = e
    BY DEF Call
  <2>4. Runs({c}, {d})
    BY <2>1, RunsExit
  <2> HIDE DEF c, d
  <2>5. Frames' = {c} \cup {d} \cup Below /\ Below' \subseteq {d} \cup Below
    BY <2>4, RunsFrames
  <2>6. At(e)'
    <3>1. FitsAt(e)' /\ DroppedAt(e)'
      BY <1>3, <1>4 DEF FitsAt, DroppedAt
    <3>2. ReturnedAt(e)'
      BY <1>6, <2>3, <2>5 DEF At, ReturnedAt
    <3>3. Settles(d, e)'
      BY <2>3 DEF Settles, Working
    <3>4. ReconciledAt(e)'
      BY <2>5, <3>3 DEF ReconciledAt, Due
    <3>5. QED
      BY <3>1, <3>2, <3>4 DEF At
  <2>7. Touches(e)
    BY <1>3, <2>2 DEF Touches
  <2>8. c.op \in Ready /\ d.op \in Ready
    BY <2>3 DEF Ready
  <2>9. calls # <<>> => /\ Head(calls).ext = e /\ Head(calls).op # "stopPreview" /\ Head(calls).op # "drain"
                        /\ dirty[e] => dirty'[e]
    BY <1>1
  <2>10. QED
    BY <1>5, <2>2, <2>3, <2>4, <2>6, <2>7, <2>8, <2>9, ReadyFits, SteadyKept
<1>9. QED
  BY <1>7, <1>8

LEMMA PollExitSteady == Typed /\ Typed' /\ Orderly /\ Held /\ Steady /\ PollExit => Steady'
<1> SUFFICES ASSUME Typed, Typed', Orderly, Held, Steady, PollExit PROVE Steady'
  OBVIOUS
<1>0. /\ calls # <<>> /\ Head(calls).op = "pollExit" /\ Head(calls).ext \in Exts
      /\ Head(calls).proc \in Procs /\ Head(calls) \in Frames /\ Tail(calls) \in Seq(GoodFrame)
  BY TopTyped, FramesNow DEF PollExit, Running, GoodFrame
<1>1. PICK e \in Exts, p \in Procs : Head(calls).ext = e /\ Head(calls).proc = p
  BY <1>0
<1>2. /\ UNCHANGED <<pendingStop, jobs, jobActive, draining, dirty, booted, preview, userCopy>>
      /\ procs[p].ext = e
  BY <1>0, <1>1 DEF PollExit, jobVars, reqVars, Steady, Upright
<1>3. CASE ExitOf(p, Tail(calls))
  BY <1>0, <1>1, <1>2, <1>3, ExitSteady
<1>4. CASE Return /\ UNCHANGED <<runtime, record, confVars, procs, failed>>
  <2>1. Runs({}, {})
    BY <1>0, <1>4, RunsNone
  <2>2. ~Restarts(Head(calls)) /\ Get(e)' = Get(e) /\ At(e)
    BY <1>0, <1>2 DEF Restarts, Get, Locate, Steady
  <2>3. Redone(e) => Redone(e)'
    BY <1>2, <2>1, <2>2, RedoneRests
  <2>4. UNCHANGED <<runtime, file, mem, procs, failed>>
    BY <1>4 DEF confVars
  <2>5. ReconciledAt(e)'
    <3>1. SUFFICES ASSUME Rests(e)', ~Due(e)'
                   PROVE  /\ Synced(e)' /\ (runtime'[e] # 0 => Wanted(e)')
                          /\ Wanted(e)' /\ runtime'[e] = 0 => BootsLater(e)' /\ preview'.ext # e
      BY DEF ReconciledAt
    <3>2. pendingStop'[e] = pendingStop[e] /\ jobActive'[e] = jobActive[e] /\ ReturnedAt(e)
      BY <1>2, <2>2 DEF At
    <3>3. ~pendingStop[e].on
      BY <2>1, <3>1, <3>2, RestsBack
    <3>4. Rests(e)
      BY <1>2, <3>1, <3>3 DEF Rests
    <3>5. Frames' = {} \cup {} \cup Below /\ Frames = {Head(calls)} \cup Below
      BY <1>0, <2>1, RunsFrames, FramesNow
    <3>6. ~Due(e)
      BY <1>0, <1>2, <3>1, <3>5 DEF Due, Settles, Working
    <3>7. BootsLater(e) => BootsLater(e)'
      BY <1>0, <1>2, <3>5 DEF BootsLater
    <3>8. Synced(e)' = Synced(e) /\ Wanted(e)' = Wanted(e)
      BY <2>2, <2>4 DEF Synced, Wanted, IsEnabled
    <3>9. QED
      BY <1>2, <2>2, <2>4, <3>4, <3>6, <3>7, <3>8 DEF At, ReconciledAt
  <2>6. At(e)'
    BY <1>2, <2>1, <2>2, <2>3, <2>4, <2>5, AtRests
  <2>7. Touches(e)
    BY <1>2, <2>4 DEF Touches
  <2>8. QED
    BY <1>0, <1>1, <1>2, <2>1, <2>4, <2>6, <2>7, SteadyKept, SameNamesUnchanged
<1>5. QED
  BY <1>1, <1>3, <1>4 DEF PollExit

LEMMA ReportExitSteady ==
  ASSUME Typed, Typed', Orderly, Held, Steady, NEW p \in Procs, ReportExit(p)
  PROVE  Steady'
<1>1. /\ calls = <<>> /\ ExitOf(p, <<>>)
      /\ UNCHANGED <<pendingStop, jobs, jobActive, draining, dirty, booted, preview, userCopy>>
  BY DEF ReportExit, Idle, jobVars, reqVars
<1>2. <<>> \in Seq(GoodFrame)
  BY EmptySeq
<1>3. PICK rest \in Seq(GoodFrame) : rest = <<>>
  BY <1>2
<1>4. QED
  BY <1>1, <1>3, ExitSteady

\* The process that a start spawns.
LEMMA SpawnSteady ==
  ASSUME Typed, Typed', Orderly, Held, Steady, NEW e \in Exts, NEW r \in Rec,
         calls # <<>>, Head(calls).op = "start", Head(calls).ext = e, Head(calls).rec = r,
         runtime[e] = 0, MayStart(e), Spawn(e, r), Return,
         IF r.kind = "preview" THEN UNCHANGED confVars ELSE Save(e, ClearedState(e, r)),
         UNCHANGED <<pendingStop, jobs, jobActive, draining, dirty, failed, booted, preview, userCopy>>
  PROVE  Steady'
<1> DEFINE new == [st |-> "alive", ext |-> e, rec |-> r, aborted |-> FALSE, stale |-> FALSE]
<1>1. PICK p \in Procs : /\ procs[p].st = "unused" /\ procs' = [procs EXCEPT ![p] = new]
                         /\ runtime' = [runtime EXCEPT ![e] = p]
  BY DEF Spawn
<1>2. new.rec = r /\ new.ext = e /\ new.stale = FALSE
  OBVIOUS
<1> HIDE DEF new
<1>3. /\ procs'[p] = new /\ \A q \in Procs \ {p} : procs'[q] = procs[q]
      /\ runtime'[e] = p /\ \A x \in Exts \ {e} : runtime'[x] = runtime[x]
      /\ p # 0
  BY <1>1 DEF Typed, TypeOK, Procs
<1>4. Head(calls) \in Frames /\ Runs({}, {})
  BY FramesNow, RunsNone
<1>5. /\ Startable(Head(calls)) /\ StartFits(Head(calls)) /\ At(e) /\ Tokened /\ Get(e)' = Get(e)
  BY <1>4 DEF Steady, StartsRight, TopFits, Get, Locate
<1>6. /\ r.kind # "none" /\ PreviewRec(r) /\ Overlaid(r, e) /\ (dirty[e] \/ r = Get(e))
      /\ r.kind = "preview" \/ mem[e].enabled
      /\ Rests(e) => Synced(e)
  BY <1>5 DEF Startable, StartFits, Overlaid
<1>7. ~jobActive[e] /\ ~pendingStop[e].on
  BY DEF MayStart
<1>8. \A q \in Procs : q # p => ~(Unreported(q)' /\ procs'[q].ext = e)
  BY <1>3, <1>7, NoneRuns DEF Unreported
<1>9. /\ \A x \in Exts \ {e} : file'[x] = file[x] /\ mem'[x] = mem[x]
      /\ IF r.kind = "preview" THEN file' = file /\ mem' = mem
         ELSE file'[e] = mem'[e] /\ file'[e] = [mem[e] EXCEPT !.error = FALSE]
  <2>1. file \in [Exts -> State] /\ mem \in [Exts -> State]
    BY DEF Typed, TypeOK
  <2>2. CASE r.kind = "preview"
    BY <2>2 DEF confVars
  <2>3. CASE r.kind # "preview"
    <3> DEFINE s == [mem[e] EXCEPT !.error = FALSE]
    <3>1. mem' = [mem EXCEPT ![e] = s] /\ file' = [file EXCEPT ![e] = s]
      BY <2>3 DEF Save, ClearedState
    <3> HIDE DEF s
    <3>2. /\ \A x \in Exts \ {e} : file'[x] = file[x] /\ mem'[x] = mem[x]
          /\ file'[e] = s /\ mem'[e] = s
      BY <2>1, <3>1
    <3>3. QED
      BY <2>3, <3>2 DEF s
  <2>4. QED
    BY <2>2, <2>3
<1>10. At(e)'
  <2>1. ~Restarts(Head(calls))
    BY DEF Restarts
  <2>2. Redone(e) => Redone(e)'
    BY <1>4, <2>1, RedoneRests
  <2>3. FitsAt(e)'
    BY <1>2, <1>3, <1>5, <1>6, <1>8 DEF FitsAt
  <2>4. DroppedAt(e)'
    BY <1>3, <1>8 DEF DroppedAt
  <2>5. ReturnedAt(e)'
    BY <1>7 DEF ReturnedAt
  <2>6. ReconciledAt(e)'
    <3>1. SUFFICES ASSUME Rests(e)'
                   PROVE  Synced(e)' /\ Wanted(e)'
      BY <1>3 DEF ReconciledAt
    <3>2. Rests(e) /\ ~dirty[e]
      BY <1>7, <3>1 DEF Rests
    <3>3. r = Get(e) /\ Get(e) # NoRec /\ Synced(e)
      BY <1>6, <3>2 DEF NoRec
    <3>4. CASE r.kind = "preview"
      BY <1>5, <1>9, <3>3, <3>4 DEF Synced, Wanted, IsEnabled
    <3>5. CASE r.kind # "preview"
      <4>1. mem[e] \in State
        BY DEF Typed, TypeOK
      <4>2. file'[e].enabled /\ ~file'[e].error
        BY <1>6, <1>9, <3>5, <4>1 DEF State
      <4>3. QED
        BY <1>5, <1>9, <3>3, <3>5, <4>2 DEF Synced, Wanted, IsEnabled
    <3>6. QED
      BY <3>4, <3>5
  <2>7. QED
    BY <2>3, <2>4, <2>5, <2>6 DEF At
<1>11. Tokened'
  <2>1. ASSUME NEW q \in Procs
        PROVE  PreviewRec(procs'[q].rec) /\ Overlaid(procs'[q].rec, procs'[q].ext)
    <3>1. CASE q = p
      BY <1>2, <1>3, <1>6, <3>1
    <3>2. CASE q # p
      BY <1>3, <1>5, <3>2 DEF Tokened
    <3>3. QED
      BY <3>1, <3>2
  <2>2. QED
    BY <1>5, <2>1 DEF Tokened, PreviewRec, Overlaid
<1>12. FailedDropped'
  BY <1>4, FailedKept DEF Steady
<1>13. Touches(e)
  <2>1. ~Unreported(p)
    BY <1>1 DEF Unreported
  <2>2. QED
    BY <1>2, <1>3, <1>9, <2>1 DEF Touches
<1>14. QED
  BY <1>4, <1>10, <1>11, <1>12, <1>13, SteadyMoves

LEMMA StartSteady == Typed /\ Typed' /\ Orderly /\ Held /\ Steady /\ Start => Steady'
<1> SUFFICES ASSUME Typed, Typed', Orderly, Held, Steady, Start PROVE Steady'
  OBVIOUS
<1>0. /\ calls # <<>> /\ Head(calls).op = "start" /\ Head(calls).ext \in Exts
      /\ Head(calls).rec \in Rec /\ Head(calls) \in Frames /\ Tail(calls) \in Seq(GoodFrame)
  BY TopTyped, FramesNow DEF Start, Running
<1>1. PICK e \in Exts, r \in Rec : Head(calls).ext = e /\ Head(calls).rec = r
  BY <1>0
<1>2. UNCHANGED <<pendingStop, jobs, jobActive, draining, dirty, booted, preview, userCopy>>
  BY DEF Start, jobVars, reqVars
<1>3. /\ ~Restarts(Head(calls)) /\ Get(e)' = Get(e) /\ At(e)
      /\ Startable(Head(calls)) /\ StartFits(Head(calls))
  BY <1>0, <1>2 DEF Restarts, Get, Locate, Steady, StartsRight, TopFits
<1>4. ASSUME Return, UNCHANGED <<runtime, procs, failed>>,
             \A x \in Exts \ {e} : file'[x] = file[x] /\ mem'[x] = mem[x],
             Rests(e)' => Synced(e)' /\ Wanted(e)' /\ runtime[e] # 0
      PROVE  Steady'
  <2>1. Runs({}, {})
    BY <1>0, <1>4, RunsNone
  <2>2. Redone(e) => Redone(e)'
    BY <1>2, <1>3, <2>1, RedoneRests
  <2>3. ReconciledAt(e)'
    BY <1>4 DEF ReconciledAt
  <2>4. At(e)'
    BY <1>2, <1>3, <1>4, <2>1, <2>2, <2>3, AtRests
  <2>5. Touches(e)
    BY <1>2, <1>4 DEF Touches
  <2>6. QED
    BY <1>0, <1>1, <1>2, <1>4, <2>1, <2>4, <2>5, SteadyKept, SameNamesUnchanged
<1>5. ASSUME Return, Rests(e)' PROVE ~pendingStop[e].on
  <2>1. Runs({}, {})
    BY <1>0, <1>5, RunsNone
  <2>2. pendingStop'[e] = pendingStop[e] /\ jobActive'[e] = jobActive[e] /\ ReturnedAt(e)
    BY <1>2, <1>3 DEF At
  <2>3. QED
    BY <1>5, <2>1, <2>2, RestsBack
<1>6. CASE runtime[e] # 0 /\ Return /\ UNCHANGED <<runtime, record, confVars, procs, failed>>
  <2>1. UNCHANGED <<file, mem>>
    BY <1>6 DEF confVars
  <2>2. Rests(e)' => Rests(e)
    BY <1>2, <1>5, <1>6 DEF Rests
  <2>3. Rests(e) => Synced(e) /\ Wanted(e)
    BY <1>1, <1>3, <1>6 DEF StartFits
  <2>4. Synced(e)' = Synced(e) /\ Wanted(e)' = Wanted(e)
    BY <1>3, <2>1 DEF Synced, Wanted, IsEnabled
  <2>5. QED
    BY <1>4, <1>6, <2>1, <2>2, <2>3, <2>4
<1>7. CASE /\ runtime[e] = 0 /\ ~MayStart(e)
           /\ IF r.kind = "preview" THEN UNCHANGED confVars ELSE Save(e, ClearedState(e, r))
           /\ Return
           /\ UNCHANGED <<runtime, record, procs, failed>>
  <2>1. \A x \in Exts \ {e} : file'[x] = file[x] /\ mem'[x] = mem[x]
    BY <1>7 DEF confVars, Save, Typed, TypeOK
  <2>2. ~Rests(e)'
    <3>1. SUFFICES ASSUME Rests(e)' PROVE FALSE
      OBVIOUS
    <3>2. ~jobActive[e]
      BY <1>2, <3>1 DEF Rests
    <3>3. QED
      BY <1>5, <1>7, <3>1, <3>2 DEF MayStart
  <2>3. QED
    BY <1>4, <1>7, <2>1, <2>2
<1>8. CASE /\ runtime[e] = 0 /\ MayStart(e)
           /\ IF r.kind = "preview" THEN UNCHANGED confVars ELSE Save(e, ClearedState(e, r))
           /\ Spawn(e, r)
           /\ Return
           /\ UNCHANGED failed
  BY <1>0, <1>1, <1>2, <1>8, SpawnSteady
<1>9. CASE /\ runtime[e] = 0 /\ MayStart(e)
           /\ HandleExit(e, r, TRUE, Tail(calls))
           /\ UNCHANGED procs
  <2>1. ~pendingStop[e].on
    BY <1>9 DEF MayStart
  <2>2. \A p \in Procs : ~(Unreported(p)' /\ procs[p].ext = e)
    BY <1>9, <2>1, NoneRuns DEF Unreported
  <2>4. Rests(e)' /\ r.kind # "preview" => preview.ext # e
    <3>1. SUFFICES ASSUME Rests(e)', r.kind # "preview" PROVE preview.ext # e
      OBVIOUS
    <3>2. r = Get(e)
      BY <1>1, <1>2, <1>3, <3>1 DEF Rests, Startable
    <3>3. QED
      BY <3>1, <3>2, Resolved DEF Steady
  <2>5. \A p \in Procs : procs'[p] = procs[p] \/ procs[p].ext = e
    BY <1>9
  <2>6. PICK rest \in Seq(GoodFrame) : rest = Tail(calls)
    BY <1>0
  <2>7. HandleExit(e, r, TRUE, rest)
    BY <1>9, <2>6
  <2>8. SameNames
    BY <1>9, SameNamesUnchanged
  <2>9. PreviewRec(r) /\ Overlaid(r, e) /\ (r.kind = "preview" => Torn(e, r))
    <3>1. PreviewRec(r) /\ Overlaid(r, e) /\ (r.tok # 0 => r.tok = preview.tok /\ e = preview.ext)
      BY <1>1, <1>3 DEF Startable, Overlaid
    <3>2. preview \in [ext: Exts \cup {NoExt}, tok: 0..MaxPreviews]
      BY DEF Typed, TypeOK
    <3>3. QED
      BY <3>1, <3>2 DEF PreviewRec, Torn
  <2>10. QED
    BY <1>0, <1>1, <1>2, <2>1, <2>2, <2>4, <2>5, <2>6, <2>7, <2>8, <2>9, FailSteady
<1>10. QED
  <2>1. \/ runtime[e] # 0 /\ Return /\ UNCHANGED <<runtime, record, confVars, procs, failed>>
        \/ /\ runtime[e] = 0 /\ ~MayStart(e)
           /\ IF r.kind = "preview" THEN UNCHANGED confVars ELSE Save(e, ClearedState(e, r))
           /\ Return
           /\ UNCHANGED <<runtime, record, procs, failed>>
        \/ /\ runtime[e] = 0 /\ MayStart(e)
           /\ IF r.kind = "preview" THEN UNCHANGED confVars ELSE Save(e, ClearedState(e, r))
           /\ Spawn(e, r)
           /\ Return
           /\ UNCHANGED failed
        \/ /\ runtime[e] = 0 /\ MayStart(e)
           /\ HandleExit(e, r, TRUE, Tail(calls))
           /\ UNCHANGED procs
    BY <1>1 DEF Start
  <2>2. QED
    BY <2>1, <1>6, <1>7, <1>8, <1>9

\* An id that the overlay neither was nor becomes.
LEMMA Unpreviewed ==
  ASSUME Typed, Typed', Held, NEW x \in Exts, At(x), NEW tops, NEW under, Runs(tops, under),
         UNCHANGED <<runtime, pendingStop, jobs, jobActive, file, mem, booted, userCopy, procs>>,
         dirty'[x] = dirty[x], preview.ext # x, preview'.ext # x, DroppedAt(x)',
         calls # <<>> => Head(calls).op = "stopPreview",
         \A c \in tops \cup under : c.op # "drainCallbacks"
  PROVE  At(x)'
<1>1. /\ Frames' = tops \cup under \cup Below /\ Below' \subseteq under \cup Below
      /\ calls # <<>> => Frames = {Head(calls)} \cup Below
      /\ calls = <<>> => Frames = {}
  BY RunsFrames, FramesNow
<1>2. /\ Get(x)' = Get(x) /\ (Synced(x)' <=> Synced(x)) /\ (Wanted(x)' <=> Wanted(x))
  BY DEF Get, Locate, Synced, Wanted, IsEnabled
<1>3. Redone(x) => Redone(x)'
  <2>1. calls # <<>> => ~Restarts(Head(calls))
    BY DEF Restarts
  <2>2. QED
    BY <2>1, RedoneRests
<1>4. FitsAt(x)'
  BY <1>2, <1>3 DEF At, FitsAt, Unreported
<1>5. ReturnedAt(x)'
  BY <1>1 DEF At, ReturnedAt
<1>6. ReconciledAt(x)'
  <2>1. SUFFICES ASSUME Rests(x)', ~Due(x)'
                 PROVE  /\ Synced(x)' /\ (runtime'[x] # 0 => Wanted(x)')
                        /\ Wanted(x)' /\ runtime'[x] = 0 => BootsLater(x)' /\ preview'.ext # x
    BY DEF ReconciledAt
  <2>2. pendingStop'[x] = pendingStop[x] /\ jobActive'[x] = jobActive[x] /\ ReturnedAt(x)
    BY DEF At
  <2>3. ~pendingStop[x].on
    BY <2>1, <2>2, RestsBack
  <2>4. Rests(x)
    BY <2>1, <2>3 DEF Rests
  <2>5. ~Due(x)
    BY <1>1, <2>1 DEF Due, Settles, Working
  <2>6. BootsLater(x) => BootsLater(x)'
    BY <1>1 DEF BootsLater
  <2>7. QED
    BY <1>2, <2>4, <2>5, <2>6 DEF At, ReconciledAt
<1>7. QED
  BY <1>4, <1>5, <1>6 DEF At

\* When no preview is on.
LEMMA NoneOverlaid ==
  ASSUME preview = NoPreview
  PROVE  preview.tok = 0 /\ \A x \in Exts : preview.ext # x
BY ExtsAssumption DEF NoPreview

LEMMA StopPreviewSteady == Typed /\ Typed' /\ Held /\ Steady /\ StopPreview => Steady'
<1> SUFFICES ASSUME Typed, Typed', Held, Steady, StopPreview PROVE Steady'
  OBVIOUS
<1>0. /\ calls # <<>> /\ Head(calls).op = "stopPreview" /\ Head(calls).ext \in Exts
      /\ Head(calls) \in Frames /\ Frames = {Head(calls)} \cup Below
  BY TopTyped, FramesNow DEF StopPreview, Running
<1>1. /\ UNCHANGED <<runtime, pendingStop, jobs, jobActive, draining, file, mem, booted, userCopy, procs>>
      /\ dirty' = dirty /\ failed' = failed
  BY DEF StopPreview, lifeVars, jobVars, confVars, histVars, reqVars
<1>2. /\ Upright /\ Tokened /\ StartsRight /\ FailedDropped /\ TopFits
      /\ \A x \in Exts : At(x)
  BY DEF Steady
<1>3. Below = {} \/ preview = NoPreview \/ preview.ext = Head(calls).ext
  BY <1>0, <1>2 DEF Upright
<1>4. /\ preview' = NoPreview /\ preview'.tok = 0 /\ \A x \in Exts : preview'.ext # x
  <2>1. preview' = NoPreview
    BY DEF StopPreview
  <2>2. QED
    BY <2>1, ExtsAssumption DEF NoPreview
<1>5. Tokened' /\ \A x \in Exts : DroppedAt(x)'
  BY <1>1, <1>2, <1>4 DEF Tokened, DroppedAt, PreviewRec, Overlaid
<1>6. FailedDropped'
  BY <1>1, <1>2, <1>4 DEF FailedDropped
<1>7. ASSUME NEW tops, Runs(tops, {}), \A c \in tops : c.op = "enqueue" /\ c.ext = preview.ext,
             tops # {} => preview # NoPreview, \A x \in Exts : At(x)'
      PROVE  Steady'
  <2>1. Frames' = tops \cup {} \cup Below
    BY <1>7, RunsFrames
  <2>2. \A c \in tops \cup {} : c.op # "boot" /\ (Below = {} \/ c.ext = Head(calls).ext)
    BY <1>3, <1>7
  <2>3. Upright'
    <3>1. \A c \in {} : c.op \notin {"start", "stop", "stopPreview", "pollExit"}
      OBVIOUS
    <3>2. \A c \in tops : /\ c.op = "pollExit" => procs'[c.proc].ext = c.ext
                          /\ c.op = "stopPreview" =>
                               Below' = {} \/ preview' = NoPreview \/ preview'.ext = c.ext
      BY <1>7
    <3>3. \A x \in Exts : draining'[x] =>
            draining[x] /\ (calls # <<>> => ~(Head(calls).op = "drain" /\ Head(calls).ext = x))
      BY <1>0, <1>1
    <3>4. QED
      BY <1>2, <1>7, <2>2, <3>1, <3>2, <3>3, UprightKept
  <2>4. StartsRight'
    <3>1. SUFFICES ASSUME NEW c \in Below, c.op \in {"start", "boot"} PROVE Startable(c)'
      BY <1>7, <2>1 DEF StartsRight
    <3>2. c.op = "boot" /\ c \in Frames /\ c.ext \in Exts /\ c.ext # Head(calls).ext
      BY <1>0, <1>2, <3>1, FramesNow, BootsElsewhere DEF Upright
    <3>3. c.ext # preview.ext
      BY <1>3, <3>1, <3>2, NoneOverlaid
    <3>4. Startable(c)
      BY <1>2, <3>2 DEF StartsRight
    <3>5. Get(c.ext)' = Get(c.ext)
      BY <1>1, <1>4, <3>2, <3>3 DEF Get, Locate
    <3>6. QED
      BY <1>1, <3>3, <3>4, <3>5 DEF Startable
  <2>5. TopFits'
    BY <1>2, <1>7, TopFitsKept
  <2>6. QED
    BY <1>5, <1>6, <1>7, <2>3, <2>4, <2>5 DEF Steady
<1>8. CASE preview = NoPreview
  <2>1. Return
    BY <1>8 DEF StopPreview
  <2>2. Runs({}, {})
    BY <1>0, <2>1, RunsNone
  <2>3. \A x \in Exts : At(x)'
    BY <1>0, <1>1, <1>2, <1>4, <1>5, <1>8, <2>2, NoneOverlaid, Unpreviewed
  <2>4. QED
    BY <1>7, <2>2, <2>3
<1>9. CASE preview # NoPreview
  <2>0. PICK y \in Exts : preview.ext = y
    BY <1>9 DEF Typed
  <2> DEFINE c == CallWith("enqueue", y, "restart")
  <2>1. Becomes(<<c>>)
    BY <1>9, <2>0 DEF StopPreview
  <2>2. c.op = "enqueue" /\ c.ext = y /\ c.arg = "restart"
    BY DEF CallWith, Call
  <2>3. c \in GoodFrame
    BY CallWithGood, CallNames
  <2> HIDE DEF c
  <2>4. Runs({c}, {})
    BY <1>0, <2>1, <2>3, RunsOne
  <2>5. Frames' = {c} \cup {} \cup Below /\ Below' \subseteq {} \cup Below
    BY <2>4, RunsFrames
  <2>6. At(y)'
    <3>1. Redone(y)'
      BY <2>2, <2>5 DEF Redone, Restarts
    <3>2. Settles(c, y)'
      BY <2>2 DEF Settles, Working
    <3>3. ReconciledAt(y)'
      BY <2>5, <3>2 DEF ReconciledAt, Due
    <3>4. ReturnedAt(y)'
      BY <1>1, <1>2, <2>5 DEF At, ReturnedAt
    <3>5. QED
      BY <1>5, <3>1, <3>3, <3>4 DEF At, FitsAt
  <2>7. \A x \in Exts \ {y} : At(x)'
    <3>1. ASSUME NEW x \in Exts \ {y} PROVE At(x)'
      <4>1. dirty'[x] = dirty[x] /\ preview.ext # x /\ preview'.ext # x /\ At(x) /\ DroppedAt(x)'
        BY <1>1, <1>2, <1>4, <1>5, <2>0, <3>1
      <4>2. \A d \in {c} \cup {} : d.op # "drainCallbacks"
        BY <2>2
      <4>3. QED
        BY <1>0, <1>1, <2>4, <4>1, <4>2, Unpreviewed
    <3>2. QED
      BY <3>1
  <2>8. QED
    BY <1>7, <1>9, <2>0, <2>2, <2>4, <2>6, <2>7
<1>10. QED
  BY <1>8, <1>9

LEMMA StepSteady == Typed /\ Typed' /\ Orderly /\ Sound /\ Steady /\ Step => Steady'
BY EnqueueSteady, RunNextSteady, DrainSteady, ReleaseSteady, JobSteady, FilesSteady, StopSteady,
   ReconcileSteady, BootSteady, DrainCallbacksSteady, PollExitSteady, StartSteady, StopPreviewSteady
   DEF Step, Sound

\* Between two events nothing is on the stack.
LEMMA Between ==
  ASSUME Typed, Steady, calls = <<>>
  PROVE  /\ Frames = {} /\ Below = {} /\ preview.tok \notin failed /\ 0 \notin failed
         /\ \A x \in Exts : ~draining[x] /\ ~Due(x) /\ At(x)
BY FramesNow DEF Steady, Upright, FailedDropped, Due

\* Every record of iterate() is booted.
LEMMA EveryBoot ==
  ASSUME NEW found, IsFiniteSet(found), NEW order \in [1..Cardinality(found) -> found],
         \A i, j \in DOMAIN order : order[i] = order[j] => i = j
  PROVE  \A x \in found : \E i \in DOMAIN order : order[i] = x
<1> DEFINE n == Cardinality(found)
<1>1. n \in Nat
  BY FS_CardinalityType
<1>2. IsFiniteSet(1..n) /\ Cardinality(1..n) = n
  <2>1. 1 \in Int /\ n \in Int
    BY <1>1
  <2>2. IsFiniteSet(1..n) /\ Cardinality(1..n) = IF 1 > n THEN 0 ELSE n - 1 + 1
    BY <2>1, FS_Interval
  <2>3. QED
    BY <1>1, <2>2
<1>3. order \in Injection(1..n, found)
  BY DEF Injection, IsInjective
<1>4. order \in Surjection(1..n, found)
  BY <1>2, <1>3, FS_Injection
<1>5. QED
  BY <1>4 DEF Surjection

LEMMA StartExtensionsSteady == Typed /\ Typed' /\ Held /\ Steady /\ StartExtensions => Steady'
<1> SUFFICES ASSUME Typed, Typed', Held, Steady, StartExtensions PROVE Steady'
  OBVIOUS
<1>1. /\ UNCHANGED <<runtime, pendingStop, jobs, jobActive, draining, file, mem, dirty, failed,
                     preview, userCopy, procs>>
      /\ calls = <<>> /\ ~booted
  BY DEF StartExtensions, Idle, lifeVars, jobVars, confVars, histVars
<1> DEFINE found == {x \in Exts : Get(x) # NoRec}
<1>2. PICK order \in [1..Cardinality(found) -> found] :
        /\ \A i, j \in DOMAIN order : order[i] = order[j] => i = j
        /\ calls' = [i \in DOMAIN order |-> CallRec("boot", order[i], Get(order[i]))]
  BY DEF StartExtensions
<1>3. IsFiniteSet(found)
  BY FS_Subset, ExtsAssumption
<1>4. \A x \in found : \E i \in DOMAIN order : order[i] = x
  BY <1>2, <1>3, EveryBoot
<1>5. \A i \in DOMAIN order : order[i] \in Exts /\ Get(order[i]) # NoRec
  OBVIOUS
<1> HIDE DEF found
<1>6. \A x, r : CallRec("boot", x, r).op = "boot" /\ CallRec("boot", x, r).ext = x
                /\ CallRec("boot", x, r).rec = r
  BY DEF CallRec, Call
<1>7. /\ DOMAIN calls' = DOMAIN order
      /\ \A i \in DOMAIN order : /\ calls'[i].op = "boot" /\ calls'[i].ext = order[i]
                                 /\ calls'[i].rec = Get(order[i])
  BY <1>2, <1>6
<1>8. \A c \in Frames' : c.op = "boot" /\ c.ext \in Exts /\ c.rec = Get(c.ext) /\ Get(c.ext) # NoRec
  BY <1>5, <1>7 DEF Frames
<1>9. Below' \subseteq Frames' /\ (calls' # <<>> => Head(calls') \in Frames')
  <2>1. calls' # <<>> => 1 \in DOMAIN calls' /\ calls'[1] = Head(calls')
    <3>1. Len(calls') \in Nat /\ DOMAIN calls' = 1..Len(calls')
      BY LenProperties DEF Typed
    <3>2. calls' # <<>> => Len(calls') # 0
      BY EmptySeq DEF Typed
    <3>3. QED
      BY <3>1, <3>2
  <2>2. QED
    BY <2>1 DEF Below, Frames
<1>10. /\ Frames = {} /\ preview.tok \notin failed /\ 0 \notin failed /\ Tokened
       /\ \A x \in Exts : ~draining[x] /\ ~Due(x) /\ At(x)
  BY <1>1, Between DEF Steady
<1>11. \A x \in Exts : Get(x)' = Get(x) /\ Synced(x)' = Synced(x) /\ Wanted(x)' = Wanted(x)
  BY <1>1 DEF Get, Locate, Synced, Wanted, IsEnabled
<1>12. Upright'
  <2>1. \A i, j \in DOMAIN calls' : i # j => calls'[i].ext # calls'[j].ext
    BY <1>2, <1>7
  <2>2. QED
    BY <1>1, <1>8, <1>9, <1>10, <2>1 DEF Upright, WaitsAlone
<1>13. StartsRight'
  <2>1. SUFFICES ASSUME NEW c \in Frames' PROVE Startable(c)'
    BY DEF StartsRight
  <2>2. c.ext \in Exts /\ c.rec = Get(c.ext) /\ Get(c.ext) # NoRec
    BY <1>8, <2>1
  <2>3. /\ c.rec.kind # "none" /\ PreviewRec(c.rec)
        /\ c.rec.tok # 0 => c.rec.tok = preview.tok /\ c.ext = preview.ext
    BY <1>10, <2>2, Resolved DEF PreviewRec
  <2>4. QED
    BY <1>1, <1>11, <2>2, <2>3 DEF Startable, PreviewRec
<1>14. Tokened' /\ FailedDropped' /\ TopFits'
  BY <1>1, <1>8, <1>10 DEF Tokened, PreviewRec, Overlaid, FailedDropped, TopFits
<1>15. ASSUME NEW x \in Exts PROVE At(x)'
  <2>1. Redone(x) => Redone(x)'
    BY <1>1, <1>10 DEF Redone
  <2>2. FitsAt(x)' /\ DroppedAt(x)'
    BY <1>1, <1>10, <1>11, <2>1 DEF At, FitsAt, DroppedAt, Unreported
  <2>3. ReturnedAt(x)'
    BY <1>8, <1>9 DEF ReturnedAt
  <2>4. ReconciledAt(x)'
    <3>1. SUFFICES ASSUME Rests(x)'
                   PROVE  /\ Synced(x)' /\ (runtime'[x] # 0 => Wanted(x)')
                          /\ Wanted(x)' /\ runtime'[x] = 0 => BootsLater(x)' /\ preview'.ext # x
      BY DEF ReconciledAt
    <3>2. Rests(x)
      BY <1>1, <1>8, <1>9, <3>1 DEF Rests, Running
    <3>3. Wanted(x) => BootsLater(x)'
      <4>1. SUFFICES ASSUME Wanted(x) PROVE \E c \in Frames' : c.op = "boot" /\ c.ext = x
        BY DEF BootsLater
      <4>2. x \in found
        BY <4>1 DEF found, Wanted
      <4>3. PICK i \in DOMAIN order : order[i] = x
        BY <1>4, <4>2
      <4>4. calls'[i] \in Frames' /\ calls'[i].op = "boot" /\ calls'[i].ext = x
        BY <1>7, <4>3 DEF Frames
      <4>5. QED
        BY <4>4
    <3>4. QED
      BY <1>1, <1>10, <1>11, <3>2, <3>3 DEF At, ReconciledAt
  <2>5. QED
    BY <2>2, <2>3, <2>4 DEF At
<1>16. QED
  BY <1>12, <1>13, <1>14, <1>15 DEF Steady

\* A request or a toggle makes one call that something is due with.
LEMMA AskSteady ==
  ASSUME Typed, Typed', Held, Steady, calls = <<>>, NEW e \in Exts, NEW c,
         calls' = <<c>>, c.ext = e, c.op \in {"reconcile", "enqueue"},
         UNCHANGED <<lifeVars, jobVars, failed, booted, preview, userCopy, procs>>,
         \A x \in Exts \ {e} : file'[x] = file[x] /\ mem'[x] = mem[x] /\ dirty'[x] = dirty[x],
         dirty'[e] = dirty[e] \/ Restarts(c)
  PROVE  Steady'
<1>1. Runs({c}, {})
  BY RunsFirst
<1>2. c \in Frames' /\ Below' = {}
  BY <1>1, RunsFrames, FramesNow
<1>3. UNCHANGED <<runtime, pendingStop, jobs, jobActive, draining>>
  BY DEF lifeVars, jobVars
<1>4. At(e) /\ Get(e)' = Get(e) /\ \A x \in Exts : ~draining[x]
  BY Between DEF Get, Locate
<1>5. At(e)'
  <2>1. Redone(e) => Redone(e)'
    BY <1>1, <1>3, RedoneRests
  <2>2. Restarts(c) => Redone(e)'
    BY <1>2 DEF Redone
  <2>3. FitsAt(e)' /\ DroppedAt(e)'
    BY <1>3, <1>4, <2>1, <2>2 DEF At, FitsAt, DroppedAt, Unreported
  <2>4. ReturnedAt(e)'
    BY <1>2 DEF ReturnedAt
  <2>5. Settles(c, e)'
    BY DEF Settles, Working
  <2>6. ReconciledAt(e)'
    BY <1>2, <2>5 DEF ReconciledAt, Due
  <2>7. QED
    BY <2>3, <2>4, <2>6 DEF At
<1>6. Touches(e)
  BY <1>3 DEF Touches
<1>7. c.op \in Ready
  BY DEF Ready
<1>8. QED
  BY <1>1, <1>3, <1>4, <1>5, <1>6, <1>7, ReadyFits, SteadyKept, SameNamesUnchanged

LEMMA RequestSteady ==
  ASSUME Typed, Typed', Held, Steady, NEW e \in Exts,
         \/ \E enabled \in BOOLEAN : ToggleEnabled(e, enabled)
         \/ \E k \in {"install", "update", "uninstall"} : RequestJob(e, k)
         \/ Reload(e)
  PROVE  Steady'
<1>1. CASE \E enabled \in BOOLEAN : ToggleEnabled(e, enabled)
  <2>1. PICK enabled \in BOOLEAN : ToggleEnabled(e, enabled)
    BY <1>1
  <2>2. /\ calls = <<>> /\ calls' = <<Call("reconcile", e)>>
        /\ UNCHANGED <<lifeVars, jobVars, failed, booted, preview, userCopy, procs>> /\ dirty' = dirty
        /\ Save(e, [enabled |-> enabled, error |-> FALSE])
    BY <2>1 DEF ToggleEnabled, Request, Idle
  <2>3. \A x \in Exts \ {e} : file'[x] = file[x] /\ mem'[x] = mem[x]
    BY <2>2 DEF Save, Typed, TypeOK
  <2>4. Call("reconcile", e).ext = e /\ Call("reconcile", e).op = "reconcile"
    BY DEF Call
  <2>5. QED
    BY <2>2, <2>3, <2>4, AskSteady
<1>2. CASE \E k \in {"install", "update", "uninstall"} : RequestJob(e, k)
  <2>1. PICK k \in {"install", "update", "uninstall"} : RequestJob(e, k)
    BY <1>2
  <2>2. /\ calls = <<>> /\ calls' = <<CallWith("enqueue", e, k)>>
        /\ UNCHANGED <<lifeVars, jobVars, failed, booted, preview, userCopy, procs>> /\ dirty' = dirty
        /\ UNCHANGED <<file, mem>>
    BY <2>1 DEF RequestJob, Request, Idle, histVars, confVars
  <2>3. CallWith("enqueue", e, k).ext = e /\ CallWith("enqueue", e, k).op = "enqueue"
    BY DEF CallWith, Call
  <2>4. QED
    BY <2>2, <2>3, AskSteady
<1>3. CASE Reload(e)
  <2>1. /\ calls = <<>> /\ calls' = <<CallWith("enqueue", e, "restart")>>
        /\ UNCHANGED <<lifeVars, jobVars, failed, booted, preview, userCopy, procs>>
        /\ UNCHANGED <<file, mem>> /\ dirty' = [dirty EXCEPT ![e] = FALSE]
    BY <1>3 DEF Reload, Request, Idle, confVars
  <2>2. \A x \in Exts \ {e} : dirty'[x] = dirty[x]
    BY <2>1 DEF Typed, TypeOK
  <2>3. /\ CallWith("enqueue", e, "restart").ext = e /\ CallWith("enqueue", e, "restart").op = "enqueue"
        /\ Restarts(CallWith("enqueue", e, "restart"))
    BY DEF CallWith, Call, Restarts
  <2>4. QED
    BY <2>1, <2>2, <2>3, AskSteady
<1>4. QED
  BY <1>1, <1>2, <1>3

LEMMA RequestStopPreviewSteady == Typed /\ Typed' /\ Held /\ Steady /\ RequestStopPreview => Steady'
<1> SUFFICES ASSUME Typed, Typed', Held, Steady, RequestStopPreview PROVE Steady'
  OBVIOUS
<1>1. /\ UNCHANGED <<runtime, pendingStop, jobs, jobActive, draining, file, mem, booted, userCopy, procs>>
      /\ preview' = preview /\ dirty' = dirty /\ failed' = failed /\ calls = <<>>
  BY DEF RequestStopPreview, Request, Idle, lifeVars, jobVars, confVars, histVars
<1>2. PICK e \in Exts : calls' = <<Call("stopPreview", e)>>
  BY DEF RequestStopPreview
<1> DEFINE c == Call("stopPreview", e)
<1>3. calls' = <<c>> /\ c.op = "stopPreview"
  BY <1>2 DEF Call
<1> HIDE DEF c
<1>4. Runs({c}, {})
  BY <1>1, <1>2, <1>3, RunsFirst
<1>5. c \in Frames' /\ Below' = {} /\ \A d \in Frames' : d = c
  <2>1. Frames' = {c} \cup {} \cup Below /\ Below' \subseteq {} \cup Below /\ Below = {}
    BY <1>1, <1>4, RunsFrames, FramesNow
  <2>2. QED
    BY <2>1
<1>6. /\ preview.tok \notin failed /\ 0 \notin failed /\ Upright /\ Tokened
      /\ \A x \in Exts : ~draining[x] /\ At(x)
  BY <1>1, Between DEF Steady
<1>7. Upright'
  <2>1. WaitsAlone'
    <3>1. \A i \in DOMAIN calls' : calls'[i].op # "boot"
      BY <1>3, <1>5 DEF Frames
    <3>2. QED
      BY <3>1 DEF WaitsAlone
  <2>2. QED
    BY <1>1, <1>3, <1>5, <1>6, <2>1 DEF Upright
<1>8. StartsRight' /\ FailedDropped' /\ TopFits' /\ Tokened'
  BY <1>1, <1>3, <1>5, <1>6 DEF StartsRight, FailedDropped, TopFits, Tokened, PreviewRec, Overlaid
<1>9. ASSUME NEW x \in Exts PROVE At(x)'
  <2>1. CASE preview.ext = x
    <3>1. Settles(c, x)'
      BY <1>1, <1>3, <2>1 DEF Settles
    <3>2. Due(x)'
      BY <1>5, <3>1 DEF Due
    <3>3. Redone(x) => Redone(x)'
      BY <1>1, <1>4, RedoneRests
    <3>4. QED
      BY <1>1, <1>4, <1>6, <3>2, <3>3, AtPlain
  <2>2. CASE preview.ext # x
    <3>1. DroppedAt(x)'
      BY <1>1, <1>6 DEF At, DroppedAt, Unreported
    <3>2. \A d \in {c} \cup {} : d.op # "drainCallbacks"
      BY <1>3
    <3>3. dirty'[x] = dirty[x] /\ preview'.ext # x /\ At(x)
      BY <1>1, <1>6, <2>2
    <3>4. QED
      BY <1>1, <1>4, <2>2, <3>1, <3>2, <3>3, Unpreviewed
  <2>3. QED
    BY <2>1, <2>2
<1>10. QED
  BY <1>7, <1>8, <1>9 DEF Steady

LEMMA PreviewExtSteady ==
  ASSUME Typed, Typed', Held, Steady, NEW e \in Exts, NEW k \in 1..MaxPreviews, PreviewExt(e, k)
  PROVE  Steady'
<1>1. /\ UNCHANGED <<runtime, pendingStop, jobs, jobActive, draining, file, mem, booted, userCopy, procs>>
      /\ dirty' = dirty /\ failed' = failed /\ calls = <<>> /\ preview' = [ext |-> e, tok |-> k]
  BY DEF PreviewExt, Request, Idle, lifeVars, jobVars, confVars, histVars
<1>2. k # 0 /\ k \notin failed /\ \A p \in Procs : procs[p].rec.tok # k
  <2>1. /\ \A t \in failed : t < k /\ t \in Int
        /\ \A p \in Procs : procs[p].rec.tok < k /\ procs[p].rec.tok \in Int
    <3>1. failed \subseteq 0..MaxPreviews /\ \A p \in Procs : procs[p].rec.tok \in 0..MaxPreviews
      BY DEF Typed, TypeOK, Proc, Rec
    <3>2. \A t \in previewsUsed : t < k
      BY DEF PreviewExt
    <3>3. failed \subseteq previewsUsed /\ \A p \in Procs : procs[p].rec.tok \in previewsUsed
      BY DEF previewsUsed
    <3>4. MaxPreviews \in Nat
      BY BoundsAssumption
    <3>5. QED
      BY <3>1, <3>2, <3>3, <3>4
  <2>2. k \in Int /\ k > 0
    BY BoundsAssumption
  <2>3. QED
    BY <2>1, <2>2
<1>3. \E tops, under :
        /\ Runs(tops, under)
        /\ \A c \in tops \cup under : c.op = "enqueue" /\ c.arg = "restart"
        /\ \E c \in tops \cup under : c.ext = e
        /\ preview # NoPreview => \E c \in tops \cup under : c.ext = preview.ext
  <2>1. calls' = (IF preview # NoPreview /\ preview.ext # e
                  THEN <<CallWith("enqueue", preview.ext, "restart")>> ELSE <<>>)
                 \o <<CallWith("enqueue", e, "restart")>>
    BY DEF PreviewExt
  <2>2. PICK b \in GoodFrame : b = CallWith("enqueue", e, "restart")
    BY CallWithGood DEF Op, JobKind
  <2>3. b.op = "enqueue" /\ b.arg = "restart" /\ b.ext = e
    BY <2>2 DEF CallWith, Call
  <2>4. CASE preview # NoPreview /\ preview.ext # e
    <3>1. PICK y \in Exts : preview.ext = y
      BY <2>4 DEF Typed
    <3>2. PICK a \in GoodFrame : a = CallWith("enqueue", y, "restart")
      BY CallWithGood DEF Op, JobKind
    <3>3. a.op = "enqueue" /\ a.arg = "restart" /\ a.ext = y
      BY <3>2 DEF CallWith, Call
    <3>4. calls' = <<a>> \o <<b>>
      BY <2>1, <2>2, <2>4, <3>1, <3>2
    <3>5. calls' = <<a, b>>
      BY <3>4, TwoCalls
    <3>6. Runs({a}, {b})
      BY <1>1, <3>5, RunsFirst
    <3> DEFINE t == {a}
               u == {b}
    <3>7. /\ Runs(t, u)
          /\ \A c \in t \cup u : c.op = "enqueue" /\ c.arg = "restart"
          /\ \E c \in t \cup u : c.ext = e
          /\ \E c \in t \cup u : c.ext = preview.ext
      BY <2>3, <3>1, <3>3, <3>6
    <3> HIDE DEF t, u
    <3>8. QED
      BY <3>7
  <2>5. CASE ~(preview # NoPreview /\ preview.ext # e)
    <3>1. calls' = <<>> \o <<b>>
      BY <2>1, <2>2, <2>5
    <3>2. <<b>> \in Seq(GoodFrame)
      OBVIOUS
    <3>3. calls' = <<b>>
      BY <3>1, <3>2, ConcatEmptySeq
    <3>4. Runs({b}, {})
      BY <1>1, <3>3, RunsFirst
    <3> DEFINE t == {b}
               u == {}
    <3>5. /\ Runs(t, u)
          /\ \A c \in t \cup u : c.op = "enqueue" /\ c.arg = "restart"
          /\ \E c \in t \cup u : c.ext = e
          /\ preview # NoPreview => \E c \in t \cup u : c.ext = preview.ext
      BY <2>3, <2>5, <3>4
    <3> HIDE DEF t, u
    <3>6. QED
      BY <3>5
  <2>6. QED
    BY <2>4, <2>5
<1>4. PICK tops, under :
        /\ Runs(tops, under)
        /\ \A c \in tops \cup under : c.op = "enqueue" /\ c.arg = "restart"
        /\ \E c \in tops \cup under : c.ext = e
        /\ preview # NoPreview => \E c \in tops \cup under : c.ext = preview.ext
  BY <1>3
<1>5. Frames' = tops \cup under /\ Below' \subseteq Frames'
  <2>1. Frames' = tops \cup under \cup Below /\ Below' \subseteq under \cup Below /\ Below = {}
    BY <1>1, <1>4, RunsFrames, FramesNow
  <2>2. QED
    BY <2>1
<1>6. /\ \A c \in Frames' : c.op = "enqueue" /\ c.arg = "restart"
      /\ \A c \in Below' : c.op = "enqueue"
  BY <1>4, <1>5
<1>7. /\ 0 \notin failed /\ Tokened
      /\ \A x \in Exts : ~draining[x] /\ At(x)
  BY <1>1, Between DEF Steady
<1>8. Upright'
  <2>1. \A i \in DOMAIN calls' : calls'[i].op # "boot"
    BY <1>6 DEF Frames
  <2>2. QED
    BY <1>1, <1>6, <1>7, <2>1 DEF Upright, WaitsAlone
<1>9. StartsRight' /\ FailedDropped' /\ TopFits'
  BY <1>1, <1>2, <1>6, <1>7 DEF StartsRight, FailedDropped, TopFits
<1>10. Tokened' /\ \A x \in Exts : DroppedAt(x)'
  BY <1>1, <1>2, <1>7 DEF Tokened, PreviewRec, Overlaid, DroppedAt
<1>11. ASSUME NEW x \in Exts PROVE At(x)'
  <2>1. CASE x = e \/ (preview # NoPreview /\ preview.ext = x)
    <3>1. PICK c \in Frames' : c.ext = x
      BY <1>4, <1>5, <2>1
    <3>2. Redone(x)'
      BY <1>6, <3>1 DEF Redone, Restarts
    <3>3. Settles(c, x)'
      BY <1>6, <3>1 DEF Settles, Working
    <3>4. FitsAt(x)' /\ ReturnedAt(x)' /\ ReconciledAt(x)'
      BY <1>6, <3>2, <3>3 DEF FitsAt, ReturnedAt, ReconciledAt, Due
    <3>5. QED
      BY <1>10, <3>4 DEF At
  <2>2. CASE x # e /\ ~(preview # NoPreview /\ preview.ext = x)
    <3>1. preview.ext # x /\ preview'.ext # x /\ dirty'[x] = dirty[x] /\ At(x) /\ DroppedAt(x)'
      BY <1>1, <1>7, <1>10, <2>2, NoneOverlaid
    <3>2. \A c \in tops \cup under : c.op # "drainCallbacks"
      BY <1>4
    <3>3. QED
      BY <1>1, <1>4, <3>1, <3>2, Unpreviewed
  <2>3. QED
    BY <2>1, <2>2
<1>12. QED
  BY <1>8, <1>9, <1>10, <1>11 DEF Steady

LEMMA FetchDoneSteady ==
  ASSUME Typed, Typed', Held, Steady, NEW e \in Exts, FetchDone(e)
  PROVE  Steady'
<1>1. /\ UNCHANGED <<lifeVars, jobs, jobActive, draining, confVars, histVars, booted, preview, userCopy, procs>>
      /\ calls = <<>> /\ Fetches(e)
  BY DEF FetchDone, Idle, reqVars, Fetches
<1>2. jobActive[e]
  BY <1>1 DEF Held, OneHolder
<1>3. PICK c : /\ calls' = <<c>> /\ c.ext = e
               /\ c.op \in Ready \/ (c.op = "stop" /\ c.arg # "none")
  <2>1. \A cb \in {"swap", "release"} :
          /\ CallWith("stop", e, cb).ext = e /\ CallWith("stop", e, cb).op = "stop"
          /\ CallWith("stop", e, cb).arg = cb
          /\ Call(cb, e).ext = e /\ Call(cb, e).op = cb /\ cb \in Ready /\ cb # "none"
    BY DEF CallWith, Call, Ready, Callback
  <2>2. \E cb \in {"swap", "release"} : calls' = <<CallWith("stop", e, cb)>> \/ calls' = <<Call(cb, e)>>
    BY DEF FetchDone, StopExtension
  <2>3. QED
    BY <2>1, <2>2
<1>4. Runs({c}, {})
  BY <1>1, <1>3, RunsFirst
<1>5. Redone(e) => Redone(e)'
  <2>1. UNCHANGED <<jobs, pendingStop>>
    BY <1>1 DEF lifeVars
  <2>2. QED
    BY <1>1, <1>4, <2>1, RedoneRests
<1>6. /\ \A x \in Exts \ {e} : jobs'[x] = jobs[x] /\ jobActive'[x] = jobActive[x]
      /\ jobActive'[e] /\ draining' = draining
  BY <1>1, <1>2
<1>7. QED
  BY <1>1, <1>3, <1>4, <1>5, <1>6, SteadyPlain

LEMMA EventSteady == Typed /\ Typed' /\ Orderly /\ Held /\ Steady /\ Event => Steady'
BY StartExtensionsSteady, RequestStopPreviewSteady, RequestSteady, FetchDoneSteady, PreviewExtSteady,
   ReportExitSteady DEF Event

\* The operating system ends processes; the CLI's changes leave the id to be announced.
LEMMA EnvironmentSteady == Typed /\ Typed' /\ Steady /\ Environment => Steady'
<1> SUFFICES ASSUME Typed, Typed', Steady, Environment PROVE Steady'
  OBVIOUS
<1>1. /\ UNCHANGED <<runtime, pendingStop, jobs, jobActive, draining, mem, failed, booted, preview>>
      /\ calls' = calls
  BY DEF Environment, Die, CliInstall, CliUninstall, Cli, lifeVars, jobVars, histVars, reqVars, confVars
<1>2. \A p \in Procs : /\ procs'[p].rec = procs[p].rec /\ procs'[p].ext = procs[p].ext
                       /\ Unreported(p)' <=> Unreported(p)
  BY EnvironmentRecs, EnvironmentSame DEF SameRecs, SameProcs
<1>3. ASSUME NEW x \in Exts
      PROVE  /\ dirty[x] => dirty'[x]
             /\ dirty'[x] \/ /\ dirty'[x] = dirty[x] /\ userCopy'[x] = userCopy[x] /\ file'[x] = file[x]
                             /\ \A p \in Procs : procs[p].ext = x => procs'[p].stale = procs[p].stale
  <2>1. CASE \E p \in Procs : Die(p)
    <3>1. PICK p \in Procs : Die(p)
      BY <2>1
    <3>2. procs' = [procs EXCEPT ![p].st = "dead"] /\ UNCHANGED <<dirty, userCopy, file>>
      BY <3>1 DEF Die, histVars, confVars
    <3>3. PICK pr \in Proc : pr = procs[p]
      BY DEF Typed, TypeOK
    <3>4. [pr EXCEPT !.st = "dead"].stale = pr.stale
      BY DEF Proc
    <3>5. procs \in [Procs -> Proc]
      BY DEF Typed, TypeOK
    <3>6. \A q \in Procs : procs'[q] = IF q = p THEN [pr EXCEPT !.st = "dead"] ELSE procs[q]
      BY <3>2, <3>3, <3>5
    <3>7. QED
      BY <3>2, <3>3, <3>4, <3>6
  <2>2. CASE \E e \in Exts : CliInstall(e) \/ CliUninstall(e)
    <3>1. PICK e \in Exts : CliInstall(e) \/ CliUninstall(e)
      BY <2>2
    <3>2. /\ dirty' = [dirty EXCEPT ![e] = TRUE]
          /\ \E v \in BOOLEAN : userCopy' = [userCopy EXCEPT ![e] = v]
          /\ \E s : file' = [file EXCEPT ![e] = s]
          /\ \E kinds : procs' = MarkStale(e, kinds)
      BY <3>1 DEF CliInstall, CliUninstall, Cli
    <3>3. /\ dirty \in [Exts -> BOOLEAN] /\ userCopy \in [Exts -> BOOLEAN] /\ file \in [Exts -> State]
      BY DEF Typed, TypeOK
    <3>4. \A p \in Procs : procs[p].ext # e => procs'[p] = procs[p]
      BY <3>2 DEF MarkStale
    <3>5. QED
      BY <3>2, <3>3, <3>4
  <2>3. QED
    BY <2>1, <2>2 DEF Environment
<1>4. Frames' = Frames /\ Below' = Below /\ \A c \in Frames : c.ext \in Exts
  BY <1>1, FramesNow DEF Frames, Below
<1>5. /\ Upright /\ Tokened /\ StartsRight /\ FailedDropped /\ TopFits
      /\ \A x \in Exts : At(x)
  BY DEF Steady
<1>6. \A x \in Exts : ~dirty'[x] => /\ ~dirty[x] /\ Get(x)' = Get(x) /\ Synced(x)' = Synced(x)
                                    /\ Wanted(x)' = Wanted(x) /\ (Rests(x)' => Rests(x))
  BY <1>1, <1>3 DEF Get, Locate, Synced, Wanted, IsEnabled, Rests, Running
<1>7. Upright'
  <2>1. \A c \in Frames : c.op = "pollExit" => procs'[c.proc].ext = c.ext
    <3>1. \A c \in Frames : c.op = "pollExit" => c.proc \in Procs
      BY FramesNow DEF GoodFrame
    <3>2. QED
      BY <1>2, <1>5, <3>1 DEF Upright
  <2>2. QED
    BY <1>1, <1>4, <1>5, <2>1 DEF Upright, WaitsAlone
<1>8. Tokened' /\ FailedDropped'
  BY <1>1, <1>2, <1>4, <1>5 DEF Tokened, PreviewRec, Overlaid, FailedDropped
<1>9. StartsRight'
  BY <1>1, <1>3, <1>4, <1>5, <1>6 DEF StartsRight, Startable, PreviewRec
<1>10. TopFits'
  <2>1. ASSUME NEW c \in Frames
        PROVE  StartFits(c) => StartFits(c)'
    <3>1. Rests(c.ext)' => ~dirty'[c.ext]
      BY DEF Rests
    <3>2. QED
      BY <1>1, <1>4, <1>6, <3>1 DEF StartFits
  <2>2. QED
    BY <1>1, <1>4, <1>5, <2>1 DEF TopFits, StopFits
<1>11. ASSUME NEW x \in Exts PROVE At(x)'
  <2>1. Redone(x)' = Redone(x) /\ Due(x)' = Due(x) /\ BootsLater(x)' = BootsLater(x)
    BY <1>1, <1>4 DEF Redone, Due, Settles, BootsLater
  <2>2. FitsAt(x)'
    <3>1. SUFFICES ASSUME NEW p \in Procs, Unreported(p)', procs'[p].ext = x, ~dirty'[x], ~Redone(x)'
                   PROVE  procs'[p].rec = Get(x)' /\ (runtime'[x] = p => ~procs'[p].stale)
      BY DEF FitsAt
    <3>2. procs[p].rec = Get(x) /\ (runtime[x] = p => ~procs[p].stale)
      BY <1>2, <1>5, <1>6, <2>1, <3>1 DEF At, FitsAt
    <3>3. QED
      BY <1>1, <1>2, <1>3, <1>6, <3>1, <3>2
  <2>3. DroppedAt(x)' /\ ReturnedAt(x)'
    BY <1>1, <1>2, <1>4, <1>5 DEF At, DroppedAt, ReturnedAt
  <2>4. ReconciledAt(x)'
    <3>1. Rests(x)' => ~dirty'[x]
      BY DEF Rests
    <3>2. QED
      BY <1>1, <1>5, <1>6, <2>1, <3>1 DEF At, ReconciledAt
  <2>5. QED
    BY <2>2, <2>3, <2>4 DEF At
<1>12. QED
  BY <1>7, <1>8, <1>9, <1>10, <1>11 DEF Steady

LEMMA RestSteady == Steady /\ UNCHANGED vars => Steady'
<1> SUFFICES ASSUME Steady, UNCHANGED vars PROVE Steady'
  OBVIOUS
<1>1. UNCHANGED <<runtime, pendingStop, jobs, jobActive, draining, file, mem, dirty, failed,
                  booted, preview, userCopy, procs, calls>>
  BY DEF vars, lifeVars, jobVars, confVars, histVars, reqVars
<1>2. Frames' = Frames /\ Below' = Below
  BY <1>1 DEF Frames, Below
<1>3. \A x : Get(x)' = Get(x) /\ Synced(x)' = Synced(x) /\ Wanted(x)' = Wanted(x) /\ Rests(x)' = Rests(x)
  BY <1>1 DEF Get, Locate, Synced, Wanted, IsEnabled, Rests, Running
<1>4. Upright' /\ Tokened' /\ FailedDropped' /\ StartsRight' /\ TopFits'
  BY <1>1, <1>2, <1>3 DEF Steady, Upright, WaitsAlone, Tokened, PreviewRec, Overlaid, FailedDropped,
     StartsRight, Startable, TopFits, StartFits, StopFits
<1>5. ASSUME NEW x \in Exts PROVE At(x)'
  <2>1. Redone(x)' = Redone(x) /\ Due(x)' = Due(x) /\ BootsLater(x)' = BootsLater(x)
    BY <1>1, <1>2 DEF Redone, Due, Settles, BootsLater
  <2>2. QED
    BY <1>1, <1>2, <1>3, <2>1 DEF Steady, At, FitsAt, DroppedAt, ReturnedAt, ReconciledAt, Unreported
<1>6. QED
  BY <1>4, <1>5 DEF Steady

LEMMA InitSteady == Init => Steady
<1> SUFFICES ASSUME Init PROVE Steady
  OBVIOUS
<1>1. calls = <<>> /\ DOMAIN calls = {} /\ ~booted /\ failed = {} /\ preview = NoPreview /\ mem = file
  BY EmptySeq DEF Init
<1>2. Frames = {} /\ Below = {}
  BY <1>1 DEF Frames, Below
<1>3. \A p \in Procs : ~Unreported(p) /\ procs[p].rec = NoRec
  BY DEF Init, Unreported, NoProc
<1>4. Tokened
  BY <1>1, <1>3 DEF Tokened, PreviewRec, Overlaid, NoRec
<1>5. Upright
  BY <1>1, <1>2 DEF Init, Upright, WaitsAlone
<1>6. StartsRight /\ TopFits /\ FailedDropped
  BY <1>1, <1>2 DEF StartsRight, TopFits, FailedDropped
<1>7. ASSUME NEW x \in Exts PROVE At(x)
  <2>1. FitsAt(x) /\ DroppedAt(x) /\ ReturnedAt(x)
    BY <1>2, <1>3 DEF FitsAt, DroppedAt, ReturnedAt
  <2>2. ReconciledAt(x)
    BY <1>1, NoneOverlaid DEF Init, ReconciledAt, Synced, BootsLater
  <2>3. QED
    BY <2>1, <2>2 DEF At
<1>8. QED
  BY <1>4, <1>5, <1>6, <1>7 DEF Steady

LEMMA NextSteady == Known /\ Known' /\ Steady /\ [Next]_vars => Steady'
<1> SUFFICES ASSUME Known, Known', Steady, [Next]_vars PROVE Steady'
  OBVIOUS
<1>1. Typed /\ Typed' /\ Orderly /\ Sound /\ Held
  BY DEF Known, Sound
<1>2. CASE Step
  BY <1>1, <1>2, StepSteady
<1>3. CASE Event
  BY <1>1, <1>3, EventSteady
<1>4. CASE Environment
  BY <1>1, <1>4, EnvironmentSteady
<1>5. CASE UNCHANGED vars
  BY <1>5, RestSteady
<1>6. QED
  BY <1>2, <1>3, <1>4, <1>5 DEF Next, Finished

\* The inductive invariant: whatever runs for an id runs from the record it resolves
\* to unless it is about to be replaced, an id for which nothing is due runs iff it
\* should, and the overlay of a preview that failed is about to be dropped.
THEOREM ServiceSteady == Spec => [](Known /\ Steady)
<1>1. Init => Steady
  BY InitSteady
<1>2. Known /\ Known' /\ Steady /\ [Next]_vars => Steady'
  BY NextSteady
<1>3. Spec => []Known
  BY JobsSound DEF Known
<1>4. QED
  BY <1>1, <1>2, <1>3, PTL DEF Spec

\* An id that has settled after the boot, with no change of the CLI left to announce,
\* runs iff the record it resolves to is enabled, from that record, and from files
\* nobody changed since it was spawned.
THEOREM ServiceConverges == Spec => []Converged
<1>1. ASSUME Known, Steady PROVE Converged
  <2>1. SUFFICES ASSUME NEW e \in Exts, booted, Settled(e), ~dirty[e]
                 PROVE  /\ runtime[e] # 0 <=> Wanted(e)
                        /\ runtime[e] # 0 => record[e] = Get(e) /\ ~procs[runtime[e]].stale
    BY DEF Converged, Wanted
  <2>2. Typed /\ calls = <<>> /\ Rests(e)
    BY <1>1, <2>1 DEF Known, Settled, Idle, Rests
  <2>3. Frames = {} /\ ~Due(e) /\ At(e)
    BY <1>1, <2>2, Between
  <2>4. ~BootsLater(e)
    BY <2>1, <2>3 DEF BootsLater
  <2>5. runtime[e] # 0 <=> Wanted(e)
    BY <2>2, <2>3, <2>4 DEF At, ReconciledAt
  <2>6. ASSUME runtime[e] # 0 PROVE record[e] = Get(e) /\ ~procs[runtime[e]].stale
    <3>1. PICK p \in Procs : runtime[e] = p
      BY <2>2, <2>6 DEF Typed, TypeOK, Procs
    <3>2. Unreported(p) /\ procs[p].ext = e /\ procs[p].rec = record[e]
      BY <1>1, <2>6, <3>1 DEF Known, Orderly, Owned, Sound, Recorded
    <3>3. ~Redone(e)
      BY <1>1, <2>2, <2>3, RestsStay DEF Known, Sound, Rests
    <3>4. QED
      BY <2>1, <2>3, <3>1, <3>2, <3>3 DEF At, FitsAt
  <2>7. QED
    BY <2>5, <2>6
<1>2. QED
  BY <1>1, ServiceSteady, PTL

\* Only a start launches a process, and none that is not the call on top.
LEMMA OnlyStarts ==
  ASSUME Typed, [Next]_vars, NEW p \in Procs, procs[p].st = "unused", procs'[p].st = "alive"
  PROVE  /\ calls # <<>> /\ Head(calls).op = "start" /\ procs'[p].rec = Head(calls).rec
<1>1. CASE Start
  <2>1. PICK e, r : e = Head(calls).ext /\ r = Head(calls).rec
    OBVIOUS
  <2>2. Spawn(e, r)
    <3>1. procs' # procs
      OBVIOUS
    <3>2. QED
      BY <1>1, <2>1, <3>1 DEF Start
  <2> DEFINE new == [st |-> "alive", ext |-> e, rec |-> r, aborted |-> FALSE, stale |-> FALSE]
  <2>3. PICK q \in Procs : procs' = [procs EXCEPT ![q] = new]
    BY <2>2 DEF Spawn
  <2>4. new.rec = r
    OBVIOUS
  <2> HIDE DEF new
  <2>5. p = q
    BY <2>3 DEF Typed, TypeOK
  <2>6. procs'[p].rec = r
    BY <2>3, <2>4, <2>5 DEF Typed, TypeOK
  <2>7. QED
    BY <1>1, <2>1, <2>6 DEF Start, Running
<1>2. CASE procs' = procs
  BY <1>2
<1>3. ASSUME NEW q, NEW rest, ExitOf(q, rest) PROVE FALSE
  <2>1. procs' = [procs EXCEPT ![q].st = "gone"]
    BY <1>3 DEF ExitOf
  <2>2. procs \in [Procs -> Proc]
    BY DEF Typed, TypeOK
  <2>3. CASE p = q
    BY <2>1, <2>2, <2>3 DEF Proc
  <2>4. CASE p # q
    BY <2>1, <2>2, <2>4
  <2>5. QED
    BY <2>3, <2>4
<1>4. CASE Stop
  <2>1. procs' = procs \/ \E q : procs' = [procs EXCEPT ![q].aborted = TRUE]
    BY <1>4 DEF Stop
  <2>2. \A q : procs' = [procs EXCEPT ![q].aborted = TRUE] => procs'[p].st = procs[p].st
    BY DEF Typed, TypeOK, Proc
  <2>3. QED
    BY <2>1, <2>2
<1>5. CASE Swap \/ Remove
  <2>1. PICK e \in Exts : Head(calls).ext = e
    BY <1>5, TopTyped DEF Swap, Remove, Running
  <2>2. procs' = procs \/ \E kinds : procs' = MarkStale(e, kinds)
    BY <1>5, <2>1 DEF Swap, Remove
  <2>3. QED
    BY <2>2, MarkStaleTyped
<1>6. CASE Environment
  BY <1>6, EnvironmentSame DEF SameProcs, Unreported
<1>7. CASE Step
  <2>1. CASE PollExit
    BY <1>3, <2>1 DEF PollExit
  <2>2. CASE \/ DrainCallbacks \/ Reconcile \/ Enqueue \/ RunNext \/ Drain \/ Job \/ Release
             \/ StopPreview \/ Boot
    BY <1>2, <2>2 DEF DrainCallbacks, Reconcile, Enqueue, RunNext, Drain, Job, Release, StopPreview, Boot
  <2>3. QED
    BY <1>1, <1>4, <1>5, <1>7, <2>1, <2>2 DEF Step
<1>8. CASE Event
  <2>1. CASE \E q \in Procs : ReportExit(q)
    BY <1>3, <2>1 DEF ReportExit
  <2>2. CASE ~\E q \in Procs : ReportExit(q)
    BY <1>2, <1>8, <2>2 DEF Event, StartExtensions, RequestStopPreview, ToggleEnabled, RequestJob, Reload,
       FetchDone, PreviewExt
  <2>3. QED
    BY <2>1, <2>2
<1>9. CASE UNCHANGED vars
  BY <1>2, <1>9 DEF vars
<1>10. QED
  BY <1>6, <1>7, <1>8, <1>9 DEF Next, Finished

\* A preview whose process failed is never launched again: the exit handler drops its
\* overlay before anything else of the id runs, and only the overlay is launched.
THEOREM FailedPreviewsRest == Spec => NoCrashLoop
<1>1. ASSUME Known, Steady, [Next]_vars
      PROVE  \A p \in Procs : (procs[p].st = "unused" /\ procs'[p].st = "alive") =>
               procs'[p].rec.tok \notin failed
  <2>1. SUFFICES ASSUME NEW p \in Procs, procs[p].st = "unused", procs'[p].st = "alive"
                 PROVE  procs'[p].rec.tok \notin failed
    OBVIOUS
  <2>2. Typed
    BY <1>1 DEF Known
  <2>3. calls # <<>> /\ Head(calls).op = "start" /\ procs'[p].rec = Head(calls).rec
    BY <1>1, <2>1, <2>2, OnlyStarts
  <2>4. Head(calls) \in Frames /\ Frames = {Head(calls)} \cup Below
    BY <2>2, <2>3, FramesNow
  <2>5. Startable(Head(calls))
    BY <1>1, <2>3, <2>4 DEF Steady, StartsRight
  <2>6. \A c \in Frames : c.op # "stopPreview"
    BY <1>1, <2>3, <2>4 DEF Steady, Upright
  <2>7. preview.tok \notin failed /\ 0 \notin failed
    BY <1>1, <2>6 DEF Steady, FailedDropped
  <2>8. QED
    BY <2>3, <2>5, <2>7 DEF Startable
<1>2. Known /\ Steady /\ [Next]_vars => [\A p \in Procs : (procs[p].st = "unused" /\ procs'[p].st = "alive") =>
               procs'[p].rec.tok \notin failed]_vars
  BY <1>1
<1>3. QED
  BY <1>2, ServiceSteady, PTL DEF Spec, NoCrashLoop
================================================================================
