------------------------ MODULE ExtensionServiceProofs ------------------------
(* Theorems about ExtensionService, for any number of extensions, processes,   *)
(* previews and requests.                                                      *)
EXTENDS ExtensionService, FiniteSetTheorems, SequenceTheorems, TLAPS

\* Calls as they are made: the argument is of the kind the operation takes.
GoodFrame ==
  {c \in Frame : /\ c.op = "stop" => c.arg \in Callback \cup {"none"}
                 /\ c.op \in {"enqueue", "job"} => c.arg \in JobKind
                 /\ c.op = "pollExit" => c.proc \in Procs}

\* Type correctness, made inductive: calls carry fitting arguments, a process
\* that was spawned belongs to an extension, and so does a preview.
Typed ==
  /\ TypeOK
  /\ calls \in Seq(GoodFrame)
  /\ \A p \in Procs : procs[p].st # "unused" => procs[p].ext \in Exts
  /\ preview = NoPreview \/ preview.ext \in Exts

(***************************************************************************)
(* The data the calls are made of                                          *)
(***************************************************************************)
LEMMA RecordTypes ==
  /\ NoRec \in Rec
  /\ NoProc \in Proc
  /\ NoStop \in [on: BOOLEAN, cbs: Seq(Callback)]
  /\ NoPreview \in [ext: Exts \cup {NoExt}, tok: 0..MaxPreviews]
BY BoundsAssumption
   DEF NoRec, Rec, Kinds, NoProc, Proc, NoStop, NoPreview

LEMMA CallGood ==
  ASSUME NEW e \in Exts, NEW op \in Op \ {"enqueue", "job", "pollExit"}
  PROVE  Call(op, e) \in GoodFrame
BY RecordTypes, BoundsAssumption DEF Call, GoodFrame, Frame

LEMMA CallWithGood ==
  ASSUME NEW e \in Exts, NEW op \in Op, NEW x \in JobKind \cup Callback \cup {"none"},
         op = "stop" => x \in Callback \cup {"none"},
         op \in {"enqueue", "job"} => x \in JobKind,
         op # "pollExit"
  PROVE  CallWith(op, e, x) \in GoodFrame
BY RecordTypes, BoundsAssumption DEF CallWith, Call, GoodFrame, Frame

LEMMA CallRecGood ==
  ASSUME NEW e \in Exts, NEW r \in Rec, NEW op \in {"start", "boot"}
  PROVE  CallRec(op, e, r) \in GoodFrame
BY BoundsAssumption DEF CallRec, Call, GoodFrame, Frame, Op

LEMMA CallProcGood ==
  ASSUME NEW e \in Exts, NEW p \in Procs
  PROVE  CallProc("pollExit", e, p) \in GoodFrame
BY RecordTypes, BoundsAssumption DEF CallProc, Call, GoodFrame, Frame, Op, Procs

LEMMA CallbackCalls ==
  ASSUME NEW e \in Exts, NEW cbs \in Seq(Callback)
  PROVE  [i \in DOMAIN cbs |-> Call(cbs[i], e)] \in Seq(GoodFrame)
<1>1. /\ Len(cbs) \in Nat /\ DOMAIN cbs = 1..Len(cbs)
      /\ \A i \in 1..Len(cbs) : cbs[i] \in Callback
  BY LenProperties, ElementOfSeq
<1>2. \A i \in 1..Len(cbs) : Call(cbs[i], e) \in GoodFrame
  BY <1>1, CallGood DEF Callback, Op
<1>3. QED
  BY <1>1, <1>2, IsASeq

\* The call on top is a good one, and what it goes on as keeps the stack good.
LEMMA StackGood ==
  ASSUME NEW s \in Seq(GoodFrame), calls \in Seq(GoodFrame), calls # <<>>
  PROVE  /\ Head(calls) \in GoodFrame
         /\ Tail(calls) \in Seq(GoodFrame)
         /\ s \o Tail(calls) \in Seq(GoodFrame)
<1>1. Head(calls) \in GoodFrame /\ Tail(calls) \in Seq(GoodFrame)
  BY HeadTailProperties
<1>2. QED
  BY <1>1, ConcatProperties

LEMMA GoodIsFrame ==
  ASSUME NEW s \in Seq(GoodFrame)
  PROVE  s \in Seq(Frame)
BY SeqMonotonic DEF GoodFrame

LEMMA StateTyped ==
  ASSUME NEW s \in State, NEW v \in BOOLEAN
  PROVE  [s EXCEPT !.error = v] \in State /\ [s EXCEPT !.enabled = v] \in State
BY DEF State

LEMMA SaveTyped ==
  ASSUME Typed, NEW e \in Exts, NEW s \in State, Save(e, s)
  PROVE  file' \in [Exts -> State] /\ mem' \in [Exts -> State]
BY DEF Typed, TypeOK, Save

LEMMA RegistryTyped ==
  ASSUME Typed, NEW e \in Exts
  PROVE  Locate(e) \in Rec /\ Get(e) \in Rec
<1>1. preview \in [ext: Exts \cup {NoExt}, tok: 0..MaxPreviews]
  BY DEF Typed, TypeOK
<1>2. Locate(e) \in Rec
  BY BoundsAssumption DEF Locate, Rec, NoRec, Kinds
<1>3. [kind |-> "preview", tok |-> preview.tok] \in Rec
  BY <1>1 DEF Rec, Kinds
<1>4. QED
  BY <1>2, <1>3 DEF Get

LEMMA MarkStaleTyped ==
  ASSUME Typed, NEW e \in Exts, NEW kinds
  PROVE  /\ MarkStale(e, kinds) \in [Procs -> Proc]
         /\ \A p \in Procs : /\ MarkStale(e, kinds)[p].st = procs[p].st
                             /\ MarkStale(e, kinds)[p].ext = procs[p].ext
<1>1. \A p \in Procs : /\ [procs[p] EXCEPT !.stale = TRUE] \in Proc
                       /\ [procs[p] EXCEPT !.stale = TRUE].st = procs[p].st
                       /\ [procs[p] EXCEPT !.stale = TRUE].ext = procs[p].ext
  <2>1. ASSUME NEW q \in Proc
        PROVE  /\ [q EXCEPT !.stale = TRUE] \in Proc
               /\ [q EXCEPT !.stale = TRUE].st = q.st /\ [q EXCEPT !.stale = TRUE].ext = q.ext
    BY ONLY <2>1 DEF Proc
  <2>2. QED
    BY <2>1 DEF Typed, TypeOK
<1>2. QED
  BY <1>1 DEF Typed, TypeOK, MarkStale

LEMMA HandleExitTyped ==
  ASSUME Typed, NEW e \in Exts, NEW r \in Rec, NEW errored \in BOOLEAN,
         NEW rest \in Seq(GoodFrame), HandleExit(e, r, errored, rest)
  PROVE  /\ runtime' \in [Exts -> 0..MaxProcs] /\ record' \in [Exts -> Rec]
         /\ file' \in [Exts -> State] /\ mem' \in [Exts -> State]
         /\ failed' \subseteq 0..MaxPreviews
         /\ calls' \in Seq(GoodFrame)
<1>1. /\ runtime' \in [Exts -> 0..MaxProcs] /\ record' \in [Exts -> Rec]
      /\ failed' \subseteq 0..MaxPreviews
  <2>1. \/ /\ runtime' = [runtime EXCEPT ![e] = 0] /\ record' = [record EXCEPT ![e] = NoRec]
           /\ failed' \in {failed, failed \cup {r.tok}}
        \/ UNCHANGED <<runtime, record, failed>>
    BY DEF HandleExit, confVars
  <2>2. runtime' \in [Exts -> 0..MaxProcs]
    <3>1. runtime \in [Exts -> 0..MaxProcs] /\ 0 \in 0..MaxProcs
      BY BoundsAssumption DEF Typed, TypeOK
    <3>2. QED
      BY ONLY <2>1, <3>1
  <2>3. record' \in [Exts -> Rec]
    BY <2>1, RecordTypes DEF Typed, TypeOK
  <2>4. failed' \subseteq 0..MaxPreviews
    <3>1. r.tok \in 0..MaxPreviews
      BY DEF Rec
    <3>2. QED
      BY <2>1, <3>1 DEF Typed, TypeOK
  <2>5. QED
    BY <2>2, <2>3, <2>4
<1>2. file' \in [Exts -> State] /\ mem' \in [Exts -> State]
  <2>1. [mem[e] EXCEPT !.error = TRUE] \in State
    BY StateTyped DEF Typed, TypeOK
  <2>2. UNCHANGED confVars \/ Save(e, [mem[e] EXCEPT !.error = TRUE])
    BY DEF HandleExit, confVars
  <2>3. CASE UNCHANGED confVars
    BY <2>3 DEF Typed, TypeOK, confVars
  <2>4. QED
    BY <2>1, <2>2, <2>3, SaveTyped
<1>3. calls' \in Seq(GoodFrame)
  <2> DEFINE before == IF errored /\ r.kind = "preview" /\ preview = [ext |-> e, tok |-> r.tok]
                       THEN <<Call("stopPreview", e)>> ELSE <<>>
             callbacks == <<Call("drainCallbacks", e)>>
             after == IF errored THEN <<>> ELSE <<Call("reconcile", e)>>
  <2>1. before \in Seq(GoodFrame) /\ callbacks \in Seq(GoodFrame) /\ after \in Seq(GoodFrame)
    BY CallGood DEF Op
  <2>2. calls' = before \o callbacks \o after \o rest
    BY DEF HandleExit
  <2> HIDE DEF before, callbacks, after
  <2>3. QED
    BY <2>1, <2>2, ConcatProperties
<1>4. QED
  BY <1>1, <1>2, <1>3

-------------------------------------------------------------------------------
(* One lemma per operation *)

\* The call on top, and what is left of the stack when it goes on or returns.
LEMMA TopTyped ==
  ASSUME Typed, calls # <<>>
  PROVE  /\ Head(calls) \in GoodFrame /\ Head(calls) \in Frame
         /\ Head(calls).ext \in Exts /\ Head(calls).rec \in Rec
         /\ Tail(calls) \in Seq(GoodFrame)
BY StackGood, EmptySeq DEF Typed, GoodFrame, Frame

LEMMA BecomesTyped ==
  ASSUME Typed, calls # <<>>, NEW s \in Seq(GoodFrame), Becomes(s)
  PROVE  calls' \in Seq(GoodFrame)
BY StackGood DEF Typed, Becomes

LEMMA ReturnTyped ==
  ASSUME Typed, calls # <<>>, Return
  PROVE  calls' \in Seq(GoodFrame)
BY StackGood, EmptySeq DEF Typed, Return

LEMMA DrainCallbacksTyped == Typed /\ DrainCallbacks => Typed'
<1> SUFFICES ASSUME Typed, DrainCallbacks PROVE Typed'
  OBVIOUS
<1> DEFINE e == Head(calls).ext
<1>1. e \in Exts /\ calls # <<>>
  BY TopTyped DEF DrainCallbacks, Running
<1>2. pendingStop[e].cbs \in Seq(Callback)
  BY <1>1 DEF Typed, TypeOK
<1>3. calls' \in Seq(GoodFrame)
  BY <1>1, <1>2, CallbackCalls, BecomesTyped DEF DrainCallbacks
<1>4. pendingStop' \in [Exts -> [on: BOOLEAN, cbs: Seq(Callback)]]
  BY RecordTypes DEF Typed, TypeOK, DrainCallbacks
<1>5. QED
  BY <1>3, <1>4, GoodIsFrame
     DEF DrainCallbacks, Typed, TypeOK, jobVars, confVars, histVars, reqVars

LEMMA ReconcileTyped == Typed /\ Reconcile => Typed'
<1> SUFFICES ASSUME Typed, Reconcile PROVE Typed'
  OBVIOUS
<1> DEFINE e == Head(calls).ext
           r == Get(e)
<1>1. e \in Exts /\ r \in Rec /\ calls # <<>>
  BY TopTyped, RegistryTyped DEF Reconcile, Running
<1>2. calls' \in Seq(GoodFrame)
  <2>1. <<CallRec("start", e, r)>> \in Seq(GoodFrame) /\ <<Call("stop", e)>> \in Seq(GoodFrame)
    BY <1>1, CallRecGood, CallGood DEF Op
  <2>2. \/ Return
        \/ Becomes(<<CallRec("start", e, r)>>)
        \/ Becomes(<<Call("stop", e)>>)
    BY DEF Reconcile
  <2>3. QED
    BY <1>1, <2>1, <2>2, BecomesTyped, ReturnTyped
<1>3. mem' \in [Exts -> State]
  BY <1>1 DEF Reconcile, Typed, TypeOK
<1>4. QED
  BY <1>2, <1>3, GoodIsFrame
     DEF Reconcile, Typed, TypeOK, lifeVars, jobVars, histVars, reqVars

LEMMA StartTyped == Typed /\ Start => Typed'
<1> SUFFICES ASSUME Typed, Start PROVE Typed'
  OBVIOUS
<1> DEFINE e == Head(calls).ext
           r == Head(calls).rec
<1>1. e \in Exts /\ r \in Rec /\ calls # <<>> /\ Tail(calls) \in Seq(GoodFrame)
  BY TopTyped DEF Start, Running
<1>2. UNCHANGED <<pendingStop, jobs, jobActive, draining, fetching, dirty, keptDisabled,
                  booted, ops, cliOps, preview, userCopy>>
  BY DEF Start, jobVars, reqVars
<1>3. CASE Return /\ UNCHANGED <<runtime, record, file, mem, procs, failed>>
  BY <1>1, <1>2, <1>3, ReturnTyped, GoodIsFrame DEF Typed, TypeOK
<1>4. (IF r.kind = "preview" THEN UNCHANGED confVars ELSE Save(e, ClearedState(e, r)))
      => file' \in [Exts -> State] /\ mem' \in [Exts -> State]
  <2>1. ClearedState(e, r) \in State
    BY <1>1, StateTyped DEF Typed, TypeOK, ClearedState
  <2>2. QED
    BY <1>1, <2>1, SaveTyped DEF confVars, Typed, TypeOK
<1>5. CASE /\ IF r.kind = "preview" THEN UNCHANGED confVars ELSE Save(e, ClearedState(e, r))
           /\ Return /\ UNCHANGED <<runtime, record, procs, failed>>
  BY <1>1, <1>2, <1>4, <1>5, ReturnTyped, GoodIsFrame DEF Typed, TypeOK
<1>6. CASE /\ IF r.kind = "preview" THEN UNCHANGED confVars ELSE Save(e, ClearedState(e, r))
           /\ Spawn(e, r) /\ Return /\ UNCHANGED failed
  <2>1. PICK p \in Procs :
          /\ procs' = [procs EXCEPT ![p] = [st |-> "alive", ext |-> e, rec |-> r,
                                             aborted |-> FALSE, stale |-> FALSE]]
          /\ runtime' = [runtime EXCEPT ![e] = p]
          /\ record' = [record EXCEPT ![e] = r]
    BY <1>6 DEF Spawn
  <2>2. /\ runtime' \in [Exts -> 0..MaxProcs] /\ record' \in [Exts -> Rec]
    BY <1>1, <2>1, BoundsAssumption DEF Typed, TypeOK, Procs
  <2>3. /\ procs' \in [Procs -> Proc]
        /\ \A q \in Procs : procs'[q].st # "unused" => procs'[q].ext \in Exts
    <3> DEFINE spawned == [st |-> "alive", ext |-> e, rec |-> r, aborted |-> FALSE, stale |-> FALSE]
    <3>1. spawned \in Proc /\ spawned.ext = e
      BY <1>1 DEF Proc
    <3>2. procs' = [procs EXCEPT ![p] = spawned]
      BY <2>1
    <3> HIDE DEF spawned
    <3>3. QED
      BY <1>1, <3>1, <3>2 DEF Typed, TypeOK
  <2>4. calls' \in Seq(GoodFrame)
    BY <1>1, <1>6, ReturnTyped
  <2>5. QED
    BY <1>2, <1>4, <1>6, <2>2, <2>3, <2>4, GoodIsFrame DEF Typed, TypeOK
<1>7. CASE HandleExit(e, r, TRUE, Tail(calls)) /\ UNCHANGED procs
  BY <1>1, <1>2, <1>7, HandleExitTyped, GoodIsFrame DEF Typed, TypeOK
<1>8. QED
  BY <1>3, <1>5, <1>6, <1>7 DEF Start, confVars

\* A process that goes on with another status or another mark.
LEMMA ProcTyped ==
  ASSUME Typed, NEW p \in Procs, procs[p].st # "unused",
         \/ procs' = [procs EXCEPT ![p].st = "gone"]
         \/ procs' = [procs EXCEPT ![p].st = "dead"]
         \/ procs' = [procs EXCEPT ![p].aborted = TRUE]
  PROVE  /\ procs' \in [Procs -> Proc]
         /\ \A q \in Procs : procs'[q].st # "unused" => procs'[q].ext \in Exts
<1>1. \A q \in Proc : /\ [q EXCEPT !.st = "gone"] \in Proc /\ [q EXCEPT !.st = "gone"].ext = q.ext
                     /\ [q EXCEPT !.st = "dead"] \in Proc /\ [q EXCEPT !.st = "dead"].ext = q.ext
                     /\ [q EXCEPT !.aborted = TRUE] \in Proc
                     /\ [q EXCEPT !.aborted = TRUE].ext = q.ext
  BY DEF Proc
<1>2. PICK r \in Proc : procs' = [procs EXCEPT ![p] = r] /\ r.ext = procs[p].ext
  BY <1>1 DEF Typed, TypeOK
<1>3. QED
  BY <1>2 DEF Typed, TypeOK

LEMMA ExitOfTyped ==
  ASSUME Typed, NEW p \in Procs, NEW rest \in Seq(GoodFrame), ExitOf(p, rest),
         UNCHANGED <<pendingStop, jobVars, dirty, keptDisabled, reqVars, preview, userCopy>>
  PROVE  Typed'
<1>1. procs[p].ext \in Exts /\ procs[p].rec \in Rec
  BY DEF ExitOf, Typed, TypeOK, Proc
<1>2. HandleExit(procs[p].ext, procs[p].rec, ~procs[p].aborted, rest)
  BY DEF ExitOf
<1>5. (~procs[p].aborted) \in BOOLEAN
  BY DEF Typed, TypeOK, Proc
<1>3. /\ procs' \in [Procs -> Proc]
      /\ \A q \in Procs : procs'[q].st # "unused" => procs'[q].ext \in Exts
  <2>1. procs[p].st = "dead" /\ procs' = [procs EXCEPT ![p].st = "gone"]
    BY DEF ExitOf
  <2>2. QED
    BY <2>1, ProcTyped
<1>4. QED
  BY <1>1, <1>2, <1>3, <1>5, HandleExitTyped, GoodIsFrame DEF Typed, TypeOK, jobVars, reqVars

LEMMA PollExitTyped == Typed /\ PollExit => Typed'
<1> SUFFICES ASSUME Typed, PollExit PROVE Typed'
  OBVIOUS
<1> DEFINE p == Head(calls).proc
<1>1. p \in Procs /\ calls # <<>> /\ Tail(calls) \in Seq(GoodFrame)
  BY TopTyped DEF PollExit, Running, GoodFrame
<1>2. CASE ExitOf(p, Tail(calls))
  BY <1>1, <1>2, ExitOfTyped DEF PollExit
<1>3. CASE Return /\ UNCHANGED <<runtime, record, confVars, procs, failed>>
  BY <1>1, <1>3, ReturnTyped, GoodIsFrame
     DEF PollExit, Typed, TypeOK, confVars, jobVars, reqVars
<1>4. QED
  BY <1>2, <1>3 DEF PollExit

LEMMA StopTyped == Typed /\ Stop => Typed'
<1> SUFFICES ASSUME Typed, Stop PROVE Typed'
  OBVIOUS
<1> DEFINE e == Head(calls).ext
           cbs == IF Head(calls).arg = "none" THEN <<>> ELSE <<Head(calls).arg>>
           p == runtime[e]
<1>1. e \in Exts /\ calls # <<>> /\ p \in 0..MaxProcs
  BY TopTyped DEF Stop, Running, Typed, TypeOK
<1>2. cbs \in Seq(Callback)
  <2>1. Head(calls).arg \in Callback \cup {"none"}
    BY <1>1, TopTyped DEF Stop, Running, GoodFrame
  <2>2. QED
    BY <2>1
<1>3. UNCHANGED <<jobs, jobActive, draining, fetching, file, mem, dirty, failed, keptDisabled,
                  booted, ops, cliOps, preview, userCopy>>
  BY DEF Stop, jobVars, confVars, histVars, reqVars
<1>4. CASE p # 0
  <2>1. /\ runtime' = [runtime EXCEPT ![e] = 0]
        /\ record' = [record EXCEPT ![e] = NoRec]
        /\ pendingStop' = [pendingStop EXCEPT ![e] = [on |-> TRUE, cbs |-> cbs]]
        /\ \/ /\ procs[p].st = "alive" /\ procs' = [procs EXCEPT ![p].aborted = TRUE]
              /\ Becomes(<<CallProc("pollExit", e, p)>>)
           \/ UNCHANGED procs /\ Return
    BY <1>4 DEF Stop
  <2>2. p \in Procs
    BY <1>1, <1>4 DEF Procs
  <2>3. calls' \in Seq(GoodFrame)
    <3>1. <<CallProc("pollExit", e, p)>> \in Seq(GoodFrame)
      BY <1>1, <2>2, CallProcGood
    <3>2. QED
      BY <1>1, <2>1, <3>1, BecomesTyped, ReturnTyped
  <2>4. /\ procs' \in [Procs -> Proc]
        /\ \A q \in Procs : procs'[q].st # "unused" => procs'[q].ext \in Exts
    <3>1. CASE UNCHANGED procs
      BY <3>1 DEF Typed, TypeOK
    <3>2. QED
      BY <2>1, <2>2, <3>1, ProcTyped
  <2>5. /\ runtime' \in [Exts -> 0..MaxProcs] /\ record' \in [Exts -> Rec]
        /\ pendingStop' \in [Exts -> [on: BOOLEAN, cbs: Seq(Callback)]]
    BY <1>1, <1>2, <2>1, RecordTypes, BoundsAssumption DEF Typed, TypeOK
  <2>6. QED
    BY <1>3, <2>3, <2>4, <2>5, GoodIsFrame DEF Typed, TypeOK
<1>5. CASE p = 0
  <2>1. /\ UNCHANGED <<runtime, record, procs>>
        /\ \/ pendingStop' = [pendingStop EXCEPT ![e].cbs = @ \o cbs] /\ Return
           \/ UNCHANGED pendingStop /\ Becomes([i \in DOMAIN cbs |-> Call(cbs[i], e)])
    BY <1>5 DEF Stop
  <2>2. calls' \in Seq(GoodFrame)
    BY <1>1, <1>2, <2>1, CallbackCalls, BecomesTyped, ReturnTyped
  <2>3. pendingStop' \in [Exts -> [on: BOOLEAN, cbs: Seq(Callback)]]
    <3> DEFINE new == [pendingStop[e] EXCEPT !.cbs = pendingStop[e].cbs \o cbs]
    <3>1. new \in [on: BOOLEAN, cbs: Seq(Callback)]
      <4>1. pendingStop[e].cbs \o cbs \in Seq(Callback)
        BY <1>1, <1>2, ConcatProperties DEF Typed, TypeOK
      <4>2. pendingStop[e] \in [on: BOOLEAN, cbs: Seq(Callback)]
        BY <1>1 DEF Typed, TypeOK
      <4>3. QED
        BY <4>1, <4>2
    <3>2. UNCHANGED pendingStop \/ pendingStop' = [pendingStop EXCEPT ![e] = new]
      BY <2>1
    <3> HIDE DEF new
    <3>3. QED
      BY <3>1, <3>2 DEF Typed, TypeOK
  <2>4. QED
    BY <1>3, <2>1, <2>2, <2>3, GoodIsFrame DEF Typed, TypeOK
<1>6. QED
  BY <1>4, <1>5

LEMMA EnqueueTyped == Typed /\ Enqueue => Typed'
<1> SUFFICES ASSUME Typed, Enqueue PROVE Typed'
  OBVIOUS
<1> DEFINE e == Head(calls).ext
<1>1. e \in Exts /\ calls # <<>> /\ Head(calls).arg \in JobKind
  BY TopTyped DEF Enqueue, Running, GoodFrame
<1>2. calls' \in Seq(GoodFrame)
  <2>1. <<Call("runNext", e)>> \in Seq(GoodFrame)
    BY <1>1, CallGood DEF Op
  <2>2. QED
    BY <1>1, <2>1, BecomesTyped DEF Enqueue
<1>3. jobs' \in [Exts -> Seq(JobKind)]
  <2>1. Append(jobs[e], Head(calls).arg) \in Seq(JobKind)
    BY <1>1, AppendProperties DEF Typed, TypeOK
  <2>2. QED
    BY <2>1 DEF Enqueue, Typed, TypeOK
<1>4. QED
  BY <1>2, <1>3, GoodIsFrame
     DEF Enqueue, Typed, TypeOK, lifeVars, confVars, histVars, reqVars

LEMMA RunNextTyped == Typed /\ RunNext => Typed'
<1> SUFFICES ASSUME Typed, RunNext PROVE Typed'
  OBVIOUS
<1> DEFINE e == Head(calls).ext
<1>1. e \in Exts /\ calls # <<>>
  BY TopTyped DEF RunNext, Running
<1>2. calls' \in Seq(GoodFrame)
  <2>1. <<Call("drain", e)>> \in Seq(GoodFrame)
    BY <1>1, CallGood DEF Op
  <2>2. QED
    BY <1>1, <2>1, BecomesTyped, ReturnTyped DEF RunNext
<1>3. draining' \in [Exts -> BOOLEAN]
  BY <1>1 DEF RunNext, Typed, TypeOK
<1>4. QED
  BY <1>2, <1>3, GoodIsFrame
     DEF RunNext, Typed, TypeOK, lifeVars, confVars, histVars, reqVars

LEMMA DrainTyped == Typed /\ Drain => Typed'
<1> SUFFICES ASSUME Typed, Drain PROVE Typed'
  OBVIOUS
<1> DEFINE e == Head(calls).ext
<1>1. e \in Exts /\ calls # <<>>
  BY TopTyped DEF Drain, Running
<1>2. UNCHANGED <<runtime, record, pendingStop, fetching, file, mem, dirty, failed, keptDisabled,
                  booted, ops, cliOps, preview, userCopy, procs>>
  BY DEF Drain, lifeVars, confVars, histVars, reqVars
<1>3. CASE ~jobActive[e] /\ jobs[e] # <<>>
  <2>1. Head(jobs[e]) \in JobKind /\ Tail(jobs[e]) \in Seq(JobKind)
    BY <1>1, <1>3, HeadTailProperties DEF Typed, TypeOK
  <2>2. <<CallWith("job", e, Head(jobs[e])), Call("drain", e)>> \in Seq(GoodFrame)
    <3>1. CallWith("job", e, Head(jobs[e])) \in GoodFrame
      BY <1>1, <2>1, CallWithGood DEF Op
    <3>2. Call("drain", e) \in GoodFrame
      BY <1>1, CallGood DEF Op
    <3>3. QED
      BY <3>1, <3>2
  <2>3. calls' \in Seq(GoodFrame)
    BY <1>1, <1>3, <2>2, BecomesTyped DEF Drain
  <2>4. /\ jobs' \in [Exts -> Seq(JobKind)] /\ jobActive' \in [Exts -> BOOLEAN]
        /\ UNCHANGED draining
    <3>1. /\ jobs' = [jobs EXCEPT ![e] = Tail(jobs[e])]
          /\ jobActive' = [jobActive EXCEPT ![e] = TRUE]
          /\ UNCHANGED draining
      BY <1>3 DEF Drain
    <3>2. QED
      BY <2>1, <3>1 DEF Typed, TypeOK
  <2>5. QED
    BY <1>2, <2>3, <2>4, GoodIsFrame DEF Typed, TypeOK
<1>4. CASE ~(~jobActive[e] /\ jobs[e] # <<>>)
  <2>1. <<Call("reconcile", e)>> \in Seq(GoodFrame)
    BY <1>1, CallGood DEF Op
  <2>2. calls' \in Seq(GoodFrame)
    BY <1>1, <1>4, <2>1, BecomesTyped, ReturnTyped DEF Drain
  <2>3. draining' \in [Exts -> BOOLEAN] /\ UNCHANGED <<jobs, jobActive>>
    BY <1>1, <1>4 DEF Drain, Typed, TypeOK
  <2>4. QED
    BY <1>2, <2>2, <2>3, GoodIsFrame DEF Typed, TypeOK
<1>5. QED
  BY <1>3, <1>4

\* Stopping the installed copy's process goes on with the callback either way.
LEMMA StopExtensionGood ==
  ASSUME NEW e \in Exts, NEW cb \in Callback
  PROVE  <<StopExtension(e, cb)>> \in Seq(GoodFrame)
BY CallGood, CallWithGood DEF StopExtension, Op, Callback

LEMMA JobTyped == Typed /\ Job => Typed'
<1> SUFFICES ASSUME Typed, Job PROVE Typed'
  OBVIOUS
<1> DEFINE e == Head(calls).ext
<1>1. e \in Exts /\ calls # <<>> /\ Locate(e).kind \in {"none", "user", "distro"}
  BY TopTyped DEF Job, Running, Locate, NoRec
<1>2. UNCHANGED <<runtime, record, pendingStop, jobs, jobActive, draining, file, mem,
                  dirty, failed, keptDisabled, booted, ops, cliOps, preview, userCopy, procs>>
  BY DEF Job, lifeVars, confVars, histVars, reqVars
<1>3. calls' \in Seq(GoodFrame)
  <2>1. /\ <<Call("release", e)>> \in Seq(GoodFrame)
        /\ <<CallWith("stop", e, "release")>> \in Seq(GoodFrame)
        /\ <<StopExtension(e, "remove")>> \in Seq(GoodFrame)
    BY <1>1, CallGood, CallWithGood, StopExtensionGood DEF Op, Callback
  <2>2. \/ Return
        \/ Becomes(<<Call("release", e)>>)
        \/ Becomes(<<CallWith("stop", e, "release")>>)
        \/ Becomes(<<StopExtension(e, "remove")>>)
    BY DEF Job
  <2>3. QED
    BY <1>1, <2>1, <2>2, BecomesTyped, ReturnTyped
<1>4. fetching' \in [Exts -> {"none", "user", "distro"}]
  <2>1. UNCHANGED fetching \/ \E kind \in {"none", "user", "distro"} : fetching' = [fetching EXCEPT ![e] = kind]
    BY <1>1 DEF Job
  <2>2. QED
    BY <2>1 DEF Typed, TypeOK
<1>5. QED
  BY <1>2, <1>3, <1>4, GoodIsFrame DEF Typed, TypeOK

LEMMA ReleaseTyped == Typed /\ Release => Typed'
<1> SUFFICES ASSUME Typed, Release PROVE Typed'
  OBVIOUS
<1> DEFINE e == Head(calls).ext
<1>1. e \in Exts /\ calls # <<>>
  BY TopTyped DEF Release, Running
<1>2. calls' \in Seq(GoodFrame)
  <2>1. <<Call("runNext", e)>> \in Seq(GoodFrame)
    BY <1>1, CallGood DEF Op
  <2>2. QED
    BY <1>1, <2>1, BecomesTyped DEF Release
<1>3. jobActive' \in [Exts -> BOOLEAN]
  BY DEF Release, Typed, TypeOK
<1>4. QED
  BY <1>2, <1>3, GoodIsFrame
     DEF Release, Typed, TypeOK, lifeVars, confVars, histVars, reqVars

\* What swapping in and removing files may do to the files and the state.
LEMMA FilesTyped ==
  ASSUME Typed, NEW e \in Exts, NEW kinds, NEW s \in State, NEW here \in BOOLEAN, NEW kept \in BOOLEAN,
         \/ /\ userCopy' = [userCopy EXCEPT ![e] = here]
            /\ procs' = MarkStale(e, kinds)
            /\ keptDisabled' = [keptDisabled EXCEPT ![e] = kept]
            /\ Save(e, s) \/ UNCHANGED confVars
         \/ UNCHANGED <<userCopy, procs, confVars, keptDisabled>>
  PROVE  /\ userCopy' \in [Exts -> BOOLEAN] /\ keptDisabled' \in [Exts -> BOOLEAN]
         /\ file' \in [Exts -> State] /\ mem' \in [Exts -> State]
         /\ procs' \in [Procs -> Proc]
         /\ \A p \in Procs : procs'[p].st # "unused" => procs'[p].ext \in Exts
<1>1. CASE UNCHANGED <<userCopy, procs, confVars, keptDisabled>>
  BY <1>1 DEF Typed, TypeOK, confVars
<1>2. CASE /\ userCopy' = [userCopy EXCEPT ![e] = here]
           /\ procs' = MarkStale(e, kinds)
           /\ keptDisabled' = [keptDisabled EXCEPT ![e] = kept]
           /\ Save(e, s) \/ UNCHANGED confVars
  <2>1. userCopy' \in [Exts -> BOOLEAN] /\ keptDisabled' \in [Exts -> BOOLEAN]
    BY <1>2 DEF Typed, TypeOK
  <2>2. file' \in [Exts -> State] /\ mem' \in [Exts -> State]
    BY <1>2, SaveTyped DEF Typed, TypeOK, confVars
  <2>3. /\ procs' \in [Procs -> Proc]
        /\ \A p \in Procs : procs'[p].st # "unused" => procs'[p].ext \in Exts
    BY <1>2, MarkStaleTyped DEF Typed
  <2>4. QED
    BY <2>1, <2>2, <2>3
<1>3. QED
  BY <1>1, <1>2

LEMMA SwapTyped == Typed /\ Swap => Typed'
<1> SUFFICES ASSUME Typed, Swap PROVE Typed'
  OBVIOUS
<1> DEFINE e == Head(calls).ext
<1>1. e \in Exts /\ calls # <<>>
  BY TopTyped DEF Swap, Running
<1>2. calls' \in Seq(GoodFrame)
  <2>1. <<Call("release", e)>> \in Seq(GoodFrame)
    BY <1>1, CallGood DEF Op, Callback
  <2>2. QED
    BY <1>1, <2>1, BecomesTyped DEF Swap
<1>3. [mem[e] EXCEPT !.error = FALSE] \in State
  BY <1>1, StateTyped DEF Typed, TypeOK
<1>4. /\ userCopy' \in [Exts -> BOOLEAN] /\ keptDisabled' \in [Exts -> BOOLEAN]
      /\ file' \in [Exts -> State] /\ mem' \in [Exts -> State]
      /\ procs' \in [Procs -> Proc]
      /\ \A p \in Procs : procs'[p].st # "unused" => procs'[p].ext \in Exts
  BY <1>1, <1>3, FilesTyped DEF Swap
<1>5. QED
  BY <1>2, <1>4, GoodIsFrame DEF Swap, Typed, TypeOK, lifeVars, jobVars, reqVars

LEMMA RemoveTyped == Typed /\ Remove => Typed'
<1> SUFFICES ASSUME Typed, Remove PROVE Typed'
  OBVIOUS
<1> DEFINE e == Head(calls).ext
<1>1. e \in Exts /\ calls # <<>>
  BY TopTyped DEF Remove, Running
<1>2. calls' \in Seq(GoodFrame)
  <2>1. <<Call("release", e)>> \in Seq(GoodFrame)
    BY <1>1, CallGood DEF Op, Callback
  <2>2. QED
    BY <1>1, <2>1, BecomesTyped DEF Remove
<1>3. PICK s \in State, kept \in BOOLEAN :
        \/ /\ userCopy' = [userCopy EXCEPT ![e] = FALSE]
           /\ procs' = MarkStale(e, {"user"})
           /\ keptDisabled' = [keptDisabled EXCEPT ![e] = kept]
           /\ Save(e, s)
        \/ /\ userCopy' \in {userCopy, [userCopy EXCEPT ![e] = FALSE]}
           /\ procs' = MarkStale(e, {"user"})
           /\ UNCHANGED <<confVars, keptDisabled>>
        \/ UNCHANGED <<userCopy, procs, confVars, keptDisabled>>
  <2>1. CASE e \in Distro
    <3>1. [NoState EXCEPT !.enabled = e \notin Distro] = [NoState EXCEPT !.enabled = FALSE]
      BY <2>1
    <3>2. [NoState EXCEPT !.enabled = FALSE] \in State
      BY DEF NoState, State
    <3>3. [keptDisabled EXCEPT ![e] = e \in Distro] = [keptDisabled EXCEPT ![e] = TRUE]
      BY <2>1
    <3>4. QED
      BY <3>1, <3>2, <3>3 DEF Remove
  <2>2. CASE e \notin Distro
    <3>1. [NoState EXCEPT !.enabled = e \notin Distro] = [NoState EXCEPT !.enabled = TRUE]
      BY <2>2
    <3>2. [NoState EXCEPT !.enabled = TRUE] \in State
      BY DEF NoState, State
    <3>3. [keptDisabled EXCEPT ![e] = e \in Distro] = [keptDisabled EXCEPT ![e] = FALSE]
      <4>1. (e \in Distro) = FALSE
        BY <2>2
      <4>2. QED
        BY <4>1, Zenon
    <3>4. QED
      BY <3>1, <3>2, <3>3 DEF Remove
  <2>3. QED
    BY <2>1, <2>2
<1>4. /\ userCopy' \in [Exts -> BOOLEAN] /\ keptDisabled' \in [Exts -> BOOLEAN]
      /\ file' \in [Exts -> State] /\ mem' \in [Exts -> State]
      /\ procs' \in [Procs -> Proc]
      /\ \A p \in Procs : procs'[p].st # "unused" => procs'[p].ext \in Exts
  <2>1. ASSUME NEW here \in BOOLEAN, NEW was \in BOOLEAN,
               userCopy' = [userCopy EXCEPT ![e] = here], procs' = MarkStale(e, {"user"}),
               keptDisabled' = [keptDisabled EXCEPT ![e] = was], UNCHANGED confVars
        PROVE  /\ userCopy' \in [Exts -> BOOLEAN] /\ keptDisabled' \in [Exts -> BOOLEAN]
               /\ file' \in [Exts -> State] /\ mem' \in [Exts -> State]
               /\ procs' \in [Procs -> Proc]
               /\ \A p \in Procs : procs'[p].st # "unused" => procs'[p].ext \in Exts
    BY <1>1, <1>3, <2>1, FilesTyped
  <2>2. /\ userCopy \in [Exts -> BOOLEAN] /\ keptDisabled \in [Exts -> BOOLEAN]
        /\ userCopy = [userCopy EXCEPT ![e] = userCopy[e]]
        /\ keptDisabled = [keptDisabled EXCEPT ![e] = keptDisabled[e]]
    BY <1>1 DEF Typed, TypeOK
  <2> QED
    BY <1>1, <1>3, <2>1, <2>2, FilesTyped
<1>5. QED
  BY <1>2, <1>4, GoodIsFrame DEF Remove, Typed, TypeOK, lifeVars, jobVars, reqVars

LEMMA StopPreviewTyped == Typed /\ StopPreview => Typed'
<1> SUFFICES ASSUME Typed, StopPreview PROVE Typed'
  OBVIOUS
<1>1. calls # <<>>
  BY DEF StopPreview, Running
<1>2. calls' \in Seq(GoodFrame)
  <2>1. CASE preview = NoPreview
    BY <1>1, <2>1, ReturnTyped DEF StopPreview
  <2>2. CASE preview # NoPreview
    <3>1. <<CallWith("enqueue", preview.ext, "restart")>> \in Seq(GoodFrame)
      BY <2>2, CallWithGood DEF Typed, Op, JobKind
    <3>2. QED
      BY <1>1, <2>2, <3>1, BecomesTyped DEF StopPreview
  <2>3. QED
    BY <2>1, <2>2
<1>3. preview' = NoPreview
  BY DEF StopPreview
<1>4. QED
  BY <1>2, <1>3, RecordTypes, GoodIsFrame
     DEF StopPreview, Typed, TypeOK, lifeVars, jobVars, confVars, histVars, reqVars

LEMMA BootTyped == Typed /\ Boot => Typed'
<1> SUFFICES ASSUME Typed, Boot PROVE Typed'
  OBVIOUS
<1> DEFINE e == Head(calls).ext
           r == Head(calls).rec
<1>1. e \in Exts /\ r \in Rec /\ calls # <<>>
  BY TopTyped DEF Boot, Running
<1>2. calls' \in Seq(GoodFrame)
  <2>1. <<CallRec("start", e, r)>> \in Seq(GoodFrame)
    BY <1>1, CallRecGood
  <2>2. QED
    BY <1>1, <2>1, BecomesTyped, ReturnTyped DEF Boot
<1>3. QED
  BY <1>2, GoodIsFrame
     DEF Boot, Typed, TypeOK, lifeVars, jobVars, confVars, histVars, reqVars

LEMMA StepTyped == Typed /\ Step => Typed'
BY DrainCallbacksTyped, ReconcileTyped, StartTyped, StopTyped, PollExitTyped, EnqueueTyped,
   RunNextTyped, DrainTyped, JobTyped, ReleaseTyped, SwapTyped, RemoveTyped, StopPreviewTyped,
   BootTyped DEF Step

-------------------------------------------------------------------------------
(* One lemma per event of the main loop *)

LEMMA StartExtensionsTyped == Typed /\ StartExtensions => Typed'
<1> SUFFICES ASSUME Typed, StartExtensions PROVE Typed'
  OBVIOUS
<1> DEFINE found == {e \in Exts : Get(e) # NoRec}
<1>1. PICK order \in [1..Cardinality(found) -> found] :
        calls' = [i \in DOMAIN order |-> CallRec("boot", order[i], Get(order[i]))]
  BY DEF StartExtensions
<1>2. Cardinality(found) \in Nat
  BY ExtsAssumption, FS_Subset, FS_CardinalityType
<1>3. calls' \in Seq(GoodFrame)
  <2>1. \A i \in 1..Cardinality(found) : CallRec("boot", order[i], Get(order[i])) \in GoodFrame
    BY CallRecGood, RegistryTyped
  <2>2. QED
    BY <1>1, <1>2, <2>1, IsASeq
<1>4. QED
  BY <1>3, GoodIsFrame
     DEF StartExtensions, Typed, TypeOK, lifeVars, jobVars, confVars, histVars

\* A request that only makes calls: the other variables it may change are typed
\* by the caller.
LEMMA RequestTyped ==
  ASSUME Typed, Request PROVE booted' \in BOOLEAN /\ ops' \in 0..MaxOps /\ cliOps' \in 0..MaxCli
BY BoundsAssumption DEF Typed, TypeOK, Request

LEMMA ToggleEnabledTyped ==
  ASSUME Typed, NEW e \in Exts, NEW enabled \in BOOLEAN, ToggleEnabled(e, enabled)
  PROVE  Typed'
<1>1. booted' \in BOOLEAN /\ ops' \in 0..MaxOps /\ cliOps' \in 0..MaxCli
  BY RequestTyped DEF ToggleEnabled
<1>2. file' \in [Exts -> State] /\ mem' \in [Exts -> State]
  <2>1. [enabled |-> enabled, error |-> FALSE] \in State
    BY DEF State
  <2>2. QED
    BY <2>1, SaveTyped DEF ToggleEnabled
<1>3. keptDisabled' \in [Exts -> BOOLEAN]
  <2>1. (keptDisabled[e] /\ ~enabled) \in BOOLEAN
    OBVIOUS
  <2>2. QED
    BY <2>1 DEF ToggleEnabled, Typed, TypeOK
<1>4. calls' \in Seq(GoodFrame)
  BY CallGood DEF ToggleEnabled, Op
<1>5. QED
  BY <1>1, <1>2, <1>3, <1>4, GoodIsFrame DEF ToggleEnabled, Typed, TypeOK, lifeVars, jobVars

LEMMA RequestJobTyped ==
  ASSUME Typed, NEW e \in Exts, NEW k \in {"install", "update", "uninstall"}, RequestJob(e, k)
  PROVE  Typed'
<1>1. booted' \in BOOLEAN /\ ops' \in 0..MaxOps /\ cliOps' \in 0..MaxCli
  BY RequestTyped DEF RequestJob
<1>2. calls' \in Seq(GoodFrame)
  BY CallWithGood DEF RequestJob, Op, JobKind
<1>3. QED
  BY <1>1, <1>2, GoodIsFrame DEF RequestJob, Typed, TypeOK, lifeVars, jobVars, confVars, histVars

LEMMA ReloadTyped == ASSUME Typed, NEW e \in Exts, Reload(e) PROVE Typed'
<1>1. booted' \in BOOLEAN /\ ops' \in 0..MaxOps /\ cliOps' \in 0..MaxCli
  BY RequestTyped DEF Reload
<1>2. calls' \in Seq(GoodFrame)
  BY CallWithGood DEF Reload, Op, JobKind
<1>3. dirty' \in [Exts -> BOOLEAN]
  BY DEF Reload, Typed, TypeOK
<1>4. QED
  BY <1>1, <1>2, <1>3, GoodIsFrame DEF Reload, Typed, TypeOK, lifeVars, jobVars, confVars

LEMMA PreviewExtTyped ==
  ASSUME Typed, NEW e \in Exts, NEW k \in 1..MaxPreviews, PreviewExt(e, k)
  PROVE  Typed'
<1>1. booted' \in BOOLEAN /\ ops' \in 0..MaxOps /\ cliOps' \in 0..MaxCli
  BY RequestTyped DEF PreviewExt
<1>2. calls' \in Seq(GoodFrame)
  <2> DEFINE old == IF preview # NoPreview /\ preview.ext # e
                    THEN <<CallWith("enqueue", preview.ext, "restart")>> ELSE <<>>
             new == <<CallWith("enqueue", e, "restart")>>
  <2>1. old \in Seq(GoodFrame) /\ new \in Seq(GoodFrame)
    BY CallWithGood DEF Typed, Op, JobKind
  <2>2. calls' = old \o new
    BY DEF PreviewExt
  <2> HIDE DEF old, new
  <2>3. QED
    BY <2>1, <2>2, ConcatProperties
<1>3. preview' \in [ext: Exts \cup {NoExt}, tok: 0..MaxPreviews] /\ preview'.ext \in Exts
  BY BoundsAssumption DEF PreviewExt
<1>4. QED
  BY <1>1, <1>2, <1>3, GoodIsFrame
     DEF PreviewExt, Typed, TypeOK, lifeVars, jobVars, confVars, histVars

LEMMA RequestStopPreviewTyped == Typed /\ RequestStopPreview => Typed'
<1> SUFFICES ASSUME Typed, RequestStopPreview PROVE Typed'
  OBVIOUS
<1>1. booted' \in BOOLEAN /\ ops' \in 0..MaxOps /\ cliOps' \in 0..MaxCli
  BY RequestTyped DEF RequestStopPreview
<1>2. calls' \in Seq(GoodFrame)
  BY CallGood DEF RequestStopPreview, Op
<1>3. QED
  BY <1>1, <1>2, GoodIsFrame
     DEF RequestStopPreview, Typed, TypeOK, lifeVars, jobVars, confVars, histVars

LEMMA FetchDoneTyped == ASSUME Typed, NEW e \in Exts, FetchDone(e) PROVE Typed'
<1>1. calls' \in Seq(GoodFrame)
  <2>1. calls' \in {<<StopExtension(e, "swap")>>, <<StopExtension(e, "release")>>, <<Call("release", e)>>}
    BY DEF FetchDone
  <2>2. QED
    BY <2>1, StopExtensionGood, CallGood DEF Op, Callback
<1>2. fetching' \in [Exts -> {"none", "user", "distro"}]
  BY DEF FetchDone, Typed, TypeOK
<1>3. QED
  BY <1>1, <1>2, GoodIsFrame
     DEF FetchDone, Typed, TypeOK, lifeVars, confVars, histVars, reqVars

LEMMA ReportExitTyped == ASSUME Typed, NEW p \in Procs, ReportExit(p) PROVE Typed'
BY ExitOfTyped, EmptySeq DEF ReportExit

LEMMA EventTyped == Typed /\ Event => Typed'
BY StartExtensionsTyped, RequestStopPreviewTyped, ToggleEnabledTyped, RequestJobTyped, ReloadTyped,
   FetchDoneTyped, PreviewExtTyped, ReportExitTyped DEF Event

-------------------------------------------------------------------------------
(* The environment *)

LEMMA DieTyped == ASSUME Typed, NEW p \in Procs, Die(p) PROVE Typed'
<1>1. procs[p].st = "alive" /\ procs' = [procs EXCEPT ![p].st = "dead"]
  BY DEF Die
<1>2. /\ procs' \in [Procs -> Proc]
      /\ \A q \in Procs : procs'[q].st # "unused" => procs'[q].ext \in Exts
  BY <1>1, ProcTyped
<1>3. QED
  BY <1>2 DEF Die, Typed, TypeOK, lifeVars, jobVars, confVars, histVars, reqVars

LEMMA CliTyped ==
  ASSUME Typed, NEW e \in Exts, Cli(e), NEW kinds, NEW s \in State, NEW here \in BOOLEAN, NEW kept \in BOOLEAN,
         userCopy' = [userCopy EXCEPT ![e] = here],
         procs' = MarkStale(e, kinds),
         file' = [file EXCEPT ![e] = s],
         keptDisabled' = [keptDisabled EXCEPT ![e] = kept]
  PROVE  Typed'
<1>1. userCopy' \in [Exts -> BOOLEAN] /\ keptDisabled' \in [Exts -> BOOLEAN] /\ file' \in [Exts -> State]
  BY DEF Typed, TypeOK
<1>2. /\ procs' \in [Procs -> Proc]
      /\ \A p \in Procs : procs'[p].st # "unused" => procs'[p].ext \in Exts
  BY MarkStaleTyped DEF Typed
<1>3. cliOps' \in 0..MaxCli /\ dirty' \in [Exts -> BOOLEAN]
  BY BoundsAssumption DEF Cli, Typed, TypeOK
<1>4. QED
  BY <1>1, <1>2, <1>3 DEF Cli, Typed, TypeOK, lifeVars, jobVars

LEMMA CliInstallTyped == ASSUME Typed, NEW e \in Exts, CliInstall(e) PROVE Typed'
<1>1. PICK enabled \in BOOLEAN : file' = [file EXCEPT ![e] = [enabled |-> enabled, error |-> FALSE]]
  BY DEF CliInstall
<1>2. [enabled |-> enabled, error |-> FALSE] \in State
  BY DEF State
<1>3. QED
  BY <1>1, <1>2, CliTyped DEF CliInstall

LEMMA CliUninstallTyped == ASSUME Typed, NEW e \in Exts, CliUninstall(e) PROVE Typed'
<1>1. PICK s \in State, kept \in BOOLEAN :
        file' = [file EXCEPT ![e] = s] /\ keptDisabled' = [keptDisabled EXCEPT ![e] = kept]
  <2>1. CASE e \in Distro
    <3>1. (e \in Distro) = TRUE /\ (e \notin Distro) = FALSE
      BY <2>1
    <3>2. [NoState EXCEPT !.enabled = FALSE] \in State
      BY DEF NoState, State
    <3>3. QED
      BY <3>1, <3>2 DEF CliUninstall
  <2>2. CASE e \notin Distro
    <3>1. (e \in Distro) = FALSE /\ (e \notin Distro) = TRUE
      BY <2>2
    <3>2. [NoState EXCEPT !.enabled = TRUE] \in State
      BY DEF NoState, State
    <3>3. QED
      BY <3>1, <3>2 DEF CliUninstall
  <2>3. QED
    BY <2>1, <2>2
<1>2. QED
  BY <1>1, CliTyped DEF CliUninstall

-------------------------------------------------------------------------------
LEMMA InitTyped == Init => Typed
<1> SUFFICES ASSUME Init PROVE Typed
  OBVIOUS
<1>1. calls \in Seq(GoodFrame) /\ calls \in Seq(Frame)
  BY EmptySeq DEF Init
<1>2. \A p \in Procs : procs[p] = NoProc
  BY DEF Init
<1>3. /\ pendingStop \in [Exts -> [on: BOOLEAN, cbs: Seq(Callback)]]
      /\ record \in [Exts -> Rec] /\ procs \in [Procs -> Proc]
      /\ preview \in [ext: Exts \cup {NoExt}, tok: 0..MaxPreviews]
  BY RecordTypes DEF Init
<1>4. jobs \in [Exts -> Seq(JobKind)]
  BY EmptySeq DEF Init
<1>5. ops \in 0..MaxOps /\ cliOps \in 0..MaxCli /\ failed \subseteq 0..MaxPreviews
  BY BoundsAssumption DEF Init
<1>6. runtime \in [Exts -> 0..MaxProcs] /\ booted \in BOOLEAN
  <2>1. 0 \in 0..MaxProcs
    BY BoundsAssumption
  <2>2. QED
    BY <2>1 DEF Init
<1>7. /\ jobActive \in [Exts -> BOOLEAN] /\ draining \in [Exts -> BOOLEAN]
      /\ dirty \in [Exts -> BOOLEAN] /\ keptDisabled \in [Exts -> BOOLEAN]
      /\ fetching \in [Exts -> {"none", "user", "distro"}]
  BY DEF Init
<1>8. userCopy \in [Exts -> BOOLEAN] /\ file \in [Exts -> State] /\ mem \in [Exts -> State]
  BY DEF Init
<1>9. preview = NoPreview /\ \A p \in Procs : procs[p].st = "unused"
  BY <1>2 DEF Init, NoProc
<1>10. TypeOK
  BY <1>1, <1>3, <1>4, <1>5, <1>6, <1>7, <1>8 DEF TypeOK
<1>11. QED
  BY <1>1, <1>9, <1>10 DEF Typed

\* Every variable keeps its type; calls are made with arguments of their kind.
THEOREM TypeCorrect == Spec => []Typed
<1>1. Typed /\ [Next]_vars => Typed'
  <2> SUFFICES ASSUME Typed, [Next]_vars PROVE Typed'
    OBVIOUS
  <2>1. CASE Step
    BY <2>1, StepTyped
  <2>2. CASE Event
    BY <2>2, EventTyped
  <2>3. CASE Environment
    BY <2>3, DieTyped, CliInstallTyped, CliUninstallTyped DEF Environment
  <2>4. CASE UNCHANGED vars
    BY <2>4 DEF Typed, TypeOK, vars, lifeVars, jobVars, confVars, histVars, reqVars
  <2>5. QED
    BY <2>1, <2>2, <2>3, <2>4 DEF Next, Finished
<1>2. QED
  BY InitTyped, <1>1, PTL DEF Spec

\* Type correctness (TypeOK): no handler ever leaves a field out of its type, and
\* in particular no restart is ever queued for a preview that is not there.
THEOREM TypeSafe == Spec => []TypeOK
<1>1. Typed => TypeOK
  BY DEF Typed
<1>2. QED
  BY TypeCorrect, <1>1, PTL

===============================================================================
