---------------------------- MODULE SchedulingProofs ----------------------------
(***************************************************************************)
(* Theorems about both schedulers and what runs on them: QtTimers, the     *)
(* app's process, for any contexts, workers and intervals, MiniLoop, an    *)
(* extension's process, for any threads and delays, and SocketMessages,    *)
(* the socket between the two, for any messages and pieces.                *)
(***************************************************************************)
EXTENDS QtTimers, MiniLoop, SocketMessages, SequenceTheorems, WellFoundedInduction, TLAPS

(***************************************************************************)
(* What the loop relies on: a refused call is cancelled; one past the last *)
(* look at _cancelled is not refused; and a call that does not repeat has  *)
(* been made at most once: afterwards it is cancelled, or being made.      *)
(***************************************************************************)
OnceMade(c) ==
    c \notin Intervals =>
        /\ runs[c] # 0 => c \in cancelled \/ (main.at = "called" /\ main.context = c)
        /\ main.at = "call" /\ main.context = c => runs[c] = 0

Allowed ==
    /\ runs \in [Contexts -> Nat]
    /\ refused \subseteq cancelled
    /\ main.at = "call" => main.context \notin refused
    /\ \A c \in Contexts : OnceMade(c)

LEMMA InitAllowed == TimersInit => Allowed
BY DEF TimersInit, Allowed, OnceMade, MainIdle

(* Steps of the main thread: only looking leads to a call. *)
LEMMA MainAllowed ==
    ASSUME Allowed, MainSteps
    PROVE  Allowed'
<1>1. CASE RunQueued
    BY <1>1 DEF RunQueued, Allowed, OnceMade, MainIdle, At
<1>2. CASE LookSetup
    BY <1>2 DEF LookSetup, Allowed, OnceMade, MainIdle, At
<1>3. CASE Arm
    BY <1>3 DEF Arm, Allowed, OnceMade, MainIdle, At
<1>4. ASSUME NEW c \in armed, Fire(c) PROVE Allowed'
    BY <1>4 DEF Fire, Allowed, OnceMade, MainIdle, At
<1>5. CASE LookFire
    BY <1>5 DEF LookFire, Finish, Allowed, OnceMade, MainIdle, At
<1>6. CASE Call
    <2>1. /\ main' = At("called", main.context)
          /\ UNCHANGED <<cancelled, refused>>
          /\ runs' = [runs EXCEPT ![main.context] = @ + 1] /\ runs \in [Contexts -> Nat]
        BY <1>6 DEF Call, Allowed
    <2>3. runs' \in [Contexts -> Nat]
        <3>1. CASE main.context \in Contexts
            BY <2>1, <3>1
        <3>2. CASE main.context \notin Contexts
            BY <2>1, <3>2
        <3> QED BY <3>1, <3>2
    <2>2. ASSUME NEW c \in Contexts PROVE OnceMade(c)'
        <3>1. CASE c = main.context
            BY <2>1, <3>1 DEF OnceMade, At
        <3>2. CASE c # main.context
            BY <1>6, <2>1, <3>2 DEF Allowed, OnceMade, Call, At
        <3> QED BY <3>1, <3>2
    <2> QED BY <2>1, <2>2, <2>3 DEF Allowed, At
<1>7. CASE Called
    BY <1>7 DEF Called, Finish, Allowed, OnceMade, MainIdle
<1> QED BY <1>1, <1>2, <1>3, <1>4, <1>5, <1>6, <1>7 DEF MainSteps

(* Scheduling and cancelling, on the main thread and on the workers: what  *)
(* is refused is cancelled, and not past its last look.                    *)
LEMMA OthersAllowed ==
    ASSUME Allowed,
           NEW c \in Contexts,
           \/ ScheduleHere(c) \/ CancelHere(c)
           \/ \E w \in Workers : ScheduleThere(w, c) \/ CancelThere(w, c)
    PROVE  Allowed'
<1>1. UNCHANGED <<main, runs>> /\ cancelled \subseteq cancelled'
    BY DEF ScheduleHere, CancelHere, ScheduleThere, CancelThere, Mark
<1>2. refused' \subseteq cancelled' /\ (main.at = "call" => main.context \notin refused')
    BY DEF ScheduleHere, CancelHere, ScheduleThere, CancelThere, Mark, Refuse, Allowed
<1>3. ASSUME NEW d \in Contexts PROVE OnceMade(d)'
    BY <1>1 DEF Allowed, OnceMade
<1> QED BY <1>1, <1>2, <1>3 DEF Allowed

(* The second half of a worker's cancel needs that what it takes the       *)
(* cleanup of is marked.                                                   *)
TakenMarked == taking \in [Workers -> cancelled \cup {None}]

LEMMA TakeAllowed ==
    ASSUME Allowed, TakenMarked, NEW w \in Workers, TakeCleanup(w)
    PROVE  Allowed'
<1>1. UNCHANGED <<main, runs, cancelled>>
    BY DEF TakeCleanup
<1>2. refused' \subseteq cancelled' /\ (main.at = "call" => main.context \notin refused')
    BY DEF TakeCleanup, TakenMarked, Refuse, Allowed
<1>3. ASSUME NEW c \in Contexts PROVE OnceMade(c)'
    BY <1>1 DEF Allowed, OnceMade
<1> QED BY <1>1, <1>2, <1>3 DEF Allowed

LEMMA StepMarked ==
    ASSUME TakenMarked, [TimersNext]_timerVars
    PROVE  TakenMarked'
<1>1. UNCHANGED taking /\ cancelled \subseteq cancelled' => TakenMarked'
    BY DEF TakenMarked
<1>2. CASE MainSteps
    BY <1>1, <1>2 DEF MainSteps, RunQueued, LookSetup, Arm, Fire, LookFire, Call, Called
<1>3. ASSUME NEW c \in Contexts, ScheduleHere(c) \/ CancelHere(c) PROVE TakenMarked'
    BY <1>1, <1>3 DEF ScheduleHere, CancelHere, Mark
<1>4. ASSUME NEW w \in Workers, TakeCleanup(w) PROVE TakenMarked'
    BY <1>4 DEF TakeCleanup, TakenMarked
<1>5. ASSUME NEW w \in Workers, NEW c \in Contexts, ScheduleThere(w, c) PROVE TakenMarked'
    BY <1>1, <1>5 DEF ScheduleThere
<1>6. ASSUME NEW w \in Workers, NEW c \in Contexts, CancelThere(w, c) PROVE TakenMarked'
    BY <1>6 DEF CancelThere, Mark, TakenMarked
<1>7. CASE UNCHANGED timerVars
    BY <1>1, <1>7 DEF timerVars
<1> QED BY <1>2, <1>3, <1>4, <1>5, <1>6, <1>7 DEF TimersNext

LEMMA StepAllowed ==
    ASSUME Allowed, TakenMarked, [TimersNext]_timerVars
    PROVE  Allowed'
<1>1. CASE UNCHANGED timerVars
    BY <1>1 DEF timerVars, Allowed, OnceMade
<1> QED
    BY <1>1, MainAllowed, OthersAllowed, TakeAllowed DEF TimersNext

(* A step that makes a call makes one that is allowed. *)
LEMMA CallAllowed ==
    ASSUME Allowed, [TimersNext]_timerVars,
           NEW c \in Contexts, runs'[c] # runs[c]
    PROVE  c \notin refused /\ (c \in Intervals \/ runs[c] = 0)
<1>1. Call
    BY DEF TimersNext, timerVars, MainSteps, RunQueued, LookSetup, Arm, Fire, LookFire, Called,
           ScheduleHere, ScheduleThere, CancelHere, CancelThere, TakeCleanup
<1>2. main.at = "call" /\ main.context = c
    BY <1>1 DEF Call, Allowed
<1> QED BY <1>2 DEF Allowed, OnceMade

(***************************************************************************)
(* Once cancel() has returned, the call does not start again, and a call   *)
(* that does not repeat starts once: CallsAllowed, for any threads and any *)
(* number of calls (Context, _schedule_qt_timer).                          *)
(***************************************************************************)
THEOREM TimersObey == TimersSpec => CallsAllowed
<1>1. TimersInit => Allowed /\ TakenMarked
    BY InitAllowed DEF TimersInit, TakenMarked
<1>2. Allowed /\ TakenMarked /\ [TimersNext]_timerVars => (Allowed /\ TakenMarked)'
    BY StepAllowed, StepMarked
<1>3. Allowed /\ TakenMarked /\ [TimersNext]_timerVars =>
          [\A c \in Contexts : runs'[c] # runs[c] => c \notin refused /\ (c \in Intervals \/ runs[c] = 0)]_timerVars
    BY CallAllowed
<1> QED BY <1>1, <1>2, <1>3, PTL DEF TimersSpec, CallsAllowed

-----------------------------------------------------------------------------
\* What a handler thread is about to hand over.
InHand(t) == {caller[t].entry[i] : i \in 1..Len(caller[t].entry)}

LKinds ==
    /\ clock \in Nat /\ callsMade \in Nat
    /\ heap \subseteq HeapEntry /\ handed \in Seq(HeapEntry) /\ callsRan \in Seq(HeapEntry)
    /\ caller \in [Threads -> [at: {"rest", "append", "wake"}, entry: Seq(HeapEntry)]]
HandSound ==
    /\ \A t \in Threads :
        IF caller[t].at = "append" THEN Len(caller[t].entry) = 1 ELSE caller[t].entry = <<>>
    /\ \A t \in Threads : \A e \in InHand(t) : e.by = t
    /\ \A i \in 1..Len(handed) : handed[i].by \in Threads
LTyped == LKinds /\ HandSound

\* What was scheduled carries an earlier number, and a time not past its delay.
Made(e) == e.order < callsMade /\ e.due <= clock + e.delay
AllMade ==
    /\ \A e \in heap : Made(e)
    /\ \A i \in 1..Len(handed) : Made(handed[i])
    /\ \A i \in 1..Len(callsRan) : Made(callsRan[i])
    /\ \A t \in Threads : \A e \in InHand(t) : Made(e)

\* Of one thread and with one delay, what is further on its way was scheduled
\* earlier, and is due no later: run, then on the heap, handed over, in the hand.
Precedes(e, f) == e.by = f.by /\ e.delay = f.delay => e.order < f.order /\ e.due <= f.due
RanFirst ==
    /\ \A i, j \in 1..Len(callsRan) : i < j => Precedes(callsRan[i], callsRan[j])
    /\ \A i \in 1..Len(callsRan), e \in heap : Precedes(callsRan[i], e)
    /\ \A i \in 1..Len(callsRan), j \in 1..Len(handed) : Precedes(callsRan[i], handed[j])
    /\ \A i \in 1..Len(callsRan), t \in Threads : \A f \in InHand(t) : Precedes(callsRan[i], f)
HeapNext ==
    /\ \A e, f \in heap : e = f \/ Precedes(e, f) \/ Precedes(f, e)
    /\ \A e \in heap, j \in 1..Len(handed) : Precedes(e, handed[j])
    /\ \A e \in heap, t \in Threads : \A f \in InHand(t) : Precedes(e, f)
HandedLast ==
    /\ \A i, j \in 1..Len(handed) : i < j => Precedes(handed[i], handed[j])
    /\ \A i \in 1..Len(handed), t \in Threads : \A f \in InHand(t) : Precedes(handed[i], f)
Ordered == AllMade /\ RanFirst /\ HeapNext /\ HandedLast

\* From the pull to the end of the select: work handed over has woken the loop.
Awake ==
    /\ looping \in {"run", "select"} /\ handed # <<>> => WakeupComing
    /\ looping = "select" /\ ~keepRunning => WakeupComing

LInv == LTyped /\ Ordered /\ Awake

LEMMA LInvInit == LoopInit => LInv
<1> SUFFICES ASSUME LoopInit PROVE LInv
    OBVIOUS
<1>1. /\ Len(handed) = 0 /\ Len(callsRan) = 0 /\ heap = {}
      /\ \A t \in Threads : caller[t] = [at |-> "rest", entry |-> <<>>]
      /\ <<>> \in Seq(HeapEntry) /\ Len(<<>>) = 0
    BY EmptySeq DEF LoopInit
<1>2. \A t \in Threads : InHand(t) = {}
    <2>1. 1..0 = {}
        OBVIOUS
    <2>2. ASSUME NEW t \in Threads PROVE InHand(t) = {}
        <3>1. Len(caller[t].entry) = 0
            BY <1>1
        <3> QED BY <2>1, <3>1 DEF InHand
    <2> QED BY <2>2
<1>3. LTyped
    <2>1. caller \in [Threads -> [at: {"rest", "append", "wake"}, entry: Seq(HeapEntry)]]
        BY <1>1 DEF LoopInit
    <2>3. \A t \in Threads : caller[t].at = "rest" /\ caller[t].entry = <<>>
        BY DEF LoopInit
    <2>4. handed = <<>> /\ callsRan = <<>> /\ clock = 0 /\ callsMade = 0
        BY DEF LoopInit
    <2> QED BY <1>1, <1>2, <2>1, <2>3, <2>4, EmptySeq DEF LTyped, LKinds, HandSound
<1>4. Ordered
    BY <1>1, <1>2 DEF Ordered, AllMade, RanFirst, HeapNext, HandedLast
<1>5. Awake
    BY DEF LoopInit, Awake
<1> QED BY <1>3, <1>4, <1>5 DEF LInv

-----------------------------------------------------------------------------
\* Awake.
LEMMA StepAwake ==
    ASSUME LInv, [LoopNext]_loopVars
    PROVE  Awake'
<1> USE DEF LInv, Awake, WakeupComing
<1>1. ASSUME NEW t \in Threads, NEW d \in Delays, CallLater(t, d) PROVE Awake'
    BY <1>1 DEF CallLater, LTyped, LKinds, HandSound
<1>2. ASSUME NEW t \in Threads, AppendHanded(t) PROVE Awake'
    BY <1>2 DEF AppendHanded, LTyped, LKinds, HandSound
<1>3. ASSUME NEW t \in Threads, Wakeup(t) PROVE Awake'
    BY <1>3 DEF Wakeup, LTyped, LKinds, HandSound
<1>4. ASSUME NEW t \in Threads, QuitLoop(t) PROVE Awake'
    BY <1>4 DEF QuitLoop, LTyped, LKinds, HandSound
<1>5. CASE RunLoop \/ DescriptorReady \/ RunDue \/ \E d \in Delays : ScheduleFirst(d)
    BY <1>5 DEF RunLoop, DescriptorReady, RunDue, ScheduleFirst
<1>6. CASE PullPending \/ NothingDue
    BY <1>6 DEF PullPending, NothingDue
<1>7. CASE SelectReturns \/ DrainWakeup
    BY <1>7 DEF SelectReturns, DrainWakeup
<1>8. CASE TimePasses
    BY <1>8 DEF TimePasses
<1>9. CASE UNCHANGED loopVars
    BY <1>9 DEF loopVars
<1> QED BY <1>1, <1>2, <1>3, <1>4, <1>5, <1>6, <1>7, <1>8, <1>9 DEF LoopNext

-----------------------------------------------------------------------------
\* A new callback is behind everything there is.
LEMMA NewLast ==
    ASSUME LTyped, NEW t \in Everybody, NEW d \in Delays, NEW new, new = New(t, d),
           callsMade' = callsMade + 1, UNCHANGED clock
    PROVE  /\ new \in HeapEntry /\ new.by = t
           /\ Made(new)'
           /\ \A e \in HeapEntry : Made(e) => Made(e)' /\ Precedes(e, new)
<1>1. /\ d \in Nat /\ clock \in Nat /\ callsMade \in Nat
    BY LoopAssumption DEF LTyped, LKinds, HandSound
<1>2. /\ new \in HeapEntry
      /\ new.by = t /\ new.delay = d
      /\ new.due = clock + d /\ new.order = callsMade
    BY <1>1 DEF New, HeapEntry
<1>3. Made(new)'
    BY <1>1, <1>2 DEF Made
<1>4. ASSUME NEW e \in HeapEntry, Made(e) PROVE Made(e)' /\ Precedes(e, new)
    <2>1. /\ e.order \in Nat /\ e.due \in Nat /\ e.delay \in Nat
          /\ e.order < callsMade /\ e.due <= clock + e.delay
        BY <1>4, LoopAssumption DEF HeapEntry, Made
    <2>2. Made(e)'
        BY <1>1, <2>1 DEF Made
    <2>3. Precedes(e, new)
        BY <1>1, <1>2, <2>1 DEF Precedes
    <2> QED BY <2>2, <2>3
<1> QED BY <1>2, <1>3, <1>4

LEMMA MadeStays ==
    ASSUME LTyped, clock' \in Nat, callsMade' \in Nat, clock <= clock', callsMade <= callsMade'
    PROVE  \A e \in HeapEntry : Made(e) => Made(e)'
<1>1. ASSUME NEW e \in HeapEntry, Made(e) PROVE Made(e)'
    <2>1. /\ e.order \in Nat /\ e.due \in Nat /\ e.delay \in Nat
          /\ clock \in Nat /\ callsMade \in Nat
        BY LoopAssumption DEF HeapEntry, LTyped, LKinds, HandSound
    <2> QED BY <1>1, <2>1 DEF Made
<1> QED BY <1>1

\* What is on its way is an entry.
LEMMA EntriesTyped ==
    ASSUME LTyped
    PROVE  /\ Len(handed) \in Nat /\ Len(callsRan) \in Nat
           /\ \A i \in 1..Len(handed) : handed[i] \in HeapEntry
           /\ \A i \in 1..Len(callsRan) : callsRan[i] \in HeapEntry
           /\ \A t \in Threads : \A e \in InHand(t) : e \in HeapEntry
<1>1. \A t \in Threads : caller[t].entry \in Seq(HeapEntry)
    BY DEF LTyped, LKinds, HandSound
<1> QED BY <1>1, ElementOfSeq, LenProperties DEF LTyped, LKinds, HandSound, InHand

LEMMA CallLaterKeeps ==
    ASSUME LInv, NEW t \in Threads, NEW d \in Delays, CallLater(t, d)
    PROVE  LTyped' /\ Ordered'
<1>0. PICK new : new = New(t, d)
    OBVIOUS
<1>1. /\ new \in HeapEntry /\ new.by = t
      /\ Made(new)'
      /\ \A e \in HeapEntry : Made(e) => Made(e)' /\ Precedes(e, new)
    BY <1>0, NewLast DEF CallLater, Counted, Everybody, LInv
<1>2. /\ caller' = [caller EXCEPT ![t] = [at |-> "append", entry |-> <<new>>]]
      /\ InHand(t)' = {new}
      /\ \A u \in Threads \ {t} : caller'[u] = caller[u] /\ InHand(u)' = InHand(u)
      /\ caller'[t].at = "append" /\ Len(caller'[t].entry) = 1
      /\ caller' \in [Threads -> [at: {"rest", "append", "wake"}, entry: Seq(HeapEntry)]]
    <2>1. caller' = [caller EXCEPT ![t] = [at |-> "append", entry |-> <<new>>]]
        BY <1>0 DEF CallLater
    <2>2. caller \in [Threads -> [at: {"rest", "append", "wake"}, entry: Seq(HeapEntry)]]
        BY DEF LInv, LTyped, LKinds, HandSound
    <2>3. caller'[t] = [at |-> "append", entry |-> <<new>>] /\ \A u \in Threads \ {t} : caller'[u] = caller[u]
        BY <2>1, <2>2
    <2>4. <<new>> \in Seq(HeapEntry) /\ Len(<<new>>) = 1 /\ <<new>>[1] = new /\ 1..1 = {1}
        BY <1>1
    <2>5. InHand(t)' = {new}
        BY <2>3, <2>4 DEF InHand
    <2> QED BY <2>1, <2>2, <2>3, <2>4, <2>5 DEF InHand
<1>3. LTyped'
    <2>1. \A u \in Threads : IF caller'[u].at = "append" THEN Len(caller'[u].entry) = 1 ELSE caller'[u].entry = <<>>
        BY <1>2 DEF LInv, LTyped, LKinds, HandSound
    <2>2. \A u \in Threads : \A e \in InHand(u)' : e.by = u
        BY <1>1, <1>2 DEF LInv, LTyped, HandSound
    <2>3. callsMade' \in Nat /\ UNCHANGED <<clock, heap, handed, callsRan>>
        <3>1. callsMade' = callsMade + 1 /\ UNCHANGED <<clock, heap, handed, callsRan>>
            BY DEF CallLater, Counted
        <3>2. callsMade \in Nat
            BY DEF LInv, LTyped, LKinds
        <3> QED BY <3>1, <3>2
    <2> QED BY <1>2, <2>1, <2>2, <2>3 DEF LInv, LTyped, LKinds, HandSound
<1>4. UNCHANGED <<heap, handed, callsRan>>
    BY DEF CallLater
<1>5. AllMade'
    <2>1. heap \subseteq HeapEntry
        BY DEF LInv, LTyped, LKinds
    <2>2. \A u \in Threads : \A e \in InHand(u)' : e = new \/ e \in InHand(u)
        BY <1>2
    <2> QED BY <1>1, <1>4, <2>1, <2>2, EntriesTyped DEF LInv, Ordered, AllMade
<1>6. RanFirst'
    BY SMTT(30), <1>1, <1>2, <1>4, EntriesTyped DEF LInv, Ordered, AllMade, RanFirst
<1>7. HeapNext'
    <2>1. heap \subseteq HeapEntry /\ \A e \in heap : Made(e)
        BY DEF LInv, LTyped, LKinds, Ordered, AllMade
    <2>2. \A u \in Threads : \A f \in InHand(u)' : f = new \/ f \in InHand(u)
        BY <1>2
    <2>3. \A e \in heap, u \in Threads : \A f \in InHand(u)' : Precedes(e, f)
        BY <1>1, <2>1, <2>2 DEF LInv, Ordered, HeapNext
    <2> QED BY <1>4, <2>3 DEF LInv, Ordered, HeapNext
<1>8. HandedLast'
    BY <1>1, <1>2, <1>4, EntriesTyped DEF LInv, Ordered, AllMade, HandedLast
<1> QED BY <1>3, <1>5, <1>6, <1>7, <1>8 DEF Ordered

\* Handing over: the thread's own work is behind all it handed over before.
LEMMA AppendKeeps ==
    ASSUME LInv, NEW t \in Threads, AppendHanded(t)
    PROVE  LTyped' /\ Ordered'
<1>0. PICK n, x : n = Len(handed) /\ x = caller[t].entry[1]
    OBVIOUS
<1>1. /\ caller[t].entry \in Seq(HeapEntry) /\ Len(caller[t].entry) = 1
      /\ n \in Nat /\ handed \in Seq(HeapEntry)
    BY <1>0, LenProperties DEF AppendHanded, LInv, LTyped, LKinds, HandSound
<1>2. /\ x \in InHand(t) /\ x.by = t /\ x \in HeapEntry
      /\ caller'[t] = [at |-> "wake", entry |-> <<>>]
      /\ \A u \in Threads \ {t} : caller'[u] = caller[u] /\ InHand(u)' = InHand(u)
      /\ InHand(t)' = {}
      /\ caller' \in [Threads -> [at: {"rest", "append", "wake"}, entry: Seq(HeapEntry)]]
    <2>1. x \in InHand(t) /\ x \in HeapEntry
        BY <1>0, <1>1, ElementOfSeq DEF InHand
    <2>2. x.by = t
        BY <2>1 DEF LInv, LTyped, LKinds, HandSound
    <2>3. caller \in [Threads -> [at: {"rest", "append", "wake"}, entry: Seq(HeapEntry)]]
        BY DEF LInv, LTyped, LKinds, HandSound
    <2>4. caller' = [caller EXCEPT ![t] = [at |-> "wake", entry |-> <<>>]]
        BY DEF AppendHanded
    <2>5. caller'[t] = [at |-> "wake", entry |-> <<>>] /\ \A u \in Threads \ {t} : caller'[u] = caller[u]
        BY <2>3, <2>4
    <2>6. Len(<<>>) = 0 /\ 1..0 = {} /\ <<>> \in Seq(HeapEntry)
        BY EmptySeq
    <2>7. InHand(t)' = {}
        BY <2>5, <2>6 DEF InHand
    <2> QED BY <2>1, <2>2, <2>3, <2>4, <2>5, <2>6, <2>7 DEF InHand
<1>3. /\ handed' \in Seq(HeapEntry) /\ Len(handed') = n + 1 /\ handed'[n + 1] = x
      /\ \A i \in 1..n : handed'[i] = handed[i]
    <2>1. handed' = handed \o caller[t].entry
        BY DEF AppendHanded
    <2>2. PICK s : s = caller[t].entry
        OBVIOUS
    <2>3. /\ handed \o s \in Seq(HeapEntry)
          /\ Len(handed \o s) = Len(handed) + Len(s)
          /\ \A i \in 1..Len(handed) + Len(s) : (handed \o s)[i] =
                IF i <= Len(handed) THEN handed[i] ELSE s[i - Len(handed)]
        BY <1>1, <2>2, ConcatProperties
    <2> QED BY <1>0, <1>1, <2>1, <2>2, <2>3
<1>4. LTyped'
    <2>1. \A i \in 1..Len(handed') : handed'[i].by \in Threads
        <3>1. \A i \in 1..n : handed[i].by \in Threads
            BY <1>0 DEF LInv, LTyped, HandSound
        <3>2. \A i \in 1..n + 1 : i \in 1..n \/ i = n + 1
            BY <1>1
        <3> QED BY <1>2, <1>3, <3>1, <3>2
    <2>2. ASSUME NEW u \in Threads
          PROVE  IF caller'[u].at = "append" THEN Len(caller'[u].entry) = 1 ELSE caller'[u].entry = <<>>
        <3>1. CASE u = t
            BY <1>2, <3>1
        <3>2. CASE u # t
            BY <1>2, <3>2 DEF LInv, LTyped, HandSound
        <3> QED BY <3>1, <3>2
    <2>3. ASSUME NEW u \in Threads, NEW e \in InHand(u)' PROVE e.by = u
        BY <1>2, <2>3 DEF LInv, LTyped, HandSound
    <2>4. UNCHANGED <<clock, heap, callsMade, callsRan>>
        BY DEF AppendHanded
    <2> QED BY <1>2, <1>3, <2>1, <2>2, <2>3, <2>4 DEF LInv, LTyped, LKinds, HandSound
<1>5. UNCHANGED <<heap, callsRan, clock, callsMade>>
    BY DEF AppendHanded
<1>6. \A i \in 1..Len(handed') :
        (i \in 1..Len(handed) /\ handed'[i] = handed[i]) \/ (i = Len(handed) + 1 /\ handed'[i] = x)
    BY <1>0, <1>1, <1>3
<1>7. AllMade'
    <2>1. Made(x)
        BY <1>2 DEF LInv, Ordered, AllMade
    <2>2. \A e : Made(e)' <=> Made(e)
        BY <1>5 DEF Made
    <2> QED BY <1>2, <1>5, <1>6, <2>1, <2>2 DEF LInv, Ordered, AllMade
<1>8. RanFirst'
    <2>1. ASSUME NEW i \in 1..Len(callsRan), NEW u \in Threads, NEW f \in InHand(u)' PROVE Precedes(callsRan[i], f)
        <3>1. f \in InHand(u)
            BY <1>2
        <3> QED BY <3>1 DEF LInv, Ordered, RanFirst
    <2>2. \A i \in 1..Len(callsRan), k \in 1..Len(handed') : Precedes(callsRan[i], handed'[k])
        BY <1>2, <1>6 DEF LInv, Ordered, RanFirst
    <2> QED BY <1>5, <2>1, <2>2 DEF LInv, Ordered, RanFirst
<1>9. HeapNext'
    BY <1>2, <1>5, <1>6 DEF LInv, Ordered, HeapNext
<1>10. HandedLast'
    <2>1. ASSUME NEW i \in 1..Len(handed'), NEW j \in 1..Len(handed'), i < j
          PROVE  Precedes(handed'[i], handed'[j])
        <3>1. i \in 1..Len(handed) /\ handed'[i] = handed[i]
            BY <1>0, <1>1, <1>6, <2>1
        <3> QED BY <1>2, <1>6, <2>1, <3>1 DEF LInv, Ordered, HandedLast
    <2>2. ASSUME NEW i \in 1..Len(handed'), NEW u \in Threads, NEW f \in InHand(u)'
          PROVE  Precedes(handed'[i], f)
        <3>1. u # t /\ f \in InHand(u) /\ f.by = u
            BY <1>2, <2>2 DEF LInv, LTyped, LKinds, HandSound
        <3>2. CASE i \in 1..n
            BY <1>3, <3>1, <3>2, <1>0 DEF LInv, Ordered, HandedLast
        <3>3. CASE i = n + 1
            BY <1>2, <1>3, <3>1, <3>3 DEF Precedes
        <3> QED BY <1>1, <1>3, <3>2, <3>3
    <2> QED BY <2>1, <2>2 DEF HandedLast
<1> QED BY <1>4, <1>7, <1>8, <1>9, <1>10 DEF Ordered

\* Steps that move no callback.
HandsKept ==
    /\ caller' \in [Threads -> [at: {"rest", "append", "wake"}, entry: Seq(HeapEntry)]]
    /\ \A t \in Threads : /\ caller'[t].entry = caller[t].entry
                          /\ caller'[t].at = "append" <=> caller[t].at = "append"

LEMMA RestKeeps ==
    ASSUME LInv,
           UNCHANGED <<heap, handed, callsMade, callsRan>>,
           clock' \in Nat, clock <= clock',
           HandsKept
    PROVE  LTyped' /\ Ordered'
<1>1. \A t \in Threads : InHand(t)' = InHand(t)
    BY DEF HandsKept, InHand
<1>2. LTyped'
    BY <1>1 DEF LInv, LTyped, LKinds, HandSound, HandsKept
<1>3. \A e \in HeapEntry : Made(e) => Made(e)'
    BY MadeStays DEF LInv, LTyped, LKinds, HandSound
<1>4. AllMade'
    BY <1>1, <1>3, EntriesTyped DEF LInv, LTyped, LKinds, HandSound, Ordered, AllMade
<1>5. RanFirst' /\ HeapNext' /\ HandedLast'
    BY <1>1 DEF LInv, Ordered, RanFirst, HeapNext, HandedLast
<1> QED BY <1>2, <1>4, <1>5 DEF Ordered

LEMMA PullKeeps ==
    ASSUME LInv, PullPending
    PROVE  LTyped' /\ Ordered'
<1>1. /\ heap' = heap \union {handed[i] : i \in 1..Len(handed)}
      /\ handed' = <<>> /\ Len(handed') = 0 /\ handed' \in Seq(HeapEntry)
      /\ UNCHANGED <<clock, wakePipe, keepRunning, caller, callsMade, callsRan>>
      /\ \A t \in Threads : InHand(t)' = InHand(t)
    BY LenProperties, EmptySeq DEF PullPending, LInv, LTyped, LKinds, HandSound, InHand
<1>2. LTyped'
    BY <1>1, EntriesTyped DEF LInv, LTyped, LKinds, HandSound
<1>3. AllMade'
    BY <1>1 DEF LInv, Ordered, AllMade, Made
<1>4. RanFirst'
    BY <1>1 DEF LInv, Ordered, RanFirst
<1>5. HeapNext'
    <2>1. ASSUME NEW e \in heap', NEW f \in heap' PROVE e = f \/ Precedes(e, f) \/ Precedes(f, e)
        <3>1. CASE e \in heap \/ f \in heap
            BY <1>1, <2>1, <3>1 DEF LInv, Ordered, HeapNext
        <3>2. CASE e \notin heap /\ f \notin heap
            <4>1. PICK i \in 1..Len(handed), j \in 1..Len(handed) : e = handed[i] /\ f = handed[j]
                BY <1>1, <2>1, <3>2
            <4>2. i = j \/ i < j \/ j < i
                BY EntriesTyped DEF LInv
            <4> QED BY <4>1, <4>2 DEF LInv, Ordered, HandedLast
        <3> QED BY <3>1, <3>2
    <2>2. ASSUME NEW e \in heap', NEW t \in Threads, NEW f \in InHand(t)' PROVE Precedes(e, f)
        BY <1>1, <2>2 DEF LInv, Ordered, HeapNext, HandedLast
    <2> QED BY <1>1, <2>1, <2>2 DEF HeapNext
<1>6. HandedLast'
    BY <1>1 DEF HandedLast
<1> QED BY <1>2, <1>3, <1>4, <1>5, <1>6 DEF Ordered

-----------------------------------------------------------------------------
\* The loop's own thread schedules: behind what is on the heap, and no thread
\* hands over in its name.
LEMMA OwnKeeps ==
    ASSUME LTyped, Ordered, NEW d \in Delays, callsMade' = callsMade + 1,
           heap' = heap \union {New(Main, d)},            UNCHANGED <<clock, handed, caller, callsRan>>
    PROVE  LTyped' /\ Ordered'
<1>0. PICK new : new = New(Main, d)
    OBVIOUS
<1>1. /\ new \in HeapEntry /\ new.by = Main
      /\ Made(new)'
      /\ \A e \in HeapEntry : Made(e) => Made(e)' /\ Precedes(e, new)
    BY <1>0, NewLast DEF Everybody
<1>2. \A t \in Threads : InHand(t)' = InHand(t)
    BY DEF InHand
<1>3. \A f \in HeapEntry : f.by \in Threads => Precedes(new, f)
    BY <1>1, LoopAssumption DEF Precedes
<1>4. heap' = heap \union {new}
    BY <1>0
<1>5. LTyped'
    <2>1. LKinds'
        BY <1>1, <1>4 DEF LTyped, LKinds
    <2>2. HandSound'
        BY <1>2 DEF LTyped, HandSound
    <2> QED BY <2>1, <2>2 DEF LTyped
<1>6. AllMade'
    BY <1>1, <1>2, <1>4, EntriesTyped DEF LTyped, LKinds, HandSound, Ordered, AllMade
<1>7. RanFirst'
    BY SMTT(30), <1>1, <1>2, <1>4, EntriesTyped DEF Ordered, AllMade, RanFirst
<1>8. HeapNext'
    <2>1. ASSUME NEW e \in heap', NEW f \in heap' PROVE e = f \/ Precedes(e, f) \/ Precedes(f, e)
        BY <1>1, <1>4, <2>1 DEF LTyped, LKinds, HandSound, Ordered, AllMade, HeapNext
    <2>2. ASSUME NEW e \in heap', NEW j \in 1..Len(handed) PROVE Precedes(e, handed[j])
        BY <1>3, <1>4, <2>2, EntriesTyped DEF LTyped, LKinds, HandSound, Ordered, HeapNext
    <2>3. ASSUME NEW e \in heap', NEW t \in Threads, NEW f \in InHand(t) PROVE Precedes(e, f)
        BY <1>3, <1>4, <2>3, EntriesTyped DEF LTyped, LKinds, HandSound, Ordered, HeapNext
    <2> QED BY <1>2, <2>1, <2>2, <2>3 DEF HeapNext
<1>9. HandedLast'
    BY <1>2 DEF Ordered, HandedLast
<1> QED BY <1>5, <1>6, <1>7, <1>8, <1>9 DEF Ordered

\* The first of the heap precedes the rest, of its thread and with its delay.
LEMMA FirstPrecedes ==
    ASSUME LInv, NEW e \in heap, First(e), NEW f \in heap \ {e}
    PROVE  Precedes(e, f)
<1>1. Precedes(e, f) \/ Precedes(f, e)
    BY DEF LInv, Ordered, HeapNext
<1>2. /\ e.due \in Nat /\ f.due \in Nat /\ e.order \in Nat /\ f.order \in Nat
    BY DEF LInv, LTyped, LKinds, HandSound, HeapEntry
<1> QED BY <1>1, <1>2 DEF First, Before, Precedes

\* Running the first: it goes from the heap to the end of what has run, and what
\* its callback schedules is behind everything.
LEMMA RunFirst ==
    ASSUME LInv, NEW e \in heap, First(e), callsRan' = Append(callsRan, e),
           NEW N \in SUBSET HeapEntry, heap' = (heap \ {e}) \union N,
           \A x \in N : /\ x.by = Main /\ Made(x)' /\ \A y \in N : x = y
                       /\ \A y \in HeapEntry : Made(y) => Precedes(y, x),
           callsMade' \in Nat, callsMade <= callsMade',
           UNCHANGED <<clock, handed, caller>>
    PROVE  LTyped' /\ Ordered'
<1>1. /\ e \in HeapEntry /\ Made(e) /\ heap \subseteq HeapEntry
      /\ callsRan \in Seq(HeapEntry) /\ clock \in Nat
      /\ \A t \in Threads : InHand(t)' = InHand(t)
    BY DEF LInv, LTyped, LKinds, Ordered, AllMade, InHand
<1>2. /\ callsRan' \in Seq(HeapEntry) /\ Len(callsRan) \in Nat
      /\ \A i \in 1..Len(callsRan') : \/ i \in 1..Len(callsRan) /\ callsRan'[i] = callsRan[i]
                                      \/ i = Len(callsRan) + 1 /\ callsRan'[i] = e
    BY <1>1, AppendProperties, LenProperties
<1>3. LTyped'
    <2>1. LKinds'
        BY <1>2 DEF LInv, LTyped, LKinds
    <2>2. HandSound'
        BY <1>1 DEF LInv, LTyped, HandSound
    <2> QED BY <2>1, <2>2 DEF LTyped
<1>4. AllMade'
    <2>1. \A y \in HeapEntry : Made(y) => Made(y)'
        BY <1>1, MadeStays DEF LInv
    <2> QED BY <1>1, <1>2, <2>1, EntriesTyped DEF LInv, Ordered, AllMade
<1>5. \A x \in N, f \in HeapEntry : f.by \in Threads => Precedes(x, f)
    BY LoopAssumption DEF Precedes
<1>6. RanFirst'
    <2>1. ASSUME NEW i \in 1..Len(callsRan'), NEW j \in 1..Len(callsRan'), i < j
          PROVE  Precedes(callsRan'[i], callsRan'[j])
        <3>1. i \in 1..Len(callsRan) /\ callsRan'[i] = callsRan[i]
            BY <1>2, <2>1
        <3> QED BY <1>2, <2>1, <3>1 DEF LInv, Ordered, RanFirst
    <2>2. ASSUME NEW i \in 1..Len(callsRan'), NEW f \in heap' PROVE Precedes(callsRan'[i], f)
        <3>1. CASE f \in N
            BY <1>1, <1>2, <2>2, <3>1, EntriesTyped DEF LInv, Ordered, AllMade
        <3>2. CASE f \in heap \ {e}
            BY <1>2, <2>2, <3>2, FirstPrecedes DEF LInv, Ordered, RanFirst
        <3> QED BY <3>1, <3>2
    <2>3. ASSUME NEW i \in 1..Len(callsRan'), NEW j \in 1..Len(handed) PROVE Precedes(callsRan'[i], handed[j])
        BY <1>2, <2>3 DEF LInv, Ordered, RanFirst, HeapNext
    <2>4. ASSUME NEW i \in 1..Len(callsRan'), NEW t \in Threads, NEW f \in InHand(t)
          PROVE  Precedes(callsRan'[i], f)
        BY <1>2, <2>4 DEF LInv, Ordered, RanFirst, HeapNext
    <2> QED BY <1>1, <2>1, <2>2, <2>3, <2>4 DEF RanFirst
<1>7. HeapNext'
    <2>1. ASSUME NEW x \in heap', NEW f \in heap' PROVE x = f \/ Precedes(x, f) \/ Precedes(f, x)
        BY <1>1, <2>1 DEF LInv, Ordered, AllMade, HeapNext
    <2>2. ASSUME NEW x \in heap', NEW j \in 1..Len(handed) PROVE Precedes(x, handed[j])
        BY <1>5, <2>2, EntriesTyped DEF LInv, LTyped, HandSound, Ordered, HeapNext
    <2>3. ASSUME NEW x \in heap', NEW t \in Threads, NEW f \in InHand(t) PROVE Precedes(x, f)
        BY <1>5, <2>3, EntriesTyped DEF LInv, LTyped, HandSound, Ordered, HeapNext
    <2> QED BY <1>1, <2>1, <2>2, <2>3 DEF HeapNext
<1>8. HandedLast'
    BY <1>1 DEF LInv, Ordered, HandedLast
<1> QED BY <1>3, <1>4, <1>6, <1>7, <1>8 DEF Ordered

LEMMA RunKeeps ==
    ASSUME LInv, RunDue
    PROVE  LTyped' /\ Ordered'
<1>1. callsMade \in Nat
    BY DEF LInv, LTyped, LKinds
<1>2. PICK e \in heap :
        /\ First(e) /\ callsRan' = Append(callsRan, e) /\ UNCHANGED <<clock, handed, caller>>
        /\ \/ heap' = heap \ {e} /\ callsMade' = callsMade
           \/ \E d \in Delays : callsMade' = callsMade + 1 /\ heap' = (heap \ {e}) \union {New(Main, d)}
    BY DEF RunDue, Counted
<1>3. CASE heap' = heap \ {e} /\ callsMade' = callsMade
    <2>1. {} \in SUBSET HeapEntry /\ heap' = (heap \ {e}) \union {}
        BY <1>3
    <2>2. callsMade' \in Nat /\ callsMade <= callsMade'
        BY <1>1, <1>3
    <2>3. PICK N \in SUBSET HeapEntry : N = {}
        OBVIOUS
    <2>4. /\ heap' = (heap \ {e}) \union N
          /\ \A x \in N : /\ x.by = Main /\ Made(x)' /\ \A y \in N : x = y
                         /\ \A y \in HeapEntry : Made(y) => Precedes(y, x)
        BY <2>1, <2>3
    <2> QED BY <1>2, <2>2, <2>4, RunFirst
<1>4. ASSUME NEW d \in Delays, callsMade' = callsMade + 1, heap' = (heap \ {e}) \union {New(Main, d)}
      PROVE  LTyped' /\ Ordered'
    <2>1. PICK new : new = New(Main, d)
        OBVIOUS
    <2>2. /\ new \in HeapEntry /\ new.by = Main /\ Made(new)'
          /\ \A y \in HeapEntry : Made(y) => Precedes(y, new)
        BY <1>2, <1>4, <2>1, NewLast DEF Everybody, LInv
    <2>3. {new} \in SUBSET HeapEntry /\ heap' = (heap \ {e}) \union {new}
        BY <1>4, <2>1, <2>2
    <2>4. \A x \in {new} : /\ x.by = Main /\ Made(x)' /\ \A y \in {new} : x = y
                           /\ \A y \in HeapEntry : Made(y) => Precedes(y, x)
        BY <2>2
    <2>5. callsMade' \in Nat /\ callsMade <= callsMade'
        BY <1>1, <1>4
    <2> QED BY <1>2, <2>3, <2>4, <2>5, RunFirst
<1> QED BY <1>2, <1>3, <1>4

-----------------------------------------------------------------------------
LEMMA StepOrdered ==
    ASSUME LInv, [LoopNext]_loopVars
    PROVE  LTyped' /\ Ordered'
<1> DEFINE Hands == [Threads -> [at: {"rest", "append", "wake"}, entry: Seq(HeapEntry)]]
<1>1. /\ clock \in Nat /\ caller \in Hands
    BY DEF LInv, LTyped, LKinds
<1>2. ASSUME NEW t \in Threads, Wakeup(t) \/ QuitLoop(t) PROVE LTyped' /\ Ordered'
    <2>1. /\ UNCHANGED <<heap, handed, callsMade, callsRan, clock>>
          /\ caller' = [caller EXCEPT ![t].at = "rest"] \/ caller' = [caller EXCEPT ![t].at = "wake"]
          /\ caller[t].at # "append"
        BY <1>2 DEF Wakeup, QuitLoop
    <2>2. HandsKept
        <3>1. CASE caller' = [caller EXCEPT ![t].at = "rest"]
            BY <1>1, <2>1, <3>1 DEF HandsKept
        <3>2. CASE caller' = [caller EXCEPT ![t].at = "wake"]
            BY <1>1, <2>1, <3>2 DEF HandsKept
        <3> QED BY <2>1, <3>1, <3>2
    <2>3. clock' \in Nat /\ clock <= clock'
        BY <1>1, <2>1
    <2>4. UNCHANGED <<heap, handed, callsMade, callsRan>>
        BY <2>1
    <2> QED BY <2>2, <2>3, <2>4, RestKeeps
<1>3. CASE RunLoop \/ NothingDue \/ SelectReturns \/ DrainWakeup \/ TimePasses \/ UNCHANGED loopVars
    <2>1. UNCHANGED <<heap, handed, callsMade, callsRan, caller>> /\ (clock' = clock \/ clock' = clock + 1)
        BY <1>3 DEF RunLoop, NothingDue, SelectReturns, DrainWakeup, TimePasses, loopVars
    <2>2. clock' \in Nat /\ clock <= clock'
        BY <1>1, <2>1
    <2>3. HandsKept
        BY <1>1, <2>1 DEF HandsKept
    <2> QED BY <2>1, <2>2, <2>3, RestKeeps
<1>4. CASE DescriptorReady
    BY <1>4, OwnKeeps DEF DescriptorReady, Counted, LInv
<1>5. CASE \E d \in Delays : ScheduleFirst(d)
    BY <1>5, OwnKeeps DEF ScheduleFirst, Counted, LInv
<1> QED
    BY <1>2, <1>3, <1>4, <1>5, CallLaterKeeps, AppendKeeps, PullKeeps, RunKeeps DEF LoopNext

LEMMA ServedByInv ==
    ASSUME LInv
    PROVE  CallsServed
<1>1. NoSleepOnWork
    BY DEF LInv, Awake, NoSleepOnWork
<1>2. HandedInOrder
    <2>1. /\ callsRan \in Seq(HeapEntry) /\ DOMAIN callsRan = 1..Len(callsRan)
        BY LenProperties DEF LInv, LTyped, LKinds
    <2> QED BY <2>1 DEF LInv, Ordered, RanFirst, Precedes, HandedInOrder
<1> QED BY <1>1, <1>2 DEF CallsServed

\* The loop never sleeps on work that was handed over or on a request to quit,
\* and what a thread hands over with one delay runs in the order in which it was
\* scheduled, for any threads and any number of callbacks (call_later, run, quit).
THEOREM LoopServesCalls == LoopSpec => []CallsServed
<1>1. LInv /\ [LoopNext]_loopVars => LInv'
    BY StepAwake, StepOrdered DEF LInv
<1> QED BY <1>1, LInvInit, ServedByInv, PTL DEF LoopSpec

-----------------------------------------------------------------------------
(* Numbers: the least of a set of them.                                        *)

LEMMA LeastNumber ==
    ASSUME NEW T, T \subseteq Nat, T # {}
    PROVE  \E x \in T : \A y \in T : x <= y
<1> DEFINE below == {ss \in Nat \X Nat : ss[1] < ss[2]}
<1>1. IsWellFoundedOn(below, Nat)
    BY NatLessThanWellFounded DEF OpToRel
<1>2. PICK x \in T : \A y \in T : ~(<<y, x>> \in below)
    BY <1>1, WFMin
<1>3. \A y \in T : ~(y < x)
    BY <1>2
<1> QED
    BY <1>3

LEMMA MinOf ==
    ASSUME NEW T, T \subseteq Nat, T # {}
    PROVE  Min(T) \in T /\ \A y \in T : Min(T) <= y
BY LeastNumber DEF Min

-----------------------------------------------------------------------------
(* SocketMessages, for any messages, pieces and points where reads stop.       *)

\* Piece i of w stands behind the pieces of its message that go before it, which
\* begin where a line begins.
WholeAt(w, i) ==
    /\ w[i].nr \in 1..i
    /\ \A q \in 1..w[i].nr :
         /\ w[i - w[i].nr + q].msg = w[i].msg /\ w[i - w[i].nr + q].nr = q
         /\ q < w[i].nr => ~w[i - w[i].nr + q].last
    /\ i > w[i].nr => w[i - w[i].nr].last
\* What is on the way is whole messages, of those sent, in their order.
Framed(w) ==
    /\ w \in Seq(Piece)
    /\ w # <<>> => w[Len(w)].last
    /\ \A i \in 1..Len(w) : \E j \in 1..Len(sent) : w[i].msg = sent[j]
    /\ \A i \in 1..Len(w) : \A j \in 1..Len(w) :
         i < j => w[i].msg.id <= w[j].msg.id /\ (w[i].last => w[i].msg.id < w[j].msg.id)
    /\ \A i \in 1..Len(w) : WholeAt(w, i)
\* The handled messages are before those on the way, and none is lost in between.
Kept(w, h) ==
    /\ \A k \in 1..Len(h) : \E i \in 1..Len(sent) : h[k] = sent[i]
    /\ \A k \in 1..Len(h) : \A l \in 1..Len(h) : k < l => h[k].id < h[l].id
    /\ \A k \in 1..Len(h) : \A i \in 1..Len(w) : h[k].id < w[i].msg.id
    /\ \A i \in 1..Len(sent) : sent[i].effect # "invalid" =>
         \/ \E k \in 1..Len(h) : h[k] = sent[i]
         \/ \E k \in 1..Len(w) : w[k].last /\ w[k].msg = sent[i]
Numbered == \A i \in 1..Len(sent) : sent[i].id = i
Excused == Ends(readBuffer) # {} /\ ~inCall => excused
SocketInv == SocketTypeOK /\ Numbered /\ Excused /\ Framed(OnTheWay) /\ Kept(OnTheWay, handledMsgs)

\* A part of a sequence.
LEMMA PartOf ==
    ASSUME NEW S, NEW s \in Seq(S), NEW m \in 1..(Len(s) + 1), NEW n \in (m - 1)..Len(s)
    PROVE  /\ SubSeq(s, m, n) \in Seq(S) /\ Len(SubSeq(s, m, n)) = n - m + 1
           /\ \A i \in 1..(n - m + 1) : SubSeq(s, m, n)[i] = s[m + i - 1]
<1>1. Len(s) \in Nat /\ m \in Int /\ n \in Int
    OBVIOUS
<1>2. \A i \in m..n : s[i] \in S
    BY <1>1
<1>3. /\ SubSeq(s, m, n) \in Seq(S) /\ Len(SubSeq(s, m, n)) = IF m <= n THEN n - m + 1 ELSE 0
      /\ \A i \in 1..(n - m + 1) : SubSeq(s, m, n)[i] = s[m + i - 1]
    BY <1>1, <1>2, SubSeqProperties
<1>4. (IF m <= n THEN n - m + 1 ELSE 0) = n - m + 1
    BY <1>1
<1> QED
    BY <1>3, <1>4

LEMMA FirstEnd ==
    ASSUME readBuffer \in Seq(Piece), Ends(readBuffer) # {}
    PROVE  /\ LineEnd \in 1..Len(readBuffer) /\ readBuffer[LineEnd].last
           /\ \A i \in 1..(LineEnd - 1) : ~readBuffer[i].last
<1>1. Len(readBuffer) \in Nat /\ DOMAIN readBuffer = 1..Len(readBuffer) /\ Ends(readBuffer) \subseteq Nat
    BY DEF Ends
<1>2. LineEnd \in Ends(readBuffer) /\ \A y \in Ends(readBuffer) : LineEnd <= y
    BY <1>1, MinOf DEF LineEnd
<1> HIDE DEF LineEnd
<1>3. LineEnd \in 1..Len(readBuffer) /\ readBuffer[LineEnd].last
    BY <1>1, <1>2 DEF Ends
<1>4. ASSUME NEW i \in 1..(LineEnd - 1), readBuffer[i].last PROVE FALSE
    <2>1. i \in 1..Len(readBuffer) /\ i < LineEnd
        BY <1>1, <1>3
    <2>2. i \in Ends(readBuffer)
        BY <1>1, <1>4, <2>1 DEF Ends
    <2> QED
        BY <1>1, <1>2, <1>3, <2>1, <2>2
<1> QED
    BY <1>3, <1>4

LEMMA LineTakenOff ==
    ASSUME readBuffer \in Seq(Piece), Ends(readBuffer) # {}
    PROVE  /\ RestOfBuffer \in Seq(Piece) /\ Len(RestOfBuffer) = Len(readBuffer) - LineEnd
           /\ \A i \in 1..(Len(readBuffer) - LineEnd) : RestOfBuffer[i] = readBuffer[LineEnd + i]
           /\ readBuffer[LineEnd].msg \in Message
<1>1. LineEnd \in 1..Len(readBuffer) /\ Len(readBuffer) \in Nat
    BY FirstEnd
<1> HIDE DEF LineEnd
<1>2. LineEnd + 1 \in 1..(Len(readBuffer) + 1) /\ Len(readBuffer) \in ((LineEnd + 1) - 1)..Len(readBuffer)
    BY <1>1
<1>3. /\ RestOfBuffer \in Seq(Piece) /\ Len(RestOfBuffer) = Len(readBuffer) - (LineEnd + 1) + 1
      /\ \A i \in 1..(Len(readBuffer) - (LineEnd + 1) + 1) : RestOfBuffer[i] = readBuffer[(LineEnd + 1) + i - 1]
    BY <1>2, PartOf DEF RestOfBuffer
<1>4. Len(readBuffer) - (LineEnd + 1) + 1 = Len(readBuffer) - LineEnd
      /\ \A i \in 1..(Len(readBuffer) - LineEnd) : (LineEnd + 1) + i - 1 = LineEnd + i
    BY <1>1
<1>5. readBuffer[LineEnd] \in Piece
    BY <1>1
<1> QED
    BY <1>3, <1>4, <1>5 DEF Piece

LEMMA SocketTyped ==
    ASSUME SocketTypeOK, [SocketNext]_socketVars
    PROVE  SocketTypeOK'
<1>1. ASSUME NEW effect \in Effects, NEW n \in 1..MaxPieces,
             Len(sent) < MaxMessages, sent' = Append(sent, [id |-> Len(sent) + 1, effect |-> effect]),
             unwritten' = [i \in 1..n |-> [msg |-> [id |-> Len(sent) + 1, effect |-> effect], nr |-> i, last |-> i = n]]
      PROVE  sent' \in Seq(Message) /\ unwritten' \in Seq(Piece)
    <2>1. Len(sent) \in Nat /\ MaxMessages \in Nat /\ MaxPieces \in Nat
        BY SocketAssumption DEF SocketTypeOK
    <2>2. [id |-> Len(sent) + 1, effect |-> effect] \in Message
        BY <1>1, <2>1 DEF Message
    <2>3. \A i \in 1..n : [msg |-> [id |-> Len(sent) + 1, effect |-> effect], nr |-> i, last |-> i = n] \in Piece
        BY <2>1, <2>2 DEF Piece
    <2>4. unwritten' \in [1..n -> Piece]
        BY <1>1, <2>3
    <2>5. n \in Nat
        BY <2>1
    <2> QED
        BY <1>1, <2>2, <2>4, <2>5 DEF SocketTypeOK
<1>2. CASE Send
    BY <1>1, <1>2 DEF Send, SocketTypeOK
<1>3. CASE WritePart
    <2>1. Head(unwritten) \in Piece /\ Tail(unwritten) \in Seq(Piece)
        BY <1>3, HeadTailProperties DEF WritePart, SocketTypeOK
    <2> QED
        BY <1>3, <2>1 DEF WritePart, SocketTypeOK
<1>4. CASE ReadChunk
    <2>1. PICK n \in 1..Len(stream) : readBuffer' = readBuffer \o SubSeq(stream, 1, n) /\ stream' = SubSeq(stream, n + 1, Len(stream))
        BY <1>4 DEF ReadChunk
    <2>2. stream \in Seq(Piece) /\ Len(stream) \in Nat
        BY DEF SocketTypeOK
    <2>3. n \in (1 - 1)..Len(stream) /\ 1 \in 1..(Len(stream) + 1)
          /\ n + 1 \in 1..(Len(stream) + 1) /\ Len(stream) \in ((n + 1) - 1)..Len(stream)
        BY <2>2
    <2>4. SubSeq(stream, 1, n) \in Seq(Piece) /\ SubSeq(stream, n + 1, Len(stream)) \in Seq(Piece)
        BY <2>2, <2>3, PartOf
    <2>5. readBuffer' \in Seq(Piece)
        BY <2>1, <2>4, ConcatProperties DEF SocketTypeOK
    <2> QED
        BY <1>4, <2>1, <2>4, <2>5 DEF ReadChunk, SocketTypeOK
<1>5. CASE HandleLine
    <2>1. RestOfBuffer \in Seq(Piece) /\ readBuffer[LineEnd].msg \in Message
        BY <1>5, LineTakenOff DEF HandleLine, SocketTypeOK
    <2> DEFINE m == readBuffer[LineEnd].msg
    <2>2. /\ readBuffer' = RestOfBuffer /\ UNCHANGED <<sent, unwritten, stream>>
          /\ \/ handledMsgs' = Append(handledMsgs, m) /\ controller' \in {"closed", controller}
                /\ inCall' \in BOOLEAN /\ excused' \in BOOLEAN
             \/ UNCHANGED <<handledMsgs, controller, inCall, excused>>
        BY <1>5 DEF HandleLine
    <2> HIDE DEF m
    <2>3. m \in Message
        BY <2>1 DEF m
    <2>4. handledMsgs' \in Seq(Message)
        <3>1. handledMsgs \in Seq(Message) /\ Append(handledMsgs, m) \in Seq(Message)
            BY <2>3, AppendProperties DEF SocketTypeOK
        <3>2. handledMsgs' = Append(handledMsgs, m) \/ handledMsgs' = handledMsgs
            BY <2>2
        <3> QED
            BY <3>1, <3>2
    <2> QED
        BY <2>1, <2>2, <2>4 DEF SocketTypeOK
<1>6. CASE ReadDone \/ CloseSocket \/ UNCHANGED socketVars
    BY <1>6 DEF ReadDone, CloseSocket, socketVars, SocketTypeOK
<1> QED
    BY <1>2, <1>3, <1>4, <1>5, <1>6 DEF SocketNext

-----------------------------------------------------------------------------
\* What is sent goes behind what is on the way.
LEMMA WholeSame ==
    ASSUME NEW w, NEW v, NEW i \in Nat \ {0}, WholeAt(w, i), \A j \in 1..i : v[j] = w[j]
    PROVE  WholeAt(v, i)
<1>1. PICK nr \in 1..i : nr = w[i].nr
    BY DEF WholeAt
<1>2. v[i] = w[i]
    OBVIOUS
<1>3. \A q \in 1..nr : i - nr + q \in 1..i /\ v[i - nr + q] = w[i - nr + q]
    <2> TAKE q \in 1..nr
    <2>1. i - nr + q \in 1..i
        OBVIOUS
    <2> QED
        BY <2>1
<1>4. i > nr => v[i - nr] = w[i - nr]
    <2>1. i > nr => i - nr \in 1..i
        OBVIOUS
    <2> QED
        BY <2>1
<1>5. /\ \A q \in 1..nr : /\ w[i - nr + q].msg = w[i].msg /\ w[i - nr + q].nr = q
                          /\ q < nr => ~w[i - nr + q].last
      /\ i > nr => w[i - nr].last
    BY <1>1 DEF WholeAt
<1>6. /\ \A q \in 1..nr : /\ v[i - nr + q].msg = v[i].msg /\ v[i - nr + q].nr = q
                          /\ q < nr => ~v[i - nr + q].last
      /\ i > nr => v[i - nr].last
    BY <1>2, <1>3, <1>4, <1>5
<1>7. v[i].nr = nr /\ nr \in 1..i
    BY <1>1, <1>2
<1> QED
    BY <1>6, <1>7 DEF WholeAt

LEMMA FramedSent ==
    ASSUME NEW w, NEW v, NEW n \in Nat \ {0}, NEW m, Framed(w), v \in Seq(Piece), sent \in Seq(Message), Numbered,
           m.id = Len(sent) + 1, sent' = Append(sent, m),
           Len(v) = Len(w) + n,
           \A i \in 1..Len(w) : v[i] = w[i],
           \A i \in 1..n : v[Len(w) + i].msg = m /\ v[Len(w) + i].nr = i /\ (v[Len(w) + i].last <=> i = n)
    PROVE  Framed(v)' /\ Numbered'
<1>0. Len(w) \in Nat /\ Len(sent) \in Nat /\ w \in Seq(Piece)
    BY DEF Framed
<1>1. /\ Len(sent') = Len(sent) + 1 /\ sent'[Len(sent) + 1] = m
      /\ \A j \in 1..Len(sent) : sent'[j] = sent[j]
    BY <1>0
<1>2. \A i \in 1..Len(v) : i \in 1..Len(w) \/ (i - Len(w) \in 1..n /\ i = Len(w) + (i - Len(w)))
    BY <1>0
<1>3. \A i \in (1..Len(v)) \ (1..Len(w)) : v[i].msg = m /\ v[i].nr = i - Len(w) /\ (v[i].last <=> i = Len(v))
    <2> TAKE i \in (1..Len(v)) \ (1..Len(w))
    <2>1. i - Len(w) \in 1..n /\ i = Len(w) + (i - Len(w)) /\ (i = Len(v) <=> i - Len(w) = n)
        BY <1>0
    <2> QED
        BY <2>1
<1>4. v[Len(v)].last
    <2>1. Len(v) \in (1..Len(v)) \ (1..Len(w))
        BY <1>0
    <2> QED
        BY <1>3, <2>1
<1>5. ASSUME NEW i \in 1..Len(v) PROVE \E j \in 1..Len(sent') : v[i].msg = sent'[j]
    <2>1. CASE i \in 1..Len(w)
        <3>1. PICK j \in 1..Len(sent) : w[i].msg = sent[j]
            BY <2>1 DEF Framed
        <3>2. j \in 1..Len(sent')
            BY <1>0, <1>1
        <3> QED
            BY <1>1, <2>1, <3>1, <3>2
    <2>2. CASE i \notin 1..Len(w)
        <3>1. Len(sent) + 1 \in 1..Len(sent') /\ v[i].msg = m
            BY <1>0, <1>1, <1>3, <2>2
        <3> QED
            BY <1>1, <3>1
    <2> QED
        BY <2>1, <2>2
<1>6. ASSUME NEW i \in 1..Len(v), NEW j \in 1..Len(v), i < j
      PROVE  v[i].msg.id <= v[j].msg.id /\ (v[i].last => v[i].msg.id < v[j].msg.id)
    <2>1. CASE j \in 1..Len(w)
        <3>1. i \in 1..Len(w)
            BY <1>0, <1>6, <2>1
        <3> QED
            BY <1>6, <2>1, <3>1 DEF Framed
    <2>2. CASE i \in 1..Len(w) /\ j \notin 1..Len(w)
        <3>1. PICK k \in 1..Len(sent) : w[i].msg = sent[k]
            BY <2>2 DEF Framed
        <3>2. v[i].msg.id = k /\ v[j].msg.id = Len(sent) + 1
            BY <1>3, <2>2, <3>1 DEF Numbered
        <3> QED
            BY <1>0, <3>2
    <2>3. CASE i \notin 1..Len(w) /\ j \notin 1..Len(w)
        <3>1. v[i].msg.id = Len(sent) + 1 /\ v[j].msg.id = Len(sent) + 1 /\ (v[i].last <=> i = Len(v))
            BY <1>3, <2>3
        <3> QED
            BY <1>0, <1>6, <3>1
    <2> QED
        BY <1>0, <1>6, <2>1, <2>2, <2>3
<1>7. ASSUME NEW i \in 1..Len(v) PROVE WholeAt(v, i)
    <2>1. CASE i \in 1..Len(w)
        <3>1. WholeAt(w, i) /\ v[i] = w[i]
            BY <2>1 DEF Framed
        <3>2. \A j \in 1..i : v[j] = w[j]
            <4>1. \A j \in 1..i : j \in 1..Len(w)
                BY ONLY <1>0, <2>1
            <4> QED
                BY <4>1
        <3> QED
            BY <3>1, <3>2, WholeSame
    <2>2. CASE i \notin 1..Len(w)
        <3>1. v[i].msg = m /\ v[i].nr = i - Len(w) /\ (v[i].last <=> i = Len(v))
            BY <1>3, <2>2
        <3>2. v[i].nr = i - Len(w) /\ v[i].nr \in 1..i /\ i - v[i].nr = Len(w)
            BY <1>0, <2>2, <3>1
        <3>3. ASSUME NEW q \in 1..v[i].nr
              PROVE  /\ v[Len(w) + q].msg = v[i].msg /\ v[Len(w) + q].nr = q
                     /\ q < v[i].nr => ~v[Len(w) + q].last
            <4>1. q \in 1..n /\ (q < v[i].nr => q # n)
                BY <1>0, <3>2
            <4> QED
                BY <3>1, <4>1
        <3>4. i > v[i].nr => v[Len(w)].last
            <4>1. i > v[i].nr => w # <<>> /\ Len(w) \in 1..Len(w)
                BY <1>0, <3>2
            <4> QED
                BY <4>1 DEF Framed
        <3> QED
            BY <3>2, <3>3, <3>4 DEF WholeAt
    <2> QED
        BY <2>1, <2>2
<1>8. Numbered'
    <2> SUFFICES ASSUME NEW i \in 1..Len(sent') PROVE sent'[i].id = i
        BY DEF Numbered
    <2> QED
        BY <1>0, <1>1 DEF Numbered
<1>9. Framed(v)'
    BY <1>4, <1>5, <1>6, <1>7 DEF Framed, WholeAt
<1> QED
    BY <1>8, <1>9

LEMMA KeptSent ==
    ASSUME NEW w, NEW v, NEW n \in Nat \ {0}, NEW m, Framed(w), Kept(w, handledMsgs), handledMsgs \in Seq(Message),
           sent \in Seq(Message), Numbered,
           m.id = Len(sent) + 1, sent' = Append(sent, m), UNCHANGED handledMsgs,
           Len(v) = Len(w) + n,
           \A i \in 1..Len(w) : v[i] = w[i],
           \A i \in 1..n : v[Len(w) + i].msg = m /\ v[Len(w) + i].nr = i /\ (v[Len(w) + i].last <=> i = n)
    PROVE  Kept(v, handledMsgs)'
<1>0. Len(w) \in Nat /\ Len(sent) \in Nat /\ Len(handledMsgs) \in Nat
    BY DEF Framed
<1>1. /\ Len(sent') = Len(sent) + 1 /\ sent'[Len(sent) + 1] = m
      /\ \A j \in 1..Len(sent) : sent'[j] = sent[j] /\ j \in 1..Len(sent')
    BY <1>0
<1> DEFINE h == handledMsgs
<1>2. \A k \in 1..Len(h) : \E i \in 1..Len(sent') : h[k] = sent'[i]
    BY <1>1 DEF Kept
<1>3. ASSUME NEW k \in 1..Len(h), NEW i \in 1..Len(v) PROVE h[k].id < v[i].msg.id
    <2>1. CASE i \in 1..Len(w)
        BY <2>1 DEF Kept
    <2>2. CASE i \notin 1..Len(w)
        <3>0. PICK k0 \in 1..n : i = Len(w) + k0
            <4>1. i - Len(w) \in 1..n /\ i = Len(w) + (i - Len(w))
                BY <1>0, <2>2
            <4> QED BY ONLY <4>1
        <3>2. v[i].msg = m
            BY <3>0
        <3>3. PICK j \in 1..Len(sent) : h[k] = sent[j]
            BY DEF Kept
        <3>4. h[k].id = j
            BY <3>3 DEF Numbered
        <3> QED
            BY <1>0, <3>2, <3>4
    <2> QED
        BY <2>1, <2>2
<1>4. ASSUME NEW i \in 1..Len(sent'), sent'[i].effect # "invalid"
      PROVE  (\E k \in 1..Len(h) : h[k] = sent'[i]) \/ (\E k \in 1..Len(v) : v[k].last /\ v[k].msg = sent'[i])
    <2>1. CASE i \in 1..Len(sent)
        <3>1. (\E k \in 1..Len(h) : h[k] = sent[i]) \/ (\E k \in 1..Len(w) : w[k].last /\ w[k].msg = sent[i])
            BY <1>1, <1>4, <2>1 DEF Kept
        <3>2. \A k \in 1..Len(w) : k \in 1..Len(v)
            BY <1>0
        <3> QED
            BY <1>1, <2>1, <3>1, <3>2
    <2>2. CASE i \notin 1..Len(sent)
        <3>1. sent'[i] = m
            <4>1. i = Len(sent) + 1
                BY <1>0, <1>1, <2>2
            <4> QED
                BY <1>1, <4>1
        <3>2. n \in 1..n /\ Len(w) + n \in 1..Len(v)
            BY <1>0
        <3>3. v[Len(w) + n].last /\ v[Len(w) + n].msg = m
            BY <3>2
        <3> QED
            BY <3>1, <3>2, <3>3
    <2> QED
        BY <2>1, <2>2
<1>5. \A k \in 1..Len(h) : \A l \in 1..Len(h) : k < l => h[k].id < h[l].id
    BY DEF Kept
<1>6. h' = h
    OBVIOUS
<1> QED
    BY ONLY <1>2, <1>3, <1>4, <1>5, <1>6 DEF Kept

-----------------------------------------------------------------------------
\* The first line of what is on the way is one whole message; taking it off
\* leaves whole messages.
LEMMA LineWhole ==
    ASSUME NEW w, NEW e, Framed(w), e \in 1..Len(w), w[e].last, \A i \in 1..(e - 1) : ~w[i].last
    PROVE  \A i \in 1..e : w[i].msg = w[e].msg /\ w[i].nr = i
<1>0. Len(w) \in Nat /\ e \in Nat \ {0}
    BY DEF Framed
<1>1. WholeAt(w, e)
    BY DEF Framed
<1>2. PICK nr \in 1..e : nr = w[e].nr
    BY <1>1 DEF WholeAt
<1>3. e > nr => w[e - nr].last
    BY <1>1, <1>2 DEF WholeAt
<1>4. ~(e > nr)
    <2>1. e > nr => e - nr \in 1..(e - 1)
        BY <1>0
    <2> QED
        BY <1>3, <2>1
<1>5. nr = e
    BY <1>0, <1>4
<1>6. \A q \in 1..e : w[e - e + q].msg = w[e].msg /\ w[e - e + q].nr = q
    BY <1>1, <1>2, <1>5 DEF WholeAt
<1>7. \A q \in 1..e : e - e + q = q
    BY <1>0
<1> QED
    BY <1>6, <1>7

LEMMA FramedRest ==
    ASSUME NEW w, NEW v, NEW e, Framed(w), v \in Seq(Piece), e \in 1..Len(w), w[e].last, UNCHANGED sent,
           Len(v) = Len(w) - e, \A i \in 1..(Len(w) - e) : v[i] = w[e + i]
    PROVE  Framed(v)'
<1>0. Len(w) \in Nat /\ e \in Nat \ {0} /\ w \in Seq(Piece)
    BY DEF Framed
<1>1. \A i \in 1..Len(v) : e + i \in 1..Len(w) /\ v[i] = w[e + i]
    BY <1>0
<1>2. v # <<>> => v[Len(v)].last
    <2>1. v # <<>> => Len(v) \in 1..Len(v) /\ e + Len(v) = Len(w) /\ w # <<>>
        BY <1>0
    <2> QED
        BY <1>1, <2>1 DEF Framed
<1>3. \A i \in 1..Len(v) : \E j \in 1..Len(sent) : v[i].msg = sent[j]
    BY <1>1 DEF Framed
<1>4. ASSUME NEW i \in 1..Len(v), NEW j \in 1..Len(v), i < j
      PROVE  v[i].msg.id <= v[j].msg.id /\ (v[i].last => v[i].msg.id < v[j].msg.id)
    <2>1. e + i < e + j
        BY <1>0, <1>4
    <2> QED
        BY <1>1, <2>1 DEF Framed
<1>5. ASSUME NEW i \in 1..Len(v) PROVE WholeAt(v, i)
    <2> DEFINE k == e + i
    <2>1. WholeAt(w, k) /\ k \in Nat /\ v[i] = w[k] /\ k = e + i
        BY <1>0, <1>1 DEF Framed
    <2> HIDE DEF k
    <2>2. PICK nr \in 1..k : nr = w[k].nr
        BY <2>1 DEF WholeAt
    <2>3. /\ \A q \in 1..nr : /\ w[k - nr + q].msg = w[k].msg /\ w[k - nr + q].nr = q
                              /\ q < nr => ~w[k - nr + q].last
          /\ k > nr => w[k - nr].last
        BY <2>1, <2>2 DEF WholeAt
    <2>4. nr <= i
        <3>1. ASSUME nr > i PROVE FALSE
            <4>1. nr - i \in 1..nr /\ nr - i < nr /\ k - nr + (nr - i) = e
                BY <1>0, <2>1, <3>1
            <4> QED
                BY <2>3, <4>1
        <3> QED
            BY <1>0, <2>2, <3>1
    <2>5. \A q \in 1..nr : i - nr + q \in 1..Len(v) /\ e + (i - nr + q) = k - nr + q
        BY <1>0, <2>1, <2>4
    <2>6. i > nr => i - nr \in 1..Len(v) /\ e + (i - nr) = k - nr /\ k > nr
        BY <1>0, <2>1, <2>4
    <2>7. \A q \in 1..nr : v[i - nr + q] = w[k - nr + q]
        BY <1>1, <2>5
    <2>8. i > nr => v[i - nr] = w[k - nr] /\ k > nr
        BY <1>1, <2>6
    <2>9. /\ \A q \in 1..nr : /\ v[i - nr + q].msg = v[i].msg /\ v[i - nr + q].nr = q
                              /\ q < nr => ~v[i - nr + q].last
          /\ i > nr => v[i - nr].last
        BY ONLY ZenonT(40), <2>1, <2>3, <2>7, <2>8
    <2>10. v[i].nr = nr /\ nr \in 1..i
        BY <2>1, <2>2, <2>4
    <2> QED
        BY <2>9, <2>10 DEF WholeAt
<1> QED
    BY <1>2, <1>3, <1>4, <1>5 DEF Framed, WholeAt

\* A line that parses was handled, one that does not was no message to handle.
LEMMA KeptRest ==
    ASSUME NEW w, NEW v, NEW e, Framed(w), Numbered, Kept(w, handledMsgs), v \in Seq(Piece), handledMsgs \in Seq(Message),
           e \in 1..Len(w), w[e].last, \A i \in 1..(e - 1) : ~w[i].last, UNCHANGED sent,
           Len(v) = Len(w) - e, \A i \in 1..(Len(w) - e) : v[i] = w[e + i], w[e].msg \in Message,
           handledMsgs' = IF w[e].msg.effect = "invalid" THEN handledMsgs ELSE Append(handledMsgs, w[e].msg)
    PROVE  Kept(v, handledMsgs)'
<1>0. Len(w) \in Nat /\ e \in Nat \ {0} /\ w \in Seq(Piece) /\ Len(handledMsgs) \in Nat
    BY DEF Framed
<1>1. \A i \in 1..Len(v) : e + i \in 1..Len(w) /\ v[i] = w[e + i] /\ e < e + i
    BY <1>0
<1> DEFINE m == w[e].msg
           h == handledMsgs
<1> HIDE DEF m
<1>8. /\ \A k \in 1..Len(h) : \E i \in 1..Len(sent) : h[k] = sent[i]
      /\ \A k \in 1..Len(h) : \A l \in 1..Len(h) : k < l => h[k].id < h[l].id
      /\ \A k \in 1..Len(h) : \A i \in 1..Len(w) : h[k].id < w[i].msg.id
    BY DEF Kept
<1>10. ASSUME NEW x, handledMsgs' = x, Kept(v, x) PROVE Kept(v, handledMsgs)'
    <2>1. sent' = sent
        OBVIOUS
    <2>2. /\ \A k \in 1..Len(x) : \E i \in 1..Len(sent') : x[k] = sent'[i]
          /\ \A k \in 1..Len(x) : \A l \in 1..Len(x) : k < l => x[k].id < x[l].id
          /\ \A k \in 1..Len(x) : \A i \in 1..Len(v) : x[k].id < v[i].msg.id
          /\ \A i \in 1..Len(sent') : sent'[i].effect # "invalid" =>
               \/ \E k \in 1..Len(x) : x[k] = sent'[i]
               \/ \E k \in 1..Len(v) : v[k].last /\ v[k].msg = sent'[i]
        BY ONLY <1>10, <2>1 DEF Kept
    <2> QED
        BY ONLY <1>10, <2>2 DEF Kept
<1>9. \A k \in 1..Len(h) : \A i \in 1..Len(v) : h[k].id < v[i].msg.id
    BY <1>1, <1>8
<1>2. \A i \in 1..Len(v) : m.id < v[i].msg.id
    BY <1>1 DEF Framed, m
<1>3. PICK j \in 1..Len(sent) : m = sent[j] /\ m.id = j
    BY DEF Framed, Numbered, m
<1>4. \A k \in 1..Len(h) : h[k].id < m.id
    BY DEF Kept, m
\* What was on the way and is none of the line still is.
<1>5. ASSUME NEW i \in 1..Len(sent), NEW k \in 1..Len(w), w[k].last, w[k].msg = sent[i]
      PROVE  sent[i] = m \/ \E l \in 1..Len(v) : v[l].last /\ v[l].msg = sent[i]
    <2>1. CASE k <= e
        <3>1. k = e
            BY <1>0, <1>5, <2>1
        <3> QED
            BY <1>5, <3>1 DEF m
    <2>2. CASE k > e
        <3>1. PICK l \in 1..Len(v) : e + l = k
            <4>1. k - e \in 1..Len(v) /\ e + (k - e) = k
                BY SMTT(30), <1>0, <2>2
            <4> QED
                BY ONLY <4>1
        <3> QED
            BY <1>1, <1>5, <3>1
    <2> QED
        BY <1>0, <2>1, <2>2
<1>6. CASE m.effect = "invalid"
    <2>1. handledMsgs' = h
        BY <1>6 DEF m
    <2>2. ASSUME NEW i \in 1..Len(sent), sent[i].effect # "invalid"
          PROVE  (\E k \in 1..Len(h) : h[k] = sent[i]) \/ (\E k \in 1..Len(v) : v[k].last /\ v[k].msg = sent[i])
        <3>1. (\E k \in 1..Len(h) : h[k] = sent[i]) \/ (\E k \in 1..Len(w) : w[k].last /\ w[k].msg = sent[i])
            BY <2>2 DEF Kept
        <3>2. sent[i] # m
            BY <1>6, <2>2
        <3> QED
            BY <1>5, <3>1, <3>2
    <2>3. Kept(v, h)
        BY <1>8, <1>9, <2>2 DEF Kept
    <2> QED
        BY <1>10, <2>1, <2>3
<1>7. CASE m.effect # "invalid"
    <2> DEFINE g == Append(h, m)
    <2>1. handledMsgs' = g
        BY <1>7 DEF m
    <2>2. Len(g) = Len(h) + 1 /\ g[Len(h) + 1] = m /\ \A k \in 1..Len(h) : g[k] = h[k]
        BY <1>0
    <2> HIDE DEF g
    <2>3. \A k \in 1..Len(g) : k \in 1..Len(h) \/ k = Len(h) + 1
        BY <1>0, <2>2
    <2>4. \A k \in 1..Len(h) : k \in 1..Len(g)
        BY <1>0, <2>2
    <2>5. \A k \in 1..Len(g) : \E i \in 1..Len(sent) : g[k] = sent[i]
        BY ONLY <1>3, <1>8, <2>2, <2>3
    <2>6. ASSUME NEW k \in 1..Len(g), NEW l \in 1..Len(g), k < l PROVE g[k].id < g[l].id
        <3>1. k \in 1..Len(h)
            BY <1>0, <2>2, <2>6
        <3> QED
            BY <1>4, <1>8, <2>2, <2>3, <2>6, <3>1
    <2>7. \A k \in 1..Len(g) : \A i \in 1..Len(v) : g[k].id < v[i].msg.id
        BY <1>2, <1>9, <2>2, <2>3
    <2>8. ASSUME NEW i \in 1..Len(sent), sent[i].effect # "invalid"
          PROVE  (\E k \in 1..Len(g) : g[k] = sent[i]) \/ (\E k \in 1..Len(v) : v[k].last /\ v[k].msg = sent[i])
        <3>1. (\E k \in 1..Len(h) : h[k] = sent[i]) \/ (\E k \in 1..Len(w) : w[k].last /\ w[k].msg = sent[i])
            BY <2>8 DEF Kept
        <3>2. Len(h) + 1 \in 1..Len(g)
            BY <1>0, <2>2
        <3> QED
            BY <1>5, <2>2, <2>4, <3>1, <3>2
    <2>9. Kept(v, g)
        BY <2>5, <2>6, <2>7, <2>8 DEF Kept
    <2> QED
        BY <1>10, <2>1, <2>9
<1> QED
    BY <1>6, <1>7

-----------------------------------------------------------------------------
\* What the steps do to what is on the way.
LEMMA WayWritten ==
    ASSUME SocketTypeOK, WritePart
    PROVE  OnTheWay' = OnTheWay
<1> DEFINE h == Head(unwritten)
           t == Tail(unwritten)
<1>1. /\ h \in Piece /\ t \in Seq(Piece) /\ unwritten = <<h>> \o t
    BY HeadTailProperties DEF WritePart, SocketTypeOK
<1>2. readBuffer \in Seq(Piece) /\ stream \in Seq(Piece)
    BY DEF SocketTypeOK
<1> HIDE DEF h, t
<1>3. Append(stream, h) = stream \o <<h>> /\ <<h>> \in Seq(Piece)
    BY <1>1, <1>2, AppendIsConcat
<1>4. OnTheWay' = readBuffer \o (stream \o <<h>>) \o t
    BY <1>3 DEF WritePart, OnTheWay, h, t
<1>5. OnTheWay = readBuffer \o stream \o (<<h>> \o t)
    BY <1>1 DEF OnTheWay
<1>6. readBuffer \o (stream \o <<h>>) = (readBuffer \o stream) \o <<h>>
    BY <1>1, <1>2, <1>3, ConcatAssociative
<1>7. ((readBuffer \o stream) \o <<h>>) \o t = (readBuffer \o stream) \o (<<h>> \o t)
    BY <1>1, <1>2, <1>3, ConcatAssociative, ConcatProperties
<1> QED
    BY <1>4, <1>5, <1>6, <1>7

LEMMA WayRead ==
    ASSUME SocketTypeOK, ReadChunk
    PROVE  OnTheWay' = OnTheWay
<1>1. PICK n \in 1..Len(stream) : readBuffer' = readBuffer \o SubSeq(stream, 1, n) /\ stream' = SubSeq(stream, n + 1, Len(stream))
                                 /\ unwritten' = unwritten
    BY DEF ReadChunk
<1> DEFINE a == SubSeq(stream, 1, n)
           b == SubSeq(stream, n + 1, Len(stream))
<1>2. stream \in Seq(Piece) /\ readBuffer \in Seq(Piece) /\ Len(stream) \in Nat
    BY DEF SocketTypeOK
<1>3. a \o b = stream /\ a \in Seq(Piece) /\ b \in Seq(Piece)
    <2>1. n \in (1 - 1)..Len(stream) /\ 1 \in 1..(Len(stream) + 1)
          /\ n + 1 \in 1..(Len(stream) + 1) /\ Len(stream) \in ((n + 1) - 1)..Len(stream)
        BY <1>2
    <2>2. /\ a \in Seq(Piece) /\ Len(a) = n - 1 + 1 /\ \A i \in 1..(n - 1 + 1) : a[i] = stream[1 + i - 1]
          /\ b \in Seq(Piece) /\ Len(b) = Len(stream) - (n + 1) + 1
          /\ \A i \in 1..(Len(stream) - (n + 1) + 1) : b[i] = stream[(n + 1) + i - 1]
        BY <1>2, <2>1, PartOf
    <2> HIDE DEF a, b
    <2>3. Len(a) = n /\ Len(b) = Len(stream) - n
        BY <1>2, <2>2
    <2>4. /\ a \o b \in Seq(Piece) /\ Len(a \o b) = Len(a) + Len(b)
          /\ \A i \in 1..(Len(a) + Len(b)) : (a \o b)[i] = IF i <= Len(a) THEN a[i] ELSE b[i - Len(a)]
        BY <2>2, ConcatProperties
    <2> DEFINE ab == a \o b
    <2> HIDE DEF ab
    <2>5. ASSUME NEW i \in 1..Len(ab) PROVE ab[i] = stream[i]
        <3>1. Len(ab) = Len(stream)
            BY <1>2, <2>3, <2>4 DEF ab
        <3>2. CASE i <= n
            <4>1. i \in 1..(n - 1 + 1) /\ 1 + i - 1 = i /\ i \in 1..(Len(a) + Len(b))
                BY <1>2, <2>3, <3>1, <3>2
            <4> QED
                BY <2>2, <2>3, <2>4, <3>2, <4>1 DEF ab
        <3>3. CASE ~(i <= n)
            <4>1. i - n \in 1..(Len(stream) - (n + 1) + 1) /\ (n + 1) + (i - n) - 1 = i /\ i \in 1..(Len(a) + Len(b))
                BY <1>2, <2>3, <3>1, <3>3
            <4> QED
                BY <2>2, <2>3, <2>4, <3>3, <4>1 DEF ab
        <3> QED
            BY <3>2, <3>3
    <2>7. ab \in Seq(Piece) /\ Len(ab) = Len(stream)
        BY <1>2, <2>3, <2>4 DEF ab
    <2>6. ab = stream
        BY <1>2, <2>5, <2>7, SeqEqual
    <2> QED
        BY <2>2, <2>6 DEF ab
<1> HIDE DEF a, b
<1>4. OnTheWay' = ((readBuffer \o a) \o b) \o unwritten
    BY <1>1 DEF OnTheWay, a, b
<1>5. (readBuffer \o a) \o b = readBuffer \o (a \o b)
    <2>1. a \in Seq(Piece) /\ b \in Seq(Piece) /\ readBuffer \in Seq(Piece)
        BY <1>2, <1>3
    <2> QED
        BY ONLY <2>1, ConcatAssociative
<1> QED
    BY <1>3, <1>4, <1>5 DEF OnTheWay

LEMMA WaySent ==
    ASSUME SocketTypeOK, SocketTypeOK', NEW n \in Nat \ {0}, NEW m, unwritten = <<>>, UNCHANGED <<readBuffer, stream>>,
           unwritten' = [i \in 1..n |-> [msg |-> m, nr |-> i, last |-> i = n]]
    PROVE  /\ OnTheWay' \in Seq(Piece) /\ Len(OnTheWay)' = Len(OnTheWay) + n
           /\ \A i \in 1..Len(OnTheWay) : OnTheWay'[i] = OnTheWay[i]
           /\ \A i \in 1..n : OnTheWay'[Len(OnTheWay) + i].msg = m /\ OnTheWay'[Len(OnTheWay) + i].nr = i
           /\ \A i \in 1..n : OnTheWay'[Len(OnTheWay) + i].last <=> i = n
<1> DEFINE w == readBuffer \o stream
<1>1. w \in Seq(Piece) /\ unwritten' \in Seq(Piece)
    BY ConcatProperties DEF SocketTypeOK
<1>2. OnTheWay = w
    BY <1>1, ConcatEmptySeq DEF OnTheWay
<1>3. OnTheWay' = w \o unwritten'
    BY DEF OnTheWay
<1>4. Len(unwritten') = n /\ \A i \in 1..n : unwritten'[i] = [msg |-> m, nr |-> i, last |-> i = n]
    OBVIOUS
<1> HIDE DEF w
<1> DEFINE u == unwritten'
<1> HIDE DEF u
<1>5. /\ w \o u \in Seq(Piece) /\ Len(w \o u) = Len(w) + Len(u)
      /\ \A i \in 1..(Len(w) + Len(u)) : (w \o u)[i] = IF i <= Len(w) THEN w[i] ELSE u[i - Len(w)]
    BY <1>1, ConcatProperties DEF u
<1>6. Len(w) \in Nat /\ Len(u) = n
    BY <1>1, <1>4 DEF u
<1>7. \A i \in 1..Len(w) : (w \o u)[i] = w[i]
    BY <1>5, <1>6
<1>8. ASSUME NEW i \in 1..n PROVE (w \o u)[Len(w) + i] = u[i]
    <2>1. Len(w) + i \in 1..(Len(w) + Len(u)) /\ ~(Len(w) + i <= Len(w)) /\ (Len(w) + i) - Len(w) = i
        BY <1>6
    <2> QED
        BY <1>5, <2>1
<1>9. \A i \in 1..n : u[i].msg = m /\ u[i].nr = i /\ (u[i].last <=> i = n)
    BY <1>4 DEF u
<1> QED
    BY <1>2, <1>3, <1>5, <1>6, <1>7, <1>8, <1>9 DEF u

LEMMA WayTakenOff ==
    ASSUME SocketTypeOK, Ends(readBuffer) # {}, readBuffer' = RestOfBuffer, UNCHANGED <<stream, unwritten>>
    PROVE  /\ LineEnd \in 1..Len(OnTheWay) /\ OnTheWay[LineEnd].last /\ \A i \in 1..(LineEnd - 1) : ~OnTheWay[i].last
           /\ \A i \in 1..LineEnd : OnTheWay[i] = readBuffer[i]
           /\ OnTheWay' \in Seq(Piece) /\ Len(OnTheWay)' = Len(OnTheWay) - LineEnd
           /\ \A i \in 1..(Len(OnTheWay) - LineEnd) : OnTheWay'[i] = OnTheWay[LineEnd + i]
<1> DEFINE e == LineEnd
           t == stream \o unwritten
<1>1. /\ e \in 1..Len(readBuffer) /\ readBuffer[e].last /\ \A i \in 1..(e - 1) : ~readBuffer[i].last
      /\ readBuffer' \in Seq(Piece) /\ Len(readBuffer') = Len(readBuffer) - e
      /\ \A i \in 1..(Len(readBuffer) - e) : readBuffer'[i] = readBuffer[e + i]
    BY FirstEnd, LineTakenOff DEF SocketTypeOK
<1>2. readBuffer \in Seq(Piece) /\ stream \in Seq(Piece) /\ unwritten \in Seq(Piece)
    BY DEF SocketTypeOK
<1>3. t \in Seq(Piece) /\ OnTheWay = readBuffer \o t /\ OnTheWay' = readBuffer' \o t
    <2>1. t \in Seq(Piece)
        BY <1>2, ConcatProperties
    <2>2. \A s \in Seq(Piece) : (s \o stream) \o unwritten = s \o t
        BY <1>2, ConcatAssociative
    <2>3. OnTheWay = readBuffer \o t
        BY <1>2, <2>2 DEF OnTheWay
    <2>4. OnTheWay' = readBuffer' \o t
        <3>1. OnTheWay' = (readBuffer' \o stream) \o unwritten
            BY DEF OnTheWay
        <3> QED
            BY <1>1, <2>2, <3>1
    <2> QED
        BY <2>1, <2>3, <2>4
<1> HIDE DEF e, t
<1> DEFINE r == readBuffer
           v == readBuffer'
<1>4. Len(r) \in Nat /\ Len(t) \in Nat
    BY <1>2, <1>3
<1>5. /\ Len(r \o t) = Len(r) + Len(t)
      /\ \A i \in 1..(Len(r) + Len(t)) : (r \o t)[i] = IF i <= Len(r) THEN r[i] ELSE t[i - Len(r)]
    BY <1>2, <1>3, ConcatProperties
<1> HIDE DEF v
<1>6. /\ v \o t \in Seq(Piece) /\ Len(v \o t) = Len(v) + Len(t)
      /\ \A i \in 1..(Len(v) + Len(t)) : (v \o t)[i] = IF i <= Len(v) THEN v[i] ELSE t[i - Len(v)]
    <2>1. v \in Seq(Piece)
        BY <1>1 DEF v
    <2> QED
        BY ONLY <1>3, <2>1, ConcatProperties
<1>7. Len(v) = Len(r) - e /\ \A i \in 1..(Len(r) - e) : v[i] = r[e + i]
    BY <1>1 DEF v
<1> HIDE DEF r
<1>8. e \in 1..Len(r)
    BY <1>1 DEF r
<1>9. \A i \in 1..e : (r \o t)[i] = r[i]
    BY <1>4, <1>5, <1>8
<1>10. ASSUME NEW i \in 1..(Len(r) + Len(t) - e) PROVE (v \o t)[i] = (r \o t)[e + i]
    <2>1. i \in 1..(Len(v) + Len(t)) /\ e + i \in 1..(Len(r) + Len(t))
        BY <1>4, <1>7, <1>8
    <2>2. CASE i <= Len(v)
        <3>1. e + i <= Len(r) /\ i \in 1..(Len(r) - e)
            BY <1>4, <1>7, <1>8, <2>2
        <3> QED
            BY <1>5, <1>6, <1>7, <2>1, <2>2, <3>1
    <2>3. CASE ~(i <= Len(v))
        <3>1. ~(e + i <= Len(r)) /\ (e + i) - Len(r) = i - Len(v)
            BY <1>4, <1>7, <1>8, <2>3
        <3> QED
            BY <1>5, <1>6, <2>1, <2>3, <3>1
    <2> QED
        BY <2>2, <2>3
<1>11. Len(r \o t) = Len(r) + Len(t) /\ e \in 1..Len(r \o t) /\ Len(v \o t) = Len(r \o t) - e
    BY <1>4, <1>5, <1>6, <1>7, <1>8
<1>12. OnTheWay = r \o t /\ OnTheWay' = v \o t
    BY <1>3 DEF r, v
<1>13. (r \o t)[e].last /\ \A i \in 1..(e - 1) : ~(r \o t)[i].last
    <2>1. e \in 1..e /\ \A i \in 1..(e - 1) : i \in 1..e
        BY <1>4, <1>8
    <2> QED
        BY <1>1, <1>9, <2>1 DEF r
<1> QED
    BY <1>6, <1>9, <1>10, <1>11, <1>12, <1>13 DEF e, r

-----------------------------------------------------------------------------
LEMMA WayStays ==
    ASSUME SocketInv, OnTheWay' = OnTheWay, UNCHANGED <<sent, handledMsgs>>
    PROVE  (Numbered /\ Framed(OnTheWay) /\ Kept(OnTheWay, handledMsgs))'
BY DEF SocketInv, Numbered, Framed, WholeAt, Kept

LEMMA SocketInvStep ==
    ASSUME SocketInv, [SocketNext]_socketVars
    PROVE  SocketInv'
<1>0. SocketTypeOK /\ SocketTypeOK' /\ Numbered /\ Excused /\ Framed(OnTheWay) /\ Kept(OnTheWay, handledMsgs)
    BY SocketTyped DEF SocketInv
<1> DEFINE Way == Numbered /\ Framed(OnTheWay) /\ Kept(OnTheWay, handledMsgs)
<1>1. CASE Send
    <2>1. PICK effect \in Effects, n \in 1..MaxPieces :
            /\ unwritten = <<>> /\ sent' = Append(sent, [id |-> Len(sent) + 1, effect |-> effect])
            /\ unwritten' = [i \in 1..n |-> [msg |-> [id |-> Len(sent) + 1, effect |-> effect], nr |-> i, last |-> i = n]]
            /\ UNCHANGED <<stream, readBuffer, handledMsgs, controller, inCall, excused>>
        BY <1>1 DEF Send
    <2> DEFINE m == [id |-> Len(sent) + 1, effect |-> effect]
    <2>2. m.id = Len(sent) + 1 /\ n \in Nat \ {0} /\ sent \in Seq(Message) /\ handledMsgs \in Seq(Message)
        BY <1>0, SocketAssumption DEF SocketTypeOK
    <2>3. sent' = Append(sent, m) /\ unwritten' = [i \in 1..n |-> [msg |-> m, nr |-> i, last |-> i = n]]
        BY <2>1
    <2> HIDE DEF m
    <2> DEFINE w == OnTheWay
               v == OnTheWay'
    <2>4. /\ v \in Seq(Piece) /\ Len(v) = Len(w) + n
          /\ \A i \in 1..Len(w) : v[i] = w[i]
          /\ \A i \in 1..n : v[Len(w) + i].msg = m /\ v[Len(w) + i].nr = i
          /\ \A i \in 1..n : v[Len(w) + i].last <=> i = n
        <3>1. unwritten = <<>> /\ UNCHANGED <<readBuffer, stream>>
            BY <2>1
        <3> QED
            BY <1>0, <2>2, <2>3, <3>1, WaySent
    <2>5. PICK x, y : x = w /\ y = v
        OBVIOUS
    <2> HIDE DEF w, v
    <2>6. Framed(x) /\ Kept(x, handledMsgs)
        BY <1>0, <2>5 DEF w
    <2>7. /\ y \in Seq(Piece) /\ Len(y) = Len(x) + n
          /\ \A i \in 1..Len(x) : y[i] = x[i]
          /\ \A i \in 1..n : y[Len(x) + i].msg = m /\ y[Len(x) + i].nr = i /\ (y[Len(x) + i].last <=> i = n)
        BY <2>4, <2>5
    <2>8. UNCHANGED handledMsgs
        BY <2>1
    <2>9. Framed(y)' /\ Numbered'
        BY <1>0, <2>2, <2>3, <2>6, <2>7, FramedSent
    <2>10. Kept(y, handledMsgs)'
        BY <1>0, <2>2, <2>3, <2>6, <2>7, <2>8, KeptSent
    <2>11. Way'
        BY <2>5, <2>9, <2>10 DEF v
    <2>12. Excused'
        BY <1>0, <2>1 DEF Excused, Ends
    <2> QED
        BY <1>0, <2>11, <2>12 DEF SocketInv
<1>2. CASE WritePart
    <2>1. Way'
        BY <1>0, <1>2, WayWritten, WayStays DEF WritePart
    <2>2. Excused'
        BY <1>0, <1>2 DEF Excused, Ends, WritePart
    <2> QED
        BY <1>0, <2>1, <2>2 DEF SocketInv
<1>3. CASE ReadChunk
    <2>1. Way'
        BY <1>0, <1>3, WayRead, WayStays DEF ReadChunk
    <2>2. Excused'
        BY <1>3 DEF Excused, ReadChunk
    <2> QED
        BY <1>0, <2>1, <2>2 DEF SocketInv
<1>4. CASE HandleLine
    <2> DEFINE e == LineEnd
               w == OnTheWay
               v == OnTheWay'
    <2>1. Ends(readBuffer) # {} /\ readBuffer' = RestOfBuffer /\ UNCHANGED <<stream, unwritten>> /\ UNCHANGED sent
        BY <1>4 DEF HandleLine
    <2>2. /\ e \in 1..Len(w) /\ w[e].last /\ \A i \in 1..(e - 1) : ~w[i].last
          /\ \A i \in 1..e : w[i] = readBuffer[i]
          /\ v \in Seq(Piece) /\ Len(v) = Len(w) - e
          /\ \A i \in 1..(Len(w) - e) : v[i] = w[e + i]
        BY <1>0, <2>1, WayTakenOff
    <2>3. PICK x, y, l : x = w /\ y = v /\ l = e
        OBVIOUS
    <2> HIDE DEF w, v, e
    <2>4. Framed(x) /\ Kept(x, handledMsgs) /\ handledMsgs \in Seq(Message) /\ x \in Seq(Piece)
        BY <1>0, <2>3 DEF w, SocketTypeOK, Framed
    <2>5. /\ l \in 1..Len(x) /\ x[l].last /\ \A i \in 1..(l - 1) : ~x[i].last
          /\ \A i \in 1..l : x[i] = readBuffer[i]
          /\ y \in Seq(Piece) /\ Len(y) = Len(x) - l
          /\ \A i \in 1..(Len(x) - l) : y[i] = x[l + i]
        BY <2>2, <2>3
    <2>6. \A i \in 1..l : x[i].msg = x[l].msg /\ x[i].nr = i
        BY ONLY ZenonT(40), <2>4, <2>5, LineWhole
    <2>7. x[l] = readBuffer[l] /\ x[l].msg \in Message
        <3>1. l \in 1..l /\ l \in 1..Len(x)
            BY <2>4, <2>5
        <3>2. x[l] \in Piece
            BY <2>4, <3>1
        <3> QED
            BY <2>5, <3>1, <3>2 DEF Piece
    <2>8. LineParses <=> x[l].msg.effect # "invalid"
        <3>1. LineParses <=> readBuffer[l].msg.effect # "invalid"
                             /\ \A i \in 1..l : readBuffer[i].msg = readBuffer[l].msg /\ readBuffer[i].nr = i
            BY <2>3 DEF LineParses, e
        <3> QED
            BY <2>5, <2>6, <2>7, <3>1
    <2>9. handledMsgs' = IF x[l].msg.effect = "invalid" THEN handledMsgs ELSE Append(handledMsgs, x[l].msg)
        BY <1>4, <2>3, <2>7, <2>8 DEF HandleLine, e
    <2>10. Framed(y)'
        BY <2>1, <2>4, <2>5, FramedRest
    <2>11. Kept(y, handledMsgs)'
        BY <1>0, <2>1, <2>4, <2>5, <2>7, <2>9, KeptRest
    <2>12. Way'
        BY <1>0, <2>1, <2>3, <2>10, <2>11 DEF v, Numbered
    <2>13. Excused'
        BY <1>4 DEF Excused, HandleLine
    <2> QED
        BY <1>0, <2>12, <2>13 DEF SocketInv
<1>5. CASE ReadDone \/ CloseSocket \/ UNCHANGED socketVars
    <2>1. UNCHANGED <<sent, unwritten, stream, readBuffer, handledMsgs, excused>>
        BY <1>5 DEF ReadDone, CloseSocket, socketVars
    <2>2. Way'
        BY <1>0, <2>1, WayStays DEF OnTheWay, SocketInv
    <2>3. Excused'
        BY <1>0, <1>5, <2>1 DEF Excused, ReadDone, CloseSocket, socketVars
    <2> QED
        BY <1>0, <2>2, <2>3 DEF SocketInv
<1> QED
    BY <1>1, <1>2, <1>3, <1>4, <1>5 DEF SocketNext

LEMMA FramesByInv == SocketInv => FramesKept
<1> SUFFICES ASSUME SocketInv PROVE FramesKept
    OBVIOUS
<1> DEFINE w == OnTheWay
           h == handledMsgs
<1>0. /\ SocketTypeOK /\ Numbered /\ Excused /\ Framed(w) /\ Kept(w, h)
      /\ DOMAIN sent = 1..Len(sent) /\ DOMAIN h = 1..Len(h) /\ DOMAIN w = 1..Len(w)
    BY DEF SocketInv, SocketTypeOK, Framed
<1> HIDE DEF w
<1>1. ASSUME NEW i \in 1..Len(sent), NEW k \in 1..Len(h), NEW c \in 1..Len(w), w[c].msg = sent[i]
      PROVE  ~(h[k].id > i) /\ h[k] # sent[i]
    <2>1. h[k].id < w[c].msg.id /\ w[c].msg.id = i
        BY <1>0, <1>1 DEF Kept, Numbered
    <2>2. PICK j \in 1..Len(sent) : h[k] = sent[j]
        BY <1>0 DEF Kept
    <2>3. h[k].id = j
        BY <1>0, <2>2 DEF Numbered
    <2>4. i \in Nat /\ j \in Nat /\ sent[i].id = i
        BY <1>0 DEF Numbered
    <2> QED
        BY <2>1, <2>2, <2>3, <2>4
<1>2. ASSUME NEW i \in 1..Len(sent), sent[i].effect # "invalid"
      PROVE  HandledIn(i) \/ ComingIn(i)
    BY <1>0, <1>2 DEF Kept, HandledIn, ComingIn, Ends, w
<1>3. ASSUME NEW i \in 1..Len(sent), ComingIn(i)
      PROVE  ~HandledIn(i) /\ ~\E k \in 1..Len(h) : h[k].id > i
    <2>1. PICK c \in 1..Len(w) : w[c].msg = sent[i]
        BY <1>0, <1>3 DEF ComingIn, Ends, w
    <2> QED
        BY <1>0, <1>1, <2>1 DEF HandledIn
<1>4. \A i \in DOMAIN sent : sent[i].effect # "invalid" =>
         /\ (\E k \in DOMAIN handledMsgs : handledMsgs[k].id > i) => HandledIn(i)
         /\ controller = "listening" => (HandledIn(i) <=> ~ComingIn(i))
    BY <1>0, <1>2, <1>3
<1>5. \A k \in DOMAIN h : \E i \in DOMAIN sent : h[k] = sent[i]
    BY <1>0 DEF Kept
<1>6. \A k \in DOMAIN h : \A l \in DOMAIN h : k < l => h[k].id < h[l].id
    BY <1>0 DEF Kept
<1> QED
    BY <1>0, <1>4, <1>5, <1>6 DEF FramesKept, Excused

\* For any messages, cut into any pieces by partial writes and reads, and whichever
\* handlers raise or close the connection: every message that parses is handled
\* once and in order, or its line is still to come, and a line waits in the buffer
\* only behind a handler that raised (SocketMsgController.send, _read_available).
THEOREM FramingSurvives == SocketSpec => []FramesKept
<1>1. SocketInit => SocketInv
    <2> SUFFICES ASSUME SocketInit PROVE SocketInv
        OBVIOUS
    <2>1. OnTheWay = <<>>
        BY ConcatEmptySeq DEF SocketInit, OnTheWay
    <2>2. SocketTypeOK /\ Numbered /\ Excused
        <3>1. sent = <<>> /\ readBuffer = <<>> /\ DOMAIN readBuffer = {}
            BY DEF SocketInit
        <3>2. \A i \in 1..Len(sent) : FALSE
            BY <3>1
        <3>3. SocketTypeOK
            BY EmptySeq DEF SocketInit, SocketTypeOK
        <3> QED
            BY <3>1, <3>2, <3>3 DEF Numbered, Excused, Ends
    <2>3. Framed(<<>>) /\ Kept(<<>>, handledMsgs)
        BY DEF SocketInit, Framed, Kept
    <2> QED
        BY <2>1, <2>2, <2>3 DEF SocketInv
<1>2. SocketInv /\ [SocketNext]_socketVars => SocketInv'
    BY SocketInvStep
<1> QED
    BY <1>1, <1>2, FramesByInv, PTL DEF SocketSpec
=============================================================================
