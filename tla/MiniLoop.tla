------------------------------ MODULE MiniLoop ------------------------------
(* The event loop of an extension process. Handler threads hand callbacks to   *)
(* the loop's thread through a locked list and a wake-up pipe, while the loop  *)
(* moves between its timer heap and a blocking select.                         *)
EXTENDS Naturals, Sequences

CONSTANTS Threads,   \* the threads besides the loop's own
          Main,      \* the loop's own thread
          Delays,    \* delays of call_later; 0 is call_soon
          MaxClock,  \* bound on time
          MaxCalls   \* bound on the callbacks scheduled
ASSUME LoopAssumption == Main \notin Threads /\ Delays \subseteq Nat /\ MaxClock \in Nat /\ MaxCalls \in Nat

VARIABLES clock, heap, handed, wakePipe, looping, keepRunning, deadline, caller, callsMade, callsRan
loopVars == <<clock, heap, handed, wakePipe, looping, keepRunning, deadline, caller, callsMade, callsRan>>

Everybody == Threads \union {Main}
\* _TimerEntry, with the thread that made it and the delay it asked for.
HeapEntry == [by: Everybody, delay: Delays, due: Nat, order: Nat]
Never == MaxClock + 1   \* select without a timeout

LoopTypeOK ==
    /\ clock \in 0..MaxClock /\ deadline \in Nat
    /\ heap \subseteq HeapEntry                    \* _timers
    /\ handed \in Seq(HeapEntry)                   \* _pending
    /\ {wakePipe, keepRunning} \subseteq BOOLEAN    \* the self-pipe; _running
    /\ looping \in {"not yet", "pull", "run", "select", "drain", "ended"}
    /\ caller \in [Threads -> [at: {"rest", "append", "wake"}, entry: Seq(HeapEntry)]]
    /\ callsMade \in 0..MaxCalls                    \* _counter
    /\ callsRan \in Seq(HeapEntry)                      \* what has run, in order

LoopInit ==
    /\ clock = 0 /\ heap = {} /\ handed = <<>> /\ wakePipe = FALSE
    /\ looping = "not yet" /\ keepRunning = FALSE /\ deadline = Never
    /\ caller = [t \in Threads |-> [at |-> "rest", entry |-> <<>>]]
    /\ callsMade = 0 /\ callsRan = <<>>

-----------------------------------------------------------------------------
New(t, delay) == [by |-> t, delay |-> delay, due |-> clock + delay, order |-> callsMade]
Counted == callsMade < MaxCalls /\ callsMade' = callsMade + 1

\* call_later: the loop's own thread pushes on the heap, as everybody does before
\* the loop runs; a handler thread takes the lock, appends, and writes to the pipe.
ScheduleFirst(delay) ==
    /\ looping = "not yet" /\ Counted /\ heap' = heap \union {New(Main, delay)}
    /\ UNCHANGED <<clock, handed, wakePipe, looping, keepRunning, deadline, caller, callsRan>>
CallLater(t, delay) ==
    /\ looping \notin {"not yet", "ended"} /\ caller[t].at = "rest" /\ Counted
    /\ caller' = [caller EXCEPT ![t] = [at |-> "append", entry |-> <<New(t, delay)>>]]
    /\ UNCHANGED <<clock, heap, handed, wakePipe, looping, keepRunning, deadline, callsRan>>
\* Mutant: the pipe is not written to.
AppendQuietly(t) ==
    /\ caller[t].at = "append" /\ handed' = handed \o caller[t].entry
    /\ caller' = [caller EXCEPT ![t] = [at |-> "rest", entry |-> <<>>]]
    /\ UNCHANGED <<clock, heap, wakePipe, looping, keepRunning, deadline, callsMade, callsRan>>
AppendHanded(t) ==
    /\ caller[t].at = "append" /\ handed' = handed \o caller[t].entry
    /\ caller' = [caller EXCEPT ![t] = [at |-> "wake", entry |-> <<>>]]
    /\ UNCHANGED <<clock, heap, wakePipe, looping, keepRunning, deadline, callsMade, callsRan>>
Wakeup(t) ==
    /\ caller[t].at = "wake" /\ wakePipe' = TRUE
    /\ caller' = [caller EXCEPT ![t].at = "rest"]
    /\ UNCHANGED <<clock, heap, handed, looping, keepRunning, deadline, callsMade, callsRan>>
\* quit, by a thread whose send failed; Client.unload asks is_running first.
QuitLoop(t) ==
    /\ caller[t].at = "rest" /\ keepRunning /\ keepRunning' = FALSE
    /\ caller' = [caller EXCEPT ![t].at = "wake"]
    /\ UNCHANGED <<clock, heap, handed, wakePipe, looping, deadline, callsMade, callsRan>>

-----------------------------------------------------------------------------
RunLoop ==
    /\ looping = "not yet" /\ looping' = "pull" /\ keepRunning' = TRUE
    /\ UNCHANGED <<clock, heap, handed, wakePipe, deadline, caller, callsMade, callsRan>>

PullPending ==
    /\ looping = "pull" /\ looping' = "run"
    /\ heap' = heap \union {handed[i] : i \in DOMAIN handed} /\ handed' = <<>>
    /\ UNCHANGED <<clock, wakePipe, keepRunning, deadline, caller, callsMade, callsRan>>

Before(a, b) == a.due < b.due \/ (a.due = b.due /\ a.order < b.order)
First(e) == e \in heap /\ \A other \in heap : ~Before(other, e)

\* A due callback runs and may schedule another; a repeating one goes back on
\* the heap, counted from now.
RunDue == \E e \in heap :
    /\ looping = "run" /\ First(e) /\ e.due <= clock
    /\ looping' = "pull" /\ callsRan' = Append(callsRan, e)
    /\ \/ heap' = heap \ {e} /\ callsMade' = callsMade
       \/ \E delay \in Delays : Counted /\ heap' = (heap \ {e}) \union {New(Main, delay)}
    /\ UNCHANGED <<clock, handed, wakePipe, keepRunning, deadline, caller>>

NothingDue ==
    /\ looping = "run" /\ \A e \in heap : e.due > clock
    /\ deadline' = IF heap = {} THEN Never ELSE (CHOOSE e \in heap : First(e)).due
    /\ looping' = IF keepRunning THEN "select" ELSE "ended"
    /\ UNCHANGED <<clock, heap, handed, wakePipe, keepRunning, caller, callsMade, callsRan>>

\* select returns for the pipe, which is drained, for a watched descriptor, or
\* because the next timer is due.
SelectReturns ==
    /\ looping = "select" /\ (wakePipe \/ deadline <= clock)
    /\ looping' = IF wakePipe THEN "drain" ELSE "pull"
    /\ UNCHANGED <<clock, heap, handed, wakePipe, keepRunning, deadline, caller, callsMade, callsRan>>
DrainWakeup ==
    /\ looping = "drain" /\ wakePipe' = FALSE
    /\ looping' = IF keepRunning THEN "pull" ELSE "ended"
    /\ UNCHANGED <<clock, heap, handed, keepRunning, deadline, caller, callsMade, callsRan>>
\* The callback of a descriptor schedules work and may ask the loop to quit.
DescriptorReady ==
    /\ looping = "select" /\ keepRunning' \in {keepRunning, FALSE}
    /\ wakePipe' = (wakePipe \/ keepRunning' # keepRunning)
    /\ \E delay \in Delays : Counted /\ heap' = heap \union {New(Main, delay)}
    /\ looping' = IF keepRunning' THEN "pull" ELSE "ended"
    /\ UNCHANGED <<clock, handed, deadline, caller, callsRan>>

TimePasses ==
    /\ clock < MaxClock /\ clock' = clock + 1
    /\ UNCHANGED <<heap, handed, wakePipe, looping, keepRunning, deadline, caller, callsMade, callsRan>>

LoopNext ==
    \/ \E t \in Threads : (\E d \in Delays : CallLater(t, d)) \/ AppendHanded(t) \/ Wakeup(t) \/ QuitLoop(t)
    \/ (\E d \in Delays : ScheduleFirst(d)) \/ RunLoop \/ DescriptorReady \/ PullPending \/ RunDue \/ NothingDue \/ SelectReturns \/ DrainWakeup \/ TimePasses
LoopSpec == LoopInit /\ [][LoopNext]_loopVars

-----------------------------------------------------------------------------
\* The loop does not sleep on work: while it blocks in select, a callback that
\* was handed over, or a request to quit, has its wake-up byte written or about
\* to be (the order of append and wake-up against drain and pull).
WakeupComing == wakePipe \/ \E t \in Threads : caller[t].at = "wake"
NoSleepOnWork == looping = "select" /\ (handed # <<>> \/ ~keepRunning) => WakeupComing

\* What one thread hands over with the same delay runs in the order in which it
\* was scheduled: the batches of a handler thread reach the app in order.
HandedInOrder == \A i, j \in DOMAIN callsRan :
    i < j /\ callsRan[i].by = callsRan[j].by /\ callsRan[i].delay = callsRan[j].delay => callsRan[i].order < callsRan[j].order

\* Both together: no callback is left lying, and none overtakes another.
CallsServed == NoSleepOnWork /\ HandedInOrder
=============================================================================
