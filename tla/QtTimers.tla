---- MODULE QtTimers ----
(***************************************************************************)
(* Scheduled calls in the app's process.  Timers live on the main thread;  *)
(* another thread has its timer set up, or stopped, by a closure queued    *)
(* there, and marks a call cancelled right away.  Python switches threads  *)
(* between any two of these steps.                                         *)
(***************************************************************************)
EXTENDS Naturals, Sequences, FiniteSets

CONSTANTS
    Contexts,   \* scheduled calls: the Context objects of a behaviour
    Intervals,  \* those that repeat
    MainThread,       \* the thread of the Qt loop
    Workers,    \* the other threads that schedule or cancel
    MaxRuns,    \* bound: how often an interval fires
    None        \* no call

ASSUME TimersAssumption == MainThread \notin Workers /\ Intervals \subseteq Contexts

VARIABLES
    contexts,       \* the contexts that exist
    cancelled,  \* those whose _cancelled is set
    cleanup,    \* those whose _cleanup is set
    armed,      \* those whose QTimer runs
    queue,      \* closures queued on the main thread: [does, context]
    main,       \* what the main thread is at: [at, context]
    taking,     \* a worker between marking a call cancelled and taking its _cleanup
    runs,       \* how often each was called
    refused     \* ghost: those whose cancel() had returned, but for a call that was starting

timerVars == <<contexts, cancelled, cleanup, armed, queue, main, taking, runs, refused>>

MainIdle == [at |-> "loop", context |-> None]
At(step, c) == [at |-> step, context |-> c]

TimersTypeOK ==
    /\ contexts \subseteq Contexts /\ cancelled \subseteq contexts /\ cleanup \subseteq contexts
    /\ armed \subseteq contexts /\ refused \subseteq cancelled
    /\ queue \in Seq([does : {"setup", "stop"}, context : contexts])
    /\ main \in [at : {"loop", "setup", "arm", "fire", "call", "called"}, context : contexts \cup {None}]
    /\ taking \in [Workers -> contexts \cup {None}]
    /\ runs \in [Contexts -> 0 .. MaxRuns]

(***************************************************************************)
(* timer, interval, run_when_idle.                                         *)
(***************************************************************************)
Post(does, c) == queue' = Append(queue, [does |-> does, context |-> c])

ScheduleHere(c) ==
    /\ main.at \in {"loop", "called"} /\ c \notin contexts
    /\ contexts' = contexts \cup {c} /\ cleanup' = cleanup \cup {c} /\ armed' = armed \cup {c}
    /\ UNCHANGED <<cancelled, queue, main, taking, runs, refused>>

ScheduleThere(w, c) ==
    /\ taking[w] = None /\ c \notin contexts
    /\ contexts' = contexts \cup {c}
    /\ Post("setup", c)
    /\ UNCHANGED <<cancelled, cleanup, armed, main, taking, runs, refused>>

(* A queued closure; setting up looks at _cancelled first and arms after. *)
RunQueued ==
    /\ main = MainIdle /\ queue # <<>>
    /\ queue' = Tail(queue)
    /\ LET q == Head(queue)
       IN  IF q.does = "stop" THEN armed' = armed \ {q.context} /\ UNCHANGED main
           ELSE main' = At("setup", q.context) /\ UNCHANGED armed
    /\ UNCHANGED <<contexts, cancelled, cleanup, taking, runs, refused>>

LookSetup ==
    /\ main.at = "setup"
    /\ main' = IF main.context \in cancelled THEN MainIdle ELSE At("arm", main.context)
    /\ UNCHANGED <<contexts, cancelled, cleanup, armed, queue, taking, runs, refused>>

Arm ==
    /\ main.at = "arm"
    /\ cleanup' = cleanup \cup {main.context} /\ armed' = armed \cup {main.context}
    /\ main' = MainIdle
    /\ UNCHANGED <<contexts, cancelled, queue, taking, runs, refused>>

(* Mutant: the timer of the call is not stopped. *)
FinishOnly(c) ==
    /\ armed' = armed /\ cleanup' = cleanup \ {c}
    /\ main' = MainIdle
(***************************************************************************)
(* A timer fires: _run_once looks at _cancelled, calls, and looks again.   *)
(***************************************************************************)
Finish(c) ==
    /\ armed' = armed \ {c} /\ cleanup' = cleanup \ {c}
    /\ main' = MainIdle

Fire(c) ==
    /\ main = MainIdle /\ c \in armed /\ (c \in cancelled \/ runs[c] < MaxRuns)
    /\ main' = At("fire", c)
    /\ UNCHANGED <<contexts, cancelled, cleanup, armed, queue, taking, runs, refused>>

(* Mutant: a call that fires is not looked at again. *)
FireAnyway ==
    /\ main.at = "fire"
    /\ main' = At("call", main.context)
    /\ UNCHANGED <<contexts, cancelled, cleanup, armed, queue, taking, runs, refused>>
LookFire ==
    /\ main.at = "fire"
    /\ IF main.context \in cancelled THEN Finish(main.context)
       ELSE main' = At("call", main.context) /\ UNCHANGED <<armed, cleanup>>
    /\ UNCHANGED <<contexts, cancelled, queue, taking, runs, refused>>

Call ==
    /\ main.at = "call"
    /\ runs' = [runs EXCEPT ![main.context] = @ + 1]
    /\ main' = At("called", main.context)
    /\ UNCHANGED <<contexts, cancelled, cleanup, armed, queue, taking, refused>>

Called ==
    /\ main.at = "called"
    /\ IF main.context \in Intervals \ cancelled
       THEN main' = MainIdle /\ UNCHANGED <<cancelled, armed, cleanup>>
       ELSE cancelled' = cancelled \cup {main.context} /\ Finish(main.context)
    /\ UNCHANGED <<contexts, queue, taking, runs, refused>>

(***************************************************************************)
(* cancel, on the main thread between or inside calls, or on another.      *)
(***************************************************************************)
Mark(c) == cancelled' = cancelled \cup {c}
Refuse(c) == refused' = IF main.at = "call" /\ main.context = c THEN refused ELSE refused \cup {c}

CancelHere(c) ==
    /\ main.at \in {"loop", "called"} /\ c \in contexts \ cancelled
    /\ Mark(c)
    /\ armed' = IF c \in cleanup THEN armed \ {c} ELSE armed
    /\ cleanup' = cleanup \ {c}
    /\ Refuse(c)
    /\ UNCHANGED <<contexts, queue, main, taking, runs>>

CancelThere(w, c) ==
    /\ taking[w] = None /\ c \in contexts \ cancelled
    /\ Mark(c)
    /\ taking' = [taking EXCEPT ![w] = c]
    /\ UNCHANGED <<contexts, cleanup, armed, queue, main, runs, refused>>

TakeCleanup(w) ==
    /\ taking[w] # None
    /\ LET c == taking[w]
       IN  /\ IF c \in cleanup THEN Post("stop", c) ELSE UNCHANGED queue
           /\ cleanup' = cleanup \ {c}
           /\ Refuse(c)
    /\ taking' = [taking EXCEPT ![w] = None]
    /\ UNCHANGED <<contexts, cancelled, armed, main, runs>>

TimersInit ==
    /\ contexts = {} /\ cancelled = {} /\ cleanup = {} /\ armed = {} /\ queue = <<>> /\ main = MainIdle
    /\ taking = [w \in Workers |-> None] /\ runs = [c \in Contexts |-> 0] /\ refused = {}

MainSteps == RunQueued \/ LookSetup \/ Arm \/ (\E c \in armed : Fire(c)) \/ LookFire \/ Call \/ Called

TimersNext ==
    \/ MainSteps
    \/ \E c \in Contexts : ScheduleHere(c) \/ CancelHere(c)
    \/ \E w \in Workers : TakeCleanup(w) \/ \E c \in Contexts : ScheduleThere(w, c) \/ CancelThere(w, c)

TimersSpec == TimersInit /\ [][TimersNext]_timerVars
TimersFairness == WF_timerVars(MainSteps) /\ \A w \in Workers : WF_timerVars(TakeCleanup(w))

(***************************************************************************)
(* Once cancel() has returned, the call does not start again, also when    *)
(* its timer was being set up or had just fired (a call past its last look *)
(* at _cancelled is let through); and a call that does not repeat starts   *)
(* once (Context, _schedule_qt_timer).                                     *)
(***************************************************************************)
CallsAllowed ==
    [][\A c \in Contexts : runs'[c] # runs[c] => c \notin refused /\ (c \in Intervals \/ runs[c] = 0)]_timerVars

(***************************************************************************)
(* The timer of a cancelled call stops in the end, even if the call was    *)
(* cancelled while the main thread set the timer up (Context.cancel,       *)
(* _schedule_qt_timer).                                                    *)
(***************************************************************************)
CancelledStops == \A c \in Contexts : c \in cancelled ~> c \notin armed
====
