---------------------------- MODULE ExtensionExit ----------------------------
(* How the app notices that an extension process ended: the watches of its     *)
(* socket and of its two output streams, each of which stops itself when its   *)
(* peer hangs up, and the poll that reports the exit once.                     *)
EXTENDS Naturals, FiniteSets

CONSTANTS Chatty,  \* the sets of descriptors one process may write to
          Errors   \* the last lines a process may leave on stderr
Streams == {"stdout", "stderr"}
Descriptors == Streams \union {"socket"}
ASSUME ExitAssumption ==
    /\ Chatty \subseteq SUBSET Descriptors
    /\ Errors \subseteq {"plain", "module", "internals", "unquoted"}

VARIABLES chatty, childAlive, aborted, unread, watched, dispatched, eofSeen, stderrTail, polling, exit
exitVars == <<chatty, childAlive, aborted, unread, watched, dispatched, eofSeen, stderrTail, polling, exit>>

NoError == "none"
Causes == {"Stopped", "MissingInternals", "MissingModule", "ErrorExit"}
ExitTypeOK ==
    /\ chatty \in Chatty
    /\ {childAlive, aborted, polling} \subseteq BOOLEAN  \* aborted_subprocesses; _exit_poll
    /\ unread \in [Descriptors -> Errors \union {NoError, "text"}]  \* written, not yet read
    /\ watched \subseteq Descriptors                  \* watches that still exist
    /\ dispatched \subseteq Descriptors /\ Cardinality(dispatched) <= 1  \* inside a dispatch
    /\ eofSeen \subseteq Descriptors                  \* on_close fired, streams ended
    /\ stderrTail \in Errors \union {NoError}         \* _recent_errors
    /\ exit \in {"none", "raised"} \union Causes      \* _exit_handled, and what was reported

ExitInit ==
    /\ chatty \in Chatty /\ childAlive = TRUE /\ aborted = FALSE
    /\ unread = [d \in Descriptors |-> NoError] /\ watched = Descriptors /\ dispatched = {}
    /\ eofSeen = {} /\ stderrTail = NoError /\ polling = FALSE /\ exit = "none"

-----------------------------------------------------------------------------
\* The process writes, and ends when it wants, when its socket was closed, or
\* at the latest when it is killed half a second after that.
ChildWrites == \E d \in chatty : \E text \in (IF d = "stderr" THEN Errors ELSE {"text"}) :
    /\ childAlive /\ unread[d] = NoError /\ unread' = [unread EXCEPT ![d] = text]
    /\ UNCHANGED <<chatty, childAlive, aborted, watched, dispatched, eofSeen, stderrTail, polling, exit>>
ChildEnds ==
    /\ childAlive /\ childAlive' = FALSE
    /\ UNCHANGED <<chatty, aborted, unread, watched, dispatched, eofSeen, stderrTail, polling, exit>>

\* handle_exit names the cause; split("'")[1] has nothing to index when the
\* line holds no quotes, and the exit is then never reported.
ExitCause(asked, error) ==
    CASE asked -> "Stopped"
      [] ~asked /\ error = "unquoted" -> "raised"
      [] ~asked /\ error = "internals" -> "MissingInternals"
      [] ~asked /\ error = "module" -> "MissingModule"
      [] OTHER -> "ErrorExit"

\* handle_exit closes the controller; the check its on_close schedules finds the
\* exit handled.
Exits(error, watches) ==
    /\ exit' = ExitCause(aborted, error)
    /\ polling' = FALSE /\ watched' = watches \ {"socket"}

\* _schedule_exit_check: starts to poll, and polls at once.
ScheduleExitCheck(error, watches) ==
    IF exit # "none" \/ polling THEN UNCHANGED <<exit, polling>> /\ watched' = watches
    ELSE IF childAlive THEN exit' = exit /\ polling' = TRUE /\ watched' = watches
    ELSE Exits(error, watches)

\* Mutant: the stream that ends now is not counted.
CallsForCheckBefore(d, seen) == IF d = "socket" THEN d \notin seen ELSE Streams \subseteq seen
\* The connection closes once; a stream's end counts when the other ended too.
CallsForCheck(d, seen) == IF d = "socket" THEN d \notin seen ELSE Streams \subseteq seen \union {d}

\* stop(): the controller is closed, with its watch, and its on_close runs.
StopProcess ==
    /\ dispatched = {} /\ childAlive /\ ~aborted /\ aborted' = TRUE
    /\ eofSeen' = eofSeen \union {"socket"}
    /\ IF CallsForCheck("socket", eofSeen) THEN ScheduleExitCheck(stderrTail, watched \ {"socket"})
       ELSE UNCHANGED <<exit, polling>> /\ watched' = watched \ {"socket"}
    /\ UNCHANGED <<chatty, childAlive, unread, dispatched, stderrTail>>

\* A ready descriptor is dispatched: what was written is read, and only a read
\* that finds nothing is the end of the stream.
ReadDescriptor == \E d \in watched :
    /\ dispatched = {} /\ unread[d] # NoError
    /\ stderrTail' = IF d = "stderr" THEN unread[d] ELSE stderrTail
    /\ unread' = [unread EXCEPT ![d] = NoError] /\ dispatched' = {d}
    /\ UNCHANGED <<chatty, childAlive, aborted, watched, eofSeen, polling, exit>>
ReadEnd == \E d \in watched :
    /\ dispatched = {} /\ ~childAlive /\ unread[d] = NoError
    /\ eofSeen' = eofSeen \union {d}
    /\ IF CallsForCheck(d, eofSeen)
       THEN ScheduleExitCheck(stderrTail, watched \ {d})
       ELSE UNCHANGED <<exit, polling>> /\ watched' = watched \ {d}
    /\ UNCHANGED <<chatty, childAlive, aborted, unread, dispatched, stderrTail>>
\* The end of a dispatch: fd_is_hung_up asks now whether the peer is gone.
HangUpCheck ==
    /\ dispatched # {} /\ dispatched' = {}
    /\ watched' = IF childAlive THEN watched ELSE watched \ dispatched
    /\ UNCHANGED <<chatty, childAlive, aborted, unread, eofSeen, stderrTail, polling, exit>>

PollExit ==
    /\ dispatched = {} /\ polling /\ ~childAlive /\ Exits(stderrTail, watched)
    /\ UNCHANGED <<chatty, childAlive, aborted, unread, dispatched, eofSeen, stderrTail>>

ExitLoop == StopProcess \/ ReadDescriptor \/ ReadEnd \/ HangUpCheck \/ PollExit
ExitNext == ChildWrites \/ ChildEnds \/ ExitLoop
ExitSpec == ExitInit /\ [][ExitNext]_exitVars
\* The app's main loop serves ready descriptors and timers.
ExitFair == ReadDescriptor \/ ReadEnd \/ HangUpCheck \/ PollExit

-----------------------------------------------------------------------------
\* "Wait for the process to actually exit, then report it once": a process that
\* ended is reported, whatever noticed it first - the socket, the two streams, or
\* a stop - as long as it did not leave data unread both on the socket and on a
\* stream. Service jobs and stop callbacks wait for this report.
ExitReported == ~childAlive ~> exit \in Causes
=============================================================================
