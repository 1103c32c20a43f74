--------------------------- MODULE ExtensionService ---------------------------
(***************************************************************************)
(* The lifecycle of extension processes in the app:                        *)
(* ulauncher/modes/extensions/extension_service.py over the registry, the  *)
(* records and the process runtime it drives.                              *)
(*                                                                         *)
(* Everything runs on one main loop, but its handlers nest: an exit runs   *)
(* stop callbacks, which release jobs, which start jobs, which stop        *)
(* processes, which may report an exit.  `calls' is that call stack: an    *)
(* event of the main loop starts only when it is empty and pushes a call,  *)
(* and Step runs the call on top.  No other event of the app interleaves   *)
(* with the nested calls; the operating system and the CLI do (Environment).  *)
(***************************************************************************)
EXTENDS Integers, Sequences, FiniteSets

CONSTANTS
  Exts,         \* extension ids
  Distro,       \* the ids that also have a distro-packaged (non-manageable) copy
  NoExt,        \* "no extension"
  MaxProcs,     \* bound: processes spawned in a behaviour
  MaxPreviews,  \* bound: previews started in a behaviour
  MaxOps,       \* bound: requests from the preferences window and D-Bus
  MaxCli        \* bound: installs and removals by the CLI

ASSUME ExtsAssumption == IsFiniteSet(Exts) /\ Distro \subseteq Exts /\ NoExt \notin Exts
ASSUME BoundsAssumption ==
  MaxProcs \in Nat /\ MaxPreviews \in Nat /\ MaxOps \in Nat /\ MaxCli \in Nat

VARIABLES
  runtime,      \* the live runtime of each id (0: None)
  record,       \* the record the live runtime was spawned from
  pendingStop,  \* the stop in flight and its callbacks (on = FALSE: None)
  jobs,         \* queued jobs of each id
  jobActive,    \* a job holds the id
  draining,     \* the _run_next_job loop of the id is on the call stack
  fetching,     \* the copy an install/update job is downloading for
  preview,      \* the preview overlay (tok = 0: None)
  userCopy,     \* the user's (manageable) copy is on disk
  file,         \* the state file of each id
  mem,          \* the app's cached ExtensionState of each id
  procs,        \* the operating system's view of the spawned processes
  calls,        \* call stack of the main loop
  booted,       \* _start_extensions has run
  ops, cliOps,  \* requests made so far
  dirty,        \* history: the CLI changed the id's files and the app was not told yet
  failed,       \* history: previews whose process failed
  keptDisabled  \* history: removal left a distro copy, which was disabled

lifeVars == <<runtime, record, pendingStop>>
jobVars  == <<jobs, jobActive, draining, fetching>>
confVars == <<file, mem>>
histVars == <<dirty, failed, keptDisabled>>
reqVars  == <<booted, ops, cliOps>>
vars == <<lifeVars, jobVars, confVars, histVars, reqVars, preview, userCopy, procs, calls>>

Procs     == 1..MaxProcs
Kinds     == {"none", "user", "distro", "preview"}
Rec       == [kind: Kinds, tok: 0..MaxPreviews]
NoRec     == [kind |-> "none", tok |-> 0]
JobKind   == {"restart", "install", "update", "uninstall"}
Callback  == {"release", "swap", "remove"}
State     == [enabled: BOOLEAN, error: BOOLEAN]
NoState   == [enabled |-> TRUE, error |-> FALSE]
Proc      == [st: {"unused", "alive", "dead", "gone"}, ext: Exts \cup {NoExt},
              rec: Rec, aborted: BOOLEAN, stale: BOOLEAN]
NoProc    == [st |-> "unused", ext |-> NoExt, rec |-> NoRec, aborted |-> FALSE, stale |-> FALSE]
NoStop    == [on |-> FALSE, cbs |-> <<>>]
NoPreview == [ext |-> NoExt, tok |-> 0]
Op        == {"boot", "enqueue", "runNext", "drain", "job", "stop", "pollExit",
              "reconcile", "start", "stopPreview", "drainCallbacks"} \cup Callback
Frame     == [op: Op, ext: Exts, rec: Rec, arg: JobKind \cup Callback \cup {"none"},
              proc: 0..MaxProcs]

\* A call of an operation on an id, with its argument where it has one.
Call(op, e)         == [op |-> op, ext |-> e, rec |-> NoRec, arg |-> "none", proc |-> 0]
CallWith(op, e, a)  == [Call(op, e) EXCEPT !.arg = a]
CallRec(op, e, r)   == [Call(op, e) EXCEPT !.rec = r]
CallProc(op, e, p)  == [Call(op, e) EXCEPT !.proc = p]

Idle        == calls = <<>>
Running(op) == calls # <<>> /\ Head(calls).op = op
Becomes(s)  == calls' = s \o Tail(calls)      \* the call on top goes on as the calls s
Return      == calls' = Tail(calls)

-------------------------------------------------------------------------------
(* Registry and records *)

\* extension_finder.locate: the user's copy shadows the distro's.
Locate(e) == IF userCopy[e] THEN [NoRec EXCEPT !.kind = "user"]
             ELSE IF e \in Distro THEN [NoRec EXCEPT !.kind = "distro"]
             ELSE NoRec

\* ExtensionRegistry.get: the preview overlay first.
Get(e) == IF preview.ext = e THEN [kind |-> "preview", tok |-> preview.tok] ELSE Locate(e)

\* ExtensionRecord.is_enabled on the state s.
IsEnabled(r, s) == r.kind = "preview" \/ (s.enabled /\ ~s.error)

\* JsonConf.save: the whole cached state overwrites the file.
Save(e, s) == mem' = [mem EXCEPT ![e] = s] /\ file' = [file EXCEPT ![e] = s]

\* Not yet reported to the exit handler.
Unreported(p) == procs[p].st \in {"alive", "dead"}

\* Files of the copy changed under the processes that run from it.
MarkStale(e, kinds) ==
  [p \in Procs |-> IF Unreported(p) /\ procs[p].ext = e /\ procs[p].rec.kind \in kinds
                   THEN [procs[p] EXCEPT !.stale = TRUE] ELSE procs[p]]

-------------------------------------------------------------------------------
(* Mutant: the callbacks are drained before the dead preview is torn down. *)
HandleExitDrainsFirst(e, r, errored, rest) ==
  /\ IF errored
     THEN /\ runtime' = [runtime EXCEPT ![e] = 0]
          /\ record' = [record EXCEPT ![e] = NoRec]
          /\ IF r.kind = "preview"
             THEN failed' = failed \cup {r.tok} /\ UNCHANGED confVars
             ELSE Save(e, [mem[e] EXCEPT !.error = TRUE]) /\ UNCHANGED failed
     ELSE UNCHANGED <<runtime, record, confVars, failed>>
  /\ calls' = <<Call("drainCallbacks", e)>>
              \o (IF errored /\ r.kind = "preview" /\ preview = [ext |-> e, tok |-> r.tok]
                  THEN <<Call("stopPreview", e)>> ELSE <<>>)
              \o (IF errored THEN <<>> ELSE <<Call("reconcile", e)>>)
              \o rest

(* The exit handler (start_extension.exit_handler), up to the draining of the
   stop callbacks; `rest' is what the caller has left to do. *)
HandleExit(e, r, errored, rest) ==
  /\ IF errored
     THEN /\ runtime' = [runtime EXCEPT ![e] = 0]
          /\ record' = [record EXCEPT ![e] = NoRec]
          /\ IF r.kind = "preview"
             THEN failed' = failed \cup {r.tok} /\ UNCHANGED confVars
             ELSE Save(e, [mem[e] EXCEPT !.error = TRUE]) /\ UNCHANGED failed
     ELSE UNCHANGED <<runtime, record, confVars, failed>>
  /\ calls' = (IF errored /\ r.kind = "preview" /\ preview = [ext |-> e, tok |-> r.tok]
               THEN <<Call("stopPreview", e)>> ELSE <<>>)
              \o <<Call("drainCallbacks", e)>>
              \o (IF errored THEN <<>> ELSE <<Call("reconcile", e)>>)
              \o rest

\* ExtensionRuntime._poll_exit of a dead process: reported once, as Stopped if
\* stop() had marked it, as an error otherwise.
ExitOf(p, rest) ==
  /\ procs[p].st = "dead"
  /\ procs' = [procs EXCEPT ![p].st = "gone"]
  /\ HandleExit(procs[p].ext, procs[p].rec, ~procs[p].aborted, rest)

\* The callbacks of the stop in flight, taken off before they run.
DrainCallbacks ==
  /\ Running("drainCallbacks")
  /\ LET e == Head(calls).ext IN
     /\ pendingStop' = [pendingStop EXCEPT ![e] = NoStop]
     /\ Becomes([i \in DOMAIN pendingStop[e].cbs |-> Call(pendingStop[e].cbs[i], e)])
  /\ UNCHANGED <<runtime, record, jobVars, confVars, histVars, reqVars, preview, userCopy, procs>>

-------------------------------------------------------------------------------
(* Starting and stopping *)

\* Mutant: the state file is not re-read.
ReconcileCached ==
  /\ Running("reconcile")
  /\ LET e == Head(calls).ext
         r == Get(e)
         enabled == r # NoRec /\ IsEnabled(r, mem[e])
     IN IF jobActive[e] \/ pendingStop[e].on
        THEN Return
        ELSE CASE enabled /\ runtime[e] = 0  -> Becomes(<<CallRec("start", e, r)>>)
               [] ~enabled /\ runtime[e] # 0 -> Becomes(<<Call("stop", e)>>)
               [] OTHER                      -> Return
  /\ UNCHANGED <<lifeVars, jobVars, confVars, histVars, reqVars, preview, userCopy, procs>>

\* _reconcile: run iff the id resolves to an enabled record, after re-reading
\* its state file; a no-op while a job holds the id or a stop is in flight.
Reconcile ==
  /\ Running("reconcile")
  /\ LET e == Head(calls).ext
         r == Get(e)
         enabled == r # NoRec /\ IsEnabled(r, file[e])
     IN IF jobActive[e] \/ pendingStop[e].on
        THEN Return /\ UNCHANGED mem
        ELSE /\ mem' = IF r = NoRec THEN mem ELSE [mem EXCEPT ![e] = file[e]]
             /\ CASE enabled /\ runtime[e] = 0  -> Becomes(<<CallRec("start", e, r)>>)
                  [] ~enabled /\ runtime[e] # 0 -> Becomes(<<Call("stop", e)>>)
                  [] OTHER                      -> Return
  /\ UNCHANGED <<lifeVars, jobVars, file, histVars, reqVars, preview, userCopy, procs>>

\* start_extension with a record that is launched: the process is spawned.
Spawn(e, r) ==
  /\ \E p \in Procs :
       /\ procs[p].st = "unused" /\ \A q \in 1..(p - 1) : procs[q].st # "unused"
       /\ procs' = [procs EXCEPT ![p] =
            [st |-> "alive", ext |-> e, rec |-> r, aborted |-> FALSE, stale |-> FALSE]]
       /\ runtime' = [runtime EXCEPT ![e] = p]
  /\ record' = [record EXCEPT ![e] = r]

\* start_extension's first lines: the persisted error is cleared whether or not
\* the extension can start now.
MayStartDuringStop(e) == ~jobActive[e]    \* mutant: the stop in flight is not checked
MayStartDuringJob(e) == ~pendingStop[e].on   \* mutant: the job that holds the id is not checked
MayStart(e) == ~jobActive[e] /\ ~pendingStop[e].on
ClearedState(e, r) == IF r.kind = "preview" THEN mem[e] ELSE [mem[e] EXCEPT !.error = FALSE]

Start ==
  /\ Running("start")
  /\ LET e == Head(calls).ext
         r == Head(calls).rec
     IN \/ /\ runtime[e] # 0
           /\ Return
           /\ UNCHANGED <<runtime, record, confVars, procs, failed>>
        \/ /\ runtime[e] = 0 /\ ~MayStart(e)
           /\ IF r.kind = "preview" THEN UNCHANGED confVars ELSE Save(e, ClearedState(e, r))
           /\ Return
           /\ UNCHANGED <<runtime, record, procs, failed>>
        \/ /\ runtime[e] = 0 /\ MayStart(e)
           /\ IF r.kind = "preview" THEN UNCHANGED confVars ELSE Save(e, ClearedState(e, r))
           /\ Spawn(e, r)
           /\ Return
           /\ UNCHANGED failed
        \* an invalid or incompatible manifest, or a failed spawn, ends in the exit handler
        \/ /\ runtime[e] = 0 /\ MayStart(e)
           /\ HandleExit(e, r, TRUE, Tail(calls))
           /\ UNCHANGED procs
  /\ UNCHANGED <<pendingStop, jobVars, dirty, keptDisabled, reqVars, preview, userCopy>>

\* Mutant: the callback of a stop that finds another one in flight is dropped.
StopDropsCallback ==
  /\ Running("stop")
  /\ LET e   == Head(calls).ext
         cbs == IF Head(calls).arg = "none" THEN <<>> ELSE <<Head(calls).arg>>
         p   == runtime[e]
     IN IF p # 0
        THEN /\ runtime' = [runtime EXCEPT ![e] = 0]
             /\ record' = [record EXCEPT ![e] = NoRec]
             /\ pendingStop' = [pendingStop EXCEPT ![e] = [on |-> TRUE, cbs |-> cbs]]
             /\ IF procs[p].st = "alive"
                THEN procs' = [procs EXCEPT ![p].aborted = TRUE] /\ Becomes(<<CallProc("pollExit", e, p)>>)
                ELSE UNCHANGED procs /\ Return
        ELSE /\ UNCHANGED <<runtime, record, procs, pendingStop>>
             /\ IF pendingStop[e].on THEN Return
                ELSE Becomes([i \in DOMAIN cbs |-> Call(cbs[i], e)])
  /\ UNCHANGED <<jobVars, confVars, histVars, reqVars, preview, userCopy>>

\* _stop(ext_id, on_stopped) with ExtensionRuntime.stop inlined: a process that
\* is already dead is not marked, so its exit will be reported as an error.
Stop ==
  /\ Running("stop")
  /\ LET e   == Head(calls).ext
         cbs == IF Head(calls).arg = "none" THEN <<>> ELSE <<Head(calls).arg>>
         p   == runtime[e]
     IN IF p # 0
        THEN /\ runtime' = [runtime EXCEPT ![e] = 0]
             /\ record' = [record EXCEPT ![e] = NoRec]
             /\ pendingStop' = [pendingStop EXCEPT ![e] = [on |-> TRUE, cbs |-> cbs]]
             /\ IF procs[p].st = "alive"
                THEN procs' = [procs EXCEPT ![p].aborted = TRUE] /\ Becomes(<<CallProc("pollExit", e, p)>>)
                ELSE UNCHANGED procs /\ Return
        ELSE /\ UNCHANGED <<runtime, record, procs>>
             /\ IF pendingStop[e].on
                THEN /\ pendingStop' = [pendingStop EXCEPT ![e].cbs = @ \o cbs]
                     /\ Return
                ELSE /\ UNCHANGED pendingStop
                     /\ Becomes([i \in DOMAIN cbs |-> Call(cbs[i], e)])
  /\ UNCHANGED <<jobVars, confVars, histVars, reqVars, preview, userCopy>>

\* stop() closes the socket, whose close handler polls the process at once: the
\* exit may be reported before _stop returns.
PollExit ==
  /\ Running("pollExit")
  /\ LET p == Head(calls).proc
     IN \/ ExitOf(p, Tail(calls))
        \/ Return /\ UNCHANGED <<runtime, record, confVars, procs, failed>>
  /\ UNCHANGED <<pendingStop, jobVars, dirty, keptDisabled, reqVars, preview, userCopy>>

\* Mutant: the overlay is looked at instead of the live process.
StopExtensionByOverlay(e, cb) ==
  IF preview.ext = e THEN Call(cb, e) ELSE CallWith("stop", e, cb)

\* stop_extension(record of the installed copy, on_stopped): a live preview survives.
StopExtension(e, cb) ==
  IF record[e].kind = "preview" THEN Call(cb, e) ELSE CallWith("stop", e, cb)

-------------------------------------------------------------------------------
(* Jobs *)

Enqueue ==
  /\ Running("enqueue")
  /\ LET e == Head(calls).ext IN
     /\ jobs' = [jobs EXCEPT ![e] = Append(@, Head(calls).arg)]
     /\ Becomes(<<Call("runNext", e)>>)
  /\ UNCHANGED <<lifeVars, jobActive, draining, fetching, confVars, histVars, reqVars,
                 preview, userCopy, procs>>

\* _run_next_job: the loop that is already on the stack owns the queue.
RunNext ==
  /\ Running("runNext")
  /\ LET e == Head(calls).ext IN
     IF draining[e]
     THEN Return /\ UNCHANGED draining
     ELSE /\ draining' = [draining EXCEPT ![e] = TRUE]
          /\ Becomes(<<Call("drain", e)>>)
  /\ UNCHANGED <<lifeVars, jobs, jobActive, fetching, confVars, histVars, reqVars,
                 preview, userCopy, procs>>

\* One round of the loop, or its end.
Drain ==
  /\ Running("drain")
  /\ LET e == Head(calls).ext IN
     IF ~jobActive[e] /\ jobs[e] # <<>>
     THEN /\ jobActive' = [jobActive EXCEPT ![e] = TRUE]
          /\ jobs' = [jobs EXCEPT ![e] = Tail(@)]
          /\ Becomes(<<CallWith("job", e, Head(jobs[e])), Call("drain", e)>>)
          /\ UNCHANGED draining
     ELSE /\ draining' = [draining EXCEPT ![e] = FALSE]
          /\ IF jobActive[e] THEN Return ELSE Becomes(<<Call("reconcile", e)>>)
          /\ UNCHANGED <<jobs, jobActive>>
  /\ UNCHANGED <<lifeVars, fetching, confVars, histVars, reqVars, preview, userCopy, procs>>

\* _start_job: update and uninstall re-resolve the installed record; install and
\* update go on asynchronously with a download unless they fail at once.
Job ==
  /\ Running("job")
  /\ LET e == Head(calls).ext
         k == Head(calls).arg
         release == <<Call("release", e)>>
         download(kind) ==
           \/ fetching' = [fetching EXCEPT ![e] = kind] /\ Return
           \/ UNCHANGED fetching /\ Becomes(release)
     IN \/ k = "restart" /\ Becomes(<<CallWith("stop", e, "release")>>) /\ UNCHANGED fetching
        \/ k = "install" /\ download("user")
        \/ k = "update" /\ Locate(e) # NoRec /\ download(Locate(e).kind)
        \/ k = "uninstall" /\ Locate(e).kind = "user"
           /\ Becomes(<<StopExtension(e, "remove")>>) /\ UNCHANGED fetching
        \/ k = "update" /\ Locate(e) = NoRec /\ Becomes(release) /\ UNCHANGED fetching
        \/ k = "uninstall" /\ Locate(e).kind # "user" /\ Becomes(release) /\ UNCHANGED fetching
  /\ UNCHANGED <<lifeVars, jobs, jobActive, draining, confVars, histVars, reqVars,
                 preview, userCopy, procs>>

\* Mutant: releasing the id does not run the next job.
ReleaseOnly ==
  /\ Running("release")
  /\ jobActive' = [jobActive EXCEPT ![Head(calls).ext] = FALSE]
  /\ Return
  /\ UNCHANGED <<lifeVars, jobs, draining, fetching, confVars, histVars, reqVars, preview, userCopy, procs>>

\* The release callback of the active job.
Release ==
  /\ Running("release")
  /\ LET e == Head(calls).ext IN
     /\ jobActive' = [jobActive EXCEPT ![e] = FALSE]
     /\ Becomes(<<Call("runNext", e)>>)
  /\ UNCHANGED <<lifeVars, jobs, draining, fetching, confVars, histVars, reqVars, preview, userCopy, procs>>

\* swap_and_finish: the staged files replace the user's copy and the state is
\* saved, or the swap fails, or the swapped-in manifest is rejected.
Swap ==
  /\ Running("swap")
  /\ LET e == Head(calls).ext IN
     /\ \/ /\ userCopy' = [userCopy EXCEPT ![e] = TRUE]
           /\ procs' = MarkStale(e, {"user", "distro"})
           /\ keptDisabled' = [keptDisabled EXCEPT ![e] = FALSE]
           /\ \/ Save(e, [mem[e] EXCEPT !.error = FALSE])
              \/ UNCHANGED confVars
        \/ UNCHANGED <<userCopy, procs, confVars, keptDisabled>>
     /\ Becomes(<<Call("release", e)>>)
  /\ UNCHANGED <<lifeVars, jobVars, dirty, failed, reqVars, preview>>

\* remove_files: files and state are deleted; a distro copy that now answers for
\* the id is disabled.  Where that fails half way, what is left is an extension or
\* none, and its state is kept; where it fails at once, everything is as it was.
Remove ==
  /\ Running("remove")
  /\ LET e == Head(calls).ext IN
     /\ \/ /\ userCopy[e]
           /\ userCopy' = [userCopy EXCEPT ![e] = FALSE]
           /\ procs' = MarkStale(e, {"user"})
           /\ Save(e, [NoState EXCEPT !.enabled = e \notin Distro])
           /\ keptDisabled' = [keptDisabled EXCEPT ![e] = e \in Distro]
        \/ /\ userCopy[e]
           /\ userCopy' \in {userCopy, [userCopy EXCEPT ![e] = FALSE]}
           /\ procs' = MarkStale(e, {"user"})
           /\ UNCHANGED <<confVars, keptDisabled>>
        \/ UNCHANGED <<userCopy, procs, confVars, keptDisabled>>
     /\ Becomes(<<Call("release", e)>>)
  /\ UNCHANGED <<lifeVars, jobVars, dirty, failed, reqVars, preview>>

-------------------------------------------------------------------------------
(* Previews and startup *)

\* Mutant: stop_preview without a preview is not ignored.
StopPreviewUnchecked ==
  /\ Running("stopPreview")
  /\ preview' = NoPreview
  /\ Becomes(<<CallWith("enqueue", preview.ext, "restart")>>)
  /\ UNCHANGED <<lifeVars, jobVars, confVars, histVars, reqVars, userCopy, procs>>

\* stop_preview: the overlay is dropped and its id restarted.
StopPreview ==
  /\ Running("stopPreview")
  /\ IF preview = NoPreview
     THEN Return /\ UNCHANGED preview
     ELSE /\ preview' = NoPreview
          /\ Becomes(<<CallWith("enqueue", preview.ext, "restart")>>)
  /\ UNCHANGED <<lifeVars, jobVars, confVars, histVars, reqVars, userCopy, procs>>

\* The body of the _start_extensions loop for one record of iterate().
Boot ==
  /\ Running("boot")
  /\ LET e == Head(calls).ext IN
     IF mem[e].enabled THEN Becomes(<<CallRec("start", e, Head(calls).rec)>>) ELSE Return
  /\ UNCHANGED <<lifeVars, jobVars, confVars, histVars, reqVars, preview, userCopy, procs>>

Step ==
  \/ DrainCallbacks \/ Reconcile \/ Start \/ Stop \/ PollExit
  \/ Enqueue \/ RunNext \/ Drain \/ Job \/ Release \/ Swap \/ Remove
  \/ StopPreview \/ Boot

-------------------------------------------------------------------------------
(* Events of the main loop *)

\* activate's idle callback: every extension of iterate(), in the finder's order.
StartExtensions ==
  /\ Idle /\ ~booted
  /\ booted' = TRUE
  /\ LET found == {e \in Exts : Get(e) # NoRec} IN
     \E order \in [1..Cardinality(found) -> found] :
       /\ \A i, j \in DOMAIN order : order[i] = order[j] => i = j
       /\ calls' = [i \in DOMAIN order |-> CallRec("boot", order[i], Get(order[i]))]
  /\ UNCHANGED <<lifeVars, jobVars, confVars, histVars, ops, cliOps, preview, userCopy, procs>>

Request == Idle /\ ops < MaxOps /\ ops' = ops + 1 /\ UNCHANGED <<booted, cliOps>>

\* The preferences window's switch.
ToggleEnabled(e, enabled) ==
  /\ Request /\ Get(e) # NoRec
  /\ Save(e, [enabled |-> enabled, error |-> FALSE])
  /\ keptDisabled' = [keptDisabled EXCEPT ![e] = @ /\ ~enabled]
  /\ calls' = <<Call("reconcile", e)>>
  /\ UNCHANGED <<lifeVars, jobVars, dirty, failed, preview, userCopy, procs>>

\* The preferences window's install, update and remove buttons.
RequestJob(e, k) ==
  /\ Request
  /\ k = "install" \/ Get(e) # NoRec
  /\ calls' = <<CallWith("enqueue", e, k)>>
  /\ UNCHANGED <<lifeVars, jobVars, confVars, histVars, preview, userCopy, procs>>

\* D-Bus "extensions:reload".
Reload(e) ==
  /\ Request
  /\ dirty' = [dirty EXCEPT ![e] = FALSE]
  /\ calls' = <<CallWith("enqueue", e, "restart")>>
  /\ UNCHANGED <<lifeVars, jobVars, confVars, failed, keptDisabled, preview, userCopy, procs>>

\* D-Bus "extensions:preview_ext": the overlay is replaced, then the superseded
\* preview's id and the previewed id are restarted.
previewsUsed == {procs[p].rec.tok : p \in Procs} \cup failed \cup {0, preview.tok}
PreviewExt(e, k) ==
  /\ Request
  /\ k - 1 \in previewsUsed /\ \A t \in previewsUsed : t < k
  /\ preview' = [ext |-> e, tok |-> k]
  /\ calls' = (IF preview # NoPreview /\ preview.ext # e
               THEN <<CallWith("enqueue", preview.ext, "restart")>> ELSE <<>>)
              \o <<CallWith("enqueue", e, "restart")>>
  /\ UNCHANGED <<lifeVars, jobVars, confVars, histVars, userCopy, procs>>

\* D-Bus "extensions:stop_preview", with or without a preview.
RequestStopPreview ==
  /\ Request
  /\ \E e \in Exts : calls' = <<Call("stopPreview", e)>>
  /\ UNCHANGED <<lifeVars, jobVars, confVars, histVars, preview, userCopy, procs>>

\* The download and the dependencies of an install or update job are there
\* (the process is stopped before the swap, which cannot replace a distro
\* copy), or something failed or the extension is up to date (the job is over).
FetchDone(e) ==
  /\ Idle /\ fetching[e] # "none"
  /\ fetching' = [fetching EXCEPT ![e] = "none"]
  /\ \/ calls' = <<StopExtension(e, IF fetching[e] = "user" THEN "swap" ELSE "release")>>
     \/ calls' = <<Call("release", e)>>
  /\ UNCHANGED <<lifeVars, jobs, jobActive, draining, confVars, histVars, reqVars,
                 preview, userCopy, procs>>

\* The runtime's exit check sees that the process has exited.
ReportExit(p) ==
  /\ Idle
  /\ ExitOf(p, <<>>)
  /\ UNCHANGED <<pendingStop, jobVars, dirty, keptDisabled, reqVars, preview, userCopy>>

-------------------------------------------------------------------------------
(* The environment *)

\* A process exits: by itself, or because its socket was closed or it was killed.
Die(p) ==
  /\ procs[p].st = "alive"
  /\ procs' = [procs EXCEPT ![p].st = "dead"]
  /\ UNCHANGED <<lifeVars, jobVars, confVars, histVars, reqVars, preview, userCopy, calls>>

\* ExtensionRuntime._kill, half a second after stop().
Kill(p) == procs[p].aborted /\ Die(p)

Cli(e) ==
  /\ cliOps < MaxCli /\ cliOps' = cliOps + 1
  /\ dirty' = [dirty EXCEPT ![e] = TRUE]
  /\ UNCHANGED <<lifeVars, jobVars, mem, failed, booted, ops, preview, calls>>

\* The CLI's install/upgrade: no process is stopped; the state it saves is the
\* one its own cache holds, whose is_enabled may be older than the file's.
CliInstall(e) ==
  /\ Cli(e)
  /\ userCopy' = [userCopy EXCEPT ![e] = TRUE]
  /\ procs' = MarkStale(e, {"user", "distro"})
  /\ \E enabled \in BOOLEAN : file' = [file EXCEPT ![e] = [enabled |-> enabled, error |-> FALSE]]
  /\ keptDisabled' = [keptDisabled EXCEPT ![e] = FALSE]

\* The CLI's uninstall.
CliUninstall(e) ==
  /\ Cli(e) /\ userCopy[e]
  /\ userCopy' = [userCopy EXCEPT ![e] = FALSE]
  /\ procs' = MarkStale(e, {"user"})
  /\ file' = [file EXCEPT ![e] = [NoState EXCEPT !.enabled = e \notin Distro]]
  /\ keptDisabled' = [keptDisabled EXCEPT ![e] = e \in Distro]

\* Nothing is under way for the id.
Settled(e) == Idle /\ ~jobActive[e] /\ jobs[e] = <<>> /\ ~pendingStop[e].on

\* The bound on requests is reached and everything has settled.
Finished ==
  /\ booted /\ ops = MaxOps /\ \A e \in Exts : Settled(e)
  /\ UNCHANGED vars

Init ==
  /\ runtime = [e \in Exts |-> 0] /\ record = [e \in Exts |-> NoRec]
  /\ pendingStop = [e \in Exts |-> NoStop]
  /\ jobs = [e \in Exts |-> <<>>] /\ jobActive = [e \in Exts |-> FALSE]
  /\ draining = [e \in Exts |-> FALSE] /\ fetching = [e \in Exts |-> "none"]
  /\ preview = NoPreview
  /\ userCopy \in [Exts -> BOOLEAN]
  /\ file \in [Exts -> State]
  /\ mem = file
  /\ procs = [p \in Procs |-> NoProc]
  /\ calls = <<>>
  /\ booted = FALSE /\ ops = 0 /\ cliOps = 0
  /\ dirty = [e \in Exts |-> FALSE] /\ failed = {}
  /\ keptDisabled = [e \in Exts |-> FALSE]

Event ==
  \/ StartExtensions \/ RequestStopPreview
  \/ \E e \in Exts :
       \/ \E enabled \in BOOLEAN : ToggleEnabled(e, enabled)
       \/ \E k \in {"install", "update", "uninstall"} : RequestJob(e, k)
       \/ Reload(e) \/ FetchDone(e)
       \/ \E k \in 1..MaxPreviews : PreviewExt(e, k)
  \/ \E p \in Procs : ReportExit(p)

Environment ==
  \/ \E p \in Procs : Die(p)
  \/ \E e \in Exts : CliInstall(e) \/ CliUninstall(e)

Next == Step \/ Event \/ Environment \/ Finished
Spec == Init /\ [][Next]_vars

\* The main loop runs the calls of a handler to the end, timers and sources of
\* the loop are served, downloads end and a killed process exits.
Fairness ==
  /\ WF_vars(Step) /\ WF_vars(StartExtensions)
  /\ \A e \in Exts : WF_vars(FetchDone(e))
  /\ \A p \in Procs : WF_vars(ReportExit(p)) /\ WF_vars(Kill(p))
FairSpec == Spec /\ Fairness

-------------------------------------------------------------------------------
(* Properties *)

TypeOK ==
  /\ runtime \in [Exts -> 0..MaxProcs]
  /\ record \in [Exts -> Rec]
  /\ pendingStop \in [Exts -> [on: BOOLEAN, cbs: Seq(Callback)]]
  /\ jobs \in [Exts -> Seq(JobKind)]
  /\ jobActive \in [Exts -> BOOLEAN]
  /\ draining \in [Exts -> BOOLEAN]
  /\ fetching \in [Exts -> {"none", "user", "distro"}]
  /\ preview \in [ext: Exts \cup {NoExt}, tok: 0..MaxPreviews]
  /\ userCopy \in [Exts -> BOOLEAN]
  /\ file \in [Exts -> State] /\ mem \in [Exts -> State]
  /\ procs \in [Procs -> Proc]
  /\ calls \in Seq(Frame)
  /\ booted \in BOOLEAN /\ ops \in 0..MaxOps /\ cliOps \in 0..MaxCli
  /\ dirty \in [Exts -> BOOLEAN] /\ failed \subseteq 0..MaxPreviews
  /\ keptDisabled \in [Exts -> BOOLEAN]

\* Never two processes of one id: a new one is spawned only when the exit of the
\* one before it has been reported, whatever stops, jobs and previews overlap.
OneProcess ==
  \A p, q \in Procs :
    (Unreported(p) /\ Unreported(q) /\ procs[p].ext = procs[q].ext) => p = q

\* The app's own jobs never replace or delete the directory of a copy while a
\* process of that copy may still run (a preview runs from elsewhere).
DirectoryQuiet ==
  \A e \in Exts :
    (calls # <<>> /\ Head(calls).op \in {"swap", "remove"} /\ Head(calls).ext = e) =>
      ~ \E p \in Procs : Unreported(p) /\ procs[p].ext = e /\ procs[p].rec.kind # "preview"

\* How many things will end the active job of e: its download, a callback of a
\* stop in flight, or a call on the stack.
WillRelease(c) == c.op \in Callback \cup {"job"} \/ (c.op = "stop" /\ c.arg # "none")
Holders(e) ==
  (IF fetching[e] # "none" THEN 1 ELSE 0)
  + Len(pendingStop[e].cbs)
  + Cardinality({i \in DOMAIN calls : calls[i].ext = e /\ WillRelease(calls[i])})

\* "Every completion path, success or error, must release": an active job has
\* exactly one path that will release it, and an idle id has none, so the queue
\* neither wedges nor is released twice.
JobAccounted == \A e \in Exts : Holders(e) = IF jobActive[e] THEN 1 ELSE 0

\* Reconciliation converges: once an id has settled (and the CLI's changes were
\* announced), it runs iff the record it resolves to now is enabled, from that
\* record, and from files nobody changed since it was spawned.
Converged ==
  \A e \in Exts : (booted /\ Settled(e) /\ ~dirty[e]) =>
    /\ runtime[e] # 0 <=> (Get(e) # NoRec /\ IsEnabled(Get(e), file[e]))
    /\ runtime[e] # 0 => record[e] = Get(e) /\ ~procs[runtime[e]].stale

\* A preview whose process failed is never launched again (no crash loop).
NoCrashLoop ==
  [][\A p \in Procs : (procs[p].st = "unused" /\ procs'[p].st = "alive") =>
       procs'[p].rec.tok \notin failed]_vars

\* A distro copy left behind by a removal stays disabled until the user enables it.
FallbackStaysDisabled ==
  \A e \in Exts : (keptDisabled[e] /\ ~dirty[e] /\ Settled(e)) => ~file[e].enabled

\* Every requested job ends, and with it the id is free again.
JobsFinish == \A e \in Exts : (jobActive[e] \/ jobs[e] # <<>>) ~> Settled(e)

\* Jobs and previews together: every job ends, and an id that nothing is going on
\* for is left as it should be, also when a preview superseded another one's.
JobsSettle == JobsFinish /\ [][Converged']_vars

-------------------------------------------------------------------------------
(* What the service implements *)

ProcessesOf(e) == {p \in Procs : Unreported(p) /\ procs[p].ext = e}
PhaseOf(e) == IF runtime[e] # 0 THEN "live" ELSE IF ProcessesOf(e) # {} THEN "leaving" ELSE "free"
Slots == INSTANCE ExtensionSlots WITH
  phase <- [e \in Exts |-> PhaseOf(e)],
  installed <- [e \in Exts |-> \E p \in ProcessesOf(e) : procs[p].rec.kind # "preview"],
  busy <- jobActive, copy <- userCopy, outside <- cliOps

\* The service keeps what ExtensionSlots promises: for the registry of runtimes, the
\* stops in flight and the queue of jobs together, one process and one job to an id,
\* none launched while a job holds the id, and no copy changed under its process.
SlotsKept == Slots!SlotSpec
===============================================================================
