# A verification model of GoshLauncher

GoshLauncher is a desktop launcher in Python: the user types a query, the app
answers it from local providers or from *extensions*, which are separate
processes that the app starts, stops, updates and talks to over a socket. This
directory holds TLA+ specifications of its logic, translated from the source,
the TLC configurations that model-check them, and proofs for TLAPS. Paths below
are relative to `src/ulauncher/`.

## 1. The system

### Components

| Component | Source | State it keeps | What makes it correct | Modelled |
|---|---|---|---|---|
| Extension service | `modes/extensions/extension_service.py` | per id: live runtime and its record, stop in flight with callbacks, job queue, active job; preview overlay | one process per id; no directory replaced under a process; every job released once; converges to the desired state | yes |
| Registry and records | `extension_registry.py`, `extension_record.py` | directories on disk, a JSON state file per id, a cached instance of it per process | the shadowing copy wins; an update keeps a whole copy | partly |
| Extension runtime | `extension_runtime.py` | process, socket, output watches, exit poll | each exit is reported once | yes |
| Extension mode | `extension_mode.py` | active extension, pending callback, request id, loading timer, trigger cache | only the pending request is answered; a waiting query is resumed or ended | partly |
| Core | `core.py` | mode, query, placeholder timer, keywords | effects of a mode that is no longer active are dropped | partly |
| Result buffer | `internals/result_buffer.py` | buffered batches, painted and appending flags, throttle timer | batches reach the screen once and in order | yes |
| Messages and effects | `internals/ipc.py`, `effects.py` | none | | partly |
| Extension client | `api/extension.py`, `api/socket_client.py` | debounce timer, input number, result cache | superseded inputs say nothing; ids name one result | partly |
| Socket messages | `utils/socket_msg_controller.py` | read buffer, watch | complete lines are delivered once, in order | yes |
| Scheduling, event loop | `utils/scheduling.py`, `eventloop.py` | timers, heap, hand-over list | callbacks run in order; a cancelled one does not start | partly |
| Application shell | `ui/app.py`, `dbus_service.py` | windows, quit timer, hold | quits in time and not before | partly |
| Window and selection | `ui/launcher_window.py`, `modes/launcher/selection_math.py` | rows, selected row | the selection stays usable and stays put | partly |
| Launcher search mode | `modes/launcher/mode.py`, `plan.py` | load ids, plan, rows | late answers are not painted; a row does what it says | partly |
| Search providers | `modes/launcher/apps.py`, `calculator.py`, `system_actions.py`, ... | caches, usage counts | ranking, labels and actions agree | partly |
| Window list | `windows.py`, `wayland_*.py`, `atspi_windows.py` | one snapshot | one row per window, and it acts on that window | partly |
| Popup and session | `popup_gate.py`, `session_watch.py`, `time_limits.py` | subscription, blockers | no popup over a lock | yes |
| Hotkeys | `ui/hotkey_controller.py`, `global_shortcuts.py` | shown and bound combination | they are the same | partly |
| Data layer | `data/`, `utils/json_utils.py` | instances shared by path, temporary files | a save changes what it was asked to | yes |
| Shortcut and app modes | `modes/shortcuts/`, `modes/apps/` | keywords, snapshot of desktop entries | the list is that of now; keywords route | partly |
| Command line | `cli/` | the log tail of `preview` | changes are announced; a preview is followed to its end | partly |
| Remote extensions | `extension_remote.py`, `extension_dependencies.py` | staging directory, backup | a copy is never lost half way | partly |

Section 5 names the components without a model; `PROJECT.json` lists all of
them with their files.

### How they interact

Everything in the app runs on the Qt main loop. The service, the registry, the
mode and the core call each other *synchronously*, and their callbacks nest: the
exit of a process runs stop callbacks, which release jobs, which run the next
job, which may stop another process, whose exit may be reported before the call
returns. Worker threads schedule and cancel calls on that loop. Extension
processes run their own small main loop and one thread per handler call; they
exchange JSON lines with the app over a socket pair. The CLI is a third party
that edits the same files and then tells the app over D-Bus. The desktop
(compositor, session manager, portals) changes under all of them.

### What is hard

- **Nesting.** A handler is re-entered while it is half way through
  (`_run_next_job`, the exit handler, `_handle_response`).
- **Asynchronous exits.** A stop ends when the operating system reports the
  exit; starts, stops, jobs and previews of the same id arrive meanwhile.
- **Stale state.** The CLI writes state files the app has cached; rows on screen
  describe windows, applications and settings as they were.
- **Overlapping requests.** Handlers of several inputs run at once; answers of
  asynchronous providers arrive after the query, the mode or the popup changed.
- **Timers and threads.** Placeholder, throttle, debounce and kill timers race
  with the answers they stand in for, and cancelling races with firing.
- **Failure half way.** A swap of directories, a save, a change of a shortcut or
  a list of providers fails in the middle.

The list with source lines is under "hazards" in `PROJECT.json`.

## 2. The modules

Extensions, composed as the code composes them:

| Module | Models | Composes |
|---|---|---|
| `ExtensionService` | the life cycle of extension processes | registry, records, state cache, runtime; CLI and operating system as environment |
| `ExtensionSlots` | what that life cycle promises, abstractly | implemented by `ExtensionService` |
| `ResultBuffer` | the result buffer, as operators on its record | |
| `QueryWire` | messages and channels between app and extensions | |
| `QueryCore` | the app's side: core, extension mode, result buffer | `QueryWire`, `ResultBuffer` |
| `ExtensionClient` | the extension's side: debounce, threads, streaming, ids | `QueryWire` |
| `ExtensionQuery` | a query end to end, with restarts and crashes underneath | `QueryCore`, `ExtensionClient` |
| `MCExtensionService`, `MCExtensionQuery` | instances for TLC | |

Components around them, each with state of its own:

| Module | Models |
|---|---|
| `ExtensionExit` | socket, stream and poll watches by which an exit is noticed |
| `ExtensionInstall` | resolve, download, stage, back up, swap, with a fault at any step |
| `PreviewLog` | `preview` commands that tail a log file the app opens and removes |
| `SocketMessages` | framing: partial writes, reads cut anywhere, handlers that raise |
| `MiniLoop` | the extension's loop: heap, hand-over list, wake-up pipe, `select` |
| `QtTimers` | the app's timers, set up and cancelled from any thread |
| `ConfigStore` | JSON settings shared by two processes |
| `TriggerRouting` | keywords of shortcuts and extensions, and who answers them |
| `LauncherLookup` | typed search with asynchronous providers, repaints, window snapshot |
| `LauncherRows` | rows of all providers, one failing, and their activation |
| `QueryPlan` | prefix, name and providers of a query |
| `Calculator` | the grammar of the calculator |
| `AppCatalog` | desktop entries, overrides, the watcher of their directories |
| `AppSearch` | matching and usage ranking of applications |
| `AppWindows` | application rows and the windows their applications have |
| `WindowList` | the sources of windows on each desktop, merged and acted on |
| `WaylandClient` | the two Wayland protocols, message by message |
| `SystemActions` | power, session, rotation and screenshot rows |
| `Selection` | the selected row over repaints |
| `PopupSession` | what forbids and closes a popup |
| `TimeLimits` | screen-time limits |
| `AppShell` | windows, the background service, the quit timer |
| `Hotkeys` | the global shortcut on four kinds of desktop |

`MCDesktop` brings the second table together for TLC. These components share no
variable: a call from one to another is modelled where it is answered, as an
input. A behaviour of `MCDesktop` is therefore one of one `part`, the others rest
in one of their initial states, and the constant `Parts` says which parts a run
looks at. The state space is the sum, not the product, of the parts'.

The proofs are in modules of their own, described in section 4:

| Module | Proves about |
|---|---|
| `ExtensionServiceProofs`, `OneProcessProofs`, `SlotsProofs`, `ConvergenceProofs` | `ExtensionService`, each from the invariants of those before it, and that it implements `ExtensionSlots` |
| `ExtensionQueryProofs` | `ExtensionQuery`, with `QueryCore`, `ExtensionClient`, `ResultBuffer` and `QueryWire` |
| `SchedulingProofs` | `MiniLoop`, `QtTimers`, `SocketMessages` |
| `LauncherProofs` | `LauncherLookup`, `PopupSession`, `AppCatalog`, `Selection`, `TriggerRouting`, `SystemActions`, `AppShell`, `QueryPlan`, `TimeLimits`, `LauncherRows`, `AppSearch`, `AppWindows`, `WaylandClient` |
| `StoreProofs` | `ExtensionInstall`, `ConfigStore`, `Hotkeys` |

### ExtensionService

The nesting is what the module is about, so it has the main loop's call stack as
a variable: `calls` is a sequence of frames, an event of the main loop
(`StartExtensions`, `ToggleEnabled`, `RequestJob`, `FetchDone`, `PreviewExt`,
`ReportExit`, ...) can only start when it is empty and pushes a call, and each
action of `Step` runs the call on top, replacing it by the calls that the code
makes from there on. `Stop` on a live process, for instance, marks the process,
records the stop in flight and goes on with `pollExit`, because closing the
socket polls the process at once; if it is already gone its exit handler runs
inside the stop. `Die`, `CliInstall` and `CliUninstall` are not events of the
main loop and happen between any two calls.

Per id the variables are those of `_ExtensionProcessState` (`runtime`, `record`,
`pendingStop`, `jobs`, `jobActive`, `draining`) plus the download of a job
(`fetching`). `file` is the state file and `mem` the app's cached copy; a save
overwrites the whole file with the copy, a reconcile re-reads it. `procs` is the
operating system's view: a process is alive, dead (not yet reported) or gone.
`dirty`, `failed`, `keptDisabled` and `stale` are history for the properties.

Downloads, dependency installation and the swap of directories succeed or fail
nondeterministically here; `ExtensionInstall` has their steps. Manifest errors
and failed spawns are one alternative of `Start`, which ends in the exit handler
as in the code.

`ExtensionSlots` says the same without stacks, records or files: an id is a slot,
free, live or leaving, that one job at a time may hold. `Slots` in
`ExtensionService` maps the registered runtimes, the unreported processes and
the active jobs to it.

### ExtensionQuery

The calls of core, extension mode and buffer nest as well, but without anything
interleaving, so here they are functions on the app's state (`QuerySet`,
`Sent`, `ResponseHandled`, `ExtensionRenders`, `Delivered`, `Painted`) which
compose exactly as the calls do, and one action per event of the main loop
applies them. That matters: the response to an activation may set a new query,
whose request is sent *inside* the handling of that response.

A query text is the extension whose keyword it starts with, `Plain` for a
launcher query, or `Empty`. A row records the extension and request it comes
from, its number among the results of that handler, and the id that the client
stamped on it. Handlers are nondeterministic: they stream appending and replacing
batches, return a list, nothing or (activations) a new query, or raise. The
client keeps the row that was activated next to the one its cache resolves it to.

The service appears here as four actions on `status` (`StopExtension`,
`StartExtension`, `ExtensionFails`, `LeftStopped`), which do to the mode what the
service's listener calls do. Its guarantees are those `ExtensionService` checks.

### Processes, files and threads

`ExtensionExit` has the two output streams, the socket and the process, each of
which has its data read, ends, and is watched on its own; after every dispatch the
watch asks whether the peer is gone, and if so goes, whatever is still unread.
`ExtensionInstall` goes through the steps of a job one file operation at a time;
a fault is a crash, or an operation that raises, before any of them.
`SocketMessages` cuts messages into pieces wherever a write or a read may stop, and
handles one line per step of the loop over the buffer.
`MiniLoop` steps between the heap, the locked hand-over and the blocking select,
and `QtTimers` between every two reads and writes of the flags that the main
thread and a cancelling worker share: Python switches threads there.
`ConfigStore` has the instance of each process, the file, and the temporary file
in between, which another process may rename over, and a hand that edits the
file. `PreviewLog` has a command's poll as the three looks it takes (is the app
there, is the file still linked, what is in it), between which the app may
remove the file or die.

### Search and rows

`LauncherLookup` has one load id per query mode and one pending turn per lookup,
the throttle of repaints, and the snapshot of the windows with its age. A text
is who answers it, so a repaint can be compared with the entry it is painted
under. `QueryPlan` reads a text as the sequence of the word lists its words are
on: the function that takes polite words and nouns off is checked on every
sequence up to a length. `Calculator` reads a line as tokens and returns the
operations in postfix order, and `ReadAsWritten` compares it with an independent
grammar. `AppSearch` computes with the integers of the launcher's usage file,
rounding included, and reads GNOME Shell's scores, which rank before them
(`_usage_sort_key`), anew for every list: some table of `UsageTables`, or nothing.
`AppWindows` offers a new window as `can_open_new_window` does, an action that the
running application exports first, and opens it as `open_new_window` does.
`SystemActions` has a reading of the rotation fail, `gsettings` be missing or end in
any order and for nothing, and logind leave questions unanswered.
`WindowList` lets each desktop's four sources report the same windows, each
with what it knows, and follows the merge, the numbering of workspaces and the
dispatch of activating and closing. In sessions of GNOME Shell, Introspect's
`GetWindows` answers not at all, with titles and classes (`bare`), or with every key
that `windows_from_introspect_payload` reads (`full`); it leaves hidden windows out. The
code writes its numbers as X11 identifiers and merges and closes by them as if they
were; the model takes them for that of an X11 window in a `full` answer, and otherwise
for numbers of the shell's own that equal no X11 identifier (`X11Wid`). A workspace has
a number and a place among those there are, and a session's tool goes by one or the
other (`Shown`). Where workspaces are a row (EWMH, wmctrl, GNOME, KWin, niri) their numbers are
their places; on i3, Sway, Hyprland, Qtile and with ext-workspace there may be gaps.
`WaylandClient` sends what a compositor sends in pieces that end anywhere, and drops the
rest of a piece as the client does.

### The shell

`PopupSession` asks, shows, subscribes and handles signals in the order the code
does, while the session changes between any two of these. `AppShell` counts the
quit timer's seconds. `Hotkeys` has a store per desktop: custom keybindings,
Plasma's shortcut, or portal sessions; a write may fail and be taken back.
`TriggerRouting` keeps what Core registered apart from what the modes look up.

## 3. What the runs check

| Run | Instance | Checks |
|---|---|---|
| `ServiceOne` | one id with a distro copy, 3 requests, 1 CLI operation, 1 preview, 3 processes | `TypeOK`, `OneProcess`, `DirectoryQuiet`, `JobAccounted`, `Converged`, `NoCrashLoop`; refines `ExtensionSlots` (`SlotsKept`) |
| `ServicePreview` | two ids, 2 requests, 2 previews, fairness | `JobsSettle`: every job ends, and ids converge, also when a preview supersedes another |
| `ServiceFallback` | one id with a distro copy | **violated**: `FallbackStaysDisabled` |
| `QueryStream` | two extensions, 2 edits, 2 batches per handler, 1 restart, fairness | `BufferLatest`, `StreamFaithful`, `WireOrdered`, `AnsweredForGood` |
| `QueryService` | one extension, 2 edits, 1 activation, 1 restart, 1 failure | `RequestKept`, `IdsExact`, `PaintsLatest` |
| `QueryIds` | one extension, streaming activations | **violated**: `IdsExact` |
| `QuerySetQuery` | one extension, activations that set a query | **violated**: `RequestKept` |
| `QueryNotice` | two extensions, one fails | **violated**: `PaintsLatest` |
| `Desktop` | 22 components around the extensions, each on its instance | 20 properties, below |
| `DesktopLive` | 5 of those components, fairness | `LookupsPainted`, `QuitsInTime`, `ExitReported`, `CancelledStops`, `PreviewFollowed` |
| `AppSwitch` | a session with `ext-foreign-toplevel-list` only | **violated**: `ClickLands` |
| `PreviewLost` | one previewing command | **violated**: `NotLeftWaiting` |

Every property of a passing run has a mutant: a definition of the model changed
the way a bug in the code would change it, with which TLC finds the property
violated (listed in `PROJECT.json`, defined next to what they replace).

What `Desktop` and `DesktopLive` check, part by part (states of the part alone):

| Part | States | Property | In words |
|---|---|---|---|
| `lookup` | 116 979 | `PaintsEntry`, `LookupsPainted` | what is painted answers the entry, and every lookup of it is painted |
| `wayland` | 86 626 | `SessionFaithful` | a listing is all the compositor had when it answered, and nothing that had gone; the workspace activated is the one the index meant then |
| `windows` | 38 513 | `RowsOfWindows` | one row per window, what is done to a row is done to its window, and a workspace's row leads to it, on i3 exactly while no number before it is missing |
| `loop` | 36 011 | `CallsServed` | no select while work is handed over; calls of one thread and delay in order |
| `preview` | 30 523 | `PreviewFollowed` | a command prints its preview to the end, and ends |
| `config` | 22 331 | `SaveChangesOneKey` | a save changes the settings it was asked to and no other |
| `rows` | 19 672 | `ActsAsShown` | an entry that can be activated does what it says, or its target is gone |
| `apps` | 35 684 | `AppRowsAct` | a click on an application's row puts a window of it on top; "new window" opens one, unless offered for an exported action alone |
| `popup` | 17 433 | `PopupYields` | a popup that stays is over no lock, sleep or modal tool |
| `routing` | 17 032 | `KeywordsRoute` | a keyword leads to a trigger that has it |
| `calculator` | 16 105 | `ReadAsWritten` | precedence, signs, powers, factorials and percentages as a grammar reads them |
| `limits` | 13 824 | `LimitExact` | the popup is refused exactly when a limit is over |
| `search` | 16 440 | `BestFirst` | what GNOME says is used most comes first, then what is launched consistently; an exact name does |
| `system` | 25 902 | `RotationAsTitled` | the rotation row does what its title says, exactly unless one of its two readings was wrong |
| `socket` | 15 809 | `FramesKept` | messages arrive once and in order |
| `catalog` | 6 314 | `EntriesFresh` | searches are answered from the entries of now |
| `install` | 3 877 | `DirectoriesKept` | one fault never loses an installed copy; a job without one leaves nothing behind |
| `plan` | 2 660 | `QueryKept` | taking words off keeps the name |
| `hotkeys` | 2 546 | `ShownHotkeyWorks` | the combination shown is the one bound |
| `selection` | 1 554 | `SelectionKept` | the selection can be used, reaches everything, and stays |
| `timers` | 1 439 | `CallsAllowed`, `CancelledStops` | no call starts once `cancel()` has returned; its timer stops in the end |
| `exit` | 652 | `ExitReported` | an exit is reported, whatever noticed it first |
| `shell` | 322 | `QuitsInTime` | an unused process quits, and not before the clipboard was handed over |

### Bounds

`MaxProcs` = 3 lets a process be stopped, its successor crash and a third one run.
`MaxOps` = 3 gives every pair of requests on top of the start, in every state of
the first one; a fourth only repeats the situation. One id suffices for what is
kept per id; ids meet only in the preview overlay, which `ServicePreview` covers
with two. Two edits give one superseded request; with two batches per handler a
stream can append onto, or replace, what is painted or what is buffered.

In `MCDesktop`, two things of a kind are the rule (queries, extensions, shortcuts,
keywords, directories, holders of a file, threads, commands), because two are
needed to be confused with each other, and three windows, rows or applications
where one must lie between two. Events are bounded by what a hazard takes:
`MaxWrites` = 3 desktop entries change while the directories are read one after
the other; `MaxLaunches` = 6 launches let one application overtake another; `MaxTokens` = 4 holds an operator, its sign and its operand on
both sides of another; `MaxHotkeyChanges` = 4 change, fail, change back and
restart. `MaxFaults` = 1 in `ExtensionInstall` and `MaxHotkeyFaults` = 1 are
what the code promises to survive: with two faults the install can lose its copy
and the hotkeys their key, as it has one backup. All bounds are counters in guards.

Deadlock is checked on the service and query runs, where `Finished` lets a
behaviour stop only when the bounds are used up *and* no work is left. It is not
on `MCDesktop`, whose parts stop when a bound is reached, a process has quit, or
the computed value is there.

### Fairness

`ServicePreview` assumes that the main loop runs nested calls to the end and
serves its sources and timers, that downloads end and that a killed process
exits: `stop()` schedules the kill itself (`extension_runtime.py:131`). No
fairness is assumed of a process exiting by itself, of the user or of the CLI.
`QueryStream` assumes the same of both main loops, that generators of handlers
end, and that a stopped process is started again, which `JobsSettle` says
of the service. It has no failures: a handler that raises never answers, by design.
`DesktopLive` assumes of each loop that what is scheduled runs: timer ticks,
repaints, lookups' turns, descriptors that are ready, polls. `PreviewFollowed`
takes strong fairness of one step, the command's question whether the app is
still there: it comes up in one poll of ten, between which it is not enabled.

### Disagreements found

1. **A removed extension's fallback is enabled again** (`ServiceFallback`). The CLI's
   uninstall disables the distro copy in the state file; a crash of the process
   makes the app save its older cached state over it (`extension_service.py:305`).
2. **Ids are not unique within a request** (`QueryIds`). `_assign_result_ids` resets
   the cache whenever the request differs from the last one it saw, so two
   streams that alternate restart each other's ids, and an activation runs on
   another result of the same list.
3. **A set-query answer loses the new request's callback** (`QuerySetQuery`):
   `_handle_response` clears `_pending_callback` after the callback, which may by
   then belong to a request that was sent from inside it.
4. **A stale list replaces "Extension not available"** (`QueryNotice`): the early
   return in `handle_query` leaves the previous request pending.
5. **"Switch to application" reaches no window** (`AppSwitch`): where windows come
   from `ext-foreign-toplevel-list`, only the application's id names them, and
   `apps.py:236` does not pass it on.
6. **A `preview` command waits for ever** (`PreviewLost`): if the preview is over
   before the command first looks at the log file, the file is already gone, and
   `_read` (`cli/commands/preview.py:127`) takes that for not yet there.

Two more have no run of their own: the property of a passing run says where the code
keeps what is promised and where not.

7. **"New window" opens none** (`OnlyByExportedAction` in `AppRowsAct`): the row is
   offered because the running application exports `app.new-window` (`apps.py:435`, as
   the comment at `apps.py:429-432` and `src/tests/modes/launcher/test_apps.py:316-317` want), but
   `open_new_window` starts the program again and never calls the action; an application
   with one instance then only brings its window to the front. With `OffersWhatItOpens`
   alone TLC finds it in five states.
8. **"Switch to Workspace 3" leads to workspace 4** (`SwitchesAsTitled` in
   `RowsOfWindows`): on i3 the rows go by numbers (`windows.py:1746`), and `wmctrl -s`,
   tried first in X11 sessions (`windows.py:2443`), by places. With workspaces 1, 3 and 4
   the row of 3 leads to 4; with 1 and 3, TLC's instance, to none.

### Noted while modelling

These are not properties of a run; most follow from what a module's comments
leave out of its property.

- *Queries.* An activation during a stream makes the app ignore the rest of the
  stream; an activation that cannot be sent, within the render throttle, drops a
  buffered batch (`core.py:292`), which is why `StreamFaithful` is checked without
  activations; a crash with a request in flight leaves "Loading..." on screen.
- *Previews.* `stop_preview` names no id, so the Ctrl-C of a superseded command
  stops the newer preview; a second command removes the log file of the first
  while its process may still write; two commands within 0.1 s may make one tail
  the other's file.
- *Settings.* An emptied setting with a non-empty default comes back at the next
  save; the first load of an unreadable file yields defaults, which a later save
  writes.
- *Hotkeys.* The portal's `start` with an empty trigger closes the old session and
  reports failure; at first start a fallback may be bound while the settings keep
  none (`ui/app.py:124`).
- *Session.* `_logind_locked` calls `GetLockedHint` as a method and is always
  false. What comes up between the question and the subscription is missed.
- *Applications.* A desktop file in a subdirectory whose name has a dash gets an id
  that `find_desktop_entry` does not find; the watcher knows only directories that
  existed at the first search.
- *Windows.* `list_windows` raising leaves the snapshot loading (`windows.py:122`);
  the count of `ext-workspace` hides numbered workspaces beyond it, and the row of a
  number that no workspace has leads to the one at that place (`pick_ext_workspace`), so
  `SwitchesAsTitled` speaks of workspaces there are; the snapshot is not renewed when the
  popup opens.
- *System actions.* A reading of the rotation that fails counts as unlocked
  (`system_actions.py:197`): if it fails once while the screen is locked, of the
  title's reading and the click's, the click does the opposite of the title. No document
  promises otherwise; `RotationAsTitled` says that it happens then and only then. A
  portal that answers after 400 ms may open both interfaces;
  `launch_detached` swallows errors, so the first installed command that fails
  ends the fallback (`system_actions.py:278`).
- *Keywords.* Who wins a keyword that both modes have is open (a set's order);
  editing a keyword does not empty the extension mode's cache.
- *Exits.* The docstring of `watch_fd` promises that the end is seen before the
  watch goes; with data left on both the socket and a stream it is not, which is
  the exception in `ExitReported`.

## 4. What is proved

TLAPS checks eight modules of proofs. What they conclude holds for all values of
the constants under the modules' named assumptions, which TLC evaluates on every
run, and under the premises a theorem states itself. Every invariant named below
was checked by TLC on the instance of its run before it was proved.

**`ExtensionServiceProofs`**, for every finite set of ids and all bounds:
`TypeSafe` (`Spec => []TypeOK`) from `TypeCorrect` (`Spec => []Typed`). `TypeOK`
alone is not inductive: the operation on top of the stack takes its arguments from
its frame, and the exit handler takes the id from the process. `Typed` adds that
every frame on the stack is well formed for its operation (`GoodFrame`), that a
process that was spawned has an id, and that the preview overlay is empty or of
an id. There is one lemma per action, and lemmas for the two shapes of update that
recur (one field of one id's record, one field of one process).

**`OneProcessProofs`**, under the same assumptions: `OneProcessSafe`
(`Spec => []OneProcess`) from `NestingOrderly` (`Spec => [](Typed /\ Orderly)`).
A process is spawned only when the id has no runtime and no stop in flight, so
`Owned` is needed: an unreported process is the registered one or is being
stopped. The step that could break `Owned` is `drainCallbacks`, which forgets the
stop in flight, because a failed preview is torn down *above* it on the same
stack: `stop_preview` queues a restart job, whose loop may end in a
reconciliation that spawns a new process before the callbacks are drained.
`Nested` bounds what can be on the stack there, `Drains` says that the loop over
an id's jobs is on the stack at most once, so that the release at the end of that
restart does not enter it again, and `Handled` concludes that whatever process is
unreported when the callbacks are drained is the registered one. The proof has a
section on how the stack moves, frame lemmas for each conjunct, and one lemma per
operation; the substantial ones are `Stop`, the exit handler, `Start` (spawned,
and failed at once), and the two ends of the job loop.

**`SlotsProofs`**, under the same assumptions and from `Orderly`: `CopiesQuiet`
(`DirectoryQuiet`), `JobsAccounted` (`JobAccounted`) and `ServiceImplementsSlots`
(`SlotsKept`, the refinement of `ExtensionSlots`), all from `JobsSound`
(`Spec => [](Typed /\ Orderly /\ Sound)`). `Held`: an active job is held by exactly
one of its download, the callback of the stop in flight, or a call on the stack;
the call on top hands it on, and what is deeper only moves (`HolderStep` over
`Moves`). `Quiet`: files are replaced only by the call on top and under no process
of the id. It rests on `Handled`, where the callbacks run once the exit was
handled; on `Owned`, where there was nothing to stop; and on `Recorded` (the
registered process was spawned from the registered record), where a live preview
is let run. The refinement takes one lemma per step of the slots: a spawn
launches, a stop asks to leave, an exit leaves (no process of the id is registered
or unreported after it), the job loop begins a job and a release ends it, a swap
or removal replaces the copy, and everything else stutters.

**`ConvergenceProofs`**, under the same assumptions and from `Sound`:
`ServiceConverges` (`Converged`) and `FailedPreviewsRest` (`NoCrashLoop`), from
`ServiceSteady` (`Spec => [](Known /\ Steady)`).
`Converged` speaks of an id at rest, and says nothing of the steps that lead there. An
id *rests* when it has no job and no stop in flight, or only one whose exit is being
reported; it is *due* when a call on the stack will reconcile, start or stop it.
`ReconciledAt` is `Converged` for an id that rests and is not due, which every step
keeps: what takes the last reason to look again away has looked, and a start or stop on
top of the stack still fits the record it was decided for (`TopFits`). `FitsAt` says the
same of the files and the record of what runs.

**`ExtensionQueryProofs`**, for any extensions and bounds, with premises named where
they are needed:

- `QueryTypes` (`TypeOK`), over the app's record, the sockets and each process.
- `WireInOrder` (`WireOrdered`). The invariant relates the requests on their way, the
  client's threads and what they emitted, and the responses: whatever will still be
  sent belongs to an input not older than what was, and a handler that ended, or
  was superseded, sends no more.
- `NoLateLoading` (`AnswerStays`, the first half of `AnsweredForGood`).
- `BufferedIsLatest` (`BufferLatest`) and `PaintedIsLatest` (`PaintsLatest`) when
  there is one extension, or none fails (`Alone`). Without that premise they are
  false (`QueryNotice`). The invariant follows every answer from the request to the
  buffer: what the app still accepts is for the input shown last.
- `OpenRequestKept` (`RequestKept`) when no activation is answered by a new query;
  with one it is false (`QuerySetQuery`).
- `StreamShown` (`StreamFaithful`) without activations: the rows the extension
  streamed, less what is on the wire, are those painted and buffered. An activation
  within the throttle drops a buffered batch (section 3), so the premise is needed.
- `IdsOfRequest` and `IdsStayExact` (`IdsExact`, an id names the result it was sent
  with). An id that is out, in a row that is painted, buffered, on the wire or to be
  activated, either names a result of the request in the cache or belongs to a request
  that can no longer reach the cache (`Kept`). That holds as long as the cache takes in
  requests in their order (`Rising`). `IdsOfRequest` takes this as a premise and is true
  of every behaviour that has it; `IdsStayExact` proves it where no activation is
  answered with results. Some premise is needed: with such answers the cache goes back to
  an older request, and the run `QueryIds` finds the wrong sibling.

**`LauncherProofs`** has thirteen proofs, one component each; the last five are about sums,
insertions and lists, and reach them through recursive functions (see below).

- *Popup.* `PopupAlwaysYields` (`PopupYields`), for sessions of any length: whatever
  is up under a visible popup is missed by design, underway as a signal, or among
  the blockers found while opening (`Answered`), and the watcher is subscribed
  exactly while it has to be.
- *Lookups.* `LookupPaintsEntry` (`PaintsEntry`): a paint that is accepted, a load id
  that is current and a pending turn each belong to the text of the entry, or the
  popup was closed or opened since and something that clears them is underway.
- *Applications.* `CatalogFresh` (`EntriesFresh`): what a directory was read as is
  what it holds, or a signal of the watcher is to come, or it changed unwatched.
- *Selection.* `SelectionAlwaysKept` (`SelectionKept`), for lists of any length: the
  steps around a list, and over headers at its ends, reach every row that can be
  selected. "Every" is an induction over the distance; see below.
- *Keywords.* `KeywordsAlwaysRoute` (`KeywordsRoute`): what Core registered agrees
  with what the modes find, up to the keywords changed since the last load.
- *Rotation.* `RotationActsAsTitled` (`RotationAsTitled`): the row's title was made from
  one reading and the click asks for the opposite of another, each of which may have
  failed. While the rotation does not change they differ exactly if one of them was
  wrong (`misread`), and then the click does the opposite of the title; settings that
  are underway, end in another order or fail change nothing of that.
- *Quitting.* `ClipboardKept` (`ClipboardSurvives`, the safety half of `QuitsInTime`):
  no quit timer that runs has less left than the clipboard is still owed.
- *Query.* `QueryAlwaysKept` (`QueryKept`), for texts of any number of words: every
  step takes words off at the ends that are no names (`Trimmed`), which composes.
- *Time limits.* `LimitsKeptExactly` (`LimitExact`), for every history and clock: what
  the walk over the history's transitions adds up is the number of seconds of today in
  which the session was active (`SecondsCounted`), so the popup is refused exactly when
  malcontent's session ended or the daily limit is reached.
- *Rows.* `RowsActAsShown` (`ActsAsShown`), for any sequence of providers: the invariant
  is that everything painted has a shape on which the provider that made it and
  `activate_result` agree; the buckets and the entries made of them keep it.
- *Which application comes first.* `AlwaysBestFirst` (`BestFirst`), for any applications
  of different names and any number of launches. The sum of the scores of n consistent
  launches is n(n+1)(n+2)(n+3)/4, which for n launches is more than twice what it is for
  m when 4(n - m) > m (`Outweighs`); the unique list starts with the head of what it was given.
  GNOME's scores come before that: for any tables of them, the head is not below anything
  by GNOME's count, and the launches decide among what GNOME does not tell apart.
- *Clicks on application rows.* `AppRowsAlwaysAct` (`AppRowsAct`), for any applications
  and windows. Two premises: a session whose windows come from ext-foreign-toplevel-list
  is excluded, since there the property is false (`AppSwitch`); and applications can be told
  apart (`ToldApart`: what identifies one does not match another's windows, and one that
  is started over D-Bus has an action that opens a window, or needs no second one). The
  property itself excepts one kind of row, which the code gets wrong (section 3): a
  new window offered for nothing but an exported action (`OnlyByExportedAction`).
- *Wayland sessions.* `SessionStaysFaithful` (`SessionFaithful`), for any number of
  windows, workspaces and changes, and pieces cut anywhere. What the client heard and
  what is still on the wire are read as one log. `Accurate` says of a log that things
  are announced in the order of their ids (`NewsRise`), that it names all there is and
  says of everything else that it went (`Named`), and that the last it says of each
  thing is true (`Told`). It is enough for the rows made of the log, by one row per
  announcement, to be the compositor's list (`RowsAccurate`, `ListedRight`) and for the
  pick to be the meant one in each of the three ways (`PickRight`). Binding makes the
  log accurate, a change keeps it accurate for the new list, cutting the wire leaves
  it as it is; from the answer on, what counts is its part up to the answer
  (`AnsweredBy`), which later changes do not touch. TLC checked the invariant
  (`SessionInv`) before it was proved.

**`StoreProofs`** is about what is written to disk or to the desktop.

- *Installed copies.* `InstallKeepsCopy` (`DirectoriesKept`), for any commits and
  number of jobs, and at most one fault. A property of two ends of a job is not
  inductive; `CopyAt` follows the installed copy through the steps (in place until
  the backup has it, in the backup until the new one is in place), and `CleanAt`
  says what a job without a fault has on disk beside it. The premise is needed: a
  second fault, in the job that repairs the first, loses the copy.
- *Settings.* `SavesChangeOneKey` (`SaveChangesOneKey`), for any processes, keys and
  values: what a process holds is what it loaded and the changes it made since, and
  the temporary file of a save holds what that process held.
- *Hotkeys.* `ShownIsBound` (`ShownHotkeyWorks`), with at most one failing write. The
  invariant has the store's part (`StoreHolds`) and the portal's: requests are
  answered in order, only the newest is awaited (`NewestLast`, `ClientCurrent`), and
  a session is held by the client or about to be closed (`OneSession`). The premise
  is needed: with two faults the write that takes back a failed one fails as well,
  and the desktop keeps half a binding; TLC shows it with `MaxHotkeyFaults = 2`.

**`SchedulingProofs`** is about the loops and the socket between them.

- *The extension's loop.* `LoopServesCalls` (`CallsServed`), for any threads, delays
  and number of callbacks. `Awake` says that whoever handed something over has
  written to the wake-up pipe, or is about to, whenever the loop may block. `Ordered`
  says of two callbacks of one thread with one delay that the later one is behind
  the earlier on the way from hand to list to heap to run (`Precedes`), which takes
  that due times are made with a clock that does not go back and that ties on the
  heap are broken by the running number (`AllMade`).
- *The app's timers.* `TimersObey` (`CallsAllowed`), an action property over
  `Allowed`: what a thread was told is cancelled is refused by every later look, and
  a single-shot call that was made is cancelled or is being made.
- *Framing.* `FramingSurvives` (`FramesKept`), for any messages and cuts. `Framed` says
  of the pieces in the reader's buffer, on the socket and with the writer, read as
  one sequence, that they are whole messages in the order they were sent. Writing
  and reading only move the cut between the three, so they leave that sequence as
  it is; sending appends to it; a handled line is its first whole message
  (`LineWhole`), which is why a line never mixes two messages.

**What proving changed in the model.** Overlapping `CASE` guards, of which TLC takes
the first and a proof may take any, were made exclusive (`EffectHandled`, `Tier`,
`OpenedLink`, `Done`, `PickDesktop`). Assumptions on constants that the code justifies
were made explicit (`HotkeyAssumption`: the fallbacks are distinct;
`RoutingAssumption`; `SelectionAssumption`). `EntriesFresh`, `QueryKept` and
`FramesKept` say without filters what they said with them, and `SocketMessages`
handles one line per step, as the loop in `_read_available` does, instead of all
lines of a read at once; a line now parses only if it is one whole message. Sums and
lists that were folded in `TimeLimits`, `LauncherRows` and `AppSearch` became recursive
functions with the same loop, and the windows of `AppWindows` a set whose ids are the
order of the list; `WaylandClient` builds its rows by a recursive function, announces
in the compositor's order, and no longer lets a closed toplevel take further events (as
`collect_ext_foreign_handles`). `ExtensionService` lets the removal of a directory fail
half way (`extension_record.py:217`). `ActsAsShown` now says of a failed launch that its program was
looked for and not found *before*, as the cache of `test_gio_launch.py:86-94` has it.

**Inductions.** The library's induction theorems cannot be instantiated by the installed
provers, so an induction is replaced by taking the least counterexample (`LeastNumber`):
for the selection, the query and the first line directly, and for a recursive function by
a *walk*, a sequence that is shown to exist step by step and whose last element is the
function's value (`WalkDefined`, `WalkStays`). What a walk's steps keep, its end has.

**Only model-checked.** Liveness, fairness and what a `RECURSIVE` operator computes are
out of the prover's reach. That leaves with TLC:

- `LookupsPainted`, `QuitsInTime`, `ExitReported`, `CancelledStops`, `PreviewFollowed`,
  `JobsSettle` and the second half of `AnsweredForGood`: liveness.
- `ReadAsWritten`: the grammar of `Calculator` is recursive.
- `RowsOfWindows`: the rows are filtered and folded from the windows of up to four sources.
- `IdsExact` on the instance of `QueryService`, where one activation may be answered by a
  list: the theorems cover it only as far as it is `Rising`.

## 5. Not modelled

- *Without a model:* the event bus (a table filled at import and never changed),
  launcher helpers that only tests call (pop-up position and chrome, focus loss,
  click outside, unredirect, on-screen keyboard, input method, the live-search
  watchers), the legacy calculator and file browser modes (not registered),
  migrations and start-up probes.
- *Presentation:* looks, geometry, scaling, icons, QML, the preferences dialogs,
  toasts; `prefs_window.py` is modelled as far as it asks something of the service,
  the hotkeys or the keywords.
- *Protocol formats:* X11 properties, AT-SPI, D-Bus and HTTP encodings, git and pip.
- *Text conversion:* units, colours, clocks, currencies, word matching, titles and
  the ordering of sections.
- *In the modelled components:* alt activation (the list of actions), launch
  triggers, notifications and clipboard messages of extensions, error texts of
  processes, parsing of their log records, user preferences of extensions, home and
  recency rows of windows, legacy effects and listeners.
- *Left out of a component's environment:* an application that asking for its actions
  starts over D-Bus (`probe_gtk_actions`), windows without a title or class.
- *Branches of the model that no run takes:* accessible windows merged with others
  (`A11y`: with it two windows of one application and title become one row), a
  second fault of `ExtensionInstall` and `Hotkeys`.

## 6. Plan

1. Home and recency rows of `WindowList`; action lists and effects that close the
   window in `QueryCore`; notifications of extensions.
2. The hand-over from a second instance of the app to the first.
3. Theorems about `WindowList`, with its filters put as choices of numbers; a refinement of a specification of lookups by `LauncherLookup`.
