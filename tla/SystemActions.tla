---- MODULE SystemActions ----
(***************************************************************************)
(* Rows for power, session and screenshots.  What a search offers depends  *)
(* on the answers logind gave the first time, and the row for the screen's *)
(* rotation is titled by the state it was painted in; activating a row     *)
(* asks the portal, changes a setting, or starts the first of the action's *)
(* commands whose program is installed, without waiting for its outcome.   *)
(* The rotation is read and set by gsettings, which may be missing, fail   *)
(* or take too long; a reading that failed says it is not locked.          *)
(***************************************************************************)
EXTENDS Naturals, Sequences, FiniteSets, SequencesExt

CONSTANTS
    OfferedActions,  \* the actions considered, of the table below
    MaxTurns,        \* bound: how often the session changes by itself
    MaxSettings      \* bound: values on their way to the setting

(* The programs of an action's commands, in order; a command is its place. *)
Commands(a) ==
    CASE a = "lock" -> <<"loginctl", "xdg-screensaver", "gnome-screensaver-command">>
      [] a = "logout" -> <<"gnome-session-quit", "loginctl">>
      [] a = "suspend" -> <<"systemctl", "loginctl">>
      [] a \in {"restart", "shutdown"} -> <<"systemctl", "gnome-session-quit">>
      [] a = "switch-user" -> <<"gdmflexiserver", "dm-tool">>
      [] a = "screenshot" -> <<"gtk-launch", "gtk-launch", "gnome-screenshot", "gnome-screenshot", "grim">>
      [] OTHER -> <<>>

NeedsLogind == {"shutdown", "restart", "suspend"}
Places == UNION {{a} \X DOMAIN Commands(a) : a \in OfferedActions}
Program(p) == Commands(p[1])[p[2]]

VARIABLES
    outcome,     \* what a command would do: [place -> "missing", "fails" or "works"]
    gsettings,   \* the program that reads and sets the rotation is installed
    portal,      \* the portal's answer to a screenshot: "shows" or "fails"
    allowed,     \* what logind allows now, of NeedsLogind
    answers,     \* probe_logind's cache: what it allowed when asked, or "unasked"
    locked,      \* the screen's rotation is locked
    setting,     \* values on their way to the setting, each with a process of its own
    systemRows,  \* the rows on screen: [action, title]
    turned,      \* ghost: the rotation changed since the rows were painted
    misread,     \* ghost: readings that were wrong, of the two behind the last title and click
    sessionTurns,       \* changes so far
    actionRun          \* what the last step did: [action, title, did]

systemVars == <<outcome, gsettings, portal, allowed, answers, locked, setting, systemRows, turned, misread,
                sessionTurns, actionRun>>

NoAction == [action |-> "none", title |-> "none", did |-> "nothing"]
Unasked == {"unasked"}

SystemTypeOK ==
    /\ outcome \in [Places -> {"missing", "fails", "works"}] /\ portal \in {"shows", "fails"}
    /\ allowed \subseteq NeedsLogind /\ answers \in SUBSET NeedsLogind \cup {Unasked}
    /\ gsettings \in BOOLEAN /\ locked \in BOOLEAN /\ setting \in Seq(BOOLEAN)
    /\ turned \in BOOLEAN /\ misread \in 0 .. 2 /\ sessionTurns \in 0 .. MaxTurns
    /\ \A r \in systemRows : r.action \in OfferedActions

(***************************************************************************)
(* A search; the rotation is read each time, logind is asked once.  An     *)
(* action about which logind gave no answer is available.                  *)
(***************************************************************************)
ProbeLogind ==
    IF answers # Unasked THEN {answers}
    ELSE {allowed \cup unanswered : unanswered \in SUBSET (NeedsLogind \cap OfferedActions)}
ActionIsAvailable(a, known) == a \in NeedsLogind => a \in known

(* get_orientation_locked: what is locked, or FALSE of a reading that failed. *)
Readings == IF gsettings THEN {locked, FALSE} ELSE {FALSE}
Misread(reading) == IF reading = locked THEN 0 ELSE 1

OrientationTitle(isLocked) == IF isLocked THEN "unlock" ELSE "lock"
Title(a, reading) == IF a = "lock-orientation" THEN OrientationTitle(reading) ELSE a

MatchSystemActions(found, reading) ==
    /\ answers' \in ProbeLogind
    /\ systemRows' = {[action |-> a, title |-> Title(a, reading)] : a \in {b \in found : ActionIsAvailable(b, answers')}}
    /\ turned' = FALSE /\ misread' = Misread(reading) /\ actionRun' = NoAction
    /\ UNCHANGED <<outcome, gsettings, portal, allowed, locked, setting, sessionTurns>>

(***************************************************************************)
(* A click.  Starting a command that is installed counts as done.          *)
(***************************************************************************)
InstalledCommands(a) == {i \in DOMAIN Commands(a) : outcome[<<a, i>>] # "missing"}

(* Mutant: the value asked for last is turned around, not the setting. *)
ToggleAgain(reading) == setting' = IF gsettings THEN Append(setting, IF setting = <<>> THEN ~reading ELSE ~Last(setting))
                                   ELSE setting
ToggleOrientationLock(reading) == setting' = IF gsettings THEN Append(setting, ~reading) ELSE setting

CommandLaunched(a) == IF InstalledCommands(a) = {} THEN "no command" ELSE outcome[<<a, Min(InstalledCommands(a))>>]

RunSystemAction(row) ==
    /\ row \in systemRows
    /\ IF row.action = "lock-orientation"
       THEN /\ Len(setting) < MaxSettings
            /\ \E reading \in Readings : ToggleOrientationLock(reading) /\ misread' = misread + Misread(reading)
       ELSE UNCHANGED <<setting, misread>>
    /\ actionRun' = [action |-> row.action, title |-> row.title,
               did |-> CASE row.action = "lock-orientation" -> IF gsettings THEN "set" ELSE "no command"
                         [] row.action = "screenshot" /\ portal = "shows" -> "works"
                         [] OTHER -> CommandLaunched(row.action)]
    /\ systemRows' = {}
    /\ UNCHANGED <<outcome, gsettings, portal, allowed, answers, locked, turned, sessionTurns>>

(***************************************************************************)
(* The session: one of the processes that set the rotation ends, in any    *)
(* order and perhaps for nothing; the user turns the lock on or off, an    *)
(* administrator changes what is allowed.                                  *)
(***************************************************************************)
SettingEnds(i) ==
    /\ locked' \in {setting[i], locked}
    /\ setting' = RemoveAt(setting, i)
    /\ turned' = (turned \/ locked' # locked)
    /\ actionRun' = NoAction
    /\ UNCHANGED <<outcome, gsettings, portal, allowed, answers, systemRows, misread, sessionTurns>>

SessionAlters ==
    /\ sessionTurns < MaxTurns
    /\ sessionTurns' = sessionTurns + 1
    /\ \/ locked' = ~locked /\ turned' = TRUE /\ UNCHANGED allowed
       \/ allowed' \in SUBSET (NeedsLogind \cap OfferedActions) /\ UNCHANGED <<locked, turned>>
    /\ actionRun' = NoAction
    /\ UNCHANGED <<outcome, gsettings, portal, answers, setting, systemRows, misread>>

SystemInit ==
    /\ outcome \in {o \in [Places -> {"missing", "fails", "works"}] :
                        \A p, q \in Places : Program(p) = Program(q) => (o[p] = "missing" <=> o[q] = "missing")}
    /\ gsettings \in BOOLEAN /\ portal \in {"shows", "fails"} /\ allowed \in SUBSET (NeedsLogind \cap OfferedActions)
    /\ answers = Unasked /\ locked \in BOOLEAN /\ setting = <<>> /\ systemRows = {}
    /\ turned = FALSE /\ misread = 0 /\ sessionTurns = 0 /\ actionRun = NoAction

SystemNext ==
    \/ \E found \in SUBSET OfferedActions, reading \in Readings : MatchSystemActions(found, reading)
    \/ \E row \in systemRows : RunSystemAction(row)
    \/ \E i \in DOMAIN setting : SettingEnds(i)
    \/ SessionAlters

SystemSpec == SystemInit /\ [][SystemNext]_systemVars

(***************************************************************************)
(* The row for the rotation asks for what its title says, however often it *)
(* was used before and whichever of those processes ended, unless the      *)
(* rotation changed under it or one of the two readings, for the title and *)
(* at the click, failed while the screen was locked: the title then says   *)
(* the opposite of what the click does, and two such failures agree again. *)
(* Without gsettings a click sets nothing (get_orientation_locked,         *)
(* orientation_title, toggle_orientation_lock).                            *)
(***************************************************************************)
RotationAsTitled ==
    [][/\ actionRun'.did = "set" /\ ~turned => (Last(setting') = (actionRun'.title = "lock")) = (misread' # 1)
       /\ ~gsettings => setting' = <<>>]_systemVars
==============================================================================
