------------------------------ MODULE MCDesktop ------------------------------
(***************************************************************************)
(* The components around the extensions, on small instances.  They share   *)
(* no state, so a behaviour is one of one part and the others rest; which  *)
(* parts a run looks at is its constant Parts.                             *)
(***************************************************************************)
EXTENDS LauncherLookup, Selection, LauncherRows, QueryPlan, Calculator, AppCatalog, AppSearch,
        AppWindows, WindowList, WaylandClient, SystemActions, PopupSession, AppShell, TimeLimits,
        Hotkeys, ConfigStore, TriggerRouting, ExtensionInstall, ExtensionExit, SocketMessages,
        MiniLoop, QtTimers, PreviewLog

CONSTANTS Parts, firefox, esr, gimp, editor, text, files, music, control

VARIABLE part

-----------------------------------------------------------------------------
(* The values of the constants.                                              *)

TheWants == [q \in Queries |-> IF q = "paths" THEN Keyed \cup Shared ELSE Keyed \cup {Windows}]

ARow(id, look, kind) == [id |-> id, look |-> look, kind |-> kind]
TheLists == UNION {[1 .. n -> {ARow(NoId, "header", "header"), ARow(1, "x", "row"), ARow(2, "y", "row"),
                               ARow(NoId, "x", "row"), ARow(NoId, "y", "inert")}] : n \in 0 .. 2}
TheDeltas == {1, -1, 2, -2}

(* Plans of one provider each, of one that falls back on the web or comes    *)
(* after it, and of a command.                                               *)
Providers == {"url", "path", "places", "bookmarks", "apps", "calculator", "windows", "system", "settings", "files"}
ThePlans ==
    {PlanSearch(<<"name">>, {p}, FALSE) : p \in Providers}
    \cup {PlanSearch(<<"name">>, {"path", "web"}, webFirst) : webFirst \in BOOLEAN}
    \cup {PlanSearch(<<"!", "name">>, {"command", "prefixes"}, FALSE)}

TheDirs == <<"user", "system">>

(* Firefox, a variant of it, and another application. *)
TheApps == {firefox, esr, gimp}
TheBaseName == [a \in TheApps |-> IF a = esr THEN firefox ELSE a]
TheVariants == {esr}
TheEntryOf == [a \in TheApps |-> [dbus |-> a = gimp, terminal |-> a = esr, exec |-> TRUE, single |-> FALSE]]

(* GNOME has no file, or counts two applications in its own order and not the third. *)
TheUsage == {gimp :> 1 @@ esr :> 2}

AnApp(needles, dbus, single, newWindow, unique, exported) ==
    [needles |-> needles, tokens |-> IF "org.gnome.nautilus" \in needles THEN {"org", "gnome", "nautilus"}
                                     ELSE IF "texteditor" \in needles THEN {"org", "gnome", "texteditor"}
                                     ELSE needles,
     dbus |-> dbus, single |-> single, newWindow |-> newWindow, unique |-> unique, exported |-> exported]
TheCatalog ==
    editor :> AnApp({"gimp"}, FALSE, FALSE, FALSE, FALSE, FALSE)
    @@ text :> AnApp({"org.gnome.texteditor", "texteditor"}, FALSE, FALSE, FALSE, TRUE, FALSE)
    @@ files :> AnApp({"org.gnome.nautilus", "nautilus"}, TRUE, FALSE, TRUE, TRUE, TRUE)
    @@ music :> AnApp({"rhythmbox"}, FALSE, TRUE, FALSE, FALSE, FALSE)
    @@ control :> AnApp({"control"}, FALSE, TRUE, FALSE, TRUE, TRUE)

(* Windows of two applications, one of them with two processes. *)
AWindow(id, app, title, work, sticky, skip) ==
    [id |-> id, class |-> IF app = 1 THEN "x" ELSE "y", pid |-> app, x11 |-> app = 1, title |-> title,
     work |-> work, sticky |-> sticky, skip |-> skip, type |-> "normal", hidden |-> id = 3]
TheScreens ==
    {<<AWindow(1, 2, "a", 1, FALSE, FALSE), AWindow(2, 3, "a", 2, FALSE, TRUE)>>,
     <<AWindow(1, 1, "a", 1, FALSE, FALSE), AWindow(2, 1, "b", 2, FALSE, TRUE)>>}
    \cup {<<AWindow(1, 1, "a", 2, TRUE, FALSE), AWindow(2, 3, "b", 0, FALSE, FALSE)>>,
          <<AWindow(1, 2, "a", 1, FALSE, FALSE), AWindow(2, 3, "a", 2, FALSE, FALSE), AWindow(3, 3, "a", 0, TRUE, FALSE)>>}
TheNumbers == {{1, 2}, {1, 3}}

TheFallbacks == <<"ctrl", "super", "meta">>
TheDefault == [k \in Keys |-> IF k = "listed" THEN 1 ELSE Empty]
TheShortcuts == <<"s1", "s2">>
TheExtensions == <<"e1", "e2">>

-----------------------------------------------------------------------------
(* One part starts anywhere its specification starts; the others are at one  *)
(* of their initial states.                                                  *)

DesktopInit ==
    /\ part \in Parts
    /\ LookupInit /\ PopupInit /\ ConfigInit /\ LoopInit /\ SocketInit /\ TimersInit /\ CalcInit
    /\ PreviewInit
    /\ ShellInit /\ (part # "shell" => ~persistent /\ ~blocked)
    /\ SelectionInit /\ (part # "selection" => lastQuery = CHOOSE q \in Typed : TRUE)
    /\ ExitInit /\ (part # "exit" => chatty = CHOOSE c \in Chatty : TRUE)
    /\ InstallInit /\ (part # "install" => offered = 1)
    /\ HotkeyInit /\ (part # "hotkeys" => desk = CHOOSE d \in HotkeyDesktops : TRUE)
    /\ SearchInit /\ (part # "search" => run.app = firefox)
    /\ AppsInit /\ (part # "apps" => sessionKind = (CHOOSE s \in Sessions : TRUE) /\ ~raiseStarted)
    /\ WaylandInit /\ (part # "wayland" => protocol = "toplevels" /\ ~bindable)
    /\ IF part = "limits" THEN LimitInit
       ELSE limited = "unasked" /\ limitSession = CHOOSE s \in LimitSession : s.history = <<>>
    /\ IF part = "plan" THEN PlanInit ELSE planText = <<>> /\ planned = Unplanned
    /\ IF part = "rows" THEN RowsInit
       ELSE here = {} /\ probed = <<>> /\ paintedRows = <<>> /\ activated = <<>> /\ sessionChanges = 0
    /\ CatalogInit /\ (part # "catalog" => dirsMade = {} /\ filtered)
    /\ WindowsInit /\ (part # "windows" => /\ desktop = (CHOOSE d \in Desktops : TRUE) /\ introspect = "none" /\ numbers = {1, 2}
                                           /\ screen = (CHOOSE s \in Screens : TRUE))
    /\ RoutingInit /\ (part # "routing" => \A t \in TriggerIds : keywordOf[t] = NoKeyword)
    /\ IF part = "system" THEN SystemInit
       ELSE /\ outcome = [p \in Places |-> "missing"] /\ portal = "fails" /\ allowed = {} /\ answers = Unasked
            /\ gsettings = FALSE /\ locked = FALSE /\ turned = FALSE /\ misread = 0 /\ setting = <<>> /\ systemRows = {}
            /\ sessionTurns = 0 /\ actionRun = NoAction

(* A step is one of the part, with the others as they are. *)
DesktopNext ==
    /\ UNCHANGED part
    /\ part # "lookup" => UNCHANGED lookupVars
    /\ part # "selection" => UNCHANGED selectionVars
    /\ part # "rows" => UNCHANGED rowVars
    /\ part # "plan" => UNCHANGED planVars
    /\ part # "calculator" => UNCHANGED calcVars
    /\ part # "catalog" => UNCHANGED catalogVars
    /\ part # "search" => UNCHANGED searchVars
    /\ part # "apps" => UNCHANGED appVars
    /\ part # "windows" => UNCHANGED windowVars
    /\ part # "wayland" => UNCHANGED waylandVars
    /\ part # "system" => UNCHANGED systemVars
    /\ part # "popup" => UNCHANGED popupVars
    /\ part # "shell" => UNCHANGED shellVars
    /\ part # "limits" => UNCHANGED limitVars
    /\ part # "hotkeys" => UNCHANGED hotkeyVars
    /\ part # "config" => UNCHANGED configVars
    /\ part # "routing" => UNCHANGED routingVars
    /\ part # "install" => UNCHANGED installVars
    /\ part # "exit" => UNCHANGED exitVars
    /\ part # "socket" => UNCHANGED socketVars
    /\ part # "loop" => UNCHANGED loopVars
    /\ part # "timers" => UNCHANGED timerVars
    /\ part # "preview" => UNCHANGED previewVars
    /\ \/ part = "lookup" /\ LookupNext
       \/ part = "selection" /\ SelectionNext
       \/ part = "rows" /\ RowsNext
       \/ part = "plan" /\ PlanTyped
       \/ part = "calculator" /\ CalcNext
       \/ part = "catalog" /\ CatalogNext
       \/ part = "search" /\ SearchNext
       \/ part = "apps" /\ AppsNext
       \/ part = "windows" /\ WindowsNext
       \/ part = "wayland" /\ WaylandNext
       \/ part = "system" /\ SystemNext
       \/ part = "popup" /\ PopupNext
       \/ part = "shell" /\ ShellNext
       \/ part = "limits" /\ AskLimits
       \/ part = "hotkeys" /\ HotkeyNext
       \/ part = "config" /\ ConfigNext
       \/ part = "routing" /\ RoutingNext
       \/ part = "install" /\ InstallNext
       \/ part = "exit" /\ ExitNext
       \/ part = "socket" /\ SocketNext
       \/ part = "loop" /\ LoopNext
       \/ part = "timers" /\ TimersNext
       \/ part = "preview" /\ PreviewNext

desktopParts ==
    <<part, lookupVars, selectionVars, rowVars, planVars, calcVars, catalogVars, searchVars, appVars, windowVars,
      waylandVars, systemVars, popupVars, shellVars, limitVars, hotkeyVars, configVars, routingVars, installVars,
      exitVars, socketVars, loopVars, timerVars, previewVars>>

DesktopSpec == DesktopInit /\ [][DesktopNext]_desktopParts

(* A resting part has nothing enabled that its fairness is about. *)
DesktopFairSpec ==
    DesktopSpec /\ LookupFairness /\ ShellFairness /\ TimersFairness /\ WF_exitVars(ExitFair) /\ PreviewFairness
==============================================================================
