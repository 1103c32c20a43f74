---- MODULE AppWindows ----
(***************************************************************************)
(* Application rows and the windows their applications have open.  The     *)
(* label of a row and the offer of a new window come from the window list  *)
(* of the last refresh; a click asks for the windows again, brings one of  *)
(* the application's to the front, or starts the application.              *)
(*                                                                         *)
(* An application is a record of its desktop entry, of what it does when   *)
(* started while it runs, and of whether it exports an action of its own   *)
(* for a new window.  Its windows carry its class words; a launch that     *)
(* fails is left out.                                                      *)
(***************************************************************************)
EXTENDS Integers, FiniteSets

CONSTANTS
    Catalog,      \* [application -> [needles, tokens, dbus, single, newWindow, unique, exported]]
    Sessions,     \* kinds of session a behaviour may start in: "x11", "sway", "ext"
    MaxWindows,   \* bound: windows opened in a behaviour
    NoOne         \* no application
ASSUME WindowBound == MaxWindows \in Nat

CatalogApps == DOMAIN Catalog

VARIABLES
    sessionKind,      \* the kind of session
    raiseStarted, \* settings.raise_if_started
    opened,       \* the open windows; the list has them in the order of their ids
    lastWindow,   \* the identity of the window opened last
    cachedList,   \* cached_windows(): the windows of the last refresh
    appRows,      \* the rows on screen: [app, kind], kind "start", "switch" or "new"
    onTop,        \* the window with the focus, 0 for none
    used          \* the row the last step activated, if it activated one

appVars == <<sessionKind, raiseStarted, opened, lastWindow, cachedList, appRows, onTop, used>>

NoRow == [app |-> NoOne, kind |-> "none"]

AppRow == [app : CatalogApps, kind : {"start", "switch", "new"}]

AppsTypeOK ==
    /\ sessionKind \in Sessions /\ raiseStarted \in BOOLEAN
    /\ \A w \in opened \cup cachedList : w.app \in CatalogApps /\ w.id \in 1 .. MaxWindows
    /\ lastWindow \in 0 .. MaxWindows /\ onTop \in 0 .. MaxWindows
    /\ appRows \subseteq AppRow /\ used \in AppRow \cup {NoRow}

AppMatchesWindow(a, w) == Catalog[a].needles \cap Catalog[w.app].tokens # {}
MatchingWindows(a, ws) == {w \in ws : AppMatchesWindow(a, w)}
WindowsOf(a) == {w \in opened : w.app = a}
EarliestOf(ws) == CHOOSE w \in ws : \A v \in ws : w.id <= v.id
LatestOf(ws) == CHOOSE w \in ws : \A v \in ws : v.id <= w.id

(***************************************************************************)
(* The rows of a search.  A window of an X11 session says itself that its  *)
(* application is unique; elsewhere the application is asked, and answers  *)
(* while it runs.                                                          *)
(***************************************************************************)
AppRuns(a) == WindowsOf(a) # {}

AppIsUniqueGtk(a, ws) ==
    \/ sessionKind = "x11" /\ \E w \in MatchingWindows(a, ws) : Catalog[w.app].unique
    \/ MatchingWindows(a, ws) # {} /\ Catalog[a].unique /\ AppRuns(a)

(* The bus names asked for their actions: those of the windows, where they *)
(* carry one, and the application's own.                                   *)
MuxerTargets(a, ws) == {a} \cup (IF sessionKind = "x11" THEN {w.app : w \in MatchingWindows(a, ws)} ELSE {})

MuxerHasNewWindow(a, ws) == \E b \in MuxerTargets(a, ws) : Catalog[b].exported /\ AppRuns(b)

CanOpenNewWindow(a, ws) ==
    /\ MatchingWindows(a, ws) # {}
    /\ \/ MuxerHasNewWindow(a, ws)
       \/ ~Catalog[a].single /\ (Catalog[a].newWindow \/ ~AppIsUniqueGtk(a, ws))

RowsOfApps(found) ==
    {[app |-> a, kind |-> IF MatchingWindows(a, cachedList) # {} THEN "switch" ELSE "start"] : a \in found}
    \cup {[app |-> a, kind |-> "new"] : a \in {b \in found : CanOpenNewWindow(b, cachedList)}}

SearchAppRows(found) ==
    /\ appRows' = RowsOfApps(found)
    /\ used' = NoRow
    /\ UNCHANGED <<sessionKind, raiseStarted, opened, lastWindow, cachedList, onTop>>

RefreshList ==
    /\ cachedList # opened
    /\ cachedList' = opened
    /\ used' = NoRow
    /\ UNCHANGED <<sessionKind, raiseStarted, opened, lastWindow, appRows, onTop>>

(***************************************************************************)
(* Starting an application, and what the application does then.            *)
(***************************************************************************)
NewWindow(a, skip) ==
    /\ lastWindow < MaxWindows
    /\ lastWindow' = lastWindow + 1
    /\ opened' = opened \cup {[id |-> lastWindow + 1, app |-> a, skip |-> skip]}
    /\ onTop' = lastWindow + 1

Raise(w) == onTop' = w.id /\ UNCHANGED <<opened, lastWindow>>

OneInstance(a) == Catalog[a].dbus \/ Catalog[a].unique \/ Catalog[a].single

AppStarted(a) ==
    IF OneInstance(a) /\ WindowsOf(a) # {} THEN Raise(LatestOf(WindowsOf(a))) ELSE NewWindow(a, FALSE)

TryRaiseApp(a) == sessionKind = "x11" /\ WindowsOf(a) # {}

LaunchApp(a, raiseExisting) ==
    IF raiseExisting /\ (raiseStarted \/ Catalog[a].single) /\ TryRaiseApp(a)
    THEN Raise(LatestOf(WindowsOf(a)))
    ELSE AppStarted(a)

(***************************************************************************)
(* Bringing a window to the front: by the id of its row, which the tools   *)
(* of a session understand or not.  The payload names neither the          *)
(* application nor the accessible object, so no other way is tried.        *)
(***************************************************************************)
CanFocus == sessionKind # "ext"

BringToFront(w) == IF CanFocus THEN Raise(w) ELSE UNCHANGED <<opened, lastWindow, onTop>>

FrontWindow(a, ws) ==
    LET mine == MatchingWindows(a, ws)
        listed == {w \in mine : ~w.skip}
    IN  IF listed # {} THEN EarliestOf(listed) ELSE EarliestOf(mine)

FocusOpenWindows(a, ws) == IF MatchingWindows(a, ws) # {} THEN {FrontWindow(a, ws)} ELSE {}

(* open_new_window: the entry's own action, or the program once more. *)
OpenNewWindow(a) == IF Catalog[a].newWindow THEN NewWindow(a, FALSE) ELSE LaunchApp(a, FALSE)

(* Mutant: the windows of the last refresh are used. *)
SwitchCached(a) ==
    LET front == FocusOpenWindows(a, cachedList)
    IN  \/ \E w \in front : BringToFront(w)
        \/ front = {} /\ LaunchApp(a, TRUE)
SwitchOrLaunch(a) ==
    LET front == FocusOpenWindows(a, opened)
    IN  \/ \E w \in front : BringToFront(w)
        \/ front = {} /\ LaunchApp(a, TRUE)

UseRow(r) ==
    /\ r \in appRows
    /\ IF r.kind = "new" THEN OpenNewWindow(r.app) ELSE SwitchOrLaunch(r.app)
    /\ cachedList' = IF r.kind = "new" THEN cachedList ELSE opened
    /\ appRows' = {}
    /\ used' = r
    /\ UNCHANGED <<sessionKind, raiseStarted>>

(***************************************************************************)
(* The rest of the desktop.                                                *)
(***************************************************************************)
UserOpens(a, skip) ==
    /\ NewWindow(a, skip)
    /\ used' = NoRow
    /\ UNCHANGED <<sessionKind, raiseStarted, cachedList, appRows>>

UserCloses(w) ==
    /\ opened' = opened \ {w}
    /\ onTop' = IF onTop = w.id THEN 0 ELSE onTop
    /\ used' = NoRow
    /\ UNCHANGED <<sessionKind, raiseStarted, lastWindow, cachedList, appRows>>

AppsInit ==
    /\ sessionKind \in Sessions /\ raiseStarted \in BOOLEAN
    /\ opened = {} /\ lastWindow = 0 /\ cachedList = {} /\ appRows = {} /\ onTop = 0
    /\ used = NoRow

AppsNext ==
    \/ \E found \in SUBSET CatalogApps : Cardinality(found) = 1 /\ SearchAppRows(found)
    \/ RefreshList
    \/ \E r \in appRows : UseRow(r)
    \/ \E a \in CatalogApps, skip \in BOOLEAN : UserOpens(a, skip)
    \/ \E w \in opened : UserCloses(w)

AppsSpec == AppsInit /\ [][AppsNext]_appVars

(***************************************************************************)
(* A click on an application's row leaves a window of that application on  *)
(* top, whatever opened or closed since the row was painted: one it had if *)
(* it had one, the one it opens otherwise (LauncherMode.activate_result,   *)
(* focus_open_windows, launch_app).                                        *)
(***************************************************************************)
ClickLands ==
    [][used' # NoRow =>
        \E w \in opened' :
            /\ w.id = onTop' /\ w.app = used'.app
            /\ used'.kind # "new" /\ WindowsOf(used'.app) # {} => w \in opened]_appVars

(***************************************************************************)
(* A row that offers a new window opens one, if a search at that moment    *)
(* would offer it or the application has gone: the comment over            *)
(* can_open_new_window (apps.py:429-432) and the title "New window" that   *)
(* test_apps.py:316-317 requires say so of every such row.  The code keeps *)
(* it but for one kind of row: where the exported action is the only       *)
(* reason for the offer, since open_new_window (apps.py:448-460) never     *)
(* calls that action, and starts a program that has one instance once      *)
(* more, which brings a window it has to the front.                        *)
(***************************************************************************)
OffersWhatItOpens(row) ==
    /\ row.kind = "new"
    /\ WindowsOf(row.app) = {} \/ CanOpenNewWindow(row.app, opened)
    => lastWindow' = lastWindow + 1
OnlyByExportedAction(a) == OneInstance(a) /\ ~Catalog[a].newWindow /\ MuxerHasNewWindow(a, opened)
NewMeansNew == [][OffersWhatItOpens(used') \/ OnlyByExportedAction(used'.app)]_appVars

(* Both together: what a row of an application says is what a click on it does. *)
AppRowsAct == ClickLands /\ NewMeansNew
===============================================================================
