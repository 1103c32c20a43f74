---- MODULE WindowList ----
(***************************************************************************)
(* The open windows as the launcher offers them.  No source knows all of   *)
(* them on every desktop, so list_windows asks each one it can reach (the  *)
(* X11 client list, GNOME Shell's Introspect interface, the compositor's   *)
(* own tool or Wayland protocol, the accessibility bus) and merges what    *)
(* they say about the same window into one row.  Acting on a row goes      *)
(* through whichever source can do it.                                     *)
(*                                                                         *)
(* A window is a record of what is true of it; a row is what one source    *)
(* says of it.  The text of a window identifier is the source it belongs   *)
(* to and the set of windows it names: wlrctl addresses a window by class  *)
(* and title, so twins share an identifier there.  Titles and classes are  *)
(* model values or short strings, a class stands for its set of words.     *)
(***************************************************************************)
EXTENDS Integers, Sequences, FiniteSets, SequencesExt

CONSTANTS
    Desktops,   \* kinds of session a behaviour may start in
    Screens,    \* sequences of windows, in stacking order, that may be open
    A11y,       \* whether the accessibility bus is on
    Introspects,\* what Introspect's GetWindows may be: see the variable introspect
    Numbered    \* sets of workspace numbers that may exist

VARIABLES
    desktop,    \* the kind of session
    introspect, \* "none": no answer; "bare": titles and classes, as Mutter's; "full": every key read
    screen,     \* the windows that were opened, in stacking order
    open,       \* the identities of those still open
    listing,    \* _window_snapshot.windows
    hits,       \* the rows of the last search, each with the intent it offers
    active,     \* the window with the focus, 0 for none
    numbers,    \* the numbers of the workspaces that exist
    current     \* the number of the workspace on screen

windowVars == <<desktop, introspect, screen, open, listing, hits, active, numbers, current>>

X11Session == desktop \in {"x11", "wmctrl", "i3"}
Window(id) == screen[CHOOSE i \in DOMAIN screen : screen[i].id = id]
Opened == SelectSeq(screen, LAMBDA w : w.id \in open)
Alike(w) == {v.id : v \in {u \in Range(Opened) : u.title = w.title /\ u.class = w.class}}

RowFrom(src, names, w) ==
    [src |-> src, names |-> names, title |-> w.title, class |-> {w.class}, pid |-> 0,
     desk |-> 0, sticky |-> FALSE, skip |-> FALSE, type |-> "normal", ref |-> {}]

(***************************************************************************)
(* One row per source.                                                     *)
(***************************************************************************)
EwmhIndex(n) == Cardinality({m \in numbers : m < n})

EwmhRow(w) ==
    [RowFrom("x11", {w.id}, w) EXCEPT !.pid = w.pid, !.type = w.type, !.skip = w.skip,
        !.sticky = w.sticky, !.desk = IF w.sticky THEN -1 ELSE EwmhIndex(w.work)]

WmctrlRow(w) == [EwmhRow(w) EXCEPT !.pid = 0]

(* Introspect lists what is not hidden, under the number that GNOME Shell   *)
(* gives a window; the launcher writes it like an X11 identifier, which it  *)
(* is for X11 windows only ("full"), or never ("bare").                     *)
IntrospectRow(w) ==
    LET row == RowFrom(IF introspect = "full" /\ w.x11 THEN "x11" ELSE "shell", {w.id}, w)
    IN  IF introspect = "bare" THEN row
        ELSE [row EXCEPT !.pid = w.pid, !.type = w.type, !.skip = w.skip, !.sticky = w.sticky,
                 !.desk = EwmhIndex(w.work)]

WorkspaceDesktop(n) == IF n >= 1 THEN n - 1 ELSE -1

HyprRow(w) ==
    [RowFrom("hypr", {w.id}, w) EXCEPT !.pid = w.pid, !.sticky = w.sticky,
        !.desk = WorkspaceDesktop(w.work), !.skip = w.skip]

NiriRow(w) ==
    [RowFrom("niri", {w.id}, w) EXCEPT !.pid = w.pid, !.desk = WorkspaceDesktop(w.work)]

TreeRow(src, w) ==
    [RowFrom(src, {w.id}, w) EXCEPT !.sticky = w.sticky, !.desk = WorkspaceDesktop(w.work),
        !.pid = IF src = "sway" THEN w.pid ELSE 0, !.skip = w.work < 1]

KwinRow(w) ==
    [RowFrom("kwin", {w.id}, w) EXCEPT !.pid = w.pid, !.sticky = w.sticky, !.skip = w.skip,
        !.desk = IF w.sticky \/ w.work < 1 THEN 0 ELSE w.work - 1]

QtileRow(w) ==
    [RowFrom("qtile", {w.id}, w) EXCEPT !.pid = w.pid, !.desk = WorkspaceDesktop(w.work),
        !.skip = w.skip]

WlrRow(w) == RowFrom("wlr", Alike(w), w)
LswtRow(w) == RowFrom("lswt", {w.id}, w)
ExtRow(w) == RowFrom("ext", {w.id}, w)

(* The class of an accessibility row is the bus name of its application. *)
AtspiRow(w) ==
    [RowFrom("atspi", {w.id}, w) EXCEPT !.class = {"bus"}, !.pid = w.pid, !.ref = {w.id},
        !.skip = w.type = "dock", !.type = w.type]

RowsOf(Source(_), ws) == [i \in DOMAIN ws |-> Source(ws[i])]

Native ==
    LET seen == Reverse(SelectSeq(Opened, LAMBDA w : X11Session \/ w.x11))
    IN  IF desktop = "wmctrl" THEN RowsOf(WmctrlRow, Reverse(seen)) ELSE RowsOf(EwmhRow, seen)

CompositorRow(w) ==
    CASE desktop = "i3" -> TreeRow("i3", w)   [] desktop = "sway" -> TreeRow("sway", w)
      [] desktop = "hypr" -> HyprRow(w)       [] desktop = "niri" -> NiriRow(w)
      [] desktop = "gnome" -> ExtRow(w)       [] desktop = "wlr" -> WlrRow(w)
      [] desktop = "lswt" -> LswtRow(w)       [] desktop = "kwin" -> KwinRow(w)
      [] OTHER -> QtileRow(w)

Shell ==
    IF introspect = "none" THEN <<>> ELSE RowsOf(IntrospectRow, SelectSeq(Opened, LAMBDA w : ~w.hidden))

Compositor == IF desktop \in {"x11", "wmctrl"} THEN <<>> ELSE RowsOf(CompositorRow, Opened)
Overlay == IF A11y THEN RowsOf(AtspiRow, Opened) ELSE <<>>

(***************************************************************************)
(* Merging two lists.                                                      *)
(***************************************************************************)
Focusable(src) == src \in {"hypr", "sway", "i3", "niri", "wlr", "kwin", "qtile"}
Closable(src) == Focusable(src) /\ src # "wlr"

X11Wid(src) == src \in {"x11", "shell"}

Compatible(a, b) == a.class \cap b.class # {}
DesktopUnknown(r) == r.src \in {"ext", "lswt", "wlr", "atspi"} /\ ~r.sticky /\ r.desk \in {0, -1}

PickDesktop(p, x) ==
    IF p.sticky \/ x.sticky THEN -1
    ELSE IF (DesktopUnknown(p) /\ ~DesktopUnknown(x)) \/ (p.desk < 0 /\ x.desk >= 0) THEN x.desk ELSE p.desk

PicksExtraWid(p, x) ==
    \/ X11Wid(x.src) /\ ~X11Wid(p.src)
    \/ Focusable(x.src) /\ ~Focusable(p.src)

Chrome == {"dock", "desktop", "toolbar", "menu", "splash", "utility", "notification"}
PickWindowType(p, x) ==
    IF p.type \in Chrome THEN p.type
    ELSE IF x.type \in Chrome \/ p.type = "normal" THEN x.type ELSE p.type

OverlayInfo(p, x) ==
    LET named == IF PicksExtraWid(p, x) THEN x ELSE p
    IN  [p EXCEPT !.src = named.src, !.names = named.names,
            !.desk = PickDesktop(p, x), !.sticky = p.sticky \/ x.sticky,
            !.pid = IF p.pid > 0 THEN p.pid ELSE x.pid,
            !.skip = p.skip \/ x.skip, !.ref = IF p.ref # {} THEN p.ref ELSE x.ref,
            !.type = PickWindowType(p, x)]

WidMatches(p, extra) == {i \in DOMAIN extra : extra[i].src = p.src /\ extra[i].names = p.names}
PidMatches(p, extra) == {i \in DOMAIN extra : p.pid > 0 /\ extra[i].pid = p.pid}

(* Mutant: the first window of the process will do. *)
IdentityMatchFirst(p, extra, used) ==
    LET wid == WidMatches(p, extra) \ used
        pid == PidMatches(p, extra) \ used
    IN  IF wid # {} THEN {Max(wid)} ELSE IF pid # {} THEN {Min(pid)} ELSE {}
IdentityMatch(p, extra, used) ==
    LET wid == IF WidMatches(p, extra) = {} THEN {} ELSE {Max(WidMatches(p, extra))} \ used
        pid == PidMatches(p, extra) \ used
    IN  CASE wid # {} -> wid
          [] wid = {} /\ Cardinality(pid) = 1 -> pid
          [] OTHER -> {}

TitleMatch(p, extra, used) ==
    LET same == {i \in DOMAIN extra \ used : extra[i].title = p.title /\ Compatible(p, extra[i])}
    IN  IF same = {} THEN {} ELSE {Min(same)}

(* One pass over rows: those Match pairs with an unused row of extra, and the rest. *)
Pass(Match(_, _, _), todo, extra, used) ==
    FoldLeft(LAMBDA acc, p :
                LET hit == Match(p, extra, acc.used)
                IN  IF hit = {} THEN [acc EXCEPT !.rest = Append(@, p)]
                    ELSE [acc EXCEPT !.used = @ \cup hit,
                             !.merged = Append(@, OverlayInfo(p, extra[CHOOSE i \in hit : TRUE]))],
             [merged |-> <<>>, rest |-> <<>>, used |-> used], todo)

ByTitle(todo) ==
    FlattenSeq([i \in DOMAIN todo |->
        IF \E j \in 1 .. i - 1 : todo[j].title = todo[i].title THEN <<>>
        ELSE SelectSeq(todo, LAMBDA p : p.title = todo[i].title)])

MergeWindowLists(base, extra) ==
    IF base = <<>> THEN extra
    ELSE LET byId == Pass(IdentityMatch, base, extra, {})
             byTitle == Pass(TitleMatch, ByTitle(byId.rest), extra, byId.used)
         IN  byId.merged \o byTitle.merged \o byTitle.rest
             \o [i \in 1 .. Len(extra) - Cardinality(byTitle.used) |->
                    extra[SetToSortSeq(DOMAIN extra \ byTitle.used, <)[i]]]

(***************************************************************************)
(* Listing, searching and acting.                                          *)
(***************************************************************************)
ListWindows ==
    /\ listing' = MergeWindowLists(
                      MergeWindowLists(MergeWindowLists(Native, Shell), Compositor), Overlay)
    /\ UNCHANGED <<desktop, introspect, screen, open, hits, active, numbers, current>>

Searchable(r) == ~r.skip /\ r.type \in {"normal", "dialog"}
Matches(r, query) == query = r.title \/ query \in r.class

MatchWindows(intent, query) ==
    /\ hits' = {[kind |-> intent, row |-> r] :
                   r \in {q \in Range(listing) : Searchable(q) /\ Matches(q, query)}}
    /\ UNCHANGED <<desktop, introspect, screen, open, listing, active, numbers, current>>

Focused(r) == IF r.names \cap open = {} THEN active ELSE Min(r.names \cap open)
Process(pid) == {id \in open : Window(id).pid = pid}
Family(r) == UNION {Process(Window(id).pid) : id \in r.names}

FocusWindow(r) ==
    /\ \/ /\ Focusable(r.src) \/ r.src = "x11"
          /\ active' = Focused(r)
       \/ /\ r.src = "shell"      \* no window of that number, as X11 counts them
          /\ active' = active
       \/ /\ ~Focusable(r.src) /\ r.ref # {}
          /\ active' = Focused([names |-> r.ref])
       \/ /\ ~Focusable(r.src) /\ ~X11Session
          /\ \E id \in Family(r) \cup {active} : active' = id
    /\ UNCHANGED <<desktop, introspect, screen, open, listing, numbers, current>>

(* Closed proves nothing about a window of another session's kind. *)
Closed(r) == Closable(r.src) \/ (X11Session /\ X11Wid(r.src))
ReachedByRow(r) == IF Closable(r.src) \/ r.src = "x11" THEN r.names \cap open ELSE {}

(* The routes after the window manager's: its own actions, the button, the signal. *)
Fallbacks(r) ==
    {{}} \cup {{id} : id \in Family(r)} \cup {r.ref \cap open}
         \cup (IF r.pid > 0 THEN {Process(r.pid)} ELSE {})

CloseWindow(r) ==
    /\ \E more \in (IF Closed(r) THEN {{}} ELSE Fallbacks(r)) : open' = open \ (ReachedByRow(r) \cup more)
    /\ active' = IF active \in open' THEN active ELSE 0
    /\ UNCHANGED <<desktop, introspect, screen, listing, numbers, current>>

KillWindow(r) ==
    /\ \E pid \in IF r.pid > 0 THEN {r.pid} ELSE {0} \cup {Window(id).pid : id \in r.names} :
          open' = open \ Process(pid)
    /\ active' = IF active \in open' THEN active ELSE 0
    /\ UNCHANGED <<desktop, introspect, screen, listing, numbers, current>>

ActivateWindow ==
    /\ \E h \in hits : \/ h.kind = "focus" /\ FocusWindow(h.row)
                       \/ h.kind \in {"close", "quit"} /\ CloseWindow(h.row)
                       \/ h.kind = "kill" /\ KillWindow(h.row)
    /\ hits' = {}

(***************************************************************************)
(* Workspaces.                                                             *)
(***************************************************************************)
WorkspaceCount ==
    IF desktop \in {"i3", "sway", "hypr", "niri", "qtile"} THEN Max(numbers) ELSE Cardinality(numbers)

OffersWorkspace(n) == n - 1 \in 0 .. WorkspaceCount - 1

(* The first step of this session that succeeds: wmctrl and EWMH count the     *)
(* workspaces; Sway and Hyprland make one that is missing; KWin, niri and      *)
(* Qtile know their numbers; ext-workspace goes by coordinate or name, and by  *)
(* the place in the list where neither fits (pick_ext_workspace).              *)
InPlace(n) == {m \in numbers : EwmhIndex(m) = n - 1}

Shown(n) ==
    CASE X11Session -> InPlace(n)
      [] desktop \in {"sway", "hypr"} -> {n}
      [] desktop \in {"kwin", "niri", "qtile"} \/ n \in numbers -> {n} \cap numbers
      [] OTHER -> InPlace(n)

(* Where a tool finds no such workspace it does nothing. *)
SwitchWorkspace(n) ==
    /\ OffersWorkspace(n)
    /\ current' \in IF Shown(n) = {} THEN {current} ELSE Shown(n)
    /\ numbers' = numbers \cup {current'}
    /\ UNCHANGED <<desktop, introspect, screen, open, listing, hits, active>>

Vanish(id) ==
    /\ open' = open \ {id}
    /\ active' = IF active = id THEN 0 ELSE active
    /\ UNCHANGED <<desktop, introspect, screen, listing, hits, numbers, current>>

(* GNOME Shell runs on an X11 session or on its own. Where workspaces are a row, *)
(* their numbers are their places.                                               *)
WindowsInit ==
    /\ desktop \in Desktops /\ screen \in Screens /\ numbers \in Numbered
    /\ introspect \in Introspects /\ (introspect # "none" => desktop \in {"x11", "wmctrl", "gnome"})
    /\ desktop \in {"x11", "wmctrl", "gnome", "kwin", "niri"} => numbers = 1 .. Max(numbers)
    /\ open = {w.id : w \in Range(screen)}
    /\ listing = <<>> /\ hits = {} /\ active = 0 /\ current = 1

WindowsNext ==
    \/ ListWindows
    \/ \E intent \in {"focus", "close", "quit", "kill"}, w \in Range(screen) :
          \/ MatchWindows(intent, w.title)
          \/ MatchWindows(intent, w.class)
    \/ ActivateWindow
    \/ \E n \in 1 .. 3 : SwitchWorkspace(n)
    \/ \E id \in open : Vanish(id)

(***************************************************************************)
(* Properties.                                                             *)
(***************************************************************************)
Meant(r) == {w \in Range(Opened) : w.title = r.title /\ w.class \in r.class}

RowsAreWindows ==
    /\ Len(listing) = Cardinality(open)
    /\ UNION {r.names : r \in Range(listing)} = open
    /\ \A r \in Range(listing) :
         /\ \E w \in Meant(r) : w.id \in r.names
         /\ r.pid > 0 => \E w \in Meant(r) : w.pid = r.pid
         /\ r.sticky => \E w \in Meant(r) : w.sticky
         /\ Searchable(r) /\ X11Session => \E w \in Meant(r) : ~w.skip

(* However many of the four sources describe a window, a listing has one row  *)
(* for it, and the row's process, its place on all workspaces and its leave   *)
(* to be offered are those of the window its identifier names                 *)
(* (merge_window_lists, overlay_window_info); windows alike in class and      *)
(* title may be swapped.                                                      *)
OneRowPerWindow == [][listing' # listing => RowsAreWindows']_windowVars

(* What is done to a row reaches no other window, when the session has a way *)
(* to address the window: closing it leaves the rest of its process open, a  *)
(* focus goes to it (activate_window).                                       *)
ActsOnItsRow ==
    [][\A h \in hits :
         /\ h.kind \in {"close", "quit"} /\ Closed(h.row) /\ CloseWindow(h.row) =>
               open \ open' \subseteq h.row.names
         /\ h.kind = "focus" /\ Focusable(h.row.src) /\ FocusWindow(h.row) =>
               active' \in h.row.names \cup {active}]_windowVars

(* The row "Switch to Workspace N" (the title of windows.py:1603-1604, which   *)
(* test_windows.py:136 requires) goes to workspace N where there is one,       *)
(* whichever tool of the session switches.  On i3 the rows go by the numbers   *)
(* of the workspaces (i3ipc_workspace_count) and wmctrl, tried first, by their *)
(* places: there it does so exactly while no number up to N is missing         *)
(* (workspace_switch_steps, switch_workspace).                                 *)
SwitchesAsTitled ==
    [](\A n \in numbers : OffersWorkspace(n) => (Shown(n) = {n} <=> (desktop = "i3" => 1 .. n \subseteq numbers)))

(* Rows are windows, what is done to a row is done to its window, and a        *)
(* workspace's row leads to that workspace.                                    *)
RowsOfWindows == OneRowPerWindow /\ ActsOnItsRow /\ SwitchesAsTitled

WindowsSpec == WindowsInit /\ [][WindowsNext]_windowVars
====
