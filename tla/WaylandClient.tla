---- MODULE WaylandClient ----
(***************************************************************************)
(* A short Wayland session of the launcher: connect, ask for the globals,  *)
(* bind the toplevel list or the workspace manager, collect what the       *)
(* compositor announces up to the answer of a sync, and, to switch         *)
(* workspaces, activate the one picked.  The compositor goes on changing   *)
(* meanwhile, and the socket hands the client its messages in pieces that  *)
(* may end in the middle of one.  What follows the awaited answer in a     *)
(* piece is thrown away with the piece.                                    *)
(*                                                                         *)
(* A message is what it announces; a torn one is not read byte by byte:    *)
(* reading on from its second part fails, as its words make no header.     *)
(***************************************************************************)
EXTENDS Integers, Sequences, FiniteSets

CONSTANTS
    Protocols,   \* what a session may ask for: "toplevels", "workspaces"
    Schemes,     \* how a compositor tells its workspaces: "coords", "numbers", "plain"
    MaxItems,    \* bound: windows or workspaces that ever exist
    MaxDisplayChanges   \* bound: changes the compositor makes by itself

ASSUME ItemsAssumption == MaxItems \in Nat /\ MaxDisplayChanges \in Nat

VARIABLES
    protocol,    \* what this session asks for
    scheme,      \* how the workspaces are told apart
    bindable,     \* whether the compositor has the protocol
    items,       \* the compositor's windows or workspaces, in their order
    nextItem,    \* the object id of the next one
    front,       \* the workspace on screen
    displayChanges,     \* changes made so far
    requests,    \* what the client sent and the compositor has not handled
    wire,      \* what the compositor sent and the client has not read to its end
    torn,        \* the client read the first part of the head of stream
    lost,        \* that first part was thrown away
    stage,       \* what the client waits for
    index,       \* the workspace wanted
    heard,       \* the events of this round trip
    picked,      \* the workspace activated, 0 for none
    truth        \* ghost: items when the compositor answered the second sync

waylandVars == <<protocol, scheme, bindable, items, nextItem, front, displayChanges, requests, wire,
                 torn, lost, stage, index, heard, picked, truth>>

compositorVars == <<protocol, scheme, bindable, items, nextItem, front, displayChanges, truth>>

MessageKinds == {"global", "intro", "list", "ack", "delete", "new", "info", "batch", "gone"}
WireMessages == [of : MessageKinds, id : Nat, coord : Int, name : Nat]

Members(order) == {order[i] : i \in DOMAIN order}

Waiting == stage \in {"intro", "list", "ack"}

WaylandTypeOK ==
    /\ protocol \in Protocols /\ scheme \in Schemes /\ bindable \in BOOLEAN
    /\ Members(items) \subseteq 1 .. MaxItems /\ nextItem \in 1 .. MaxItems + 1
    /\ front \in 0 .. MaxItems /\ displayChanges \in 0 .. MaxDisplayChanges /\ picked \in 0 .. MaxItems
    /\ torn \in BOOLEAN /\ lost \in BOOLEAN
    /\ stage \in {"idle", "intro", "list", "listed", "ack", "done", "none"}
    /\ index \in 0 .. MaxItems

WireMessage(of, id) == [of |-> of, id |-> id, coord |-> -1, name |-> 0]
Place(id, order) == CHOOSE i \in DOMAIN order : order[i] = id

(***************************************************************************)
(* What the compositor says.  It numbers workspaces by their place, names  *)
(* them by number, or does neither; it announces them as they were made.   *)
(***************************************************************************)
Info(id, order) ==
    [WireMessage("info", id) EXCEPT !.coord = IF scheme = "coords" THEN Place(id, order) - 1 ELSE -1,
                                !.name = IF scheme = "numbers" THEN id ELSE 0]

News(ids) == [i \in DOMAIN ids |-> WireMessage("new", ids[i])]
Details(order) == [i \in DOMAIN order |-> Info(order[i], order)]
Batches(order) == [i \in DOMAIN order |-> WireMessage("batch", order[i])]

AsMade(order) == {ids \in [DOMAIN order -> Members(order)] :
                    Members(ids) = Members(order) /\ \A i, j \in DOMAIN ids : i < j => ids[i] < ids[j]}

Answer(sync) == <<WireMessage(sync, 0), WireMessage("delete", 0)>>

Bound == stage \in {"list", "listed", "ack"} /\ ~\E i \in DOMAIN requests : requests[i] = "bind"

Tells(events) == wire' = IF Bound /\ bindable THEN wire \o events ELSE wire

HandleRequest ==
    /\ requests # <<>>
    /\ requests' = Tail(requests)
    /\ LET r == Head(requests)
       IN  /\ \E ids \in AsMade(items) :
              wire' = CASE r = "registry" -> Append(wire, WireMessage("global", IF bindable THEN 1 ELSE 0))
                          [] r = "bind" -> wire \o News(ids) \o Details(items) \o Batches(items)
                          [] r \in {"intro", "list", "ack"} -> wire \o Answer(r)
                          [] OTHER -> wire
           /\ truth' = IF r = "list" THEN items ELSE truth
           /\ front' = IF r = "activate" /\ picked \in Members(items) THEN picked ELSE front
    /\ UNCHANGED <<protocol, scheme, bindable, items, nextItem, displayChanges, torn, lost, stage, index,
                   heard, picked>>

Appears(place) ==
    /\ displayChanges < MaxDisplayChanges /\ nextItem <= MaxItems
    /\ place \in (IF scheme = "coords" THEN 1 .. Len(items) + 1 ELSE {Len(items) + 1})
    /\ items' = SubSeq(items, 1, place - 1) \o <<nextItem>> \o SubSeq(items, place, Len(items))
    /\ nextItem' = nextItem + 1
    /\ Tells(<<WireMessage("new", nextItem)>> \o Details(items') \o Batches(items'))
    /\ displayChanges' = displayChanges + 1
    /\ UNCHANGED <<protocol, scheme, bindable, front, requests, torn, lost, stage, index, heard,
                   picked, truth>>

Disappears(place) ==
    /\ displayChanges < MaxDisplayChanges
    /\ items[place] # front
    /\ items' = SubSeq(items, 1, place - 1) \o SubSeq(items, place + 1, Len(items))
    /\ Tells(<<WireMessage("gone", items[place])>> \o Details(items') \o Batches(items'))
    /\ displayChanges' = displayChanges + 1
    /\ UNCHANGED <<protocol, scheme, bindable, nextItem, front, requests, torn, lost, stage, index,
                   heard, picked, truth>>

UserSwitches(id) ==
    /\ displayChanges < MaxDisplayChanges
    /\ front' = id
    /\ displayChanges' = displayChanges + 1
    /\ UNCHANGED <<protocol, scheme, bindable, items, nextItem, requests, wire, torn, lost, stage,
                   index, heard, picked, truth>>

(***************************************************************************)
(* What the client makes of the events of a round trip.                    *)
(***************************************************************************)
Handle(id) == [id |-> id, coord |-> -1, name |-> 0, gone |-> FALSE, done |-> FALSE]

\* The row h as e says it is.
Marked(h, e) ==
    CASE e.of = "info" -> [h EXCEPT !.coord = e.coord, !.name = e.name]
      [] e.of = "gone" -> [h EXCEPT !.gone = TRUE]
      [] e.of = "batch" -> [h EXCEPT !.done = TRUE]
      [] OTHER -> h

(* Mutant: what is said is taken to be about what was announced last. *)
NotedLast(rows, e) ==
    IF e.of = "new" THEN Append(rows, Handle(e.id))
    ELSE [k \in DOMAIN rows |-> IF k = Len(rows) THEN Marked(rows[k], e) ELSE rows[k]]

\* The rows once e is heard; a toplevel that was closed takes no more.
Noted(rows, e) ==
    LET Mine(h) == h.id = e.id /\ (protocol = "toplevels" => ~h.gone)
    IN  IF e.of = "new" THEN Append(rows, Handle(e.id))
        ELSE [k \in DOMAIN rows |-> IF Mine(rows[k]) THEN Marked(rows[k], e) ELSE rows[k]]

Handles(events) ==
    LET after[n \in 0 .. Len(events)] == IF n = 0 THEN <<>> ELSE Noted(after[n - 1], events[n])
    IN  after[Len(events)]

Live(rows) == {k \in DOMAIN rows : ~rows[k].gone}

CollectedToplevels(rows) == {k \in Live(rows) : rows[k].done}
CollectedWorkspaces(rows) == Live(rows)

ListedItems(rows) ==
    {rows[k].id : k \in IF protocol = "toplevels" THEN CollectedToplevels(rows) ELSE CollectedWorkspaces(rows)}

\* The live row with i live ones before it.
LiveBefore(rows, k) == {j \in Live(rows) : j < k}
LiveAt(rows, i) == {k \in Live(rows) : Cardinality(LiveBefore(rows, k)) = i}

Picked(rows, candidates) == IF candidates = {} THEN 0 ELSE rows[CHOOSE k \in candidates : TRUE].id

(* By its place, by its number, or by the order in which they were announced. *)
PickWorkspace(i) ==
    LET rows == Handles(heard)
        placed == {k \in Live(rows) : rows[k].coord = i}
        named == {k \in Live(rows) : rows[k].name = i + 1}
    IN  Picked(rows, CASE placed # {} -> placed
                       [] placed = {} /\ named # {} -> named
                       [] OTHER -> LiveAt(rows, i))

(***************************************************************************)
(* The client.                                                             *)
(***************************************************************************)
Sends(rs) == requests' = requests \o rs

StartSession(i) ==
    /\ stage = "idle"
    /\ stage' = "intro" /\ index' = i
    /\ Sends(<<"registry", "intro">>)
    /\ UNCHANGED <<compositorVars, wire, torn, lost, heard, picked>>

(* The events of a piece up to the answer, if it is there. *)
UpTo(events, sync) ==
    LET at == {i \in DOMAIN events : events[i].of = sync}
    IN  IF at = {} THEN events ELSE SubSeq(events, 1, CHOOSE i \in at : TRUE)

Finds(events) == \E i \in DOMAIN events : events[i].of = "global" /\ events[i].id = 1

(* What follows the answer to the sync of stage s, once events are heard. *)
AfterAnswer(s, events) ==
    CASE s = "intro" ->
            IF Finds(events) THEN /\ stage' = "list" /\ heard' = <<>>
                                  /\ Sends(<<"bind", "list">>)
            ELSE stage' = "none" /\ heard' = events /\ UNCHANGED requests
      [] s = "list" -> stage' = "listed" /\ heard' = events /\ UNCHANGED requests
      [] OTHER -> stage' = "done" /\ UNCHANGED <<heard, requests>>

ReceivePiece(n, half) ==
    /\ Waiting
    /\ n \in 0 .. Len(wire) /\ (half => n < Len(wire))
    /\ n > 0 \/ (half /\ ~torn)
    /\ IF lost
       THEN stage' = (IF stage = "ack" THEN "done" ELSE "none") /\ UNCHANGED <<heard, requests, lost>>
       ELSE LET piece == SubSeq(wire, 1, n)
                read == UpTo(piece, stage)
                over == WireMessage(stage, 0) \in Members(read)
            IN  /\ IF over THEN AfterAnswer(stage, heard \o read)
                   ELSE heard' = heard \o piece /\ UNCHANGED <<stage, requests>>
                /\ lost' = (half /\ over)
    /\ wire' = SubSeq(wire, n + 1, Len(wire))
    /\ torn' = half
    /\ UNCHANGED <<compositorVars, index, picked>>

TimeOut ==
    /\ Waiting
    /\ stage' = IF stage = "ack" THEN "done" ELSE "none"
    /\ UNCHANGED <<compositorVars, requests, wire, torn, lost, index, heard, picked>>

ActivateWorkspace ==
    /\ stage = "listed" /\ protocol = "workspaces"
    /\ picked' = PickWorkspace(index)
    /\ IF picked' = 0 THEN stage' = "none" /\ UNCHANGED requests
       ELSE stage' = "ack" /\ Sends(<<"activate", "commit", "ack">>)
    /\ UNCHANGED <<compositorVars, wire, torn, lost, index, heard>>

WaylandInit ==
    /\ protocol \in Protocols /\ bindable \in BOOLEAN
    /\ scheme \in (IF protocol = "workspaces" THEN Schemes ELSE {"plain"})
    /\ items = <<1, 2>> /\ nextItem = 3 /\ front \in {0, 1, 2} /\ displayChanges = 0
    /\ front = 0 <=> protocol = "toplevels"
    /\ requests = <<>> /\ wire = <<>> /\ torn = FALSE /\ lost = FALSE
    /\ stage = "idle" /\ index = 0 /\ heard = <<>> /\ picked = 0 /\ truth = <<>>

WaylandNext ==
    \/ HandleRequest
    \/ \E place \in 1 .. MaxItems : Appears(place)
    \/ \E place \in DOMAIN items : Disappears(place)
    \/ protocol = "workspaces" /\ \E id \in Members(items) : UserSwitches(id)
    \/ \E i \in 0 .. MaxItems - 1 : StartSession(i)
    \/ \E n \in 0 .. Len(wire), half \in BOOLEAN : ReceivePiece(n, half)
    \/ TimeOut
    \/ ActivateWorkspace

WaylandSpec == WaylandInit /\ [][WaylandNext]_waylandVars

(***************************************************************************)
(* A listing is never a part of one: the rows handed on are all that the   *)
(* compositor had when it answered, and nothing that had gone by then,     *)
(* however the messages were cut into pieces (collect_ext_foreign_handles, *)
(* collect_ext_workspace_handles, _recv_until_callback).                   *)
(***************************************************************************)
ListingWhole == stage = "listed" => ListedItems(Handles(heard)) = Members(truth)

(***************************************************************************)
(* The workspace the client activates is the one its index meant when the  *)
(* compositor listed them, if there was one: by its place, or by its       *)
(* number where workspaces are told apart by numbers                       *)
(* (pick_ext_workspace).                                                   *)
(***************************************************************************)
MeantItem(order) ==
    IF scheme = "numbers" THEN Members(order) \cap {index + 1}
    ELSE IF index < Len(order) THEN {order[index + 1]} ELSE {}

SwitchMeant == picked # 0 /\ MeantItem(truth) # {} => picked \in MeantItem(truth)

(* Both together: a session tells and does what the compositor meant. *)
SessionFaithful == ListingWhole /\ SwitchMeant
====
