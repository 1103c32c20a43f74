------------------------------ MODULE Selection ------------------------------
(* The result list on screen and its selected row: repaints and appended       *)
(* batches that arrive while the user moves over rows, some of which cannot be *)
(* selected. Rows are numbered from 1, and 0 stands for no selection.          *)
EXTENDS Naturals, Integers, Sequences, SequencesExt

CONSTANTS RowIds,    \* stable ids of rows
          Looks,     \* type, title and description of a row, taken together
          NoId,
          Painted,   \* the lists one update may bring
          Typed,     \* query texts
          Deltas,    \* what the navigation keys move by
          MaxRows    \* bound on the list on screen
VARIABLES rows, selected, lastQuery, lastKey
selectionVars == <<rows, selected, lastQuery, lastKey>>

Row == [id: RowIds \union {NoId}, look: Looks, kind: {"row", "inert", "header"}]
ASSUME SelectionAssumption ==
    NoId \notin RowIds /\ Deltas \subseteq Int \ {0} /\ MaxRows \in Nat /\ Painted \subseteq Seq(Row)

NoKey == [id |-> NoId, look |-> "none", index |-> 0]
SelectionTypeOK ==
    /\ rows \in Seq(Row) /\ Len(rows) <= MaxRows   \* ResultsModel._results
    /\ selected \in 0..MaxRows                     \* _selected
    /\ lastQuery \in Typed                         \* _last_query_str
    /\ DOMAIN lastKey = DOMAIN NoKey               \* the row a repaint was to keep

-----------------------------------------------------------------------------
\* is_selectable_result: headers, and rows without actions, are stepped over.
Selectable(list) == {i \in DOMAIN list : list[i].kind = "row"}
FirstOf(set) == IF set = {} THEN 0 ELSE Min(set)

\* next_selected_index: a page key stops at the ends.
Clamped(i, list) == IF i < 1 THEN 1 ELSE IF i > Len(list) THEN Len(list) ELSE i

\* One row on, around the ends, over the rows that cannot be selected.
NextAround(current, delta, list) ==
    LET At(k) == ((current - 1 + delta * k) % Len(list)) + 1
        steps == {k \in 1..Len(list) : At(k) \in Selectable(list)}
    IN IF steps = {} THEN 0 ELSE At(Min(steps))

\* A page on: the row there, else the nearest beyond it, else the nearest before.
NextPage(current, delta, list) ==
    LET target == Clamped(current + delta, list)
        after == {i \in Selectable(list) : i >= target}
        before == {i \in Selectable(list) : i <= target}
        there == IF delta > 0 THEN after ELSE before
    IN IF Selectable(list) = {} THEN 0
       ELSE IF (delta > 0 /\ there # {}) \/ (delta < 0 /\ there = {}) THEN Min(after) ELSE Max(before)

NextActivatable(current, delta, list) ==
    IF delta \in {1, -1} THEN NextAround(current, delta, list) ELSE NextPage(current, delta, list)

-----------------------------------------------------------------------------
\* paint_selection_index: the row of the same id, else one that looks the same,
\* else the row at the same place, else the first.
SameId(key, list) == {i \in Selectable(list) : key.id # NoId /\ list[i].id = key.id}
SameLook(key, list) == {i \in Selectable(list) : list[i].look = key.look}
SamePlace(key, list) == Selectable(list) \intersect {key.index}
\* Mutant: the place goes before the look.
KeptByPlace(key, list) ==
    FirstOf(IF SameId(key, list) # {} THEN SameId(key, list)
            ELSE IF SamePlace(key, list) # {} THEN SamePlace(key, list)
            ELSE IF SameLook(key, list) # {} THEN SameLook(key, list)
            ELSE Selectable(list))
KeptRow(key, list) ==
    FirstOf(IF SameId(key, list) # {} THEN SameId(key, list)
            ELSE IF SameLook(key, list) # {} THEN SameLook(key, list)
            ELSE IF SamePlace(key, list) # {} THEN SamePlace(key, list)
            ELSE Selectable(list))

\* The row picked last for this query, else the first that can be selected.
Preselected(pick, list) ==
    LET named == {i \in Selectable(list) : list[i].look = pick}
    IN FirstOf(IF named # {} THEN named ELSE Selectable(list))

\* The key of the selected row, which a batch or a repaint of the same query keeps.
SelectionKey(query, append) ==
    IF selected \in DOMAIN rows /\ (append \/ query = lastQuery)
    THEN [id |-> rows[selected].id, look |-> rows[selected].look, index |-> selected]
    ELSE NoKey

ShowResults(query, batch, append, pick) ==
    LET list == IF append THEN rows \o batch ELSE batch
        key == SelectionKey(query, append)
    IN /\ Len(list) <= MaxRows
       /\ rows' = list /\ lastQuery' = query /\ lastKey' = key
       /\ selected' = IF key # NoKey THEN KeptRow(key, list) ELSE Preselected(pick, list)

Navigate(delta) ==
    /\ rows # <<>> /\ selected' = NextActivatable(Max({selected, 1}), delta, rows)
    /\ lastKey' = NoKey /\ UNCHANGED <<rows, lastQuery>>
\* The pointer enters a row, or a row is clicked or chosen by its number.
SelectRow(i) ==
    /\ i \in Selectable(rows) /\ selected' = i
    /\ lastKey' = NoKey /\ UNCHANGED <<rows, lastQuery>>

SelectionInit == rows = <<>> /\ selected = 0 /\ lastQuery \in Typed /\ lastKey = NoKey
SelectionNext ==
    \/ \E query \in Typed, batch \in Painted, append \in BOOLEAN, pick \in Looks \union {"none"} :
          ShowResults(query, batch, append, pick)
    \/ \E delta \in Deltas : Navigate(delta)
    \/ \E i \in DOMAIN rows : SelectRow(i)
SelectionSpec == SelectionInit /\ [][SelectionNext]_selectionVars

-----------------------------------------------------------------------------
\* The selection never rests on a header or on a row that cannot be activated,
\* and is lost only when there is nothing to select: Enter works after any mix of
\* repaints, batches and keys.
SelectionUsable == IF Selectable(rows) = {} THEN selected = 0 ELSE selected \in Selectable(rows)

\* The Down key alone leads from the selected row to every other one: no row is
\* cut off by the headers between them.
Reached[k \in Nat] == IF k = 0 THEN {selected} ELSE Reached[k - 1] \union {NextActivatable(i, 1, rows) : i \in Reached[k - 1]}
AllReachable == selected # 0 => Reached[Len(rows)] = Selectable(rows)

\* A repaint does not move the selection to another row while a row with the
\* selected one's id is still there, or, for want of an id, one that looks like it.
Keeps(key, list) ==
    IF \E i \in Selectable(list) : key.id # NoId /\ list[i].id = key.id
    THEN list[selected].id = key.id
    ELSE (\E i \in Selectable(list) : list[i].look = key.look) => list[selected].look = key.look
SelectionFollows == lastKey # NoKey /\ selected # 0 => Keeps(lastKey, rows)

\* The three together: the selection can be used, reaches everything, and stays.
SelectionKept == SelectionUsable /\ AllReachable /\ SelectionFollows
=============================================================================
