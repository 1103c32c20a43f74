--------------------------- MODULE LauncherLookup ---------------------------
(* Typed search of LauncherMode. The rows a provider has at hand are painted   *)
(* at once; the others come from lookups that finish on a later turn of the    *)
(* main loop and repaint the list. An answer may therefore arrive after the    *)
(* entry changed, was cleared, another mode took over, or the popup closed.    *)
EXTENDS FiniteSets, Naturals

CONSTANTS Queries,   \* entry texts that LauncherMode answers
          Foreign,   \* entry texts of another mode: a keyword and an argument
          Home,      \* the empty entry
          Keyed,     \* lookups for one text: path, command
          Shared,    \* lookups for all texts: bookmarks, recents
          Windows,   \* the window list, which also serves the empty entry
          Wants,     \* the lookups that the plan of a query refreshes
          Nothing    \* Python's None

ASSUME LookupAssumption ==
    /\ Home \notin Queries \union Foreign /\ Nothing \notin Queries \union Foreign \union {Home}
    /\ Queries \intersect Foreign = {} /\ Keyed \intersect Shared = {}
    /\ Windows \notin Keyed \union Shared
    /\ Wants \in [Queries -> SUBSET (Keyed \union Shared \union {Windows})]

VARIABLES shown,      \* the popup is visible
          entry,      \* UlauncherApp.query
          opening,    \* window_ready is scheduled
          coreQuery,  \* the text core.set_query got last
          typed,      \* LauncherMode: _accept_paint, _paint_query, _lookup_idle
          lookup,     \* the module-level state of each lookup
          turns,      \* deferred loads, and whether their load_id is the current one
          cache,      \* the snapshot of the window list
          buffered,   \* rows that wait for the render throttle
          painted     \* rows on the screen
lookupVars == <<shown, entry, opening, coreQuery, typed, lookup, turns, cache, buffered, painted>>

Lookups == Keyed \union Shared
Texts == Queries \union Foreign \union {Home}
Rows(q, known) == [query |-> q, known |-> known]
Idle == [query |-> Nothing, ready |-> FALSE, waits |-> FALSE, rows |-> Nothing]

LookupTypeOK ==
    /\ shown \in BOOLEAN /\ opening \in BOOLEAN
    /\ entry \in Texts /\ coreQuery \in Texts
    /\ typed \in [accept: BOOLEAN, query: Queries \union {Nothing}, idle: BOOLEAN]
    /\ lookup \in [Lookups -> [query: Queries \union {Nothing}, ready: BOOLEAN, waits: BOOLEAN,
                               rows: Queries \union {Nothing}]]
    /\ turns \subseteq [kind: Lookups, query: Queries \union {Nothing}, live: BOOLEAN]
    /\ cache \in [listed: BOOLEAN, fresh: BOOLEAN, loading: BOOLEAN, waits: {"none", "repaint", "reload"}]
    /\ buffered \in [query: Queries, known: SUBSET (Lookups \union {Windows})] \union {Nothing}
    /\ painted \in [query: Texts, known: SUBSET (Lookups \union {Windows})]

LookupInit ==
    /\ shown = FALSE /\ entry = Home /\ opening = FALSE /\ coreQuery = Home
    /\ typed = [accept |-> FALSE, query |-> Nothing, idle |-> FALSE]
    /\ lookup = [k \in Lookups |-> Idle] /\ turns = {}
    /\ cache = [listed |-> FALSE, fresh |-> FALSE, loading |-> FALSE, waits |-> "none"]
    /\ buffered = Nothing /\ painted = Rows(Home, {})

-----------------------------------------------------------------------------
(* Lookups: what is known now, and the loads that are started or dropped.      *)

Answers(k, q) == lookup[k].ready /\ (k \in Keyed => lookup[k].query = q)
Known(q, c) == {k \in Wants[q] : IF k = Windows THEN c.listed ELSE Answers(k, q)}
Resolved(q, c) == \A k \in Wants[q] : IF k = Windows THEN c.fresh ELSE Answers(k, q)

Loading(k) == \E t \in turns : t.kind = k /\ t.live

\* The lookups a query wants and has no answer to; a load of the same text goes on.
Asked(q) == {k \in Wants[q] \intersect Lookups : ~Answers(k, q)}
\* Mutant: a load that goes on serves any text.
StartedOnce(q) == {k \in Asked(q) : ~Loading(k)}
Started(q) == {k \in Asked(q) : IF k \in Keyed THEN lookup[k].query # q ELSE ~Loading(k)}
Unwanted(q) == Keyed \ Wants[q]

\* A new load id: the loads of these lookups that are under way have become stale.
Staled(kinds) == {IF t.kind \in kinds THEN [t EXCEPT !.live = FALSE] ELSE t : t \in turns}
Invalidated(kinds) == [k \in Lookups |-> IF k \in kinds THEN Idle ELSE lookup[k]]

EnsuredLookup(q) == [k \in Lookups |->
    CASE k \in Unwanted(q) -> Idle
      [] k \in Started(q) /\ k \in Keyed -> [lookup[k] EXCEPT !.query = q, !.ready = FALSE, !.waits = TRUE]
      [] k \in Asked(q) \ (Started(q) \intersect Keyed) -> [lookup[k] EXCEPT !.waits = TRUE]
      [] OTHER -> lookup[k]]
EnsuredTurns(q) ==
    Staled(Unwanted(q) \union (Started(q) \intersect Keyed))
    \union {[kind |-> k, query |-> IF k \in Keyed THEN q ELSE Nothing, live |-> TRUE] : k \in Started(q)}
EnsuredWindows(c, how) == IF c.fresh THEN c ELSE [c EXCEPT !.waits = how, !.loading = TRUE]

-----------------------------------------------------------------------------
(* The entry: what core.set_query makes of a text.                             *)

\* A list goes to the popup only while it is open.
Shows(rows) == painted' = IF shown THEN rows ELSE painted

\* handle_query: paint what is known, finally or behind the throttle, then start the loads.
HandleQuery(q, c) ==
    /\ typed' = [typed EXCEPT !.accept = TRUE, !.query = q]
    /\ IF Resolved(q, c)
       THEN buffered' = Nothing /\ Shows(Rows(q, Known(q, c)))
       ELSE buffered' = Rows(q, Known(q, c)) /\ painted' = painted
    /\ lookup' = EnsuredLookup(q) /\ turns' = EnsuredTurns(q)
    /\ cache' = IF Windows \in Wants[q] THEN EnsuredWindows(c, "repaint") ELSE c

\* get_home_results: pending repaints of typed text and the lookups of one text are dropped.
HomeResults(c) ==
    /\ typed' = [typed EXCEPT !.query = Nothing, !.idle = FALSE]
    /\ lookup' = Invalidated(Keyed) /\ turns' = Staled(Keyed)
    /\ cache' = EnsuredWindows(c, "reload")
    /\ buffered' = Nothing
    /\ Shows(Rows(Home, IF c.listed THEN {Windows} ELSE {}))

\* Another mode takes the text; its rows are the matter of QueryCore.
HandedOver(c) == buffered' = Nothing /\ cache' = c /\ UNCHANGED <<typed, lookup, turns, painted>>

SetText(q, c) ==
    /\ coreQuery' = q
    /\ CASE q = Home -> HomeResults(c)
         [] q \in Queries -> HandleQuery(q, c)
         [] OTHER -> HandedOver(c)

EditText(q) == shown /\ entry' = q /\ SetText(q, cache) /\ UNCHANGED <<shown, opening>>
ReloadText == shown /\ SetText(entry, cache) /\ UNCHANGED <<shown, entry, opening>>

-----------------------------------------------------------------------------
(* The popup.                                                                  *)

OpenPopup ==
    /\ shown' = TRUE /\ entry' = Home /\ opening' = TRUE
    /\ UNCHANGED <<coreQuery, typed, lookup, turns, cache, buffered, painted>>

WindowReady == opening /\ opening' = FALSE /\ SetText(entry, cache) /\ UNCHANGED <<shown, entry>>

\* reject_async_paint: every load becomes stale, no repaint is accepted; the window list stays.
RejectPaints ==
    /\ typed' = [accept |-> FALSE, query |-> Nothing, idle |-> FALSE]
    /\ lookup' = Invalidated(Lookups) /\ turns' = Staled(Lookups)

ClosePopup ==
    /\ shown /\ shown' = FALSE /\ entry' = Home /\ RejectPaints
    /\ UNCHANGED <<opening, coreQuery, cache, buffered, painted>>

\* show_preferences hides the popup and leaves the text of the entry.
OpenPreferences ==
    /\ shown' = FALSE /\ RejectPaints
    /\ UNCHANGED <<entry, opening, coreQuery, cache, buffered, painted>>

-----------------------------------------------------------------------------
(* Later turns of the main loop.                                               *)

ScheduleRepaint == typed' = [typed EXCEPT !.idle = typed.idle \/ typed.accept]
NoRepaint == typed' = typed

\* A deferred load runs; a stale one, or one that was answered meanwhile, changes nothing.
Apply(t) ==
    IF t.live /\ ~lookup[t.kind].ready
    THEN /\ lookup' = [lookup EXCEPT ![t.kind].ready = TRUE, ![t.kind].rows = t.query, ![t.kind].waits = FALSE]
         /\ IF lookup[t.kind].waits THEN ScheduleRepaint ELSE NoRepaint
    ELSE lookup' = lookup /\ NoRepaint

RunTurn(k) == \E t \in turns :
    /\ t.kind = k /\ turns' = turns \ {t} /\ Apply(t)
    /\ UNCHANGED <<shown, entry, opening, coreQuery, cache, buffered, painted>>

\* Mutant: the mode of the entry is not looked at.
RepaintAlways == TRUE
\* The repaint lists what is known of the text that is current now; core drops it
\* when LauncherMode is no longer the mode of the entry.
RepaintAllowed == coreQuery \in Queries
RunRepaint ==
    /\ typed.idle /\ typed' = [typed EXCEPT !.idle = FALSE]
    /\ IF typed.query # Nothing /\ typed.accept /\ RepaintAllowed
       THEN buffered' = Nothing /\ Shows(Rows(typed.query, Known(typed.query, cache)))
       ELSE UNCHANGED <<buffered, painted>>
    /\ UNCHANGED <<shown, entry, opening, coreQuery, lookup, turns, cache>>

ThrottleEnds ==
    /\ buffered # Nothing /\ buffered' = Nothing /\ Shows(buffered)
    /\ UNCHANGED <<shown, entry, opening, coreQuery, typed, lookup, turns, cache>>

Listed == [listed |-> TRUE, fresh |-> TRUE, loading |-> FALSE, waits |-> "none"]
RefreshWindows ==
    /\ cache.loading
    /\ IF cache.waits = "reload" /\ shown
       THEN SetText(entry, Listed) /\ UNCHANGED <<shown, entry, opening>>
       ELSE /\ cache' = Listed
            /\ IF cache.waits = "repaint" THEN ScheduleRepaint ELSE NoRepaint
            /\ UNCHANGED <<shown, entry, opening, coreQuery, lookup, turns, buffered, painted>>

SnapshotAges ==
    /\ cache.fresh /\ cache' = [cache EXCEPT !.fresh = FALSE]
    /\ UNCHANGED <<shown, entry, opening, coreQuery, typed, lookup, turns, buffered, painted>>

LookupNext ==
    \/ \E q \in Texts : EditText(q)
    \/ ReloadText \/ OpenPopup \/ WindowReady \/ ClosePopup \/ OpenPreferences
    \/ \E k \in Lookups : RunTurn(k)
    \/ RunRepaint \/ ThrottleEnds \/ RefreshWindows \/ SnapshotAges

LookupSpec == LookupInit /\ [][LookupNext]_lookupVars

\* The main loop runs everything that is scheduled.
LookupFairness ==
    /\ \A k \in Lookups : WF_lookupVars(RunTurn(k))
    /\ WF_lookupVars(WindowReady) /\ WF_lookupVars(RunRepaint)
    /\ WF_lookupVars(ThrottleEnds) /\ WF_lookupVars(RefreshWindows)

-----------------------------------------------------------------------------
(* Properties.                                                                 *)

\* Whatever happens to appear on the screen answers the entry, as soon as the
\* opened popup has run its first query, and so does every lookup it draws on: no
\* repaint of a text that was edited, cleared or taken over by another mode gets
\* through, and no answer that arrives late is taken for that of the text which
\* replaced its own (_paint_query, _accept_paint and the load ids of the lookups).
PaintsEntry ==
    [][painted' # painted /\ ~opening' =>
         /\ painted'.query = entry'
         /\ \A k \in Keyed \intersect painted'.known : lookup'[k].rows = entry']_lookupVars

\* Every lookup a typed text wants ends up on the screen, unless the user moves on.
LookupsPainted == \A q \in Queries :
    (shown /\ ~opening /\ entry = q) ~>
        (painted = Rows(q, Wants[q]) \/ entry # q \/ ~shown \/ opening)
=============================================================================
