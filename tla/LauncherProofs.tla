---------------------------- MODULE LauncherProofs ----------------------------
(* Theorems about the launcher: what a lookup paints (LauncherLookup), when the  *)
(* popup closes (PopupSession), which apps there are (AppCatalog), which row is   *)
(* selected (Selection), who answers a keyword (TriggerRouting), what the row for *)
(* the rotation does (SystemActions), what survives quitting (AppShell), what is   *)
(* searched for (QueryPlan), when the session's time is over (TimeLimits), what    *)
(* activating a row does (LauncherRows), which application comes first             *)
(* (AppSearch), what a click on an application's row does (AppWindows), what a     *)
(* Wayland session lists and activates (WaylandClient).                            *)
EXTENDS LauncherLookup, PopupSession, AppCatalog, Selection, TriggerRouting, SystemActions, AppShell, QueryPlan,
        TimeLimits, LauncherRows, AppSearch, AppWindows, WaylandClient, SequenceTheorems, WellFoundedInduction, FiniteSetTheorems, TLAPS

-----------------------------------------------------------------------------
(* PopupSession, for sessions of any length.                                   *)

\* On its way to the popup: signalled, and not handled yet.
Underway(c) == \E i \in 1..Len(signals) : signals[i] = c

\* The watcher knows whether it is subscribed, and watches while the popup is
\* visible (but between showing it and subscribing).
Watching ==
    /\ listening \in BOOLEAN /\ subscribed = listening
    /\ visible /\ popupStage # "shown" => listening
    /\ popupStage = "shown" => visible /\ blockers = {}
    /\ popupStage \in {"idle", "asked", "shown"}

\* What is up while the popup is visible, or opening, was missed, is underway, or
\* is among the blockers that will close it.
Answered(c) == c \in before \/ Underway(c) \/ (popupStage = "asked" /\ c \in blockers)
AllAnswered == (visible \/ popupStage # "idle") => \A c \in on \ {"limit"} : Answered(c)

Yields ==
    /\ on \subseteq Conditions /\ signals \in Seq(Conditions)
    /\ Watching /\ AllAnswered

LEMMA InitYields == PopupInit => Yields
BY EmptySeq DEF PopupInit, Yields, Watching, AllAnswered

-----------------------------------------------------------------------------
\* The signals on the way.
LEMMA EmittedUnderway ==
    ASSUME signals \in Seq(Conditions), NEW d \in Conditions, signals' = Append(signals, d)
    PROVE  /\ signals' \in Seq(Conditions)
           /\ Underway(d)'
           /\ \A c : Underway(c) => Underway(c)'
<1>1. /\ Len(signals) \in Nat /\ Len(signals') = Len(signals) + 1
      /\ \A i \in 1..Len(signals) : signals'[i] = signals[i]
      /\ signals'[Len(signals) + 1] = d /\ signals' \in Seq(Conditions)
    BY AppendProperties, LenProperties
<1> QED BY <1>1 DEF Underway

LEMMA HandledUnderway ==
    ASSUME signals \in Seq(Conditions), signals # <<>>, signals' = Tail(signals)
    PROVE  /\ signals' \in Seq(Conditions) /\ Head(signals) \in Conditions
           /\ \A c : Underway(c) => c = Head(signals) \/ Underway(c)'
<1>1. /\ Len(signals) \in Nat /\ Len(signals) # 0 /\ Len(signals') = Len(signals) - 1
      /\ signals' \in Seq(Conditions)
      /\ \A i \in 1..Len(signals) - 1 : signals'[i] = signals[i + 1]
      /\ Head(signals) = signals[1] /\ Head(signals) \in Conditions
    BY HeadTailProperties, EmptySeq, LenProperties
<1>2. ASSUME NEW c, NEW i \in 1..Len(signals), signals[i] = c
      PROVE  c = Head(signals) \/ Underway(c)'
    <2>1. CASE i = 1
        BY <1>1, <1>2, <2>1
    <2>2. CASE i # 1
        <3>1. i - 1 \in 1..Len(signals') /\ signals'[i - 1] = c
            BY <1>1, <1>2, <2>2
        <3> QED BY <3>1 DEF Underway
    <2> QED BY <2>1, <2>2
<1> QED BY <1>1, <1>2 DEF Underway

LEMMA SameUnderway ==
    ASSUME UNCHANGED signals
    PROVE  \A c : Underway(c)' <=> Underway(c)
BY DEF Underway

-----------------------------------------------------------------------------
\* Closing the popup leaves nothing to be told.
LEMMA ClosingYields ==
    ASSUME Yields, RequestPopupClose, popupStage' = "idle", UNCHANGED on,
           signals' \in Seq(Conditions), popupStage # "shown"
    PROVE  Yields'
BY DEF Yields, Watching, AllAnswered, RequestPopupClose, StopWatching

\* Asking: the lock screen is a blocker, the rest was signalled or is missed.
LEMMA AskingYields ==
    ASSUME Yields, AskSession, NotOpening, UNCHANGED on
    PROVE  Yields'
<1>1. ASSUME NEW c \in on \ {"limit"} PROVE Answered(c)'
    <2>1. CASE c \in AskedBlockers
        BY <2>1 DEF AskSession, Answered
    <2>2. CASE c \in OnlySignalled /\ Contains(signals, c)
        BY <2>2 DEF AskSession, Answered, Underway, Contains
    <2>3. CASE c \in OnlySignalled /\ ~Contains(signals, c)
        BY <2>3 DEF AskSession, Answered
    <2> QED BY <2>1, <2>2, <2>3 DEF Yields, Conditions
<1> QED BY <1>1 DEF Yields, Watching, AllAnswered, AskSession, NotOpening

LEMMA PresentedYields ==
    ASSUME Yields, Presented
    PROVE  Yields'
<1>1. CASE blockers # {}
    BY <1>1, ClosingYields DEF Presented, sessionVars, Yields, Watching
<1>2. CASE blockers = {}
    BY <1>2, SameUnderway DEF Presented, sessionVars, Yields, Watching, AllAnswered, Answered
<1> QED BY <1>1, <1>2

LEMMA StartedYields ==
    ASSUME Yields, StartedWatching
    PROVE  Yields'
BY SameUnderway DEF StartedWatching, StartWatching, sessionVars, Yields, Watching, AllAnswered, Answered

\* The popup's own steps.
LEMMA UserYields ==
    ASSUME Yields,
           \/ ShowPopup \/ KeyReleased \/ HidePopup \/ OpenPrefs \/ WindowManagerCloses
           \/ \E repeat \in BOOLEAN : TogglePopup(repeat)
    PROVE  Yields'
<1>1. CASE ShowPopup
    BY <1>1, AskingYields DEF ShowPopup, sessionVars
<1>2. CASE KeyReleased
    BY <1>2, SameUnderway DEF KeyReleased, sessionVars, Yields, Watching, AllAnswered, Answered
<1>3. CASE HidePopup
    BY <1>3, ClosingYields DEF HidePopup, sessionVars, NotOpening, Yields
<1>4. CASE OpenPrefs
    BY <1>4 DEF OpenPrefs, StopWatching, sessionVars, NotOpening, Yields, Watching, AllAnswered
<1>5. CASE WindowManagerCloses
    BY <1>5 DEF WindowManagerCloses, sessionVars, NotOpening, Yields, Watching, AllAnswered
<1>6. ASSUME NEW repeat \in BOOLEAN, TogglePopup(repeat) PROVE Yields'
    <2>1. CASE repeat
        BY <1>6, <2>1, SameUnderway DEF TogglePopup, sessionVars, Yields, Watching, AllAnswered, Answered
    <2>2. CASE ~repeat /\ visible
        BY <1>6, <2>2, ClosingYields DEF TogglePopup, sessionVars, NotOpening, Yields
    <2>3. CASE ~repeat /\ ~visible
        BY <1>6, <2>3, AskingYields DEF TogglePopup, sessionVars
    <2> QED BY <2>1, <2>2, <2>3
<1> QED BY <1>1, <1>2, <1>3, <1>4, <1>5, <1>6

\* A signal that is handled closes the popup, unless a limit was not reached.
LEMMA SignalledYields ==
    ASSUME Yields, Signalled
    PROVE  Yields'
<1>1. /\ signals' \in Seq(Conditions)
      /\ \A c : Underway(c) => c = Head(signals) \/ Underway(c)'
    BY HandledUnderway DEF Signalled, Yields
<1>2. CASE subscribed /\ Closes(Head(signals))
    BY <1>1, <1>2, ClosingYields DEF Signalled, sessionVars, NotOpening, Yields
<1>3. CASE ~(subscribed /\ Closes(Head(signals)))
    <2>1. UNCHANGED <<on, visible, listening, subscribed, before, popupStage, blockers>> /\ popupStage = "idle"
        BY <1>3 DEF Signalled, sessionVars, NotOpening
    <2>2. visible => Head(signals) = "limit"
        BY <1>3, <2>1 DEF Yields, Watching, Closes
    <2>3. ASSUME visible, NEW c \in on \ {"limit"} PROVE Answered(c)'
        BY <1>1, <2>1, <2>2, <2>3 DEF Yields, AllAnswered, Answered
    <2> QED BY <1>1, <2>1, <2>3 DEF Yields, Watching, AllAnswered
<1> QED BY <1>2, <1>3

\* What comes up is signalled to a watcher that is subscribed, and missed by an
\* opening that is not.
LEMMA SessionYields ==
    ASSUME Yields,
           EstimatesChange \/ \E c \in Conditions : Rises(c) \/ Falls(c)
    PROVE  Yields'
<1>1. ASSUME NEW d \in Conditions, signals' = Emitted(d)
      PROVE  /\ signals' \in Seq(Conditions)
             /\ \A c : Underway(c) => Underway(c)'
             /\ subscribed => Underway(d)'
    BY <1>1, EmittedUnderway, SameUnderway DEF Emitted, Yields
<1>2. CASE EstimatesChange
    <2>1. signals' \in Seq(Conditions) /\ \A c : Underway(c) => Underway(c)'
        BY <1>1, <1>2 DEF EstimatesChange, Conditions, AskedBlockers
    <2> QED BY <1>2, <2>1 DEF EstimatesChange, Yields, Watching, AllAnswered, Answered
<1>3. ASSUME NEW d \in Conditions, Rises(d) PROVE Yields'
    <2>1. /\ signals' \in Seq(Conditions)
          /\ \A c : Underway(c) => Underway(c)'
          /\ d # "limit" /\ subscribed => Underway(d)'
        <3>1. CASE d = "limit"
            BY <1>3, <3>1, SameUnderway DEF Rises, Yields
        <3>2. CASE d # "limit"
            BY <1>1, <1>3, <3>2 DEF Rises
        <3> QED BY <3>1, <3>2
    <2>2. /\ on' = on \union {d} /\ before \subseteq before'
          /\ UNCHANGED <<visible, listening, subscribed, popupStage, blockers>>
          /\ NotOpening \/ subscribed \/ d \in before'
        BY <1>3 DEF Rises
    <2>3. ASSUME visible \/ popupStage # "idle", NEW c \in on' \ {"limit"} PROVE Answered(c)'
        <3>1. CASE c \in on
            BY <2>1, <2>2, <2>3, <3>1 DEF Yields, AllAnswered, Answered
        <3>2. CASE c = d
            BY <2>1, <2>2, <2>3, <3>2 DEF Yields, Watching, Answered, NotOpening
        <3> QED BY <2>2, <3>1, <3>2
    <2> QED BY <2>1, <2>2, <2>3 DEF Yields, Watching, AllAnswered
<1>4. ASSUME NEW d \in Conditions, Falls(d) PROVE Yields'
    BY <1>4, SameUnderway DEF Falls, Yields, Watching, AllAnswered, Answered
<1> QED BY <1>2, <1>3, <1>4

-----------------------------------------------------------------------------
\* A popup that stays visible is over nothing that it was told of, after any
\* sequence of openings, closings and session changes (show_launcher,
\* request_close, SessionWatcher).
THEOREM PopupAlwaysYields == PopupSpec => []PopupYields
<1>1. Yields /\ [PopupNext]_popupVars => Yields'
    <2>1. CASE UNCHANGED popupVars
        BY <2>1, SameUnderway DEF popupVars, Yields, Watching, AllAnswered, Answered
    <2> QED
        BY <2>1, UserYields, PresentedYields, StartedYields, SignalledYields, SessionYields DEF PopupNext
<1>2. Yields => PopupYields
    BY EmptySeq DEF Yields, AllAnswered, Answered, Underway, PopupYields, NotOpening
<1> QED BY <1>1, <1>2, InitYields, PTL DEF PopupSpec

-----------------------------------------------------------------------------
(* LauncherLookup, for any texts and lookups.                                  *)

\* Once the opened popup has run its first query, core has the text of the entry.
Settled == shown /\ ~opening
EntryRun == Settled => coreQuery = entry

\* A repaint that is let through is of the text core has.
RepaintsCurrent ==
    typed.accept /\ typed.query # Nothing /\ coreQuery \in Queries => typed.query = coreQuery

\* A load that is not stale is of the text its lookup is for, and so is its answer.
LoadsCurrent ==
    /\ \A t \in turns : t.live /\ t.kind \in Keyed => t.query = lookup[t.kind].query
    /\ \A k \in Keyed : lookup[k].ready => lookup[k].rows = lookup[k].query

\* What waits for the throttle is of the text core has, and was not invalidated.
BufferCurrent ==
    buffered # Nothing =>
        /\ buffered.query = coreQuery
        /\ Settled => \A k \in Keyed \intersect buffered.known : Answers(k, buffered.query)

LookupsCurrent == EntryRun /\ RepaintsCurrent /\ LoadsCurrent /\ BufferCurrent

LEMMA LookupSets ==
    /\ Lookups = Keyed \union Shared /\ Windows \notin Lookups
    /\ \A q \in Queries : q \in Texts /\ q # Home /\ q # Nothing /\ q \notin Foreign
    /\ Home \in Texts /\ Home # Nothing
    /\ \A q \in Queries : Wants[q] \subseteq Lookups \union {Windows}
BY LookupAssumption DEF Lookups, Texts

LEMMA InitCurrent == LookupInit => LookupTypeOK /\ LookupsCurrent
<1> SUFFICES ASSUME LookupInit PROVE LookupTypeOK /\ LookupsCurrent
    OBVIOUS
<1>1. /\ Idle \in [query: Queries \union {Nothing}, ready: BOOLEAN, waits: BOOLEAN, rows: Queries \union {Nothing}]
      /\ ~Idle.ready /\ Rows(Home, {}) \in [query: Texts, known: SUBSET (Lookups \union {Windows})]
    BY LookupSets DEF Idle, Rows
<1>2. LookupTypeOK
    BY <1>1, LookupSets DEF LookupInit, LookupTypeOK
<1>3. \A k \in Keyed : ~lookup[k].ready
    BY <1>1, LookupSets DEF LookupInit
<1> QED
    BY <1>2, <1>3 DEF LookupInit, LookupsCurrent, EntryRun, Settled, RepaintsCurrent, LoadsCurrent, BufferCurrent

-----------------------------------------------------------------------------
\* Loads that are started or dropped: types, and that what is current stays so.
LookupState == [query: Queries \union {Nothing}, ready: BOOLEAN, waits: BOOLEAN, rows: Queries \union {Nothing}]
Turn == [kind: Lookups, query: Queries \union {Nothing}, live: BOOLEAN]
CacheState == [listed: BOOLEAN, fresh: BOOLEAN, loading: BOOLEAN, waits: {"none", "repaint", "reload"}]

LEMMA StaledTurns ==
    ASSUME LookupTypeOK, NEW kinds
    PROVE  /\ Staled(kinds) \subseteq Turn
           /\ \A t \in Staled(kinds) : t.live => t \in turns /\ t.kind \notin kinds
<1>1. turns \subseteq Turn
    BY DEF LookupTypeOK, Turn
<1>2. ASSUME NEW t \in Turn
      PROVE  [t EXCEPT !.live = FALSE] \in Turn /\ ~[t EXCEPT !.live = FALSE].live
    BY ONLY <1>2 DEF Turn
<1> QED
    BY <1>1, <1>2 DEF Staled

LEMMA DroppedCurrent ==
    ASSUME LookupTypeOK, LoadsCurrent, NEW kinds,
           lookup' = Invalidated(kinds), turns' = Staled(kinds)
    PROVE  lookup' \in [Lookups -> LookupState] /\ turns' \subseteq Turn /\ LoadsCurrent'
<1>1. lookup' \in [Lookups -> LookupState]
    BY DEF LookupTypeOK, LookupState, Invalidated, Idle
<1>2. \A t \in turns' : t.live => t \in turns /\ t.kind \notin kinds
    BY StaledTurns
<1>3. \A t \in turns : t.kind \in Lookups
    BY DEF LookupTypeOK
<1>4. \A k \in Lookups : lookup'[k] = IF k \in kinds THEN Idle ELSE lookup[k]
    BY DEF Invalidated
<1>5. ~Idle.ready
    BY DEF Idle
<1> QED
    BY <1>1, <1>2, <1>3, <1>4, <1>5, StaledTurns, LookupSets DEF LoadsCurrent

LEMMA EnsuredCurrent ==
    ASSUME LookupTypeOK, LoadsCurrent, NEW q \in Queries,
           lookup' = EnsuredLookup(q), turns' = EnsuredTurns(q)
    PROVE  /\ lookup' \in [Lookups -> LookupState] /\ turns' \subseteq Turn /\ LoadsCurrent'
           /\ \A k \in Lookups \intersect Wants[q] : Answers(k, q) => lookup'[k] = lookup[k]
<1> DEFINE fresh == Started(q) \intersect Keyed
           made == {[kind |-> k, query |-> IF k \in Keyed THEN q ELSE Nothing, live |-> TRUE] : k \in Started(q)}
<1>1. /\ Unwanted(q) \subseteq Keyed /\ Started(q) \subseteq Asked(q) /\ Asked(q) \subseteq Lookups \intersect Wants[q]
      /\ Unwanted(q) \intersect Asked(q) = {}
      /\ \A k \in Asked(q) : ~Answers(k, q)
    BY DEF Unwanted, Started, Asked
<1>2. \A k \in Lookups :
        /\ k \in Unwanted(q) => lookup'[k] = Idle
        /\ k \in fresh => lookup'[k] = [lookup[k] EXCEPT !.query = q, !.ready = FALSE, !.waits = TRUE]
        /\ k \in Asked(q) \ fresh => lookup'[k] = [lookup[k] EXCEPT !.waits = TRUE]
        /\ k \notin Unwanted(q) \union Asked(q) => lookup'[k] = lookup[k]
    BY <1>1 DEF EnsuredLookup
<1>3. \A k \in Lookups : lookup[k] \in LookupState
    BY DEF LookupTypeOK, LookupState
<1>4. \A k \in Lookups : lookup'[k] \in LookupState
    <2> SUFFICES ASSUME NEW k \in Lookups PROVE lookup'[k] \in LookupState
        OBVIOUS
    <2>1. Idle \in LookupState
        BY DEF Idle, LookupState
    <2>2. [lookup[k] EXCEPT !.query = q, !.ready = FALSE, !.waits = TRUE] \in LookupState
        BY <1>3 DEF LookupState
    <2>3. [lookup[k] EXCEPT !.waits = TRUE] \in LookupState
        BY <1>3 DEF LookupState
    <2> QED
        BY <1>2, <1>3, <2>1, <2>2, <2>3
<1>5. lookup' \in [Lookups -> LookupState]
    <2> DEFINE e(k) == CASE k \in Unwanted(q) -> Idle
                         [] k \in Started(q) /\ k \in Keyed ->
                              [lookup[k] EXCEPT !.query = q, !.ready = FALSE, !.waits = TRUE]
                         [] k \in Asked(q) \ (Started(q) \intersect Keyed) -> [lookup[k] EXCEPT !.waits = TRUE]
                         [] OTHER -> lookup[k]
    <2>1. lookup' = [k \in Lookups |-> e(k)]
        BY DEF EnsuredLookup
    <2> HIDE DEF e
    <2> QED
        BY <1>4, <2>1
<1>6. turns' = Staled(Unwanted(q) \union fresh) \union made
    BY DEF EnsuredTurns
<1>7. made \subseteq Turn
    <2> SUFFICES ASSUME NEW k \in Started(q)
                 PROVE  [kind |-> k, query |-> IF k \in Keyed THEN q ELSE Nothing, live |-> TRUE] \in Turn
        OBVIOUS
    <2>1. k \in Lookups
        BY <1>1
    <2> QED
        BY <2>1 DEF Turn
<1>8. turns' \subseteq Turn
    BY <1>6, <1>7, StaledTurns
<1>9. ASSUME NEW t \in turns', t.live, t.kind \in Keyed PROVE t.query = lookup'[t.kind].query
    <2>1. CASE t \in made
        <3>1. PICK k \in Started(q) : t = [kind |-> k, query |-> IF k \in Keyed THEN q ELSE Nothing, live |-> TRUE]
            BY <2>1
        <3>2. k \in fresh /\ k \in Lookups /\ t.query = q /\ t.kind = k
            BY <1>1, <1>9, <3>1
        <3>3. lookup'[k].query = q
            BY <1>2, <1>3, <3>2 DEF LookupState
        <3> QED
            BY <3>2, <3>3
    <2>2. CASE t \in Staled(Unwanted(q) \union fresh)
        <3>1. t \in turns /\ t.kind \notin Unwanted(q) \union fresh
            BY <1>9, <2>2, StaledTurns
        <3>2. t.kind \in Lookups /\ t.query = lookup[t.kind].query
            BY <1>9, <3>1, LookupSets DEF LoadsCurrent
        <3>3. lookup'[t.kind].query = lookup[t.kind].query
            BY <1>2, <1>3, <3>1, <3>2 DEF LookupState
        <3> QED
            BY <3>2, <3>3
    <2> QED
        BY <1>6, <2>1, <2>2
<1>10. ASSUME NEW k \in Keyed, lookup'[k].ready PROVE lookup'[k].rows = lookup'[k].query
    <2>1. k \in Lookups /\ (lookup[k].ready => lookup[k].rows = lookup[k].query)
        BY LookupSets DEF LoadsCurrent
    <2>2. k \notin Unwanted(q)
        <3>1. ~Idle.ready
            BY DEF Idle
        <3> QED
            BY <1>2, <1>10, <2>1, <3>1
    <2>3. k \notin fresh
        BY ZenonT(40), <1>2, <1>3, <1>10, <2>1 DEF LookupState
    <2>4. /\ lookup'[k].ready = lookup[k].ready /\ lookup'[k].rows = lookup[k].rows
          /\ lookup'[k].query = lookup[k].query
        <3>1. lookup'[k] = lookup[k] \/ lookup'[k] = [lookup[k] EXCEPT !.waits = TRUE]
            BY <1>2, <2>1, <2>2, <2>3
        <3>2. lookup[k] \in LookupState
            BY <1>3, <2>1
        <3> QED
            BY <3>1, <3>2 DEF LookupState
    <2> QED
        BY <1>10, <2>1, <2>4
<1>11. \A k \in Lookups \intersect Wants[q] : Answers(k, q) => lookup'[k] = lookup[k]
    BY <1>1, <1>2 DEF Unwanted
<1> QED
    BY <1>5, <1>8, <1>9, <1>10, <1>11 DEF LoadsCurrent

-----------------------------------------------------------------------------
\* What a list painted for q may hold: the answers of now.
TypedState == [accept: BOOLEAN, query: Queries \union {Nothing}, idle: BOOLEAN]
PaintRow == [query: Texts, known: SUBSET (Lookups \union {Windows})]

LEMMA RowsOfNow ==
    ASSUME NEW q \in Queries, NEW c
    PROVE  /\ Rows(q, Known(q, c)) \in [query: Queries, known: SUBSET (Lookups \union {Windows})]
           /\ Rows(q, Known(q, c)) \in PaintRow
           /\ Rows(q, Known(q, c)).query = q
           /\ \A k \in Keyed \intersect Rows(q, Known(q, c)).known : k \in Lookups \intersect Wants[q] /\ Answers(k, q)
<1>1. Known(q, c) \subseteq Lookups \union {Windows}
    BY LookupSets DEF Known
<1>2. \A k \in Keyed \intersect Known(q, c) : k \in Lookups \intersect Wants[q] /\ Answers(k, q)
    BY LookupSets DEF Known
<1> QED
    BY <1>1, <1>2, LookupSets DEF Rows, PaintRow

LEMMA KeyedAnswer ==
    ASSUME LoadsCurrent, NEW k \in Keyed, NEW q, Answers(k, q)
    PROVE  lookup[k].rows = q
BY DEF LoadsCurrent, Answers

LEMMA SetTextCurrent ==
    ASSUME LookupTypeOK, LookupsCurrent, NEW q \in Texts, NEW c \in CacheState, SetText(q, c)
    PROVE  /\ typed' \in TypedState /\ lookup' \in [Lookups -> LookupState] /\ turns' \subseteq Turn
           /\ cache' \in CacheState
           /\ buffered' \in [query: Queries, known: SUBSET (Lookups \union {Windows})] \union {Nothing}
           /\ painted' \in PaintRow
           /\ coreQuery' = q /\ RepaintsCurrent' /\ LoadsCurrent'
           /\ buffered' # Nothing =>
                 buffered'.query = q /\ \A k \in Keyed \intersect buffered'.known : Answers(k, q)'
           /\ painted' # painted =>
                 painted'.query = q /\ \A k \in Keyed \intersect painted'.known : lookup'[k].rows = q
<1> USE DEF LookupsCurrent
<1>0. /\ typed \in TypedState /\ cache \in CacheState /\ painted \in PaintRow
      /\ lookup \in [Lookups -> LookupState] /\ turns \subseteq Turn
    BY DEF LookupTypeOK, TypedState, CacheState, PaintRow, LookupState, Turn
<1>1. coreQuery' = q
    BY DEF SetText
<1>2. CASE q = Home
    <2>1. HomeResults(c)
        BY <1>2, LookupSets DEF SetText
    <2>2. /\ typed' \in TypedState /\ typed'.query = Nothing
        BY <1>0, <2>1 DEF HomeResults, TypedState
    <2>3. cache' \in CacheState
        BY <2>1 DEF HomeResults, EnsuredWindows, CacheState
    <2>4. lookup' \in [Lookups -> LookupState] /\ turns' \subseteq Turn /\ LoadsCurrent'
        BY <2>1, DroppedCurrent DEF HomeResults
    <2>5. /\ Rows(Home, IF c.listed THEN {Windows} ELSE {}) \in PaintRow
          /\ Rows(Home, IF c.listed THEN {Windows} ELSE {}).query = Home
          /\ Rows(Home, IF c.listed THEN {Windows} ELSE {}).known \subseteq {Windows}
        BY LookupSets DEF Rows, PaintRow
    <2>6. /\ painted' \in PaintRow
          /\ painted' # painted => painted'.query = q /\ Keyed \intersect painted'.known = {}
        BY <1>0, <1>2, <2>1, <2>5, LookupSets DEF HomeResults, Shows
    <2> QED
        BY <1>1, <2>1, <2>2, <2>3, <2>4, <2>6 DEF HomeResults, RepaintsCurrent
<1>3. CASE q \in Queries
    <2>1. HandleQuery(q, c)
        BY <1>3, LookupSets DEF SetText
    <2>2. typed' \in TypedState /\ typed'.query = q
        BY <1>0, <1>3, <2>1 DEF HandleQuery, TypedState
    <2>3. cache' \in CacheState
        BY <2>1 DEF HandleQuery, EnsuredWindows, CacheState
    <2>4. /\ lookup' \in [Lookups -> LookupState] /\ turns' \subseteq Turn /\ LoadsCurrent'
          /\ \A k \in Lookups \intersect Wants[q] : Answers(k, q) => lookup'[k] = lookup[k]
        BY <1>3, <2>1, EnsuredCurrent DEF HandleQuery
    <2>5. \A k \in Keyed \intersect Rows(q, Known(q, c)).known : lookup'[k].rows = q /\ Answers(k, q)'
        BY <1>3, <2>4, RowsOfNow, KeyedAnswer DEF Answers
    <2>6. /\ painted' \in PaintRow
          /\ painted' # painted => painted' = Rows(q, Known(q, c))
          /\ buffered' # Nothing => buffered' = Rows(q, Known(q, c))
          /\ buffered' \in {Nothing, Rows(q, Known(q, c))}
        BY <1>0, <1>3, <2>1, RowsOfNow DEF HandleQuery, Shows
    <2>7. buffered' \in [query: Queries, known: SUBSET (Lookups \union {Windows})] \union {Nothing}
        BY <1>3, <2>6, RowsOfNow
    <2> QED
        BY <1>1, <1>3, <2>2, <2>3, <2>4, <2>5, <2>6, <2>7, RowsOfNow DEF RepaintsCurrent
<1>4. CASE q # Home /\ q \notin Queries
    <2>1. HandedOver(c)
        BY <1>4 DEF SetText
    <2>2. LoadsCurrent'
        BY <2>1 DEF HandedOver, LoadsCurrent
    <2> QED
        BY <1>0, <1>1, <1>4, <2>1, <2>2 DEF HandedOver, RepaintsCurrent
<1> QED
    BY <1>2, <1>3, <1>4

\* What a step that sets the text to that of the entry leaves.
LEMMA SetTextSteady ==
    ASSUME LookupTypeOK, LookupsCurrent, NEW c \in CacheState, entry' \in Texts, SetText(entry', c),
           shown' \in BOOLEAN, opening' \in BOOLEAN
    PROVE  LookupTypeOK' /\ LookupsCurrent'
<1>1. LookupTypeOK'
    BY SetTextCurrent DEF LookupTypeOK, TypedState, CacheState, PaintRow, LookupState, Turn
<1>2. EntryRun' /\ RepaintsCurrent' /\ LoadsCurrent' /\ BufferCurrent'
    BY SetTextCurrent DEF EntryRun, BufferCurrent
<1> QED
    BY <1>1, <1>2 DEF LookupsCurrent

-----------------------------------------------------------------------------
\* The steps, and what each may paint.
Faithful ==
    painted' # painted /\ ~opening' =>
        /\ painted'.query = entry'
        /\ \A k \in Keyed \intersect painted'.known : lookup'[k].rows = entry'

LEMMA SetEntrySteady ==
    ASSUME LookupTypeOK, LookupsCurrent, NEW c \in CacheState, entry' \in Texts, SetText(entry', c),
           shown' \in BOOLEAN, opening' \in BOOLEAN
    PROVE  LookupTypeOK' /\ LookupsCurrent' /\ Faithful
BY SetTextSteady, SetTextCurrent DEF Faithful

LEMMA CacheOfNow == ASSUME LookupTypeOK PROVE cache \in CacheState /\ Listed \in CacheState
BY DEF LookupTypeOK, CacheState, Listed

LEMMA TextStep ==
    ASSUME LookupTypeOK, LookupsCurrent,
           (\E q \in Texts : EditText(q)) \/ ReloadText \/ WindowReady
    PROVE  LookupTypeOK' /\ LookupsCurrent' /\ Faithful
<1>1. ASSUME NEW q \in Texts, EditText(q) PROVE LookupTypeOK' /\ LookupsCurrent' /\ Faithful
    BY <1>1, SetEntrySteady, CacheOfNow DEF EditText, LookupTypeOK
<1>2. CASE ReloadText
    BY <1>2, SetEntrySteady, CacheOfNow DEF ReloadText, LookupTypeOK
<1>3. CASE WindowReady
    BY <1>3, SetEntrySteady, CacheOfNow DEF WindowReady, LookupTypeOK
<1> QED
    BY <1>1, <1>2, <1>3

LEMMA OpenStep ==
    ASSUME LookupTypeOK, LookupsCurrent, OpenPopup
    PROVE  LookupTypeOK' /\ LookupsCurrent' /\ Faithful
<1>1. LookupTypeOK'
    BY LookupSets DEF OpenPopup, LookupTypeOK
<1>2. RepaintsCurrent' /\ LoadsCurrent'
    BY DEF OpenPopup, LookupsCurrent, RepaintsCurrent, LoadsCurrent
<1>3. EntryRun' /\ BufferCurrent'
    BY DEF OpenPopup, LookupsCurrent, EntryRun, BufferCurrent, Settled
<1> QED
    BY <1>1, <1>2, <1>3 DEF LookupsCurrent, Faithful, OpenPopup

LEMMA HideStep ==
    ASSUME LookupTypeOK, LookupsCurrent, ClosePopup \/ OpenPreferences
    PROVE  LookupTypeOK' /\ LookupsCurrent' /\ Faithful
<1>1. RejectPaints /\ shown' = FALSE /\ entry' \in Texts
    BY LookupSets DEF ClosePopup, OpenPreferences, LookupTypeOK
<1>2. UNCHANGED <<opening, coreQuery, cache, buffered, painted>>
    BY DEF ClosePopup, OpenPreferences
<1>3. lookup' \in [Lookups -> LookupState] /\ turns' \subseteq Turn /\ LoadsCurrent'
    BY <1>1, DroppedCurrent DEF RejectPaints, LookupsCurrent
<1>4. LookupTypeOK'
    BY <1>1, <1>2, <1>3 DEF RejectPaints, LookupTypeOK, LookupState, Turn
<1>5. EntryRun' /\ RepaintsCurrent' /\ BufferCurrent'
    BY <1>1, <1>2 DEF RejectPaints, LookupsCurrent, EntryRun, RepaintsCurrent, BufferCurrent, Settled
<1> QED
    BY <1>2, <1>3, <1>4, <1>5 DEF LookupsCurrent, Faithful

LEMMA TurnStep ==
    ASSUME LookupTypeOK, LookupsCurrent, NEW k \in Lookups, RunTurn(k)
    PROVE  LookupTypeOK' /\ LookupsCurrent' /\ Faithful
<1>1. PICK t \in turns : t.kind = k /\ turns' = turns \ {t} /\ Apply(t)
    BY DEF RunTurn
<1>2. UNCHANGED <<shown, entry, opening, coreQuery, cache, buffered, painted>>
    BY DEF RunTurn
<1>3. t \in Turn /\ lookup \in [Lookups -> LookupState] /\ typed \in TypedState
    BY DEF LookupTypeOK, Turn, LookupState, TypedState
<1>4. typed' \in TypedState /\ typed'.query = typed.query /\ typed'.accept = typed.accept
    BY <1>1, <1>3 DEF Apply, ScheduleRepaint, NoRepaint, TypedState
<1>5. CASE lookup' = lookup
    <2>1. LookupTypeOK'
        BY <1>1, <1>2, <1>4, <1>5 DEF LookupTypeOK, TypedState
    <2>2. LoadsCurrent'
        BY <1>1, <1>5 DEF LookupsCurrent, LoadsCurrent
    <2>3. EntryRun' /\ RepaintsCurrent' /\ BufferCurrent'
        BY <1>2, <1>4, <1>5 DEF LookupsCurrent, EntryRun, RepaintsCurrent, BufferCurrent, Settled, Answers
    <2> QED
        BY <1>2, <2>1, <2>2, <2>3 DEF LookupsCurrent, Faithful
<1>6. CASE t.live /\ ~lookup[k].ready
    <2> DEFINE answered == [lookup[k] EXCEPT !.ready = TRUE, !.rows = t.query, !.waits = FALSE]
    <2>1. /\ answered \in LookupState /\ answered.ready /\ answered.rows = t.query
          /\ answered.query = lookup[k].query
        BY <1>3 DEF LookupState, Turn
    <2>2. lookup' = [lookup EXCEPT ![k] = answered]
        BY <1>1, <1>3, <1>6 DEF Apply, LookupState
    <2> HIDE DEF answered
    <2>3. lookup' \in [Lookups -> LookupState] /\ lookup'[k] = answered /\ \A j \in Lookups \ {k} : lookup'[j] = lookup[j]
        BY <1>3, <2>1, <2>2
    <2>4. LookupTypeOK'
        BY <1>1, <1>2, <1>4, <2>3 DEF LookupTypeOK, TypedState, LookupState
    <2>5. \A j \in Lookups : lookup'[j].query = lookup[j].query
        BY <2>1, <2>3
    <2>6. LoadsCurrent'
        <3>1. ASSUME NEW u \in turns', u.live, u.kind \in Keyed PROVE u.query = lookup'[u.kind].query
            BY <1>1, <2>5, <3>1, LookupSets DEF LookupsCurrent, LoadsCurrent
        <3>2. ASSUME NEW j \in Keyed, lookup'[j].ready PROVE lookup'[j].rows = lookup'[j].query
            BY <1>1, <1>6, <2>1, <2>3, <3>2, LookupSets DEF LookupsCurrent, LoadsCurrent
        <3> QED
            BY <3>1, <3>2 DEF LoadsCurrent
    <2>7. ASSUME NEW j \in Keyed, NEW q, Answers(j, q) PROVE Answers(j, q)'
        BY <1>6, <2>3, <2>7, LookupSets DEF Answers
    <2>8. EntryRun' /\ RepaintsCurrent' /\ BufferCurrent'
        BY <1>2, <1>4, <2>7 DEF LookupsCurrent, EntryRun, RepaintsCurrent, BufferCurrent, Settled
    <2> QED
        BY <1>2, <2>4, <2>6, <2>8 DEF LookupsCurrent, Faithful
<1> QED
    BY <1>1, <1>5, <1>6 DEF Apply

LEMMA RepaintStep ==
    ASSUME LookupTypeOK, LookupsCurrent, RunRepaint
    PROVE  LookupTypeOK' /\ LookupsCurrent' /\ Faithful
<1>1. UNCHANGED <<shown, entry, opening, coreQuery, lookup, turns, cache>>
    BY DEF RunRepaint
<1>2. typed' = [typed EXCEPT !.idle = FALSE]
    BY DEF RunRepaint
<1>3. /\ typed \in TypedState /\ typed' \in TypedState
      /\ typed'.query = typed.query /\ typed'.accept = typed.accept
    BY <1>2 DEF LookupTypeOK, TypedState
<1>4. LoadsCurrent' /\ EntryRun' /\ RepaintsCurrent'
    BY <1>1, <1>3 DEF LookupsCurrent, LoadsCurrent, EntryRun, RepaintsCurrent, Settled
<1>5. CASE typed.query # Nothing /\ typed.accept /\ RepaintAllowed
    <2> DEFINE q == typed.query
               new == Rows(q, Known(q, cache))
    <2>1. q \in Queries /\ q = coreQuery
        BY <1>3, <1>5 DEF RepaintAllowed, LookupsCurrent, RepaintsCurrent, TypedState
    <2>2. buffered' = Nothing /\ painted' = (IF shown THEN new ELSE painted)
        BY <1>5 DEF RunRepaint, Shows
    <2>3. new \in PaintRow /\ new.query = q /\ \A k \in Keyed \intersect new.known : Answers(k, q)
        BY <2>1, RowsOfNow
    <2>4. \A k \in Keyed \intersect new.known : lookup'[k].rows = q
        BY <1>1, <2>3, KeyedAnswer DEF LookupsCurrent
    <2> HIDE DEF new
    <2>5. Faithful
        BY <1>1, <2>1, <2>2, <2>3, <2>4 DEF Faithful, LookupsCurrent, EntryRun, Settled
    <2>6. LookupTypeOK'
        BY <1>1, <1>3, <2>2, <2>3 DEF LookupTypeOK, TypedState, PaintRow
    <2> QED
        BY <1>4, <2>2, <2>5, <2>6 DEF LookupsCurrent, BufferCurrent
<1>6. CASE UNCHANGED <<buffered, painted>>
    <2>1. LookupTypeOK'
        BY <1>1, <1>3, <1>6 DEF LookupTypeOK, TypedState
    <2>2. BufferCurrent'
        BY <1>1, <1>6 DEF LookupsCurrent, BufferCurrent, Settled, Answers
    <2> QED
        BY <1>4, <1>6, <2>1, <2>2 DEF LookupsCurrent, Faithful
<1> QED
    BY <1>5, <1>6 DEF RunRepaint

LEMMA ThrottleStep ==
    ASSUME LookupTypeOK, LookupsCurrent, ThrottleEnds
    PROVE  LookupTypeOK' /\ LookupsCurrent' /\ Faithful
<1>1. /\ UNCHANGED <<shown, entry, opening, coreQuery, typed, lookup, turns, cache>>
      /\ buffered # Nothing /\ buffered' = Nothing /\ painted' = (IF shown THEN buffered ELSE painted)
    BY DEF ThrottleEnds, Shows
<1>2. buffered \in [query: Queries, known: SUBSET (Lookups \union {Windows})]
    BY <1>1 DEF LookupTypeOK
<1>3. buffered \in PaintRow
    BY <1>2, LookupSets DEF PaintRow
<1>4. LookupTypeOK'
    BY <1>1, <1>3 DEF LookupTypeOK, PaintRow
<1>5. LookupsCurrent'
    BY <1>1 DEF LookupsCurrent, EntryRun, RepaintsCurrent, LoadsCurrent, BufferCurrent, Settled
<1>6. Faithful
    <2> SUFFICES ASSUME painted' # painted, ~opening'
                 PROVE  /\ painted'.query = entry'
                        /\ \A k \in Keyed \intersect painted'.known : lookup'[k].rows = entry'
        BY DEF Faithful
    <2>1. Settled /\ painted' = buffered
        BY <1>1 DEF Settled
    <2>2. buffered.query = entry /\ \A k \in Keyed \intersect buffered.known : Answers(k, buffered.query)
        BY <1>1, <2>1 DEF LookupsCurrent, BufferCurrent, EntryRun
    <2>3. \A k \in Keyed \intersect buffered.known : lookup[k].rows = buffered.query
        BY <2>2, KeyedAnswer DEF LookupsCurrent
    <2> QED
        BY <1>1, <2>1, <2>2, <2>3
<1> QED
    BY <1>4, <1>5, <1>6

LEMMA WindowsStep ==
    ASSUME LookupTypeOK, LookupsCurrent, RefreshWindows \/ SnapshotAges
    PROVE  LookupTypeOK' /\ LookupsCurrent' /\ Faithful
<1>1. CASE RefreshWindows /\ cache.waits = "reload" /\ shown
    BY <1>1, SetEntrySteady, CacheOfNow DEF RefreshWindows, LookupTypeOK
<1>2. CASE ~(RefreshWindows /\ cache.waits = "reload" /\ shown)
    <2>1. UNCHANGED <<shown, entry, opening, coreQuery, lookup, turns, buffered, painted>>
        BY <1>2 DEF RefreshWindows, SnapshotAges
    <2>2. cache' \in CacheState
        BY <1>2, CacheOfNow DEF RefreshWindows, SnapshotAges, CacheState
    <2>3. typed' \in TypedState /\ typed'.query = typed.query /\ typed'.accept = typed.accept
        BY <1>2 DEF RefreshWindows, SnapshotAges, ScheduleRepaint, NoRepaint, LookupTypeOK, TypedState
    <2>4. LookupTypeOK'
        BY <2>1, <2>2, <2>3 DEF LookupTypeOK, TypedState, CacheState
    <2>5. LookupsCurrent'
        BY <2>1, <2>3 DEF LookupsCurrent, EntryRun, RepaintsCurrent, LoadsCurrent, BufferCurrent, Settled, Answers
    <2> QED
        BY <2>1, <2>4, <2>5 DEF Faithful
<1> QED
    BY <1>1, <1>2

LEMMA LookupStep ==
    ASSUME LookupTypeOK, LookupsCurrent, [LookupNext]_lookupVars
    PROVE  LookupTypeOK' /\ LookupsCurrent' /\ Faithful
<1>1. CASE UNCHANGED lookupVars
    BY <1>1 DEF lookupVars, LookupTypeOK, LookupsCurrent, EntryRun, RepaintsCurrent, LoadsCurrent, BufferCurrent,
       Settled, Answers, Faithful
<1> QED
    BY <1>1, TextStep, OpenStep, HideStep, TurnStep, RepaintStep, ThrottleStep, WindowsStep DEF LookupNext

\* What appears on the screen of an opened popup answers the entry, and so does every
\* lookup of one text it draws on, for any texts and lookups: a repaint of a text that
\* was edited, cleared or taken over never gets through, nor a late answer (PaintsEntry:
\* handle_query, _paint_query, the load ids of the lookups).
THEOREM LookupPaintsEntry == LookupSpec => PaintsEntry
<1>1. (LookupTypeOK /\ LookupsCurrent) /\ [LookupNext]_lookupVars => (LookupTypeOK /\ LookupsCurrent)'
    BY LookupStep
<1>2. LookupTypeOK /\ LookupsCurrent /\ [LookupNext]_lookupVars
        => [painted' # painted /\ ~opening' =>
              /\ painted'.query = entry'
              /\ \A k \in Keyed \intersect painted'.known : lookup'[k].rows = entry']_lookupVars
    BY LookupStep DEF Faithful
<1> QED
    BY <1>1, <1>2, InitCurrent, PTL DEF LookupSpec, PaintsEntry

-----------------------------------------------------------------------------
(* AppCatalog, for any directories, entries and number of changes.             *)

\* Nothing the watcher would not have signalled happened to the disk.
Unsignalled == ~event /\ dirsMade \subseteq watching.dirs

\* What a search that read the first n directories as they are now has taken.
FirstReadable(n, id, kind) ==
    \/ kind = "none" /\ \A i \in 1..n : entryFiles[AppDirs[i]][id] \in PassedOver
    \/ \E i \in 1..n : /\ kind = entryFiles[AppDirs[i]][id] /\ kind \notin PassedOver
                       /\ \A j \in 1..(i - 1) : entryFiles[AppDirs[j]][id] \in PassedOver

CatalogCurrent ==
    /\ Searching => ~entries.loaded
    /\ Searching /\ Unsignalled => \A id \in EntryIds : FirstReadable(read, id, taken[id])
    /\ EntriesFresh

LEMMA CatalogDirs ==
    /\ Len(AppDirs) \in Nat /\ Len(AppDirs) > 0 /\ DOMAIN AppDirs = 1..Len(AppDirs)
    /\ \A i \in 1..Len(AppDirs) : AppDirs[i] \in Dirs
<1>1. AppDirs \in Seq(STRING) /\ AppDirs # <<>>
    BY CatalogAssumption
<1>2. Len(AppDirs) \in Nat /\ DOMAIN AppDirs = 1..Len(AppDirs) /\ Len(AppDirs) # 0
    BY <1>1, EmptySeq
<1> QED
    BY <1>2 DEF Dirs, ToSet

LEMMA TakingMore ==
    ASSUME CatalogTypeOK, NEW n \in 0..Len(AppDirs), n < Len(AppDirs), NEW sofar \in [EntryIds -> Content],
           \A id \in EntryIds : FirstReadable(n, id, sofar[id])
    PROVE  LET more == Taking(sofar, entryFiles[AppDirs[n + 1]])
           IN  more \in [EntryIds -> Content] /\ \A id \in EntryIds : FirstReadable(n + 1, id, more[id])
<1> DEFINE files == entryFiles[AppDirs[n + 1]]
           more == Taking(sofar, files)
<1>1. files \in [EntryIds -> Content] /\ n \in Nat /\ n + 1 \in 1..Len(AppDirs)
    BY CatalogDirs DEF CatalogTypeOK
<1>2. more = [id \in EntryIds |-> IF sofar[id] = "none" /\ files[id] # "broken" THEN files[id] ELSE sofar[id]]
    BY DEF Taking
<1>3. more \in [EntryIds -> Content]
    BY <1>1, <1>2
<1>4. ASSUME NEW id \in EntryIds PROVE FirstReadable(n + 1, id, more[id])
    <2>1. FirstReadable(n, id, sofar[id])
        OBVIOUS
    <2>2. CASE sofar[id] = "none" /\ files[id] # "broken"
        <3>1. \A i \in 1..n : entryFiles[AppDirs[i]][id] \in PassedOver
            BY <2>1, <2>2 DEF FirstReadable, PassedOver
        <3>2. more[id] = entryFiles[AppDirs[n + 1]][id]
            BY <1>2, <2>2
        <3>3. CASE more[id] = "none"
            <4>1. \A i \in 1..(n + 1) : i \in 1..n \/ i = n + 1
                BY <1>1
            <4>2. \A i \in 1..(n + 1) : entryFiles[AppDirs[i]][id] \in PassedOver
                BY <3>1, <3>2, <3>3, <4>1 DEF PassedOver
            <4> QED
                BY <3>3, <4>2 DEF FirstReadable
        <3>4. CASE more[id] # "none"
            <4>1. more[id] \notin PassedOver
                BY <2>2, <3>2, <3>4 DEF PassedOver
            <4>2. \A j \in 1..((n + 1) - 1) : entryFiles[AppDirs[j]][id] \in PassedOver
                BY <1>1, <3>1
            <4>3. n + 1 \in 1..(n + 1)
                BY <1>1
            <4> QED
                BY <3>2, <4>1, <4>2, <4>3 DEF FirstReadable
        <3> QED
            BY <3>3, <3>4
    <2>3. CASE sofar[id] # "none"
        <3>1. PICK i \in 1..n : /\ sofar[id] = entryFiles[AppDirs[i]][id] /\ sofar[id] \notin PassedOver
                                /\ \A j \in 1..(i - 1) : entryFiles[AppDirs[j]][id] \in PassedOver
            BY <2>1, <2>3 DEF FirstReadable
        <3>2. more[id] = sofar[id] /\ i \in 1..(n + 1)
            BY <1>1, <1>2, <2>3
        <3> QED
            BY <3>1, <3>2 DEF FirstReadable
    <2>4. CASE sofar[id] = "none" /\ files[id] = "broken"
        <3>1. \A i \in 1..n : entryFiles[AppDirs[i]][id] \in PassedOver
            BY <2>1, <2>4 DEF FirstReadable, PassedOver
        <3>2. more[id] = "none" /\ entryFiles[AppDirs[n + 1]][id] \in PassedOver
            BY <1>2, <2>4 DEF PassedOver
        <3> QED
            BY <1>1, <3>1, <3>2 DEF FirstReadable
    <2> QED
        BY <2>2, <2>3, <2>4
<1> QED
    BY <1>3, <1>4

LEMMA InitCatalog == CatalogInit => CatalogTypeOK /\ CatalogCurrent
<1> SUFFICES ASSUME CatalogInit PROVE CatalogTypeOK /\ CatalogCurrent
    OBVIOUS
<1>1. CatalogTypeOK
    <2>1. entryFiles \in [Dirs -> [EntryIds -> Content]]
        BY DEF CatalogInit, Content
    <2>2. NothingTaken \in [EntryIds -> Content]
        BY DEF NothingTaken, Content
    <2>3. Unread \in [loaded : BOOLEAN, ids : SUBSET EntryIds] /\ Unwatched \in [on : BOOLEAN, dirs : SUBSET Dirs]
        BY DEF Unread, Unwatched
    <2>4. 0 \in 0..Len(AppDirs) /\ 0 \in 0..MaxWrites
        BY CatalogDirs, CatalogAssumption
    <2> QED
        BY <2>1, <2>2, <2>3, <2>4 DEF CatalogInit, CatalogTypeOK
<1> QED
    BY <1>1 DEF CatalogInit, CatalogCurrent, Searching, EntriesFresh, Unread

LEMMA BeginStep ==
    ASSUME CatalogTypeOK, CatalogCurrent, BeginSearch
    PROVE  CatalogTypeOK' /\ CatalogCurrent'
<1>1. NothingTaken \in [EntryIds -> Content] /\ \A id \in EntryIds : NothingTaken[id] = "none"
    BY DEF NothingTaken, Content
<1>2. \A id \in EntryIds : FirstReadable(0, id, NothingTaken[id])
    BY <1>1 DEF FirstReadable
<1>3. /\ taken' \in [EntryIds -> Content] /\ read' = 1
      /\ \A id \in EntryIds : FirstReadable(1, id, taken'[id])
    BY <1>1, <1>2, CatalogDirs, TakingMore DEF BeginSearch
<1>4. CatalogTypeOK'
    BY <1>3, CatalogDirs DEF BeginSearch, CatalogTypeOK, WatchedDirs
<1>5. \A id \in EntryIds : FirstReadable(read, id, taken[id])'
    BY <1>3 DEF BeginSearch, FirstReadable
<1> QED
    BY <1>4, <1>5 DEF BeginSearch, CatalogCurrent, Searching, EntriesFresh

LEMMA ReadStep ==
    ASSUME CatalogTypeOK, CatalogCurrent, ReadDirectory
    PROVE  CatalogTypeOK' /\ CatalogCurrent'
<1>0. read \in Nat /\ read <= Len(AppDirs) /\ Len(AppDirs) \in Nat
    BY CatalogDirs DEF CatalogTypeOK
<1>1. /\ UNCHANGED <<entryFiles, dirsMade, filtered, watching, event, writes>>
      /\ read \in Nat /\ read > 0 /\ read <= Len(AppDirs) /\ ~entries.loaded
    BY <1>0 DEF ReadDirectory, Searching, CatalogCurrent
<1>2. CASE read < Len(AppDirs)
    <2>1. read' = read + 1 /\ taken' = Taking(taken, entryFiles[AppDirs[read + 1]]) /\ entries' = entries
        BY <1>2 DEF ReadDirectory
    <2>2. taken' \in [EntryIds -> Content]
        BY <1>1, <1>2, <2>1, CatalogDirs DEF Taking, CatalogTypeOK
    <2>3. CatalogTypeOK'
        BY <1>1, <1>2, <2>1, <2>2, CatalogDirs DEF CatalogTypeOK
    <2>4. ASSUME Unsignalled' PROVE \A id \in EntryIds : FirstReadable(read, id, taken[id])'
        <3>1. \A id \in EntryIds : FirstReadable(read, id, taken[id])
            BY <1>1, <2>4 DEF CatalogCurrent, Unsignalled, Searching
        <3>2. \A id \in EntryIds : FirstReadable(read + 1, id, taken'[id])
            BY <1>1, <1>2, <2>1, <3>1, TakingMore DEF CatalogTypeOK
        <3> QED
            BY <1>1, <2>1, <3>2 DEF FirstReadable
    <2> QED
        BY <1>1, <2>1, <2>3, <2>4 DEF CatalogCurrent, EntriesFresh
<1>3. CASE read = Len(AppDirs)
    <2>1. read' = 0 /\ taken' = NothingTaken /\ entries' = [loaded |-> TRUE, ids |-> Usable(taken)]
        BY <1>3 DEF ReadDirectory
    <2>2. CatalogTypeOK'
        <3>1. Usable(taken) \subseteq EntryIds /\ NothingTaken \in [EntryIds -> Content]
            BY DEF Usable, NothingTaken, Content
        <3> QED
            BY <1>1, <2>1, <3>1, CatalogDirs DEF CatalogTypeOK
    <2>3. ASSUME Unsignalled', NEW id \in EntryIds
          PROVE  id \in Usable(taken) <=>
                   \E i \in 1..Len(AppDirs) : /\ entryFiles[AppDirs[i]][id] \in ShownHere
                                              /\ \A j \in 1..(i - 1) : entryFiles[AppDirs[j]][id] \in PassedOver
        <3>1. FirstReadable(Len(AppDirs), id, taken[id])
            BY <1>1, <1>3, <2>3 DEF CatalogCurrent, Unsignalled, Searching
        <3>2. ShownHere \intersect PassedOver = {} /\ (id \in Usable(taken) <=> taken[id] \in ShownHere)
            BY DEF ShownHere, PassedOver, Usable
        <3>3. CASE \A i \in 1..Len(AppDirs) : entryFiles[AppDirs[i]][id] \in PassedOver
            BY <3>1, <3>2, <3>3 DEF FirstReadable, PassedOver
        <3>4. CASE ~\A i \in 1..Len(AppDirs) : entryFiles[AppDirs[i]][id] \in PassedOver
            <4>1. PICK i \in 1..Len(AppDirs) :
                         /\ taken[id] = entryFiles[AppDirs[i]][id] /\ taken[id] \notin PassedOver
                         /\ \A j \in 1..(i - 1) : entryFiles[AppDirs[j]][id] \in PassedOver
                BY <3>1, <3>4 DEF FirstReadable
            <4>2. ASSUME NEW k \in 1..Len(AppDirs), entryFiles[AppDirs[k]][id] \in ShownHere,
                         \A j \in 1..(k - 1) : entryFiles[AppDirs[j]][id] \in PassedOver
                  PROVE  k = i
                <5>1. ~(k < i)
                    BY <3>2, <4>1, <4>2, CatalogDirs
                <5>2. ~(i < k)
                    BY <4>1, <4>2, CatalogDirs
                <5> QED
                    BY <5>1, <5>2, CatalogDirs
            <4> QED
                BY <3>2, <4>1, <4>2
        <3> QED
            BY <3>3, <3>4
    <2>4. Unsignalled' => entries'.ids =
              {id \in EntryIds : \E i \in DOMAIN AppDirs :
                  /\ entryFiles[AppDirs[i]][id] \in ShownHere
                  /\ \A j \in 1..(i - 1) : entryFiles[AppDirs[j]][id] \in PassedOver}
        <3>1. Usable(taken) \subseteq EntryIds
            BY DEF Usable
        <3> QED
            BY <2>1, <2>3, <3>1, CatalogDirs
    <2> QED
        BY <1>1, <2>1, <2>2, <2>4 DEF CatalogCurrent, EntriesFresh, Searching, Unsignalled, ShownHere
<1>4. read < Len(AppDirs) \/ read = Len(AppDirs)
    BY <1>0
<1> QED
    BY <1>2, <1>3, <1>4

LEMMA InvalidateStep ==
    ASSUME CatalogTypeOK, CatalogCurrent, DirectoryChanged \/ SaveFilters
    PROVE  CatalogTypeOK' /\ CatalogCurrent'
<1>1. CatalogTypeOK'
    <2>1. Unread \in [loaded : BOOLEAN, ids : SUBSET EntryIds]
        BY DEF Unread
    <2>2. writes' \in 0..MaxWrites
        BY CatalogAssumption DEF CatalogTypeOK, DirectoryChanged, SaveFilters
    <2>3. filtered' \in BOOLEAN
        BY DEF CatalogTypeOK, DirectoryChanged, SaveFilters
    <2> QED
        BY <2>1, <2>2, <2>3 DEF CatalogTypeOK, DirectoryChanged, SaveFilters
<1> QED
    BY <1>1 DEF DirectoryChanged, SaveFilters, CatalogCurrent, EntriesFresh, Searching, Unread

LEMMA WriteStep ==
    ASSUME CatalogTypeOK, CatalogCurrent, NEW d \in Dirs, NEW id \in EntryIds, NEW c \in Content, WriteEntry(d, id, c)
    PROVE  CatalogTypeOK' /\ CatalogCurrent'
<1>1. ~Unsignalled'
    BY DEF WriteEntry, Unsignalled, CatalogTypeOK
<1>2. CatalogTypeOK'
    BY CatalogAssumption DEF CatalogTypeOK, WriteEntry
<1> QED
    BY <1>1, <1>2 DEF WriteEntry, CatalogCurrent, EntriesFresh, Searching, Unsignalled

\* The list that searches are answered from is the list of now, for any directories,
\* entries and number of changes while the directories are read: what was written to
\* a watched directory is signalled, and only ends up on an older list if it is (EntriesFresh).
THEOREM CatalogFresh == CatalogSpec => []EntriesFresh
<1>1. (CatalogTypeOK /\ CatalogCurrent) /\ [CatalogNext]_catalogVars => (CatalogTypeOK /\ CatalogCurrent)'
    <2>1. CASE UNCHANGED catalogVars
        BY <2>1 DEF catalogVars, CatalogTypeOK, CatalogCurrent, EntriesFresh, Searching, Unsignalled,
           FirstReadable, ShownHere
    <2> QED
        BY <2>1, BeginStep, ReadStep, InvalidateStep, WriteStep DEF CatalogNext
<1>2. CatalogCurrent => EntriesFresh
    BY DEF CatalogCurrent
<1> QED
    BY <1>1, <1>2, InitCatalog, PTL DEF CatalogSpec

-----------------------------------------------------------------------------
(* Numbers: the least and the greatest of a set of them.                       *)

LEMMA LeastNumber ==
    ASSUME NEW T, T \subseteq Nat, T # {}
    PROVE  \E x \in T : \A y \in T : x <= y
<1> DEFINE below == {ss \in Nat \X Nat : ss[1] < ss[2]}
<1>1. IsWellFoundedOn(below, Nat)
    BY NatLessThanWellFounded DEF OpToRel
<1>2. PICK x \in T : \A y \in T : ~(<<y, x>> \in below)
    BY <1>1, WFMin
<1>3. \A y \in T : ~(y < x)
    BY <1>2
<1> QED
    BY <1>3

LEMMA MinOf ==
    ASSUME NEW T, T \subseteq Nat, T # {}
    PROVE  Min(T) \in T /\ \A y \in T : Min(T) <= y
BY LeastNumber DEF Min

LEMMA MaxOf ==
    ASSUME NEW n \in Nat, NEW T, T \subseteq 0..n, T # {}
    PROVE  Max(T) \in T /\ \A y \in T : y <= Max(T)
<1> DEFINE mirrored == {n - x : x \in T}
<1>1. \A x \in T : x \in Nat /\ n - x \in Nat /\ n - x \in mirrored
    OBVIOUS
<1>2. mirrored \subseteq Nat /\ mirrored # {}
    BY <1>1
<1>3. PICK m \in mirrored : \A y \in mirrored : m <= y
    BY <1>2, LeastNumber
<1>4. PICK x \in T : m = n - x
    OBVIOUS
<1>5. ASSUME NEW y \in T PROVE y <= x
    <2>1. n - x <= n - y
        BY <1>1, <1>3, <1>4
    <2> QED
        BY <1>1, <2>1
<1> QED
    BY <1>1, <1>5 DEF Max

-----------------------------------------------------------------------------
(* Selection, for any rows, texts and navigation keys.                         *)

\* Around a list of n rows, from 1 to n.
LEMMA Around ==
    ASSUME NEW n \in Nat \ {0}, NEW m \in -n..(2 * n - 1)
    PROVE  m % n = IF m < 0 THEN m + n ELSE IF m < n THEN m ELSE m - n
OBVIOUS

\* The row k steps on from row c, in a list of n.
Spot(c, delta, k, n) == ((c - 1 + delta * k) % n) + 1

LEMMA SpotOn ==
    ASSUME NEW n \in Nat \ {0}, NEW c \in 1..n, NEW k \in 1..n
    PROVE  Spot(c, 1, k, n) = IF c + k <= n THEN c + k ELSE c + k - n
<1> DEFINE m == c + k - 1
<1>1. m \in -n..(2 * n - 1) /\ m >= 0
    OBVIOUS
<1>2. c - 1 + 1 * k = m
    OBVIOUS
<1>3. Spot(c, 1, k, n) = (m % n) + 1
    BY <1>2 DEF Spot
<1>4. m % n = IF m < 0 THEN m + n ELSE IF m < n THEN m ELSE m - n
    BY <1>1, Around
<1> QED
    BY <1>1, <1>3, <1>4

LEMMA SpotBack ==
    ASSUME NEW n \in Nat \ {0}, NEW c \in 1..n, NEW k \in 1..n
    PROVE  Spot(c, -1, k, n) = IF c > k THEN c - k ELSE c - k + n
<1> DEFINE m == c - k - 1
<1>1. m \in -n..(2 * n - 1) /\ m < n
    OBVIOUS
<1>2. c - 1 + (-1) * k = m
    OBVIOUS
<1>3. Spot(c, -1, k, n) = (m % n) + 1
    BY <1>2 DEF Spot
<1>4. m % n = IF m < 0 THEN m + n ELSE IF m < n THEN m ELSE m - n
    BY <1>1, Around
<1> QED
    BY <1>1, <1>3, <1>4

LEMMA SelectableRows ==
    ASSUME NEW list \in Seq(Row)
    PROVE  Len(list) \in Nat /\ Selectable(list) \subseteq 1..Len(list) /\ Selectable(list) \subseteq Nat
BY DEF Selectable

\* Stepping around reaches a row that can be selected, if there is one.
LEMMA AroundSelectable ==
    ASSUME NEW list \in Seq(Row), NEW c \in 1..Len(list), NEW delta \in {1, -1}
    PROVE  IF Selectable(list) = {} THEN NextAround(c, delta, list) = 0
           ELSE NextAround(c, delta, list) \in Selectable(list)
<1> DEFINE n == Len(list)
           spots == {k \in 1..n : Spot(c, delta, k, n) \in Selectable(list)}
<1>1. n \in Nat \ {0} /\ Selectable(list) \subseteq 1..n
    BY SelectableRows
<1>2. NextAround(c, delta, list) = IF spots = {} THEN 0 ELSE Spot(c, delta, Min(spots), n)
    BY DEF NextAround, Spot
<1>3. ASSUME spots # {} PROVE Spot(c, delta, Min(spots), n) \in Selectable(list)
    <2>1. spots \subseteq Nat
        BY <1>1
    <2>2. Min(spots) \in spots
        BY <1>3, <2>1, MinOf
    <2> QED
        BY <2>2
<1>4. ASSUME NEW t \in Selectable(list) PROVE spots # {}
    <2>1. CASE delta = 1
        <3> DEFINE k == IF t > c THEN t - c ELSE t - c + n
        <3>0. k \in 1..n /\ t \in 1..n
            BY <1>1
        <3>1. Spot(c, 1, k, n) = t
            <4>1. Spot(c, 1, k, n) = IF c + k <= n THEN c + k ELSE c + k - n
                BY <1>1, <3>0, SpotOn
            <4>2. t > c => c + k <= n /\ c + k = t
                BY <1>1, <3>0
            <4>3. ~(t > c) => ~(c + k <= n) /\ c + k - n = t
                BY <1>1, <3>0
            <4> QED
                BY <4>1, <4>2, <4>3
        <3> QED
            BY <3>0, <3>1, <2>1
    <2>2. CASE delta = -1
        <3> DEFINE k == IF t < c THEN c - t ELSE c - t + n
        <3>0. k \in 1..n /\ t \in 1..n
            BY <1>1
        <3>1. Spot(c, -1, k, n) = t
            <4>1. Spot(c, -1, k, n) = IF c > k THEN c - k ELSE c - k + n
                BY <1>1, <3>0, SpotBack
            <4>2. t < c => c > k /\ c - k = t
                BY <1>1, <3>0
            <4>3. ~(t < c) => ~(c > k) /\ c - k + n = t
                BY <1>1, <3>0
            <4> QED
                BY <4>1, <4>2, <4>3
        <3> QED
            BY <3>0, <3>1, <2>2
    <2> QED
        BY <2>1, <2>2
<1> HIDE DEF spots, n
<1> QED
    BY <1>2, <1>3, <1>4

LEMMA PageSelectable ==
    ASSUME NEW list \in Seq(Row), NEW c \in 1..Len(list), NEW delta \in Int \ {0}
    PROVE  IF Selectable(list) = {} THEN NextPage(c, delta, list) = 0
           ELSE NextPage(c, delta, list) \in Selectable(list)
<1> DEFINE target == Clamped(c + delta, list)
           after == {i \in Selectable(list) : i >= target}
           ahead == {i \in Selectable(list) : i <= target}
<1>1. Len(list) \in Nat /\ Selectable(list) \subseteq 1..Len(list) /\ Selectable(list) \subseteq Nat
    BY SelectableRows
<1>2. target \in 1..Len(list)
    BY <1>1 DEF Clamped
<1>3. after # {} => Min(after) \in after
    BY <1>1, MinOf
<1>4. ahead # {} => Max(ahead) \in ahead
    <2>1. ahead \subseteq 0..Len(list)
        BY <1>1
    <2> QED
        BY <1>1, <2>1, MaxOf
<1>5. Selectable(list) # {} => after # {} \/ ahead # {}
    BY <1>1, <1>2
<1>6. after \subseteq Selectable(list) /\ ahead \subseteq Selectable(list)
    OBVIOUS
<1>7. NextPage(c, delta, list) =
        IF Selectable(list) = {} THEN 0
        ELSE IF (delta > 0 /\ (IF delta > 0 THEN after ELSE ahead) # {})
                \/ (delta < 0 /\ (IF delta > 0 THEN after ELSE ahead) = {})
        THEN Min(after) ELSE Max(ahead)
    BY DEF NextPage
<1>8. delta > 0 \/ delta < 0
    OBVIOUS
<1> HIDE DEF target, after, ahead
<1>9. CASE delta > 0
    BY <1>3, <1>4, <1>5, <1>6, <1>7, <1>9
<1>10. CASE delta < 0
    BY <1>3, <1>4, <1>5, <1>6, <1>7, <1>10
<1> QED
    BY <1>8, <1>9, <1>10

LEMMA NextSelectable ==
    ASSUME NEW list \in Seq(Row), NEW c \in 1..Len(list), NEW delta \in Deltas
    PROVE  IF Selectable(list) = {} THEN NextActivatable(c, delta, list) = 0
           ELSE NextActivatable(c, delta, list) \in Selectable(list)
BY AroundSelectable, PageSelectable, SelectionAssumption DEF NextActivatable

LEMMA FirstOfSelectable ==
    ASSUME NEW list \in Seq(Row), NEW set, set \subseteq Selectable(list)
    PROVE  IF set = {} THEN FirstOf(set) = 0 ELSE FirstOf(set) \in set
BY SelectableRows, MinOf DEF FirstOf

-----------------------------------------------------------------------------
\* A function that is defined by recursion over the numbers exists.
Grows(f, start, next) == f[0] = start /\ \A k \in Nat \ {0} : f[k] = f[k - 1] \union next[f[k - 1]]

LEMMA StepsDefined ==
    ASSUME NEW S, NEW next \in [SUBSET S -> SUBSET S], NEW start \in SUBSET S
    PROVE  \E f : f \in [Nat -> SUBSET S] /\ Grows(f, start, next)
<1> DEFINE Upto(n, g) == /\ g \in [0..n -> SUBSET S] /\ g[0] = start
                         /\ \A k \in 1..n : g[k] = g[k - 1] \union next[g[k - 1]]
           Agree(n) == \A g, h : Upto(n, g) /\ Upto(n, h) => g[n] = h[n]
           Good(n) == (\E g : Upto(n, g)) /\ Agree(n)
           bad == {n \in Nat : ~Good(n)}
<1>1. Upto(0, [k \in 0..0 |-> start])
    OBVIOUS
<1>2. Good(0)
    BY <1>1
<1>3. ASSUME NEW n \in Nat, Good(n) PROVE Good(n + 1)
    <2>1. PICK g : Upto(n, g)
        BY <1>3
    <2> DEFINE new == g[n] \union next[g[n]]
               h == [k \in 0..(n + 1) |-> IF k = n + 1 THEN new ELSE g[k]]
    <2>2. n \in 0..n /\ g[n] \in SUBSET S /\ new \in SUBSET S
        BY <2>1
    <2>3. h \in [0..(n + 1) -> SUBSET S] /\ h[0] = start /\ h[n + 1] = new
        BY <2>1, <2>2
    <2>4. \A k \in 0..n : h[k] = g[k]
        OBVIOUS
    <2>5. ASSUME NEW k \in 1..(n + 1) PROVE h[k] = h[k - 1] \union next[h[k - 1]]
        <3>1. CASE k = n + 1
            BY <2>2, <2>3, <2>4, <3>1
        <3>2. CASE k # n + 1
            <4>1. k \in 1..n /\ k \in 0..n /\ k - 1 \in 0..n
                BY <3>2
            <4> HIDE DEF h
            <4> QED
                BY <2>1, <2>4, <4>1
        <3> QED
            BY <3>1, <3>2
    <2>6. Upto(n + 1, h)
        BY <2>3, <2>5
    <2>7. ASSUME NEW a, NEW b, Upto(n + 1, a), Upto(n + 1, b) PROVE a[n + 1] = b[n + 1]
        <3> DEFINE cut(f) == [k \in 0..n |-> f[k]]
        <3>1. ASSUME NEW f, Upto(n + 1, f) PROVE Upto(n, cut(f)) /\ cut(f)[n] = f[n]
            <4>1. \A k \in 0..n : k \in 0..(n + 1) /\ cut(f)[k] = f[k]
                OBVIOUS
            <4>2. cut(f) \in [0..n -> SUBSET S]
                BY <3>1, <4>1
            <4>3. \A k \in 1..n : k \in 1..(n + 1) /\ k \in 0..n /\ k - 1 \in 0..n
                OBVIOUS
            <4> HIDE DEF cut
            <4>4. \A k \in 1..n : cut(f)[k] = cut(f)[k - 1] \union next[cut(f)[k - 1]]
                BY <3>1, <4>1, <4>3
            <4>5. 0 \in 0..n /\ n \in 0..n
                OBVIOUS
            <4> QED
                BY <3>1, <4>1, <4>2, <4>4, <4>5
        <3> HIDE DEF cut, Upto
        <3>2. a[n] = b[n]
            BY <1>3, <2>7, <3>1
        <3>3. n + 1 \in 1..(n + 1) /\ (n + 1) - 1 = n
            OBVIOUS
        <3>4. \A f : Upto(n + 1, f) => f[n + 1] = f[n] \union next[f[n]]
            BY <3>3 DEF Upto
        <3>5. a[n + 1] = a[n] \union next[a[n]] /\ b[n + 1] = b[n] \union next[b[n]]
            BY <2>7, <3>4
        <3> QED
            BY <3>2, <3>5
    <2> HIDE DEF Upto
    <2> QED
        BY <2>6, <2>7
<1> HIDE DEF Upto, Agree
<1>4. bad = {}
    <2> SUFFICES ASSUME bad # {} PROVE FALSE
        OBVIOUS
    <2>1. PICK n \in bad : \A m \in bad : n <= m
        BY LeastNumber
    <2>2. n # 0 /\ n \in Nat /\ n - 1 \in Nat /\ (n - 1) + 1 = n
        BY <1>2, <2>1
    <2>3. Good(n - 1)
        BY <2>1, <2>2
    <2>4. Good(n)
        BY <1>3, <2>2, <2>3
    <2> QED
        BY <2>1, <2>4
<1>5. \A n \in Nat : Good(n)
    BY <1>4
<1> DEFINE at(n) == CHOOSE g : Upto(n, g)
           f == [k \in Nat |-> at(k)[k]]
<1>6. \A n \in Nat : Upto(n, at(n))
    BY <1>5
<1>7. f[0] = start
    BY <1>6 DEF Upto
<1>8. ASSUME NEW k \in Nat, k # 0 PROVE f[k] = f[k - 1] \union next[f[k - 1]]
    <2> DEFINE g == at(k)
               h == [i \in 0..(k - 1) |-> g[i]]
    <2>1. Upto(k, g) /\ k - 1 \in Nat /\ k - 1 \in 0..k /\ k \in 1..k
        BY <1>6, <1>8
    <2>2. /\ g \in [0..k -> SUBSET S] /\ g[0] = start
          /\ \A i \in 1..k : g[i] = g[i - 1] \union next[g[i - 1]]
        BY <2>1 DEF Upto
    <2>3. \A i \in 0..(k - 1) : i \in 0..k /\ h[i] = g[i]
        BY <2>1
    <2>4. h \in [0..(k - 1) -> SUBSET S]
        BY <2>2, <2>3
    <2>5. \A i \in 1..(k - 1) : i \in 1..k /\ i \in 0..(k - 1) /\ i - 1 \in 0..(k - 1)
        BY <2>1
    <2>6. 0 \in 0..(k - 1) /\ k - 1 \in 0..(k - 1)
        BY <2>1
    <2> HIDE DEF g, h
    <2>7. Upto(k - 1, h)
        BY <2>2, <2>3, <2>4, <2>5, <2>6 DEF Upto
    <2>8. g[k - 1] = at(k - 1)[k - 1]
        BY <1>5, <1>6, <2>1, <2>3, <2>6, <2>7 DEF Agree
    <2>9. f[k] = g[k] /\ f[k - 1] = at(k - 1)[k - 1]
        BY <2>1 DEF g
    <2> HIDE DEF f, at
    <2> QED
        BY <2>1, <2>2, <2>8, <2>9
<1>9. f \in [Nat -> SUBSET S]
    <2> HIDE DEF at
    <2>1. \A k \in Nat : k \in 0..k /\ at(k)[k] \in SUBSET S
        BY <1>6 DEF Upto
    <2> QED
        BY <2>1
<1> HIDE DEF f
<1> QED
    BY <1>7, <1>8, <1>9 DEF Grows

\* The rows the Down key leads to, one more step at a time.
LEMMA ReachedSteps ==
    ASSUME rows \in Seq(Row), selected \in Selectable(rows)
    PROVE  /\ Reached[0] = {selected}
           /\ \A k \in Nat : Reached[k + 1] = Reached[k] \union {NextActivatable(i, 1, rows) : i \in Reached[k]}
<1> DEFINE S == Selectable(rows)
           next == [X \in SUBSET S |-> {NextActivatable(i, 1, rows) : i \in X}]
           Rule(f) == f = [k \in Nat |-> IF k = 0 THEN {selected}
                                         ELSE f[k - 1] \union {NextActivatable(i, 1, rows) : i \in f[k - 1]}]
<1>1. \A i \in S : NextActivatable(i, 1, rows) \in S
    BY SelectableRows, AroundSelectable DEF NextActivatable
<1>2. next \in [SUBSET S -> SUBSET S] /\ {selected} \in SUBSET S
    BY <1>1
<1>3. PICK f : f \in [Nat -> SUBSET S] /\ Grows(f, {selected}, next)
    <2> HIDE DEF next, S
    <2> QED
        BY <1>2, StepsDefined
<1>4. \A k \in Nat : k # 0 => next[f[k - 1]] = {NextActivatable(i, 1, rows) : i \in f[k - 1]}
    <2> HIDE DEF S
    <2>1. \A k \in Nat : k # 0 => f[k - 1] \in SUBSET S
        BY <1>3
    <2> QED
        BY <2>1
<1>5. Rule(f)
    <2> DEFINE e(k) == IF k = 0 THEN {selected} ELSE f[k - 1] \union {NextActivatable(i, 1, rows) : i \in f[k - 1]}
    <2> HIDE DEF next
    <2>1. \A k \in Nat : f[k] = e(k)
        BY <1>3, <1>4 DEF Grows
    <2> HIDE DEF e
    <2>2. f = [k \in Nat |-> f[k]]
        BY <1>3
    <2>3. f = [k \in Nat |-> e(k)]
        BY <2>1, <2>2
    <2> QED
        BY <2>3 DEF e
<1>6. Rule(Reached)
    <2>1. Reached = CHOOSE g : Rule(g)
        BY DEF Reached
    <2> HIDE DEF Rule
    <2> QED
        BY <1>5, <2>1
<1>7. \A k \in Nat : k + 1 \in Nat /\ k + 1 # 0 /\ (k + 1) - 1 = k
    OBVIOUS
<1> HIDE DEF S, next
<1> QED
    BY <1>6, <1>7

LEMMA ReachedSelectable ==
    ASSUME rows \in Seq(Row), selected \in Selectable(rows), NEW k \in Nat
    PROVE  Reached[k] \subseteq Selectable(rows)
<1> DEFINE bad == {n \in Nat : ~(Reached[n] \subseteq Selectable(rows))}
<1> SUFFICES ASSUME bad # {} PROVE FALSE
    OBVIOUS
<1>1. PICK n \in bad : \A m \in bad : n <= m
    BY LeastNumber
<1>2. n # 0
    BY <1>1, ReachedSteps
<1>3. n - 1 \in Nat /\ (n - 1) + 1 = n /\ n - 1 \notin bad
    BY <1>1, <1>2
<1>4. \A i \in Selectable(rows) : NextActivatable(i, 1, rows) \in Selectable(rows)
    BY SelectableRows, AroundSelectable DEF NextActivatable
<1>5. Reached[n] = Reached[n - 1] \union {NextActivatable(i, 1, rows) : i \in Reached[n - 1]}
    BY <1>3, ReachedSteps
<1>6. Reached[n - 1] \subseteq Selectable(rows)
    BY <1>3
<1> QED
    BY <1>1, <1>4, <1>5, <1>6

LEMMA ReachedGrows ==
    ASSUME rows \in Seq(Row), selected \in Selectable(rows), NEW j \in Nat, NEW k \in Nat, j <= k
    PROVE  Reached[j] \subseteq Reached[k]
<1> DEFINE bad == {d \in Nat : ~(Reached[j] \subseteq Reached[j + d])}
<1>1. bad = {}
    <2> SUFFICES ASSUME bad # {} PROVE FALSE
        OBVIOUS
    <2>1. PICK d \in bad : \A m \in bad : d <= m
        BY LeastNumber
    <2>2. d # 0
        BY <2>1
    <2>3. d - 1 \in Nat /\ j + (d - 1) \in Nat /\ (j + (d - 1)) + 1 = j + d /\ d - 1 \notin bad
        BY <2>1, <2>2
    <2>4. Reached[j + (d - 1)] \subseteq Reached[(j + (d - 1)) + 1]
        BY <2>3, ReachedSteps
    <2>5. Reached[j] \subseteq Reached[j + (d - 1)]
        BY <2>3
    <2>6. Reached[(j + (d - 1)) + 1] = Reached[j + d]
        BY <2>3
    <2> QED
        BY <2>1, <2>4, <2>5, <2>6
<1>2. k - j \in Nat /\ j + (k - j) = k
    OBVIOUS
<1>3. Reached[j] \subseteq Reached[j + (k - j)]
    BY <1>1, <1>2
<1> QED
    BY <1>2, <1>3

\* The step from c leads to the first row behind it that can be selected.
LEMMA AroundFirst ==
    ASSUME NEW list \in Seq(Row), NEW c \in 1..Len(list), NEW k \in 1..Len(list),
           Spot(c, 1, k, Len(list)) \in Selectable(list),
           \A j \in 1..(k - 1) : Spot(c, 1, j, Len(list)) \notin Selectable(list)
    PROVE  NextActivatable(c, 1, list) = Spot(c, 1, k, Len(list))
<1> DEFINE spots == {j \in 1..Len(list) : Spot(c, 1, j, Len(list)) \in Selectable(list)}
<1>1. Len(list) \in Nat /\ k \in spots /\ spots \subseteq Nat
    BY SelectableRows
<1>2. NextActivatable(c, 1, list) = Spot(c, 1, Min(spots), Len(list))
    BY <1>1 DEF NextActivatable, NextAround, Spot
<1>3. Min(spots) \in spots /\ Min(spots) <= k
    BY <1>1, MinOf
<1>4. Min(spots) \notin 1..(k - 1) /\ Min(spots) \in 1..Len(list)
    BY <1>3
<1>5. Min(spots) = k
    BY <1>1, <1>3, <1>4
<1> QED
    BY <1>2, <1>5

\* Every row that can be selected is reached in as many steps as it is rows away.
LEMMA EveryRowReached ==
    ASSUME rows \in Seq(Row), selected \in Selectable(rows)
    PROVE  Reached[Len(rows)] = Selectable(rows)
<1> DEFINE n == Len(rows)
           Away(d) == IF selected + d <= n THEN selected + d ELSE selected + d - n
           bad == {d \in 0..(n - 1) : Away(d) \in Selectable(rows) /\ Away(d) \notin Reached[d]}
<1>1. n \in Nat /\ Selectable(rows) \subseteq 1..n /\ selected \in 1..n /\ n # 0
    BY SelectableRows
<1> HIDE DEF n
<1>2. bad = {}
    <2> SUFFICES ASSUME bad # {} PROVE FALSE
        OBVIOUS
    <2>1. bad \subseteq Nat
        BY <1>1
    <2>2. PICK d \in bad : \A m \in bad : d <= m
        BY <2>1, LeastNumber
    <2>3. d \in 0..(n - 1) /\ Away(d) \in Selectable(rows) /\ Away(d) \notin Reached[d]
        BY <2>2
    <2>4. Away(0) = selected
        BY <1>1
    <2>5. d # 0
        BY <2>3, <2>4, ReachedSteps
    <2> DEFINE ahead == {j \in 0..(d - 1) : Away(j) \in Selectable(rows)}
    <2>6. 0 \in ahead /\ ahead \subseteq 0..d /\ d \in Nat
        BY <1>1, <2>3, <2>4, <2>5
    <2> DEFINE w == Max(ahead)
    <2>7. w \in ahead /\ \A j \in ahead : j <= w
        BY <2>6, MaxOf
    <2> HIDE DEF w
    <2>8. w \in 0..(d - 1) /\ w \in 0..(n - 1) /\ Away(w) \in Selectable(rows)
        BY <1>1, <2>3, <2>7
    <2>9. Away(w) \in Reached[w]
        BY <2>2, <2>3, <2>8
    <2>10. Away(w) \in 1..n /\ d - w \in 1..n
        <3>1. d - w \in 1..n
            BY <1>1, <2>3, <2>8
        <3> HIDE DEF Away
        <3>2. Away(w) \in 1..n
            BY <1>1, <2>8
        <3> QED
            BY <3>1, <3>2
    <2>11. ASSUME NEW j \in 1..(d - w) PROVE Spot(Away(w), 1, j, n) = Away(w + j)
        <3>1. j \in 1..n
            BY <1>1, <2>3, <2>8
        <3>2. Spot(Away(w), 1, j, n) = IF Away(w) + j <= n THEN Away(w) + j ELSE Away(w) + j - n
            BY <1>1, <2>10, <3>1, SpotOn
        <3> QED
            BY <1>1, <2>3, <2>8, <3>1, <3>2
    <2>12. \A j \in 1..(d - w - 1) : Spot(Away(w), 1, j, n) \notin Selectable(rows)
        <3> SUFFICES ASSUME NEW j \in 1..(d - w - 1) PROVE Away(w + j) \notin Selectable(rows)
            <4>1. \A j \in 1..(d - w - 1) : j \in 1..(d - w)
                BY <2>3, <2>8
            <4> HIDE DEF Away
            <4> QED
                BY <2>11, <4>1
        <3>1. w + j \in 0..(d - 1) /\ ~(w + j <= w)
            BY <2>3, <2>8
        <3> QED
            BY <2>7, <3>1
    <2>13. w + (d - w) = d /\ d - w \in 1..(d - w)
        BY <2>3, <2>8
    <2>14. Spot(Away(w), 1, d - w, n) = Away(d)
        BY <2>11, <2>13
    <2>15. NextActivatable(Away(w), 1, rows) = Away(d)
        <3>1. Spot(Away(w), 1, d - w, n) \in Selectable(rows)
            BY <2>3, <2>14
        <3>2. \A j \in 1..((d - w) - 1) : Spot(Away(w), 1, j, n) \notin Selectable(rows)
            BY <2>12
        <3> HIDE DEF Away
        <3>3. NextActivatable(Away(w), 1, rows) = Spot(Away(w), 1, d - w, n)
            BY <2>10, <3>1, <3>2, AroundFirst DEF n
        <3> QED
            BY <2>14, <3>3
    <2>16. w \in Nat /\ w + 1 \in Nat /\ w + 1 <= d
        BY <2>3, <2>8
    <2> HIDE DEF Away
    <2>17. Away(d) \in Reached[w + 1]
        <3>1. Reached[w + 1] = Reached[w] \union {NextActivatable(i, 1, rows) : i \in Reached[w]}
            BY <2>16, ReachedSteps
        <3> QED
            BY ONLY <2>9, <2>15, <3>1
    <2> QED
        BY <2>3, <2>6, <2>16, <2>17, ReachedGrows
<1>3. ASSUME NEW t \in Selectable(rows) PROVE t \in Reached[n]
    <2> DEFINE d == IF t >= selected THEN t - selected ELSE t - selected + n
    <2>1. d \in 0..(n - 1) /\ Away(d) = t /\ d \in Nat /\ d <= n
        BY <1>1
    <2> HIDE DEF d, Away
    <2>2. t \in Reached[d]
        BY <1>2, <2>1
    <2> QED
        BY <1>1, <2>1, <2>2, ReachedGrows
<1> QED
    BY <1>1, <1>3, ReachedSelectable DEF n

-----------------------------------------------------------------------------
\* The steps.
SelectionSteady == SelectionTypeOK /\ SelectionUsable /\ SelectionFollows

LEMMA KeptSelectable ==
    ASSUME NEW list \in Seq(Row), NEW key
    PROVE  /\ IF Selectable(list) = {} THEN KeptRow(key, list) = 0 ELSE KeptRow(key, list) \in Selectable(list)
           /\ SameId(key, list) # {} => KeptRow(key, list) \in SameId(key, list)
           /\ SameId(key, list) = {} /\ SameLook(key, list) # {} => KeptRow(key, list) \in SameLook(key, list)
<1> DEFINE set == IF SameId(key, list) # {} THEN SameId(key, list)
                  ELSE IF SameLook(key, list) # {} THEN SameLook(key, list)
                  ELSE IF SamePlace(key, list) # {} THEN SamePlace(key, list)
                  ELSE Selectable(list)
<1>1. /\ SameId(key, list) \subseteq Selectable(list) /\ SameLook(key, list) \subseteq Selectable(list)
      /\ SamePlace(key, list) \subseteq Selectable(list)
    BY DEF SameId, SameLook, SamePlace
<1>2. set \subseteq Selectable(list) /\ (set = {} <=> Selectable(list) = {})
    BY <1>1
<1>3. KeptRow(key, list) = FirstOf(set)
    BY DEF KeptRow
<1>4. IF set = {} THEN FirstOf(set) = 0 ELSE FirstOf(set) \in set
    <2> HIDE DEF set
    <2> QED
        BY <1>2, FirstOfSelectable
<1>5. SameId(key, list) # {} => set = SameId(key, list)
    OBVIOUS
<1>6. SameId(key, list) = {} /\ SameLook(key, list) # {} => set = SameLook(key, list)
    OBVIOUS
<1> HIDE DEF set
<1> QED
    BY <1>2, <1>3, <1>4, <1>5, <1>6

LEMMA PreselectedSelectable ==
    ASSUME NEW list \in Seq(Row), NEW pick
    PROVE  IF Selectable(list) = {} THEN Preselected(pick, list) = 0 ELSE Preselected(pick, list) \in Selectable(list)
<1> DEFINE named == {i \in Selectable(list) : list[i].look = pick}
<1>1. named \subseteq Selectable(list)
    OBVIOUS
<1>2. Preselected(pick, list) = FirstOf(IF named # {} THEN named ELSE Selectable(list))
    BY DEF Preselected
<1> HIDE DEF named
<1> QED
    BY <1>1, <1>2, FirstOfSelectable

LEMMA SelectedRow ==
    ASSUME rows \in Seq(Row), Len(rows) <= MaxRows, SelectionUsable
    PROVE  selected \in 0..MaxRows
BY SelectableRows, SelectionAssumption DEF SelectionUsable

LEMMA ShowStep ==
    ASSUME SelectionSteady, NEW query \in Typed, NEW batch \in Painted, NEW append \in BOOLEAN, NEW pick,
           ShowResults(query, batch, append, pick)
    PROVE  SelectionSteady'
<1> DEFINE list == IF append THEN rows \o batch ELSE batch
           key == SelectionKey(query, append)
<1>1. list \in Seq(Row)
    BY SelectionAssumption DEF SelectionSteady, SelectionTypeOK
<1>2. /\ Len(list) <= MaxRows /\ rows' = list /\ lastQuery' = query /\ lastKey' = key
      /\ selected' = IF key # NoKey THEN KeptRow(key, list) ELSE Preselected(pick, list)
    BY DEF ShowResults
<1>3. DOMAIN key = DOMAIN NoKey
    BY DEF SelectionKey, NoKey
<1> HIDE DEF list, key
<1>4. IF Selectable(list) = {} THEN selected' = 0 ELSE selected' \in Selectable(list)
    BY <1>1, <1>2, KeptSelectable, PreselectedSelectable
<1>5. SelectionUsable'
    BY <1>2, <1>4 DEF SelectionUsable
<1>6. SelectionTypeOK'
    BY <1>1, <1>2, <1>3, <1>4, SelectableRows, SelectionAssumption DEF SelectionTypeOK
<1>7. ASSUME key # NoKey, selected' # 0 PROVE Keeps(lastKey, rows)'
    <2>1. selected' = KeptRow(key, list)
        BY <1>2, <1>7
    <2>2. CASE \E i \in Selectable(list) : key.id # NoId /\ list[i].id = key.id
        <3>1. SameId(key, list) # {}
            BY <2>2 DEF SameId
        <3>2. list[selected'].id = key.id
            BY <1>1, <2>1, <3>1, KeptSelectable DEF SameId
        <3> QED
            BY <1>2, <2>2, <3>2 DEF Keeps
    <2>3. CASE ~\E i \in Selectable(list) : key.id # NoId /\ list[i].id = key.id
        <3>1. SameId(key, list) = {}
            BY <2>3 DEF SameId
        <3>2. (\E i \in Selectable(list) : list[i].look = key.look) => list[selected'].look = key.look
            BY <1>1, <2>1, <3>1, KeptSelectable DEF SameLook
        <3> QED
            BY <1>2, <2>3, <3>2 DEF Keeps
    <2> QED
        BY <2>2, <2>3
<1> QED
    BY <1>2, <1>5, <1>6, <1>7 DEF SelectionSteady, SelectionFollows, NoKey

LEMMA NavigateStep ==
    ASSUME SelectionSteady, NEW delta \in Deltas, Navigate(delta)
    PROVE  SelectionSteady'
<1>1. rows \in Seq(Row) /\ Len(rows) \in Nat /\ rows # <<>> /\ selected \in Nat /\ selected <= Len(rows)
    BY SelectableRows, SelectionAssumption DEF SelectionSteady, SelectionTypeOK, SelectionUsable, Navigate
<1>2. Len(rows) # 0
    BY <1>1, EmptySeq
<1> DEFINE from == Max({selected, 1})
<1>3. from \in {selected, 1} /\ from >= 1
    <2>1. {selected, 1} \subseteq 0..(selected + 1) /\ {selected, 1} # {}
        BY <1>1
    <2>2. selected + 1 \in Nat
        BY <1>1
    <2> QED
        BY <2>1, <2>2, MaxOf
<1>4. from \in 1..Len(rows)
    BY <1>1, <1>2, <1>3
<1>5. selected' = NextActivatable(from, delta, rows) /\ rows' = rows /\ lastKey' = NoKey /\ lastQuery' = lastQuery
    BY DEF Navigate
<1> HIDE DEF from
<1>6. IF Selectable(rows) = {} THEN selected' = 0 ELSE selected' \in Selectable(rows)
    BY <1>1, <1>4, <1>5, NextSelectable
<1>7. SelectionUsable'
    BY <1>5, <1>6 DEF SelectionUsable
<1>8. SelectionTypeOK'
    BY <1>1, <1>5, <1>6, SelectableRows, SelectionAssumption DEF SelectionSteady, SelectionTypeOK
<1> QED
    BY <1>5, <1>7, <1>8 DEF SelectionSteady, SelectionFollows

LEMMA SelectStep ==
    ASSUME SelectionSteady, NEW i \in DOMAIN rows, SelectRow(i)
    PROVE  SelectionSteady'
<1>1. /\ rows \in Seq(Row) /\ Len(rows) \in Nat /\ Len(rows) <= MaxRows /\ Selectable(rows) \subseteq 1..Len(rows)
      /\ MaxRows \in Nat
    BY SelectableRows, SelectionAssumption DEF SelectionSteady, SelectionTypeOK
<1>2. selected' \in Selectable(rows) /\ rows' = rows /\ lastKey' = NoKey /\ lastQuery' = lastQuery
    BY DEF SelectRow
<1>3. selected' \in 0..MaxRows
    BY <1>1, <1>2
<1> QED
    BY <1>1, <1>2, <1>3 DEF SelectionSteady, SelectionTypeOK, SelectionUsable, SelectionFollows

\* Whatever rows are painted or appended and whichever keys are pressed, the selection
\* can be used, the Down key leads from it to every row that can be selected, and a
\* repaint of the same query leaves it where it was (SelectionKept: ResultsModel,
\* next_selected_index, paint_selection_index).
THEOREM SelectionAlwaysKept == SelectionSpec => []SelectionKept
<1>1. SelectionInit => SelectionSteady
    <2> SUFFICES ASSUME SelectionInit PROVE SelectionSteady
        OBVIOUS
    <2>1. rows \in Seq(Row) /\ Len(rows) = 0 /\ Selectable(rows) = {}
        BY DEF SelectionInit, Selectable
    <2> QED
        BY <2>1, SelectionAssumption
        DEF SelectionInit, SelectionSteady, SelectionTypeOK, SelectionUsable, SelectionFollows
<1>2. SelectionSteady /\ [SelectionNext]_selectionVars => SelectionSteady'
    <2>1. ASSUME SelectionSteady, UNCHANGED selectionVars PROVE SelectionSteady'
        BY <2>1 DEF selectionVars, SelectionSteady, SelectionTypeOK, SelectionUsable, SelectionFollows, Keeps
    <2> QED
        BY <2>1, ShowStep, NavigateStep, SelectStep DEF SelectionNext
<1>3. SelectionSteady => SelectionKept
    <2> SUFFICES ASSUME SelectionSteady PROVE AllReachable
        BY DEF SelectionSteady, SelectionKept
    <2>1. rows \in Seq(Row) /\ (selected # 0 => selected \in Selectable(rows))
        BY DEF SelectionSteady, SelectionTypeOK, SelectionUsable
    <2> QED
        BY <2>1, EveryRowReached DEF AllReachable
<1> QED
    BY <1>1, <1>2, <1>3, PTL DEF SelectionSpec

-----------------------------------------------------------------------------
(* TriggerRouting, for any triggers, keywords and number of changes.           *)

\* What the extensions' own cache says is so, or changed since the launcher opened.
CacheKnown ==
    \A k \in Keywords : ownCache[k] # Nobody =>
        ownCache[k] \in TriggerIds /\ (ownCache[k] \in editedSince \/ keywordOf[ownCache[k]] = k)

RoutingInv == OneRegistered /\ CacheKnown

\* A place of a list that has the keyword, the first or the last one.
LEMMA PlaceHaving ==
    ASSUME NEW ids \in Seq(TriggerIds), NEW k, Having(ids, k) # {}
    PROVE  \A i \in {Min(Having(ids, k)), Max(Having(ids, k))} : ids[i] \in TriggerIds /\ keywordOf[ids[i]] = k
<1>1. Having(ids, k) \subseteq 1..Len(ids) /\ Len(ids) \in Nat /\ DOMAIN ids = 1..Len(ids)
    BY DEF Having
<1>2. Having(ids, k) \subseteq Nat /\ Having(ids, k) \subseteq 0..Len(ids)
    BY <1>1
<1>3. Min(Having(ids, k)) \in Having(ids, k)
    BY <1>2, MinOf
<1>4. Max(Having(ids, k)) \in Having(ids, k)
    BY <1>1, <1>2, MaxOf
<1>5. \A i \in Having(ids, k) : i \in 1..Len(ids) /\ keywordOf[ids[i]] = k
    BY <1>1 DEF Having
<1> QED
    BY <1>3, <1>4, <1>5

LEMMA FirstHas ==
    ASSUME NEW m \in Modes, NEW k
    PROVE  /\ FirstHaving(m, k) # Nobody => FirstHaving(m, k) \in TriggerIds /\ keywordOf[FirstHaving(m, k)] = k
           /\ FirstHaving(m, k) = Nobody <=> \A i \in DOMAIN Triggers(m) : keywordOf[Triggers(m)[i]] # k
<1>1. Triggers(m) \in Seq(TriggerIds)
    BY RoutingAssumption DEF Triggers
<1>2. CASE Having(Triggers(m), k) = {}
    BY <1>2 DEF FirstHaving, Having
<1>3. CASE Having(Triggers(m), k) # {}
    <2>1. FirstHaving(m, k) \in TriggerIds /\ keywordOf[FirstHaving(m, k)] = k
        BY <1>1, <1>3, PlaceHaving DEF FirstHaving
    <2>2. \E i \in DOMAIN Triggers(m) : keywordOf[Triggers(m)[i]] = k
        BY <1>3 DEF Having
    <2> QED
        BY <2>1, <2>2, RoutingAssumption
<1> QED
    BY <1>2, <1>3

LEMMA EnsuredKnown ==
    ASSUME CacheKnown, NEW k \in Keywords, Ensured[k] # Nobody
    PROVE  Ensured[k] \in TriggerIds /\ (Ensured[k] \in editedSince \/ keywordOf[Ensured[k]] = k)
<1>1. CASE ownCache = NoCache
    <2>1. Ensured[k] = LastHaving(k)
        BY <1>1 DEF Ensured, OwnTriggers
    <2> QED
        BY <2>1, PlaceHaving, RoutingAssumption DEF LastHaving
<1>2. CASE ownCache # NoCache
    BY <1>2 DEF Ensured, CacheKnown
<1> QED
    BY <1>1, <1>2

LEMMA RegisteredOnce == LoadTriggersForced => OneRegistered'
<1> SUFFICES ASSUME LoadTriggersForced, NEW k \in Keywords
             PROVE  LET owners == {m \in Modes : registered'[m][k] # Nobody}
                    IN  /\ Cardinality(owners) = IF \E t \in TriggerIds : keywordOf'[t] = k THEN 1 ELSE 0
                        /\ \A m \in owners : keywordOf'[registered'[m][k]] = k
    BY DEF OneRegistered
<1> DEFINE owners == {m \in Modes : registered'[m][k] # Nobody}
<1>0. keywordOf' = keywordOf
    BY DEF LoadTriggersForced
<1>1. PICK first \in Modes : registered' = Loaded(first)
    BY DEF LoadTriggersForced
<1>2. PICK second \in Modes : Modes = {first, second} /\ first # second
    BY DEF Modes
<1>3. /\ registered'[first][k] = FirstHaving(first, k)
      /\ registered'[second][k] = IF Claimed(first, k) THEN Nobody ELSE FirstHaving(second, k)
    BY <1>1, <1>2 DEF Loaded
<1>4. \A m \in owners : keywordOf[registered'[m][k]] = k
    BY <1>2, <1>3, FirstHas
<1>5. (\E t \in TriggerIds : keywordOf[t] = k) <=> \E m \in Modes : FirstHaving(m, k) # Nobody
    <2>1. \A t \in TriggerIds : \E m \in Modes : \E i \in DOMAIN Triggers(m) : Triggers(m)[i] = t
        BY DEF TriggerIds, Range, Modes, Triggers
    <2>2. \A m \in Modes : \A i \in DOMAIN Triggers(m) : Triggers(m)[i] \in TriggerIds
        BY DEF TriggerIds, Range, Modes, Triggers
    <2> QED
        BY <2>1, <2>2, FirstHas
<1>6. owners = IF FirstHaving(first, k) # Nobody THEN {first}
               ELSE IF FirstHaving(second, k) # Nobody THEN {second} ELSE {}
    BY <1>2, <1>3 DEF Claimed
<1>7. Cardinality(owners) = IF \E t \in TriggerIds : keywordOf[t] = k THEN 1 ELSE 0
    BY <1>2, <1>5, <1>6, FS_Singleton, FS_EmptySet
<1> QED
    BY <1>0, <1>4, <1>7

LEMMA RoutingStep == RoutingInv /\ [RoutingNext]_routingVars => RoutingInv'
<1> SUFFICES ASSUME RoutingInv, [RoutingNext]_routingVars PROVE RoutingInv'
    OBVIOUS
<1>0. \A k \in Keywords : NoCache[k] = Nobody
    BY DEF NoCache
<1>1. CASE LoadTriggersForced
    <2>1. CacheKnown'
        BY <1>1, PlaceHaving, RoutingAssumption DEF LoadTriggersForced, CacheKnown, OwnTriggers, LastHaving
    <2> QED
        BY <1>1, <2>1, RegisteredOnce DEF RoutingInv
<1>2. CASE OpenLauncher
    BY <1>2 DEF OpenLauncher, RoutingInv, OneRegistered, CacheKnown
<1>3. ASSUME NEW k \in Keywords, NEW argument \in BOOLEAN, SetQuery(k, argument) PROVE RoutingInv'
    <2>1. UNCHANGED <<keywordOf, registered, readyPending, edits, editedSince>> /\ ownCache' \in {ownCache, Ensured}
        BY <1>3 DEF SetQuery
    <2>2. OneRegistered'
        BY <2>1 DEF RoutingInv, OneRegistered
    <2>3. CacheKnown'
        BY <2>1, EnsuredKnown DEF RoutingInv, CacheKnown
    <2> QED
        BY <2>2, <2>3 DEF RoutingInv
<1>4. ASSUME NEW t \in TriggerIds, NEW k \in Keywords \cup {NoKeyword}, Edited(t, k), ownCache' \in {ownCache, NoCache}
      PROVE  RoutingInv'
    <2>1. editedSince' = editedSince \cup {t} /\ \A u \in TriggerIds \ {t} : keywordOf'[u] = keywordOf[u]
        BY <1>4 DEF Edited
    <2>2. OneRegistered'
        BY <2>1 DEF OneRegistered
    <2>3. CacheKnown'
        BY <1>0, <1>4, <2>1 DEF RoutingInv, CacheKnown
    <2> QED
        BY <2>2, <2>3 DEF RoutingInv
<1>5. CASE UNCHANGED routingVars
    BY <1>5 DEF routingVars, RoutingInv, OneRegistered, CacheKnown
<1>6. Range(ShortcutIds) \subseteq TriggerIds /\ Range(ExtensionIds) \subseteq TriggerIds
    BY DEF TriggerIds
<1>7. ASSUME NEW t \in Range(ShortcutIds), NEW k \in Keywords \cup {NoKeyword}, SaveShortcut(t, k) PROVE RoutingInv'
    BY <1>4, <1>6, <1>7 DEF SaveShortcut
<1>8. ASSUME NEW t \in Range(ExtensionIds), NEW k \in Keywords \cup {NoKeyword},
             SaveKeyword(t, k) \/ ToggleExtension(t, k)
      PROVE  RoutingInv'
    BY <1>4, <1>6, <1>8 DEF SaveKeyword, ToggleExtension, InvalidateCache
<1> QED
    BY <1>1, <1>2, <1>3, <1>5, <1>7, <1>8 DEF RoutingNext

\* Only a query has an answer, and whoever gives it has the keyword.
LEMMA AnswersKnown ==
    ASSUME RoutingInv, [RoutingNext]_routingVars, answer' # answer, answer'.by \in TriggerIds \ editedSince
    PROVE  keywordOf[answer'.by] = answer'.keyword
<1>1. PICK k \in Keywords, argument \in BOOLEAN : SetQuery(k, argument)
    BY DEF RoutingNext, routingVars, LoadTriggersForced, OpenLauncher, SaveShortcut, SaveKeyword, ToggleExtension, Edited
<1>2. /\ answer'.keyword = k
      /\ answer'.by \in {HandledByShortcuts(k), HandledByExtensions(k), Search}
    BY <1>1 DEF SetQuery
<1>3. answer'.by \notin {Nobody, Search, Unavailable, RowsKept}
    BY RoutingAssumption
<1>4. CASE answer'.by = HandledByShortcuts(k)
    <2>1. Having(ShortcutIds, k) # {} /\ answer'.by = ShortcutIds[Min(Having(ShortcutIds, k))]
        BY <1>3, <1>4 DEF HandledByShortcuts
    <2> QED
        BY <1>2, <2>1, PlaceHaving, RoutingAssumption
<1>5. CASE answer'.by = HandledByExtensions(k)
    <2>1. answer'.by = Ensured[k] /\ Ensured[k] # Nobody
        BY <1>3, <1>5 DEF HandledByExtensions
    <2> QED
        BY <1>2, <2>1, EnsuredKnown DEF RoutingInv
<1> QED
    BY <1>2, <1>3, <1>4, <1>5

\* For any shortcuts, extensions, keywords and number of changes: once loaded, a
\* keyword somebody has is registered for exactly one mode and for a trigger that
\* has it; and whoever answers a query has its keyword, unless it was changed since
\* the launcher was shown (load_triggers, set_query, handle_query).
THEOREM KeywordsAlwaysRoute == RoutingSpec => KeywordsRoute
<1>1. RoutingInit => RoutingInv
    BY DEF RoutingInit, RoutingInv, OneRegistered, CacheKnown, NoCache
<1>2. RoutingInv /\ [RoutingNext]_routingVars => RoutingInv'
    BY RoutingStep
<1>3. RoutingInv /\ RoutingInv' /\ [RoutingNext]_routingVars => [OneRegistered']_routingVars
    BY DEF RoutingInv
<1>4. RoutingInv /\ [RoutingNext]_routingVars =>
          [answer' # answer /\ answer'.by \in TriggerIds \ editedSince
               => keywordOf[answer'.by] = answer'.keyword]_routingVars
    BY AnswersKnown
<1> QED
    BY <1>1, <1>2, <1>3, <1>4, PTL DEF RoutingSpec, KeywordsRoute, AnswerHasKeyword

-----------------------------------------------------------------------------
(* SystemActions, for any actions offered and changes of the session.          *)

RowsTitled ==
    /\ outcome \in [Places -> {"missing", "fails", "works"}]
    /\ gsettings \in BOOLEAN /\ locked \in BOOLEAN
    /\ setting \in Seq(BOOLEAN) /\ (~gsettings => setting = <<>>)
    /\ \A r \in systemRows : r.action \in OfferedActions
    /\ systemRows # {} => misread \in {0, 1}
    /\ ~turned => \A r \in systemRows :
          r.action = "lock-orientation" => r.title = OrientationTitle(IF misread = 0 THEN locked ELSE ~locked)

LEMMA CommandsKnown == \A a : DOMAIN Commands(a) \subseteq Nat
<1> SUFFICES ASSUME NEW a PROVE DOMAIN Commands(a) \subseteq Nat
    OBVIOUS
<1>1. \/ Commands(a) = <<>>
      \/ \E p, q : Commands(a) = <<p, q>>
      \/ \E p, q, r : Commands(a) = <<p, q, r>>
      \/ \E p, q, r, s, t : Commands(a) = <<p, q, r, s, t>>
    <2>1. CASE a \in {"lock", "logout"}
        BY <2>1 DEF Commands
    <2>2. CASE a \in {"suspend", "restart", "shutdown"}
        BY <2>2 DEF Commands
    <2>3. CASE a \in {"switch-user", "screenshot"}
        BY <2>3 DEF Commands
    <2>4. CASE a \notin {"lock", "logout", "suspend", "restart", "shutdown", "switch-user", "screenshot"}
        BY <2>4 DEF Commands
    <2> QED
        BY <2>1, <2>2, <2>3, <2>4
<1> QED
    BY <1>1

\* A command says how it ended, or that there is none.
LEMMA LaunchedKnown ==
    ASSUME RowsTitled, NEW a \in OfferedActions
    PROVE  CommandLaunched(a) \in {"no command", "missing", "fails", "works"}
<1>1. CASE InstalledCommands(a) = {}
    BY <1>1 DEF CommandLaunched
<1>2. CASE InstalledCommands(a) # {}
    <2>1. InstalledCommands(a) \subseteq DOMAIN Commands(a)
        BY DEF InstalledCommands
    <2>2. Min(InstalledCommands(a)) \in DOMAIN Commands(a)
        BY <1>2, <2>1, CommandsKnown, MinOf
    <2>3. <<a, Min(InstalledCommands(a))>> \in Places
        BY <2>2 DEF Places
    <2> QED
        BY <1>2, <2>3 DEF CommandLaunched, RowsTitled
<1> QED
    BY <1>1, <1>2

LEMMA TitlesStay == RowsTitled /\ [SystemNext]_systemVars => RowsTitled'
<1> SUFFICES ASSUME RowsTitled, [SystemNext]_systemVars PROVE RowsTitled'
    OBVIOUS
<1>0. \A reading \in Readings : reading \in BOOLEAN /\ Misread(reading) \in {0, 1}
                               /\ (Misread(reading) = 0 <=> reading = locked)
    <2>1. Readings \subseteq {locked, FALSE} /\ locked \in BOOLEAN
        BY Zenon DEF Readings, RowsTitled
    <2>2. \A reading : Misread(reading) \in {0, 1} /\ (Misread(reading) = 0 <=> reading = locked)
        BY DEF Misread
    <2> QED
        BY ONLY <2>1, <2>2, Zenon
<1>1. ASSUME NEW found \in SUBSET OfferedActions, NEW reading \in Readings, MatchSystemActions(found, reading)
      PROVE  RowsTitled'
    <2>1. \A r \in systemRows' : \E a \in found : r = [action |-> a, title |-> Title(a, reading)]
        BY <1>1 DEF MatchSystemActions
    <2>2. misread' = Misread(reading) /\ UNCHANGED <<outcome, gsettings, locked, setting>>
        BY <1>1 DEF MatchSystemActions
    <2>3. reading = (IF misread' = 0 THEN locked' ELSE ~locked')
        BY <1>0, <2>2 DEF RowsTitled
    <2>4. ASSUME NEW r \in systemRows'
          PROVE  /\ r.action \in OfferedActions
                 /\ r.action = "lock-orientation" => r.title = OrientationTitle(reading)
        BY <2>1 DEF Title
    <2> QED
        BY <1>0, <2>2, <2>3, <2>4 DEF RowsTitled
<1>2. ASSUME NEW row \in systemRows, RunSystemAction(row) PROVE RowsTitled'
    <2>1. setting' \in Seq(BOOLEAN) /\ (~gsettings => setting' = <<>>)
        <3>1. \/ gsettings /\ \E new \in BOOLEAN : setting' = Append(setting, new)
              \/ setting' = setting
            <4>1. CASE row.action = "lock-orientation"
                <5>1. PICK reading \in Readings : ToggleOrientationLock(reading)
                    BY <1>2, <4>1 DEF RunSystemAction
                <5>2. (~reading) \in BOOLEAN
                    OBVIOUS
                <5> QED
                    BY <5>1, <5>2 DEF ToggleOrientationLock
            <4> QED
                BY <1>2, <4>1 DEF RunSystemAction
        <3>2. setting \in Seq(BOOLEAN) /\ (~gsettings => setting = <<>>)
            BY DEF RowsTitled
        <3>3. \A new \in BOOLEAN : Append(setting, new) \in Seq(BOOLEAN)
            BY ONLY ZenonT(40), <3>2, AppendProperties
        <3> QED
            BY ONLY ZenonT(40), <3>1, <3>2, <3>3
    <2> QED
        BY <1>2, <2>1 DEF RunSystemAction, RowsTitled
<1>3. ASSUME NEW i \in DOMAIN setting, SettingEnds(i) PROVE RowsTitled'
    <2>1. setting[i] \in BOOLEAN /\ i \in 1 .. Len(setting) /\ setting # <<>>
        BY <1>3 DEF RowsTitled
    <2>2. RemoveAt(setting, i) \in Seq(BOOLEAN)
        BY <2>1 DEF RemoveAt, RowsTitled
    <2>3. /\ locked' \in {setting[i], locked} /\ setting' = RemoveAt(setting, i)
          /\ UNCHANGED <<outcome, gsettings, systemRows, misread>>
          /\ (~turned' => ~turned /\ locked' = locked)
        BY <1>3 DEF SettingEnds
    <2> QED
        BY <2>1, <2>2, <2>3 DEF RowsTitled
<1>4. CASE SessionAlters
    <2>1. UNCHANGED <<outcome, gsettings, setting, systemRows, misread>> /\ locked' \in {locked, ~locked}
          /\ (~turned' => ~turned /\ locked' = locked)
        BY <1>4 DEF SessionAlters
    <2> QED
        BY <2>1 DEF RowsTitled
<1>5. CASE UNCHANGED systemVars
    BY <1>5 DEF systemVars, RowsTitled
<1> QED
    BY <1>1, <1>2, <1>3, <1>4, <1>5 DEF SystemNext

LEMMA SetAsTitled ==
    ASSUME RowsTitled, SystemNext, actionRun'.did = "set", ~turned
    PROVE  (Last(setting') = (actionRun'.title = "lock")) = (misread' # 1)
<1>1. PICK row \in systemRows : RunSystemAction(row)
    BY DEF SystemNext, MatchSystemActions, SettingEnds, SessionAlters, NoAction
<1>2. CommandLaunched(row.action) # "set"
    BY LaunchedKnown DEF RowsTitled
<1>3. row.action = "lock-orientation"
    BY <1>1, <1>2 DEF RunSystemAction
<1>4. gsettings /\ actionRun'.title = row.title
    BY <1>1, <1>3 DEF RunSystemAction
<1>5. PICK reading \in Readings : ToggleOrientationLock(reading) /\ misread' = misread + Misread(reading)
    BY <1>1, <1>3 DEF RunSystemAction
<1>6. reading \in BOOLEAN /\ locked \in BOOLEAN
    BY DEF Readings, RowsTitled
<1>7. Last(setting') = ~reading
    <2> DEFINE new == ~reading
    <2>1. new \in BOOLEAN /\ setting \in Seq(BOOLEAN)
        BY DEF RowsTitled
    <2> HIDE DEF new
    <2>2. setting' = Append(setting, new)
        BY <1>4, <1>5 DEF new, ToggleOrientationLock
    <2>3. setting'[Len(setting')] = new
        BY <2>1, <2>2
    <2> QED
        BY <2>3 DEF Last, new
<1>8. misread \in {0, 1} /\ row.title = OrientationTitle(IF misread = 0 THEN locked ELSE ~locked)
    BY <1>3 DEF RowsTitled
<1>9. (row.title = "lock") = (IF misread = 0 THEN ~locked ELSE locked)
    BY <1>6, <1>8 DEF OrientationTitle
<1>10. misread' = misread + (IF reading = locked THEN 0 ELSE 1)
    BY <1>5 DEF Misread
<1>11. misread' # 1 <=> ((misread = 0) <=> (reading = locked))
    BY <1>8, <1>10
<1> QED
    BY <1>4, <1>6, <1>7, <1>8, <1>9, <1>11

\* For any actions, any number of changes of the session and of settings on their
\* way, and whichever readings and settings fail: the row for the screen's rotation
\* does what its title says exactly unless one of the two readings behind them was
\* wrong, if the rotation did not change under it; without gsettings nothing is set
\* (get_orientation_locked, orientation_title, toggle_orientation_lock).
THEOREM RotationActsAsTitled == SystemSpec => RotationAsTitled
<1>1. SystemInit => RowsTitled
    BY DEF SystemInit, RowsTitled
<1>2. RowsTitled /\ [SystemNext]_systemVars => RowsTitled'
    BY TitlesStay
<1>3. RowsTitled /\ RowsTitled' /\ [SystemNext]_systemVars =>
          [/\ actionRun'.did = "set" /\ ~turned => (Last(setting') = (actionRun'.title = "lock")) = (misread' # 1)
           /\ ~gsettings => setting' = <<>>]_systemVars
    <2> SUFFICES ASSUME RowsTitled, RowsTitled', SystemNext
                 PROVE  /\ actionRun'.did = "set" /\ ~turned
                             => (Last(setting') = (actionRun'.title = "lock")) = (misread' # 1)
                        /\ ~gsettings => setting' = <<>>
        OBVIOUS
    <2>1. gsettings' = gsettings
        BY DEF SystemNext, MatchSystemActions, RunSystemAction, SettingEnds, SessionAlters
    <2> QED
        BY <2>1, SetAsTitled DEF RowsTitled
<1> QED
    BY <1>1, <1>2, <1>3, PTL DEF SystemSpec, RotationAsTitled

-----------------------------------------------------------------------------
(* AppShell, for any quit delay.                                               *)

\* A quit timer that may end the process has at least as long to go as the copy;
\* none runs while a window is open.
TimersWait ==
    /\ quitTimers \subseteq Nat /\ unsaved \in 0..QuitDelay
    /\ popup \/ prefs => quitTimers = {}
    /\ ~persistent => \A t \in quitTimers : unsaved <= t
    /\ ClipboardSurvives

LEMMA TimersStay == TimersWait /\ [ShellNext]_shellVars => TimersWait'
<1> SUFFICES ASSUME TimersWait, [ShellNext]_shellVars PROVE TimersWait'
    OBVIOUS
<1>0. QuitDelay \in Nat
    BY ShellAssumption
<1>1. ASSUME process = "running", process' = process, popup' = FALSE, prefs' = prefs, persistent' = persistent,
             MaybeQuitLater, unsaved' \in {unsaved, QuitDelay}
      PROVE  TimersWait'
    BY <1>0, <1>1 DEF TimersWait, ClipboardSurvives, MaybeQuitLater, WindowsOpen
<1>2. ASSUME Running(RequestClose), unsaved' \in {unsaved, QuitDelay} PROVE TimersWait'
    BY <1>1, <1>2 DEF Running, RequestClose
<1>3. ASSUME Quietly(ShowLauncher) PROVE TimersWait'
    <2>1. CASE blocked
        BY <1>2, <1>3, <2>1 DEF Quietly, Running, ShowLauncher
    <2>2. CASE ~blocked
        BY <1>3, <2>2 DEF Quietly, Running, ShowLauncher, CancelQuitTimer, TimersWait, ClipboardSurvives
    <2> QED
        BY <2>1, <2>2
<1>4. CASE Show
    BY <1>3, <1>4 DEF Show
<1>5. CASE Close \/ SessionSignal
    BY <1>2, <1>5 DEF SessionSignal, Close, Quietly
<1>6. CASE ToggleWindow
    BY <1>2, <1>3, <1>6 DEF ToggleWindow, Quietly, Running
<1>7. CASE CopyAndClose
    BY <1>2, <1>7 DEF CopyAndClose
<1>8. CASE ShowPreferences
    BY <1>8 DEF ShowPreferences, Quietly, Running, CancelQuitTimer, TimersWait, ClipboardSurvives
<1>9. CASE PreferencesClosed
    BY <1>0, <1>9 DEF PreferencesClosed, Quietly, Running, MaybeQuitLater, WindowsOpen, TimersWait, ClipboardSurvives
<1>10. ASSUME NEW value \in BOOLEAN, ToggleHold(value) PROVE TimersWait'
    <2>1. /\ process = "running" /\ process' = process /\ persistent' = value /\ value # persistent
          /\ UNCHANGED <<popup, prefs, unsaved>> /\ MaybeQuitLater
        BY <1>10 DEF ToggleHold, Quietly, Running
    <2> QED
        BY <1>0, <2>1 DEF MaybeQuitLater, WindowsOpen, TimersWait, ClipboardSurvives
<1>11. CASE ClosedByWindowManager \/ SessionChanges
    <2>1. (popup' => popup) /\ UNCHANGED <<prefs, persistent, quitTimers, unsaved, process>>
        BY <1>11 DEF ClosedByWindowManager, SessionChanges, Quietly, Running
    <2> QED
        BY <2>1 DEF TimersWait, ClipboardSurvives
<1>12. CASE Tick
    <2>1. /\ process = "running" /\ 0 \notin quitTimers /\ quitTimers' = {t - 1 : t \in quitTimers}
          /\ unsaved' = IF unsaved = 0 THEN 0 ELSE unsaved - 1
          /\ UNCHANGED <<popup, prefs, persistent, process>>
        BY <1>12 DEF Tick
    <2>2. \A t \in quitTimers : t \in Nat /\ t - 1 \in Nat
        BY <2>1 DEF TimersWait
    <2>3. quitTimers' \subseteq Nat /\ unsaved' \in 0..QuitDelay
        BY <1>0, <2>1, <2>2 DEF TimersWait
    <2>4. ~persistent => \A t \in quitTimers' : unsaved' <= t
        BY <1>0, <2>1, <2>2 DEF TimersWait
    <2> QED
        BY <2>1, <2>3, <2>4 DEF TimersWait, ClipboardSurvives
<1>13. CASE QuitIfStillIdle
    <2>1. /\ 0 \in quitTimers /\ quitTimers' \subseteq quitTimers /\ UNCHANGED <<popup, prefs, persistent, unsaved>>
          /\ process' = "timer" => ~persistent
        BY <1>13 DEF QuitIfStillIdle
    <2>2. process' = "timer" => unsaved = 0
        BY <1>0, <2>1 DEF TimersWait
    <2> QED
        BY <2>1, <2>2 DEF TimersWait, ClipboardSurvives
<1>14. CASE Quit
    BY <1>14 DEF Quit, TimersWait, ClipboardSurvives
<1>15. CASE UNCHANGED shellVars
    BY <1>15 DEF shellVars, TimersWait, ClipboardSurvives
<1> QED
    BY <1>4, <1>5, <1>6, <1>7, <1>8, <1>9, <1>10, <1>11, <1>12, <1>13, <1>14, <1>15 DEF ShellNext

\* For any delay: the quit timer never ends the process before the clipboard
\* manager had its time, however often the windows were opened and closed, the
\* background service turned on and off since the copy (_maybe_quit_later).
THEOREM ClipboardKept == ShellSpec => []ClipboardSurvives
<1>1. ShellInit => TimersWait
    BY ShellAssumption DEF ShellInit, TimersWait, ClipboardSurvives
<1>2. TimersWait /\ [ShellNext]_shellVars => TimersWait'
    BY TimersStay
<1>3. TimersWait => ClipboardSurvives
    BY DEF TimersWait
<1> QED
    BY <1>1, <1>2, <1>3, PTL DEF ShellSpec

-----------------------------------------------------------------------------
(* QueryPlan, for texts of any length.                                         *)

AnyWord == Words \union PrefixChars
Names == {"name", "kept"}

\* Words are on both sides off, never all of them, and none of them a name.
Cut(t, s, offset) ==
    /\ offset \in 0..(Len(s) - Len(t))
    /\ \A i \in 1..Len(t) : t[i] = s[offset + i]
    /\ \A i \in (1..Len(s)) \ ((offset + 1)..(offset + Len(t))) : s[i] \notin Names
Trimmed(t, s) == t \in Seq(AnyWord) /\ (s # <<>> => t # <<>>) /\ \E offset \in Nat : Cut(t, s, offset)

LEMMA TrimmedSame == \A s \in Seq(AnyWord) : Trimmed(s, s)
<1> SUFFICES ASSUME NEW s \in Seq(AnyWord) PROVE Trimmed(s, s)
    OBVIOUS
<1>1. Len(s) \in Nat
    OBVIOUS
<1>2. Cut(s, s, 0)
    BY <1>1 DEF Cut
<1> QED
    BY <1>2 DEF Trimmed

LEMMA TrimmedTwice ==
    ASSUME NEW s \in Seq(AnyWord), NEW t, NEW u, Trimmed(t, s), Trimmed(u, t)
    PROVE  Trimmed(u, s)
<1>0. t \in Seq(AnyWord) /\ u \in Seq(AnyWord) /\ Len(s) \in Nat /\ Len(t) \in Nat /\ Len(u) \in Nat
    BY DEF Trimmed
<1>1. PICK a \in Nat : Cut(t, s, a)
    BY DEF Trimmed
<1>2. PICK b \in Nat : Cut(u, t, b)
    BY DEF Trimmed
<1>3. a + Len(t) <= Len(s) /\ b + Len(u) <= Len(t)
    BY <1>0, <1>1, <1>2 DEF Cut
<1>4. a + b \in 0..(Len(s) - Len(u))
    BY <1>0, <1>3
<1>5. ASSUME NEW i \in 1..Len(u) PROVE u[i] = s[(a + b) + i]
    <2>1. b + i \in 1..Len(t) /\ a + (b + i) = (a + b) + i
        BY <1>0, <1>3
    <2> QED
        BY <1>1, <1>2, <2>1 DEF Cut
<1>6. ASSUME NEW i \in (1..Len(s)) \ ((a + b + 1)..(a + b + Len(u))) PROVE s[i] \notin Names
    <2>1. CASE i \in (a + 1)..(a + Len(t))
        <3>1. i - a \in (1..Len(t)) \ ((b + 1)..(b + Len(u))) /\ a + (i - a) = i
            BY <1>0, <1>3, <2>1
        <3>2. t[i - a] \notin Names /\ t[i - a] = s[a + (i - a)]
            BY <1>1, <1>2, <3>1 DEF Cut
        <3> QED
            BY <3>1, <3>2
    <2>2. CASE i \notin (a + 1)..(a + Len(t))
        BY <1>1, <2>2 DEF Cut
    <2> QED
        BY <2>1, <2>2
<1>7. Cut(u, s, a + b) /\ a + b \in Nat
    BY <1>4, <1>5, <1>6 DEF Cut
<1> QED
    BY <1>0, <1>7 DEF Trimmed

-----------------------------------------------------------------------------
\* The first word, or the last one, is off.
LEMMA TailTrimmed ==
    ASSUME NEW s \in Seq(AnyWord), Len(s) > 1, Head(s) \notin Names
    PROVE  Trimmed(Tail(s), s)
<1>1. /\ Len(s) \in Nat /\ s # <<>> /\ Head(s) = s[1] /\ Tail(s) \in Seq(AnyWord) /\ Len(Tail(s)) = Len(s) - 1
      /\ \A i \in 1..Len(Tail(s)) : Tail(s)[i] = s[i + 1]
    BY HeadTailProperties
<1>2. Cut(Tail(s), s, 1)
    <2>1. \A i \in (1..Len(s)) \ (2..(1 + Len(Tail(s)))) : i = 1
        BY <1>1
    <2>2. \A i \in 1..Len(Tail(s)) : 1 + i = i + 1
        BY <1>1
    <2>3. 1 \in 0..(Len(s) - Len(Tail(s)))
        BY <1>1
    <2> QED
        BY <1>1, <2>1, <2>2, <2>3 DEF Cut
<1>3. 1 \in Nat /\ Len(Tail(s)) # 0
    BY <1>1
<1>4. Tail(s) # <<>>
    BY <1>3, EmptySeq
<1> DEFINE t == Tail(s)
<1> HIDE DEF t
<1>5. t \in Seq(AnyWord) /\ t # <<>> /\ Cut(t, s, 1)
    BY <1>1, <1>2, <1>4 DEF t
<1>6. Trimmed(t, s)
    BY <1>3, <1>5 DEF Trimmed
<1> QED
    BY <1>6 DEF t

LEMMA FrontTrimmed ==
    ASSUME NEW s \in Seq(AnyWord), Len(s) > 1, Last(s) \notin Names
    PROVE  /\ Trimmed(Front(s), s) /\ Len(Front(s)) = Len(s) - 1
           /\ \A i \in 1..(Len(s) - 1) : Front(s)[i] = s[i]
<1>1. Len(s) \in Nat /\ \A i \in 1..(Len(s) - 1) : s[i] \in AnyWord
    OBVIOUS
<1>2. /\ Front(s) \in Seq(AnyWord) /\ Len(Front(s)) = IF 1 <= Len(s) - 1 THEN (Len(s) - 1) - 1 + 1 ELSE 0
      /\ \A i \in 1..((Len(s) - 1) - 1 + 1) : Front(s)[i] = s[1 + i - 1]
    BY <1>1, SubSeqProperties DEF Front
<1> DEFINE t == Front(s)
<1> HIDE DEF t
<1>3. /\ t \in Seq(AnyWord) /\ Len(t) = Len(s) - 1
      /\ \A i \in 1..(Len(s) - 1) : t[i] = s[i]
    <2>1. (IF 1 <= Len(s) - 1 THEN (Len(s) - 1) - 1 + 1 ELSE 0) = Len(s) - 1
        BY <1>1
    <2>2. \A i \in 1..(Len(s) - 1) : i \in 1..((Len(s) - 1) - 1 + 1) /\ 1 + i - 1 = i
        BY <1>1
    <2> QED
        BY <1>2, <2>1, <2>2 DEF t
<1>4. Cut(t, s, 0)
    <2>1. \A i \in (1..Len(s)) \ ((0 + 1)..(0 + Len(t))) : i = Len(s)
        BY <1>1, <1>3
    <2> QED
        BY <1>1, <1>3, <2>1 DEF Cut, Last
<1>5. Trimmed(t, s)
    BY <1>1, <1>3, <1>4 DEF Trimmed
<1> QED
    BY <1>3, <1>5 DEF t

LEMMA LeadingTrimmed ==
    ASSUME NEW s \in Seq(AnyWord), NEW list, list \intersect Names = {}
    PROVE  /\ Trimmed(WithoutLeading(s, list), s)
           /\ s # <<>> /\ s[1] \notin list => WithoutLeading(s, list) = s
<1> DEFINE counts == {0} \union {n \in 1..(Len(s) - 1) : \A i \in 1..n : s[i] \in list}
           leading == Max(counts)
           t == SubSeq(s, leading + 1, Len(s))
<1>0. Len(s) \in Nat /\ WithoutLeading(s, list) = t
    BY DEF WithoutLeading
<1>1. counts \subseteq 0..Len(s) /\ counts # {}
    BY <1>0
<1>2. leading \in counts
    BY <1>0, <1>1, MaxOf
<1> HIDE DEF leading
<1>3. /\ leading \in Nat /\ leading <= Len(s) /\ (s # <<>> => leading < Len(s))
      /\ \A i \in 1..leading : s[i] \in list
    BY <1>0, <1>2
<1> HIDE DEF counts
<1>4. /\ t \in Seq(AnyWord) /\ Len(t) = Len(s) - leading
      /\ \A i \in 1..Len(t) : t[i] = s[leading + i]
    <2>1. \A i \in (leading + 1)..Len(s) : s[i] \in AnyWord
        BY <1>0, <1>3
    <2>2. leading + 1 \in Int /\ Len(s) \in Int
        BY <1>0, <1>3
    <2>3. /\ t \in Seq(AnyWord)
          /\ Len(t) = IF leading + 1 <= Len(s) THEN Len(s) - (leading + 1) + 1 ELSE 0
          /\ \A i \in 1..(Len(s) - (leading + 1) + 1) : t[i] = s[leading + 1 + i - 1]
        BY <2>1, <2>2, SubSeqProperties
    <2> HIDE DEF t
    <2>4. (IF leading + 1 <= Len(s) THEN Len(s) - (leading + 1) + 1 ELSE 0) = Len(s) - leading
        BY <1>0, <1>3
    <2>5. Len(t) = Len(s) - leading
        BY <2>3, <2>4
    <2>6. \A i \in 1..(Len(s) - leading) : i \in 1..(Len(s) - (leading + 1) + 1) /\ leading + 1 + i - 1 = leading + i
        BY <1>0, <1>3
    <2> QED
        BY <2>3, <2>5, <2>6
<1> HIDE DEF t
<1>5. Cut(t, s, leading)
    <2>1. \A i \in (1..Len(s)) \ ((leading + 1)..(leading + Len(t))) : i \in 1..leading
        BY <1>0, <1>3, <1>4
    <2> QED
        BY <1>0, <1>3, <1>4, <2>1 DEF Cut
<1>6. Trimmed(t, s)
    BY <1>0, <1>3, <1>4, <1>5 DEF Trimmed
<1>7. ASSUME s # <<>>, s[1] \notin list PROVE t = s
    <2>1. leading = 0
        BY <1>3, <1>7
    <2>2. t \in Seq(AnyWord) /\ Len(t) = Len(s) /\ \A i \in 1..Len(s) : t[i] = s[i]
        BY <1>0, <1>4, <2>1
    <2> QED
        BY <2>2
<1> QED
    BY <1>0, <1>6, <1>7

LEMMA OneTrimmed ==
    ASSUME NEW s \in Seq(AnyWord), NEW list, list \intersect Names = {}
    PROVE  /\ Trimmed(WithoutOne(s, list), s)
           /\ s # <<>> /\ s[1] \notin list => WithoutOne(s, list) = s
<1>1. CASE Len(s) > 1 /\ Head(s) \in list
    <2>1. s # <<>> /\ Head(s) = s[1]
        BY <1>1
    <2> QED
        BY <1>1, <2>1, TailTrimmed DEF WithoutOne
<1>2. CASE ~(Len(s) > 1 /\ Head(s) \in list)
    BY <1>2, TrimmedSame DEF WithoutOne
<1> QED
    BY <1>1, <1>2

LEMMA VerbTrimmed ==
    ASSUME NEW s \in Seq(AnyWord)
    PROVE  Trimmed(WithoutVerb(s), s)
<1>0. Len(s) \in Nat
    OBVIOUS
<1>1. CASE Len(s) < 2 \/ Head(s) \notin {"open", "verb"} \/ (Head(s) = "open" /\ s[2] = "kept")
    BY <1>1, TrimmedSame DEF WithoutVerb
<1>2. CASE ~(Len(s) < 2 \/ Head(s) \notin {"open", "verb"} \/ (Head(s) = "open" /\ s[2] = "kept"))
    <2>1. Len(s) > 1 /\ Head(s) \notin Names
        BY <1>0, <1>2 DEF Names
    <2>2. Trimmed(Tail(s), s)
        BY <2>1, TailTrimmed
    <2>3. {"up"} \intersect Names = {}
        BY DEF Names
    <2>4. PICK t : t \in {Tail(s), WithoutOne(Tail(s), {"up"})} /\ WithoutVerb(s) = WithoutOne(t, {"up"})
        BY <1>2 DEF WithoutVerb
    <2>5. Tail(s) \in Seq(AnyWord)
        BY <2>2 DEF Trimmed
    <2>6. Trimmed(t, Tail(s))
        BY <2>3, <2>4, <2>5, OneTrimmed, TrimmedSame
    <2>7. Trimmed(t, s) /\ t \in Seq(AnyWord)
        BY <2>2, <2>6, TrimmedTwice DEF Trimmed
    <2>8. Trimmed(WithoutOne(t, {"up"}), t)
        BY <2>3, <2>7, OneTrimmed
    <2> QED
        BY <2>4, <2>7, <2>8, TrimmedTwice
<1> QED
    BY <1>1, <1>2

LEMMA NounTrimmed ==
    ASSUME NEW s \in Seq(AnyWord)
    PROVE  Trimmed(WithoutNoun(s), s)
<1>1. CASE Len(s) > 1 /\ Last(s) \in {"noun", "both"}
    <2>1. Last(s) \notin Names
        BY <1>1 DEF Names
    <2> QED
        BY <1>1, <2>1, FrontTrimmed DEF WithoutNoun
<1>2. CASE ~(Len(s) > 1 /\ Last(s) \in {"noun", "both"})
    BY <1>2, TrimmedSame DEF WithoutNoun
<1> QED
    BY <1>1, <1>2

LEMMA Stripped ==
    ASSUME NEW s \in Seq(AnyWord)
    PROVE  Trimmed(StripLeadingVerb(s), s)
<1> DEFINE polite == WithoutLeading(s, {"polite"})
           spoken == WithoutVerb(polite)
           article == WithoutLeading(spoken, {"article"})
           unasked == WithoutOne(article, {"answer"})
           category == WithoutOne(unasked, {"category", "both"})
<1>0. {"polite"} \intersect Names = {} /\ {"article"} \intersect Names = {} /\ {"answer"} \intersect Names = {}
      /\ {"category", "both"} \intersect Names = {}
    BY DEF Names
<1>1. StripLeadingVerb(s) = WithoutNoun(category)
    BY DEF StripLeadingVerb
<1>2. \A t : Trimmed(t, s) => t \in Seq(AnyWord)
    BY DEF Trimmed
<1>3. Trimmed(polite, s)
    BY <1>0, LeadingTrimmed
<1>4. Trimmed(spoken, s)
    BY <1>2, <1>3, VerbTrimmed, TrimmedTwice
<1>5. Trimmed(article, s)
    BY <1>0, <1>2, <1>4, LeadingTrimmed, TrimmedTwice
<1>6. Trimmed(unasked, s)
    BY <1>0, <1>2, <1>5, OneTrimmed, TrimmedTwice
<1>7. Trimmed(category, s)
    BY <1>0, <1>2, <1>6, OneTrimmed, TrimmedTwice
<1> QED
    BY <1>1, <1>2, <1>7, NounTrimmed, TrimmedTwice

\* "open office" stays, with whatever follows it.
LEMMA OpenStays ==
    ASSUME NEW s \in Seq(AnyWord), Len(s) > 1, s[1] = "open", s[2] = "kept"
    PROVE  LET query == StripLeadingVerb(s) IN Len(query) > 1 /\ query[1] = "open" /\ query[2] = "kept"
<1>0. {"polite"} \intersect Names = {} /\ {"article"} \intersect Names = {} /\ {"answer"} \intersect Names = {}
      /\ {"category", "both"} \intersect Names = {} /\ s # <<>> /\ Head(s) = s[1] /\ Len(s) \in Nat
    BY DEF Names
<1>1. WithoutLeading(s, {"polite"}) = s /\ WithoutLeading(s, {"article"}) = s
    BY <1>0, LeadingTrimmed
<1>2. WithoutVerb(s) = s
    BY <1>0 DEF WithoutVerb
<1>3. WithoutOne(s, {"answer"}) = s /\ WithoutOne(s, {"category", "both"}) = s
    BY <1>0, OneTrimmed
<1>4. StripLeadingVerb(s) = WithoutNoun(s)
    BY <1>1, <1>2, <1>3 DEF StripLeadingVerb
<1>5. CASE Last(s) \in {"noun", "both"}
    <2>1. Last(s) \notin Names /\ Len(s) # 2
        BY <1>5 DEF Names, Last
    <2>2. Len(Front(s)) = Len(s) - 1 /\ \A i \in 1..(Len(s) - 1) : Front(s)[i] = s[i]
        BY <2>1, FrontTrimmed
    <2>3. 1 \in 1..(Len(s) - 1) /\ 2 \in 1..(Len(s) - 1) /\ Len(s) - 1 > 1
        <3>1. ASSUME NEW n \in Nat, n > 1, n # 2 PROVE 1 \in 1..(n - 1) /\ 2 \in 1..(n - 1) /\ n - 1 > 1
            BY <3>1
        <3>2. Len(s) \in Nat /\ Len(s) > 1 /\ Len(s) # 2
            BY <1>0, <2>1
        <3> QED
            BY <3>1, <3>2
    <2>4. WithoutNoun(s) = Front(s)
        BY <1>5 DEF WithoutNoun
    <2> QED
        BY <1>4, <2>2, <2>3, <2>4
<1>6. CASE Last(s) \notin {"noun", "both"}
    BY <1>4, <1>6 DEF WithoutNoun
<1> QED
    BY <1>5, <1>6

-----------------------------------------------------------------------------
LEMMA TextsKnown == PlanTexts \subseteq Seq(AnyWord)
<1>1. BoundedSeq(Words, MaxWords) \subseteq Seq(AnyWord)
    <2> SUFFICES ASSUME NEW t \in BoundedSeq(Words, MaxWords) PROVE t \in Seq(AnyWord)
        OBVIOUS
    <2>1. PICK n \in 0..MaxWords : t \in [1..n -> Words]
        BY DEF BoundedSeq, SeqOf
    <2>2. n \in Nat
        BY PlanAssumption
    <2> QED
        BY <2>1, <2>2 DEF AnyWord
<1>2. \A c \in PrefixChars : <<c>> \in Seq(AnyWord)
    BY DEF AnyWord
<1>3. <<>> \in Seq(AnyWord)
    OBVIOUS
<1>4. \A p, t \in Seq(AnyWord) : p \o t \in Seq(AnyWord)
    BY ConcatProperties
<1>5. \A p \in {<<>>} \union {<<c>> : c \in PrefixChars} : p \in Seq(AnyWord)
    BY <1>2, <1>3
<1>6. ASSUME NEW x \in PlanTexts PROVE x \in Seq(AnyWord)
    <2>1. CASE x = <<>>
        BY <1>3, <2>1
    <2>2. ASSUME NEW p \in {<<>>} \union {<<c>> : c \in PrefixChars}, NEW t \in BoundedSeq(Words, MaxWords), x = p \o t
          PROVE  x \in Seq(AnyWord)
        <3>1. p \in Seq(AnyWord) /\ t \in Seq(AnyWord)
            BY <1>1, <1>5
        <3> QED
            BY <1>4, <2>2, <3>1
    <2> QED
        BY <2>1, <2>2 DEF PlanTexts
<1> QED
    BY <1>6

LEMMA PlannedKept ==
    ASSUME planText \in Seq(AnyWord), PlanTyped
    PROVE  QueryKept'
<1>1. PICK prefixes \in BOOLEAN :
          planned' = PlanSearch(planText, {"apps", "web"} \union (IF prefixes THEN {"prefixes"} ELSE {}), FALSE)
    BY DEF PlanTyped
<1> DEFINE flags == {"apps", "web"} \union (IF prefixes THEN {"prefixes"} ELSE {})
           mode == ModeOf(planText, "prefixes" \in flags)
           bare == IF mode = "all" THEN planText ELSE Tail(planText)
           query == IF mode \in StripVerbModes THEN StripLeadingVerb(bare) ELSE bare
<1>2. planned'.mode = mode /\ planned'.query = query /\ planText' = planText
    BY <1>1 DEF PlanSearch, QueryOf, PlanTyped
<1>3. mode # "all" => planText # <<>>
    BY DEF ModeOf
<1>4. bare \in Seq(AnyWord)
    BY <1>3, HeadTailProperties
<1> HIDE DEF bare, mode
<1>5. Trimmed(query, bare)
    BY <1>4, Stripped, TrimmedSame
<1>6. ASSUME Len(bare) > 1, bare[1] = "open", bare[2] = "kept", mode \in StripVerbModes
      PROVE  Len(query) > 1 /\ query[1] = "open" /\ query[2] = "kept"
    BY <1>4, <1>6, OpenStays
<1> HIDE DEF query
<1>7. PICK offset \in Nat : Cut(query, bare, offset)
    BY <1>5 DEF Trimmed
<1>8. /\ bare # <<>> => query # <<>>
      /\ offset \in 0..(Len(bare) - Len(query))
      /\ \A i \in 1..Len(query) : query[i] = bare[offset + i]
      /\ \A i \in (1..Len(bare)) \ ((offset + 1)..(offset + Len(query))) : bare[i] \notin {"name", "kept"}
    BY <1>5, <1>7 DEF Trimmed, Cut, Names
<1>9. bare = IF planned'.mode = "all" THEN planText' ELSE Tail(planText')
    BY <1>2 DEF bare
<1>10. PICK y, q, m : y = bare /\ q = query /\ m = mode
    OBVIOUS
<1>11. /\ planned'.mode = m /\ planned'.query = q
       /\ y = IF planned'.mode = "all" THEN planText' ELSE Tail(planText')
    BY <1>2, <1>9, <1>10
<1>12. /\ y # <<>> => q # <<>>
       /\ offset \in 0..(Len(y) - Len(q))
       /\ \A i \in 1..Len(q) : q[i] = y[offset + i]
       /\ \A i \in (1..Len(y)) \ ((offset + 1)..(offset + Len(q))) : y[i] \notin {"name", "kept"}
       /\ (Len(y) > 1 /\ y[1] = "open" /\ y[2] = "kept" /\ m \in StripVerbModes)
              => Len(q) > 1 /\ q[1] = "open" /\ q[2] = "kept"
    BY <1>6, <1>8, <1>10
<1> QED
    BY ONLY <1>11, <1>12 DEF QueryKept

\* For texts of any number of words, and prefixes on or off: whatever polite words,
\* verbs, articles, categories and nouns are around it, what is searched for is a
\* stretch of the text that is not empty and holds every name (plan_search,
\* strip_leading_verb).
THEOREM QueryAlwaysKept == PlanSpec => []QueryKept
<1> DEFINE Planning == planText \in Seq(AnyWord) /\ QueryKept
<1>1. PlanInit => Planning
    BY TextsKnown DEF PlanInit, QueryKept
<1>2. Planning /\ [PlanTyped]_planVars => Planning'
    <2> SUFFICES ASSUME Planning, [PlanTyped]_planVars PROVE Planning'
        OBVIOUS
    <2>1. CASE PlanTyped
        BY <2>1, PlannedKept DEF PlanTyped
    <2>2. CASE UNCHANGED planVars
        BY <2>2 DEF planVars, QueryKept
    <2> QED
        BY <2>1, <2>2
<1>3. Planning => QueryKept
    OBVIOUS
<1> QED
    BY <1>1, <1>2, <1>3, PTL DEF PlanSpec

-----------------------------------------------------------------------------
(* TimeLimits, for any day and any history.                                    *)

\* A walk over the first n numbers, whose k-th step takes k, exists.
Walks(f, n, S, start, next) ==
    f \in [0..n -> S] /\ f[0] = start /\ \A k \in 1..n : f[k] = next[<<k, f[k - 1]>>]

LEMMA WalkDefined ==
    ASSUME NEW n \in Nat, NEW S, NEW next \in [(1..n) \X S -> S], NEW start \in S
    PROVE  \E f : Walks(f, n, S, start, next)
<1> DEFINE Upto(m, g) == g[0] = start /\ \A k \in 1..m : g[k] = next[<<k, g[k - 1]>>]
           Good(m) == \E g \in [0..m -> S] : Upto(m, g)
           bad == {m \in 0..n : ~Good(m)}
<1>1. Good(0)
    <2>1. [k \in 0..0 |-> start] \in [0..0 -> S] /\ Upto(0, [k \in 0..0 |-> start])
        OBVIOUS
    <2> QED
        BY <2>1
<1>2. ASSUME NEW m \in 0..(n - 1), Good(m) PROVE Good(m + 1)
    <2>1. PICK g \in [0..m -> S] : Upto(m, g)
        BY <1>2
    <2> DEFINE new == next[<<m + 1, g[m]>>]
               h == [k \in 0..(m + 1) |-> IF k = m + 1 THEN new ELSE g[k]]
    <2>2. m + 1 \in 1..n /\ g[m] \in S /\ new \in S
        BY <2>1
    <2>3. h \in [0..(m + 1) -> S] /\ h[0] = start
        BY <2>1, <2>2
    <2>4. h[m + 1] = new /\ \A k \in 0..m : h[k] = g[k]
        OBVIOUS
    <2> HIDE DEF h
    <2>5. ASSUME NEW k \in 1..(m + 1) PROVE h[k] = next[<<k, h[k - 1]>>]
        <3>1. CASE k = m + 1
            <4>1. k - 1 = m /\ m \in 0..m
                BY <3>1
            <4> QED
                BY <2>4, <3>1, <4>1
        <3>2. CASE k # m + 1
            <4>1. k \in 1..m /\ k \in 0..m /\ k - 1 \in 0..m
                BY <3>2
            <4> QED
                BY <2>1, <2>4, <4>1
        <3> QED
            BY <3>1, <3>2
    <2> QED
        BY <2>3, <2>5
<1>3. bad = {}
    <2> SUFFICES ASSUME bad # {} PROVE FALSE
        OBVIOUS
    <2> HIDE DEF Good
    <2>0. bad \subseteq Nat
        OBVIOUS
    <2>1. PICK m \in bad : \A y \in bad : m <= y
        BY <2>0, LeastNumber
    <2>2. m # 0 /\ m \in 0..n
        BY <1>1, <2>1
    <2>3. m - 1 \in 0..(n - 1) /\ ~(m - 1 \in bad)
        BY <2>1, <2>2
    <2>4. Good(m - 1) /\ (m - 1) + 1 = m
        BY <2>2, <2>3
    <2> QED
        BY <1>2, <2>1, <2>3, <2>4
<1>4. Good(n)
    BY <1>3
<1> QED
    BY <1>4 DEF Walks

LEMMA WalkStays ==
    ASSUME NEW n \in Nat, NEW S, NEW next \in [(1..n) \X S -> S], NEW f, f[0] \in S,
           \A k \in 1..n : f[k - 1] \in S => f[k] = next[<<k, f[k - 1]>>]
    PROVE  \A k \in 0..n : f[k] \in S
<1> DEFINE bad == {k \in 0..n : f[k] \notin S}
<1> SUFFICES ASSUME bad # {} PROVE FALSE
    OBVIOUS
<1>1. bad \subseteq Nat
    OBVIOUS
<1>2. PICK k \in bad : \A y \in bad : k <= y
    BY <1>1, LeastNumber
<1>3. k \in 1..n /\ k - 1 \in 0..n /\ ~(k - 1 \in bad)
    BY <1>2
<1>4. f[k - 1] \in S
    BY <1>3
<1>5. f[k] \in S
    BY <1>3, <1>4
<1> QED
    BY <1>2, <1>5

\* Where today's entry k is read: midnight stands for what lies before it.
From(history, k) == IF k = 0 THEN Today ELSE IF history[k].wall < Today THEN Today ELSE history[k].wall
\* Whether the session was active after the first k entries.
ActiveAfter(history, k) == IF k = 0 THEN ~history[1].active ELSE history[k].active
ActiveBefore(history, second) == {t \in Today..(second - 1) : ActiveAt(history, t)}

LEMMA WalkKnown ==
    ASSUME NEW h \in Histories
    PROVE  /\ ActiveTo(h) \in [0..Len(h) -> [start : Int, total : Int]]
           /\ ActiveTo(h)[0] = [start |-> Today, total |-> 0]
           /\ \A k \in 1..Len(h) :
                ActiveTo(h)[k] = IF h[k].wall < Today THEN ActiveTo(h)[k - 1]
                                 ELSE ActiveIn(ActiveTo(h)[k - 1], h[k])
<1> DEFINE S == [start : Int, total : Int]
           start == [start |-> Today, total |-> 0]
           next == [p \in (1..Len(h)) \X S |-> IF h[p[1]].wall < Today THEN p[2] ELSE ActiveIn(p[2], h[p[1]])]
           Rule(f) == f = [k \in 0..Len(h) |-> IF k = 0 THEN start
                                               ELSE IF h[k].wall < Today THEN f[k - 1] ELSE ActiveIn(f[k - 1], h[k])]
<1>1. Len(h) \in Nat /\ h \in Seq(Change)
    BY LimitAssumption DEF Histories, BoundedSeq, SeqOf
<1>2. start \in S /\ \A k \in 1..Len(h) : h[k] \in Change
    BY <1>1, LimitAssumption
<1>3. \A sum \in S, c \in Change : ActiveIn(sum, c) \in S
    BY DEF ActiveIn, Change
<1>4. next \in [(1..Len(h)) \X S -> S]
    <2> HIDE DEF S
    <2> QED
        BY <1>1, <1>2, <1>3
<1>5. PICK f : Walks(f, Len(h), S, start, next)
    <2> HIDE DEF S, start, next
    <2>1. start \in S /\ Len(h) \in Nat
        BY <1>1, <1>2
    <2> QED
        BY <1>4, <2>1, WalkDefined
<1> HIDE DEF S, start, next
<1>6. \A k \in 1..Len(h) : f[k - 1] \in S
    BY <1>1, <1>5 DEF Walks
<1>7. Rule(f)
    <2>1. \A k \in 0..Len(h) : k # 0 => k \in 1..Len(h)
        BY <1>1
    <2>2. \A k \in 1..Len(h) : f[k] = IF h[k].wall < Today THEN f[k - 1] ELSE ActiveIn(f[k - 1], h[k])
        BY <1>5, <1>6 DEF next, Walks
    <2> QED
        BY <1>5, <2>1, <2>2 DEF Walks
<1>8. Rule(ActiveTo(h))
    BY <1>7 DEF ActiveTo, S, start
<1> DEFINE g == ActiveTo(h)
<1>9. \A k \in 1..Len(h) : k - 1 \in 0..Len(h) /\ k # 0
    BY <1>1
<1> HIDE DEF g
<1>10. g[0] = start /\ \A k \in 1..Len(h) : g[k] = IF h[k].wall < Today THEN g[k - 1] ELSE ActiveIn(g[k - 1], h[k])
    BY <1>1, <1>8, <1>9 DEF g
<1>11. \A k \in 0..Len(h) : g[k] \in S
    <2>1. \A k \in 1..Len(h) : g[k - 1] \in S => g[k] = next[<<k, g[k - 1]>>]
        BY <1>10 DEF next
    <2> QED
        BY <1>1, <1>2, <1>4, <1>10, <2>1, WalkStays
<1>12. DOMAIN g = 0..Len(h) /\ g = [k \in 0..Len(h) |-> g[k]]
    BY <1>8 DEF g
<1> QED
    BY <1>10, <1>11, <1>12 DEF g, S, start

LEMMA HistoryKnown ==
    ASSUME NEW h \in Histories
    PROVE  /\ h \in Seq(Change) /\ Len(h) \in Nat /\ \A k \in 1..Len(h) : h[k] \in Change
           /\ \A i, j \in 1..Len(h) : i <= j => h[i].wall <= h[j].wall
<1>1. h \in Seq(Change)
    BY LimitAssumption DEF Histories, BoundedSeq, SeqOf
<1>2. \A k \in 1..Len(h) : h[k] \in Change /\ h[k].wall \in Nat
    <2>1. \A c \in Change : c.wall \in Nat
        BY LimitAssumption DEF Change
    <2>2. \A k \in 1..Len(h) : h[k] \in Change
        BY <1>1
    <2> QED
        BY <2>1, <2>2
<1>3. \A k \in 1..(Len(h) - 1) : h[k].wall <= h[k + 1].wall
    BY DEF Histories
<1>4. ASSUME NEW i \in 1..Len(h), NEW j \in 1..Len(h), i <= j PROVE h[i].wall <= h[j].wall
    <2> DEFINE bad == {k \in i..Len(h) : ~(h[i].wall <= h[k].wall)}
    <2> SUFFICES ASSUME bad # {} PROVE FALSE
        BY <1>4
    <2>1. bad \subseteq Nat
        OBVIOUS
    <2>2. PICK k \in bad : \A y \in bad : k <= y
        BY <2>1, LeastNumber
    <2>3. k # i /\ k \in i..Len(h)
        BY <1>2, <2>2
    <2>4. k - 1 \in i..Len(h) /\ k - 1 \in 1..(Len(h) - 1) /\ ~(k - 1 \in bad) /\ k \in 1..Len(h) /\ (k - 1) + 1 = k
        BY <2>2, <2>3
    <2>5. h[i].wall <= h[k - 1].wall /\ h[k - 1].wall <= h[k].wall
        BY <1>3, <2>4
    <2>6. h[i].wall <= h[k].wall
        BY <1>2, <2>4, <2>5
    <2> QED
        BY <2>2, <2>6
<1> QED
    BY <1>1, <1>2, <1>4

LEMMA FromToday ==
    ASSUME NEW h \in Histories, NEW k \in 0..Len(h)
    PROVE  From(h, k) \in Nat /\ Today <= From(h, k) /\ (k # 0 => h[k].wall <= From(h, k))
BY HistoryKnown, LimitAssumption DEF From, Change

\* Between two entries the session is as the first left it.
LEMMA ActiveBetween ==
    ASSUME NEW h \in Histories, h # <<>>, NEW k \in 0..Len(h), NEW t \in Nat,
           From(h, k) <= t, k # Len(h) => t < h[k + 1].wall
    PROVE  ActiveAt(h, t) = ActiveAfter(h, k)
<1> DEFINE past == {i \in DOMAIN h : h[i].wall <= t}
<1>0. Len(h) \in Nat
    BY HistoryKnown
<1>1. /\ Len(h) \in Nat /\ Len(h) # 0 /\ DOMAIN h = 1..Len(h) /\ Head(h) = h[1]
      /\ \A i \in 1..Len(h) : h[i].wall \in Nat
    BY HistoryKnown, LimitAssumption DEF Change
<1>2. ASSUME NEW i \in 1..Len(h), i <= k PROVE h[i].wall <= t
    <2>1. k \in 1..Len(h) /\ k # 0
        BY <1>0, <1>2
    <2>2. h[i].wall <= h[k].wall /\ h[i].wall \in Nat /\ h[k].wall \in Nat
        BY <1>1, <1>2, <2>1, HistoryKnown
    <2>3. h[k].wall <= From(h, k) /\ From(h, k) \in Nat
        BY <2>1, FromToday
    <2> QED
        BY <2>2, <2>3
<1>3. ASSUME NEW i \in 1..Len(h), i > k PROVE ~(h[i].wall <= t)
    <2>1. k + 1 \in 1..Len(h) /\ k + 1 <= i /\ k # Len(h)
        BY <1>0, <1>3
    <2>2. h[k + 1].wall <= h[i].wall /\ h[k + 1].wall \in Nat /\ h[i].wall \in Nat
        BY <1>1, <2>1, HistoryKnown
    <2> QED
        BY <2>1, <2>2
<1>4. past = 1..k
    <2>1. ASSUME NEW i \in past PROVE i \in 1..k
        <3>1. i \in 1..Len(h) /\ h[i].wall <= t
            BY <1>1, <2>1
        <3> QED
            BY <1>0, <1>3, <3>1
    <2>2. ASSUME NEW i \in 1..k PROVE i \in past
        <3>1. i \in 1..Len(h) /\ i <= k
            BY <1>0, <2>2
        <3> QED
            BY <1>1, <1>2, <3>1
    <2> HIDE DEF past
    <2> QED
        BY <2>1, <2>2
<1>5. CASE k = 0
    BY <1>1, <1>4, <1>5 DEF ActiveAt, ActiveAfter
<1>6. CASE k # 0
    <2>1. k \in 1..k /\ \A i \in 1..k : k >= i
        BY <1>6
    <2>2. Max(1..k) = k
        BY <2>1 DEF Max
    <2> QED
        BY <1>4, <1>6, <2>1, <2>2 DEF ActiveAt, ActiveAfter
<1> QED
    BY <1>5, <1>6

LEMMA ActiveAdded ==
    ASSUME NEW h, NEW a \in Nat, NEW b \in Nat, Today <= a, a <= b, NEW v \in BOOLEAN,
           \A t \in a..(b - 1) : ActiveAt(h, t) = v
    PROVE  /\ Cardinality(ActiveBefore(h, a)) \in Nat
           /\ Cardinality(ActiveBefore(h, b)) = Cardinality(ActiveBefore(h, a)) + (IF v THEN b - a ELSE 0)
<1>1. IsFiniteSet(Today..(a - 1)) /\ ActiveBefore(h, a) \subseteq Today..(a - 1)
    BY LimitAssumption, FS_Interval DEF ActiveBefore
<1>2. IsFiniteSet(ActiveBefore(h, a)) /\ Cardinality(ActiveBefore(h, a)) \in Nat
    BY <1>1, FS_Subset, FS_CardinalityType
<1>3. CASE ~v
    <2>1. ActiveBefore(h, b) = ActiveBefore(h, a)
        BY <1>3, LimitAssumption DEF ActiveBefore
    <2> QED
        BY <1>2, <1>3, <2>1
<1>4. CASE v
    <2>1. ActiveBefore(h, b) = ActiveBefore(h, a) \cup a..(b - 1)
        <3>1. \A t \in Today..(b - 1) : t \in Today..(a - 1) \/ t \in a..(b - 1)
            BY LimitAssumption
        <3>2. Today..(a - 1) \subseteq Today..(b - 1) /\ a..(b - 1) \subseteq Today..(b - 1)
            BY LimitAssumption
        <3>3. \A t \in a..(b - 1) : ActiveAt(h, t)
            BY <1>4
        <3> QED
            BY <3>1, <3>2, <3>3 DEF ActiveBefore
    <2>2. ActiveBefore(h, a) \cap a..(b - 1) = {}
        BY LimitAssumption DEF ActiveBefore
    <2>3. IsFiniteSet(a..(b - 1)) /\ Cardinality(a..(b - 1)) = b - a
        <3>1. b - 1 \in Int /\ a \in Int
            OBVIOUS
        <3>2. IsFiniteSet(a..(b - 1)) /\ Cardinality(a..(b - 1)) = IF a > b - 1 THEN 0 ELSE (b - 1) - a + 1
            BY <3>1, FS_Interval
        <3> QED
            BY <3>2
    <2>4. Cardinality(ActiveBefore(h, a) \cap a..(b - 1)) = 0
        BY <2>2, FS_EmptySet
    <2>5. Cardinality(ActiveBefore(h, a) \cup a..(b - 1)) =
             Cardinality(ActiveBefore(h, a)) + Cardinality(a..(b - 1)) - Cardinality(ActiveBefore(h, a) \cap a..(b - 1))
        BY <1>2, <2>3, FS_Union
    <2> QED
        BY <1>2, <1>4, <2>1, <2>3, <2>4, <2>5
<1> QED
    BY <1>3, <1>4

\* What the walk holds after k entries.
SumsUp(h, k) ==
    /\ ActiveTo(h)[k].total = Cardinality(ActiveBefore(h, From(h, k)))
    /\ ActiveAfter(h, k) => ActiveTo(h)[k].start = From(h, k)
    /\ k = 0 \/ h[k].wall < Today => ActiveTo(h)[k].start = Today

LEMMA SumStep ==
    ASSUME NEW h \in Histories, h # <<>>, NEW k \in 0..(Len(h) - 1), SumsUp(h, k)
    PROVE  SumsUp(h, k + 1)
<1> DEFINE g == ActiveTo(h)
           c == h[k + 1]
<1>1. /\ Len(h) \in Nat /\ k \in 0..Len(h) /\ k + 1 \in 1..Len(h) /\ (k + 1) - 1 = k /\ k + 1 \in 0..Len(h)
      /\ c \in Change /\ c.wall \in Nat /\ c.active \in BOOLEAN /\ Today \in Nat
    BY HistoryKnown, LimitAssumption DEF Change
<1>2. g[k + 1] = IF c.wall < Today THEN g[k] ELSE ActiveIn(g[k], c)
    BY <1>1, WalkKnown
<1>3. g[k] \in [start : Int, total : Int]
    BY <1>1, WalkKnown
<1>4. From(h, k) \in Nat /\ Today <= From(h, k)
    BY <1>1, FromToday
<1>5. ActiveAfter(h, k + 1) = c.active
    BY <1>1 DEF ActiveAfter
<1>6. From(h, k + 1) = IF c.wall < Today THEN Today ELSE c.wall
    BY <1>1 DEF From
<1>7. ActiveAfter(h, k) = ~c.active
    <2>1. CASE k = 0
        BY <2>1 DEF ActiveAfter
    <2>2. CASE k # 0
        <3>1. k \in 1..(Len(h) - 1) /\ k \in 1..Len(h) /\ h[k].active # h[k + 1].active
            BY <1>1, <2>2 DEF Histories
        <3>2. h[k].active \in BOOLEAN
            BY <3>1, HistoryKnown DEF Change
        <3> QED
            BY <1>1, <2>2, <3>1, <3>2 DEF ActiveAfter
    <2> QED
        BY <2>1, <2>2
<1>8. k # 0 => h[k].wall <= c.wall /\ h[k].wall \in Nat
    <2> SUFFICES ASSUME k # 0 PROVE h[k].wall <= c.wall /\ h[k].wall \in Nat
        OBVIOUS
    <2>1. k \in 1..Len(h) /\ k <= k + 1
        BY <1>1
    <2> QED
        BY <1>1, <2>1, HistoryKnown, LimitAssumption DEF Change
<1>9. From(h, k) <= From(h, k + 1)
    BY <1>1, <1>6, <1>8 DEF From
<1>10. CASE c.wall < Today
    <2>1. From(h, k) = Today /\ From(h, k + 1) = Today
        BY <1>1, <1>6, <1>8, <1>10 DEF From
    <2>2. k = 0 \/ h[k].wall < Today
        BY <1>1, <1>8, <1>10
    <2> QED
        BY <1>1, <1>2, <1>10, <2>1, <2>2 DEF SumsUp
<1>11. CASE ~(c.wall < Today)
    <2>1. From(h, k + 1) = c.wall /\ k + 1 # 0 /\ ~(h[k + 1].wall < Today)
        BY <1>1, <1>6, <1>11
    <2>2. ASSUME NEW t \in From(h, k)..(c.wall - 1) PROVE ActiveAt(h, t) = ~c.active
        <3>1. t \in Nat /\ From(h, k) <= t /\ t < h[k + 1].wall
            BY <1>1, <1>4
        <3> QED
            BY <1>1, <1>7, <3>1, ActiveBetween
    <2>3. /\ Cardinality(ActiveBefore(h, From(h, k))) \in Nat
          /\ Cardinality(ActiveBefore(h, c.wall)) =
                Cardinality(ActiveBefore(h, From(h, k))) + (IF ~c.active THEN c.wall - From(h, k) ELSE 0)
        <3>1. From(h, k) <= c.wall
            BY <1>9, <2>1
        <3> DEFINE v == ~c.active
        <3>2. v \in BOOLEAN /\ c.wall \in Nat
            BY <1>1
        <3>3. \A t \in From(h, k)..(c.wall - 1) : ActiveAt(h, t) = v
            BY <2>2
        <3> HIDE DEF c, v
        <3>4. /\ Cardinality(ActiveBefore(h, From(h, k))) \in Nat
              /\ Cardinality(ActiveBefore(h, c.wall)) =
                    Cardinality(ActiveBefore(h, From(h, k))) + (IF v THEN c.wall - From(h, k) ELSE 0)
            BY <1>4, <3>1, <3>2, <3>3, ActiveAdded
        <3> QED
            BY <3>4 DEF v
    <2>4. CASE c.active
        <3>1. g[k + 1].start = c.wall /\ g[k + 1].total = g[k].total
            BY <1>2, <1>3, <1>11, <2>4 DEF ActiveIn
        <3> QED
            BY <2>1, <2>3, <2>4, <3>1 DEF SumsUp
    <2>5. CASE ~c.active
        <3>1. g[k + 1].total = g[k].total + (c.wall - g[k].start)
            BY <1>2, <1>3, <1>11, <2>5 DEF ActiveIn
        <3>2. g[k].start = From(h, k)
            BY <1>7, <2>5 DEF SumsUp
        <3> QED
            BY <1>5, <2>1, <2>3, <2>5, <3>1, <3>2 DEF SumsUp
    <2> QED
        BY <1>1, <2>4, <2>5
<1> QED
    BY <1>10, <1>11

LEMMA SumsUpAll ==
    ASSUME NEW h \in Histories, h # <<>>
    PROVE  SumsUp(h, Len(h))
<1> DEFINE bad == {k \in 0..Len(h) : ~SumsUp(h, k)}
<1>1. Len(h) \in Nat
    BY HistoryKnown
<1>2. SumsUp(h, 0)
    <2>1. ActiveBefore(h, Today) = {} /\ From(h, 0) = Today
        BY LimitAssumption DEF ActiveBefore, From
    <2>2. Cardinality({}) = 0
        BY FS_EmptySet
    <2>3. ActiveTo(h)[0].total = 0 /\ ActiveTo(h)[0].start = Today
        BY WalkKnown
    <2> QED
        BY <2>1, <2>2, <2>3 DEF SumsUp
<1>3. bad = {}
    <2> SUFFICES ASSUME bad # {} PROVE FALSE
        OBVIOUS
    <2>1. bad \subseteq Nat
        OBVIOUS
    <2>2. PICK k \in bad : \A y \in bad : k <= y
        BY <2>1, LeastNumber
    <2>3. k # 0 /\ k \in 0..Len(h) /\ ~SumsUp(h, k)
        BY <1>2, <2>2
    <2>4. k - 1 \in 0..(Len(h) - 1) /\ (k - 1) + 1 = k /\ ~(k - 1 \in bad)
        BY <1>1, <2>2, <2>3
    <2>5. SumsUp(h, k - 1)
        BY <1>1, <2>4
    <2> QED
        BY <2>3, <2>4, <2>5, SumStep
<1> QED
    BY <1>1, <1>3

\* The walk counts the seconds of today in which the session was active.
LEMMA SecondsCounted ==
    ASSUME NEW h \in Histories, NEW now \in Nat, Today <= now, h = <<>> \/ Last(h).wall <= now
    PROVE  ActiveSecondsToday(now, h) = Cardinality({t \in Today..(now - 1) : ActiveAt(h, t)})
<1> DEFINE g == ActiveTo(h)
           n == Len(h)
<1>1. n \in Nat /\ Today \in Nat
    BY HistoryKnown, LimitAssumption
<1>2. CASE h = <<>>
    <2>1. n = 0 /\ g[n].total = 0
        BY <1>2, WalkKnown
    <2>2. {t \in Today..(now - 1) : ActiveAt(h, t)} = {}
        BY <1>2 DEF ActiveAt
    <2>3. ActiveSecondsToday(now, h) = 0
        BY <1>2, <2>1 DEF ActiveSecondsToday
    <2> QED
        BY <2>2, <2>3, FS_EmptySet
<1>3. CASE h # <<>>
    <2>1. n \in 1..n /\ n # 0 /\ n \in 0..n /\ Last(h) = h[n] /\ h[n] \in Change
        BY <1>1, <1>3, HistoryKnown DEF Last
    <2>2. ActiveAfter(h, n) = h[n].active /\ h[n].active \in BOOLEAN /\ h[n].wall \in Nat /\ h[n].wall <= now
        BY <1>3, <2>1, LimitAssumption DEF ActiveAfter, Change
    <2>3. From(h, n) \in Nat /\ Today <= From(h, n) /\ From(h, n) <= now
        BY <2>1, <2>2, FromToday, LimitAssumption DEF From
    <2>4. ASSUME NEW t \in From(h, n)..(now - 1) PROVE ActiveAt(h, t) = h[n].active
        <3>1. t \in Nat /\ From(h, n) <= t
            BY <2>3
        <3> QED
            BY <1>3, <2>1, <2>2, <3>1, ActiveBetween
    <2>5. /\ Cardinality(ActiveBefore(h, From(h, n))) \in Nat
          /\ Cardinality(ActiveBefore(h, now)) =
                Cardinality(ActiveBefore(h, From(h, n))) + (IF h[n].active THEN now - From(h, n) ELSE 0)
        BY <2>2, <2>3, <2>4, ActiveAdded
    <2>6. SumsUp(h, n)
        BY <1>3, SumsUpAll
    <2>7. ActiveSecondsToday(now, h) = g[n].total + (IF h[n].active THEN now - g[n].start ELSE 0)
        BY <1>3, <2>1 DEF ActiveSecondsToday
    <2> QED
        BY <2>2, <2>5, <2>6, <2>7 DEF SumsUp, ActiveBefore
<1> QED
    BY <1>2, <1>3

\* The history holds what was known when the limits were asked for.
LimitInv ==
    /\ LimitTypeOK
    /\ limitSession.history = <<>> \/ Last(limitSession.history).wall <= limitSession.now
    /\ LimitExact

LEMMA ReachedExactly ==
    ASSUME NEW s \in LimitSession, s.history = <<>> \/ Last(s.history).wall <= s.now
    PROVE  LimitsReached(s) <=>
              \/ (s.end # 0 /\ s.now >= s.end)
              \/ /\ s.daily # 0 /\ s.readable
                 /\ Cardinality({t \in Today..(s.now - 1) : ActiveAt(s.history, t)}) >= s.daily
<1>1. /\ s.history \in Histories /\ s.now \in Nat /\ Today <= s.now /\ s.end \in Nat /\ s.daily \in Nat
      /\ s.readable \in BOOLEAN
    BY LimitAssumption DEF LimitSession
<1>2. ActiveSecondsToday(s.now, s.history) = Cardinality({t \in Today..(s.now - 1) : ActiveAt(s.history, t)})
    BY <1>1, SecondsCounted
<1> QED
    BY <1>1, <1>2 DEF LimitsReached, MalcontentReached, WellbeingReached

\* The popup is refused exactly when malcontent's session is over or the seconds
\* in which the session was active today reach the daily limit.
THEOREM LimitsKeptExactly == LimitSpec => []LimitExact
<1>1. LimitInit => LimitInv
    BY DEF LimitInit, LimitInv, LimitTypeOK, LimitExact
<1>2. LimitInv /\ [AskLimits]_limitVars => LimitInv'
    <2> SUFFICES ASSUME LimitInv, [AskLimits]_limitVars PROVE LimitInv'
        OBVIOUS
    <2>1. limitSession \in LimitSession /\ (limitSession.history = <<>> \/ Last(limitSession.history).wall <= limitSession.now)
        BY DEF LimitInv, LimitTypeOK
    <2>2. CASE AskLimits
        <3>1. limitSession' = limitSession /\ limited' = IF LimitsReached(limitSession) THEN "reached" ELSE "free"
            BY <2>2 DEF AskLimits
        <3>2. LimitExact'
            BY <2>1, <3>1, ReachedExactly DEF LimitExact
        <3> QED
            BY <2>1, <3>1, <3>2 DEF LimitInv, LimitTypeOK
    <2>3. CASE UNCHANGED limitVars
        BY <2>3 DEF limitVars, LimitInv, LimitTypeOK, LimitExact
    <2> QED
        BY <2>2, <2>3
<1>3. LimitInv => LimitExact
    BY DEF LimitInv
<1> QED
    BY <1>1, <1>2, <1>3, PTL DEF LimitSpec

-----------------------------------------------------------------------------
(* LauncherRows, for any plans and any changes of the session.                 *)

\* What the providers agree on with activate_result: the payload that a row of a
\* kind comes with, and what must be there for it.
Agreed(kind, form, needs, ready) ==
    \/ kind \in {"url", "web"} /\ form = "uri"
    \/ kind \in {"bookmark", "file"} /\ form \in {"path", "uri"} /\ ready
    \/ kind \in {"path", "place"} /\ form = "path"
    \/ kind \in {"path", "place"} /\ form = "terminal" /\ "terminal" \in needs
    \/ kind \in {"app", "app-action"} /\ form = "id" /\ "app" \in needs
    \/ kind \in {"window", "window-close"} /\ form = "id" /\ "window" \in needs
    \/ kind \in {"calculator", "units", "color", "clock"} /\ form = "text"
    \/ kind = "settings" /\ form = "id" /\ "settings" \in needs
    \/ kind \in {"workspace", "system", "command"} /\ form = "id"
Forms == {"path", "uri", "text", "terminal", "id"}
Shapes == {row \in LauncherRow : Agreed(row.kind, row.form, row.needs, row.ready)}

\* A header, or a row with the actions that _materialize leaves it.
Painting == {[header |-> kind] : kind \in Kinds} \union {[row |-> row, active |-> HasActions(row)] : row \in Shapes}
PaintingAgrees == paintedRows \in Seq(Painting)

LEMMA SomeRows ==
    ASSUME NEW S
    PROVE  /\ <<>> \in Seq(S)
           /\ \A a \in S : <<a>> \in Seq(S)
           /\ \A a, b \in S : <<a, b>> \in Seq(S)
OBVIOUS

LEMMA HitShaped ==
    \A kind \in Kinds, form \in Forms, needs \in SUBSET Things, ready \in BOOLEAN :
        Agreed(kind, form, needs, ready) => Hit(kind, form, needs, ready) \in Shapes
<1> SUFFICES ASSUME NEW kind \in Kinds, NEW form \in Forms, NEW needs \in SUBSET Things, NEW ready \in BOOLEAN,
                    Agreed(kind, form, needs, ready)
             PROVE  Hit(kind, form, needs, ready) \in Shapes
    OBVIOUS
<1> DEFINE hit == Hit(kind, form, needs, ready)
<1>1. hit \in LauncherRow
    BY DEF Hit, LauncherRow, Forms
<1>2. hit.kind = kind /\ hit.form = form /\ hit.needs = needs /\ hit.ready = ready
    BY DEF Hit
<1> HIDE DEF hit
<1>3. Agreed(hit.kind, hit.form, hit.needs, hit.ready)
    BY <1>2
<1>4. hit \in Shapes
    BY <1>1, <1>3 DEF Shapes
<1> QED
    BY <1>4 DEF hit

\* Whatever a provider finds has the shape that its kind promises.
LEMMA FoundShaped ==
    ASSUME NEW provider \in SearchProviders, probed \in [DOMAIN probed -> BOOLEAN],
           DOMAIN probed \subseteq Programs
    PROVE  Found(provider) \subseteq Seq(Shapes)
<1>0. {} \in SUBSET Things /\ {"folder"} \in SUBSET Things /\ {"app"} \in SUBSET Things
      /\ {"window"} \in SUBSET Things /\ {"settings"} \in SUBSET Things
      /\ \A needs \in SUBSET Things : needs \union {"terminal"} \in SUBSET Things
    BY DEF Things, Programs
<1>1. \A kind \in {"url", "web"} : Hit(kind, "uri", {}, TRUE) \in Shapes
    BY <1>0, HitShaped DEF Agreed, Kinds, Forms
<1>2. \A kind \in {"bookmark", "file"}, form \in {"path", "uri"} : Hit(kind, form, {}, TRUE) \in Shapes
    BY <1>0, HitShaped DEF Agreed, Kinds, Forms
<1>3. \A kind \in {"path", "place"}, needs \in SUBSET Things, ready \in BOOLEAN :
        Hit(kind, "path", needs, ready) \in Shapes
    BY HitShaped DEF Agreed, Kinds, Forms
<1>4. \A kind \in {"path", "place"}, needs \in SUBSET Things :
        Hit(kind, "terminal", needs \union {"terminal"}, TRUE) \in Shapes
    BY <1>0, HitShaped DEF Agreed, Kinds, Forms
<1>5. \A kind \in {"app", "app-action"} : Hit(kind, "id", {"app"}, TRUE) \in Shapes
    BY <1>0, HitShaped DEF Agreed, Kinds, Forms
<1>6. \A kind \in {"window", "window-close"} : Hit(kind, "id", {"window"}, TRUE) \in Shapes
    BY <1>0, HitShaped DEF Agreed, Kinds, Forms
<1>7. \A kind \in {"calculator", "units", "color", "clock"} : Hit(kind, "text", {}, TRUE) \in Shapes
    BY <1>0, HitShaped DEF Agreed, Kinds, Forms
<1>8. \A kind \in {"workspace", "system", "command"}, ready \in BOOLEAN : Hit(kind, "id", {}, ready) \in Shapes
    BY <1>0, HitShaped DEF Agreed, Kinds, Forms
<1>9. \A ready \in BOOLEAN : Hit("settings", "id", {"settings"}, ready) \in Shapes
    BY <1>0, HitShaped DEF Agreed, Kinds, Forms
<1>10. ASSUME NEW program PROVE Find(program) \in BOOLEAN
    <2>1. CASE program \in DOMAIN probed
        <3>1. probed[program] \in BOOLEAN
            BY <2>1
        <3> QED
            BY <2>1, <3>1 DEF Find
    <2>2. CASE program \notin DOMAIN probed
        BY <2>2 DEF Find
    <2> QED
        BY <2>1, <2>2
<1>11. ASSUME NEW hits \in Seq(Shapes), NEW kind \in {"path", "place"}, NEW needs \in SUBSET Things
       PROVE  WithTerminal(hits, kind, needs) \in Seq(Shapes)
    BY <1>4, AppendProperties DEF WithTerminal
<1>12. CASE provider = "url"
    <2>1. Found(provider) = {<<Hit("url", "uri", {}, TRUE)>>}
        BY <1>12 DEF Found
    <2> QED
        BY <1>1, <2>1, SomeRows
<1>13. CASE provider = "path"
    <2>1. Found(provider) = {<<Hit("path", "path", {"folder"}, FALSE)>>, PathRows}
        BY <1>13 DEF Found
    <2>2. {"folder"} \in SUBSET Things
        BY DEF Things
    <2>3. \A ready \in BOOLEAN : <<Hit("path", "path", {"folder"}, ready)>> \in Seq(Shapes)
        BY <1>3, <2>2, SomeRows
    <2>4. PathRows \in Seq(Shapes)
        BY <1>11, <2>2, <2>3, SomeRows DEF PathRows
    <2> QED
        BY <2>1, <2>3, <2>4
<1>14. CASE provider = "places"
    <2>1. Found(provider) = {WithTerminal(<<Hit("place", "path", {}, TRUE)>>, "place", {})}
        BY <1>14 DEF Found
    <2>2. {} \in SUBSET Things
        OBVIOUS
    <2>3. <<Hit("place", "path", {}, TRUE)>> \in Seq(Shapes)
        BY <1>3, <2>2, SomeRows
    <2> QED
        BY <1>11, <2>1, <2>2, <2>3
<1>15. CASE provider \in {"bookmarks", "files"}
    <2>1. Found(provider) \in {{Links("bookmark")}, {Links("file")}}
        BY <1>15 DEF Found
    <2>2. Links("bookmark") \in Seq(Shapes) /\ Links("file") \in Seq(Shapes)
        BY <1>2, SomeRows DEF Links
    <2> QED
        BY <2>1, <2>2
<1>16. CASE provider = "apps"
    <2>1. Found(provider) = {AppRows}
        BY <1>16 DEF Found
    <2> QED
        BY <1>5, <2>1, SomeRows DEF AppRows
<1>17. CASE provider \in {"calculator", "units", "color", "time"}
    <2>1. Found(provider) = Copied(IF provider = "time" THEN "clock" ELSE provider)
        BY <1>17 DEF Found
    <2> QED
        BY <1>7, <1>17, <2>1, SomeRows DEF Copied
<1>18. CASE provider = "windows"
    <2>1. Found(provider) = {Append(WindowRows, Hit("workspace", "id", {}, TRUE))}
        BY <1>18 DEF Found
    <2>2. WindowRows \in Seq(Shapes)
        BY <1>6, SomeRows DEF WindowRows
    <2>3. Hit("workspace", "id", {}, TRUE) \in Shapes
        BY <1>8
    <2> DEFINE hit == Hit("workspace", "id", {}, TRUE)
    <2> HIDE DEF hit
    <2>4. Append(WindowRows, hit) \in Seq(Shapes)
        BY <2>2, <2>3, AppendProperties DEF hit
    <2> QED
        BY <2>1, <2>4 DEF hit
<1>19. CASE provider = "system"
    <2>1. Found(provider) = {<<Hit("system", "id", {}, TRUE)>>}
        BY <1>19 DEF Found
    <2> QED
        BY <1>8, <2>1, SomeRows
<1>20. CASE provider = "settings"
    <2>1. Found(provider) = {SettingsRows}
        BY <1>20 DEF Found
    <2> QED
        BY <1>9, <1>10, <2>1, SomeRows DEF SettingsRows
<1>21. CASE provider = "command"
    <2>1. Found(provider) = CommandRows
        BY <1>21 DEF Found
    <2> QED
        BY <1>8, <2>1, SomeRows DEF CommandRows
<1>22. CASE provider = "web"
    <2>1. Found(provider) = {WebRows}
        BY <1>22 DEF Found
    <2> QED
        BY <1>1, <2>1, SomeRows DEF WebRows
<1> QED
    BY <1>12, <1>13, <1>14, <1>15, <1>16, <1>17, <1>18, <1>19, <1>20, <1>21, <1>22 DEF SearchProviders

LEMMA ProviderShaped ==
    ASSUME NEW provider \in SearchProviders, probed \in [DOMAIN probed -> BOOLEAN],
           DOMAIN probed \subseteq Programs
    PROVE  ProviderRows(provider) \subseteq Seq(Shapes)
<1>1. ASSUME NEW hits \in Seq(Shapes), NEW n \in 0..Len(hits) PROVE SubSeq(hits, 1, n) \in Seq(Shapes)
    <2>1. \A i \in 1..n : hits[i] \in Shapes
        BY LenProperties, ElementOfSeq
    <2> QED
        BY <2>1, SubSeqProperties
<1>2. Found(provider) \subseteq Seq(Shapes)
    BY FoundShaped
<1>3. \A hits \in Found(provider) : {SubSeq(hits, 1, n) : n \in 0..Len(hits)} \subseteq Seq(Shapes)
    BY <1>1, <1>2
<1> QED
    BY <1>3, EmptySeq DEF ProviderRows

LEMMA BucketsShaped ==
    ASSUME NEW providers \in Seq(SearchProviders), probed \in [DOMAIN probed -> BOOLEAN],
           DOMAIN probed \subseteq Programs
    PROVE  Buckets(providers)[Len(providers)] \subseteq Seq(Shapes)
<1> DEFINE n == Len(providers)
           S == SUBSET Seq(Shapes)
           Joined(all, k) == Extended(all, providers[k])
           next == [p \in (1..n) \X S |-> Joined(p[2], p[1])]
           Rule(f) == f = [k \in 0..n |-> IF k = 0 THEN {<<>>} ELSE Joined(f[k - 1], k)]
<1>1. n \in Nat /\ {<<>>} \in S /\ \A k \in 1..n : ProviderRows(providers[k]) \subseteq Seq(Shapes)
    <2>1. n \in Nat /\ \A k \in 1..n : providers[k] \in SearchProviders
        BY LenProperties, ElementOfSeq
    <2> QED
        BY <2>1, ProviderShaped, EmptySeq
<1>2. ASSUME NEW all \in S, NEW k \in 1..n PROVE Joined(all, k) \in S
    <2>1. \A hits, found \in Seq(Shapes) : hits \o found \in Seq(Shapes)
        BY ConcatProperties
    <2>2. \A a \in all, found \in ProviderRows(providers[k]) : a \o found \in Seq(Shapes)
        BY <1>1, <1>2, <2>1
    <2>3. ASSUME NEW longer \in Extended(all, providers[k]) PROVE longer \in Seq(Shapes)
        <3>1. PICK a \in all, found \in ProviderRows(providers[k]) : longer = a \o found
            BY <2>3 DEF Extended
        <3> QED
            BY <2>2, <3>1
    <2> HIDE DEF S
    <2>4. Joined(all, k) \subseteq Seq(Shapes)
        BY <2>3
    <2> QED
        BY <2>4 DEF S
<1> HIDE DEF n, S, Joined
<1>3. next \in [(1..n) \X S -> S]
    BY <1>2
<1>4. PICK f : Walks(f, n, S, {<<>>}, next)
    <2> HIDE DEF next
    <2> QED
        BY <1>1, <1>3, WalkDefined
<1>5. Rule(f)
    <2>1. \A k \in 0..n : k # 0 => k \in 1..n /\ k - 1 \in 0..n
        BY <1>1
    <2>2. f \in [0..n -> S] /\ f[0] = {<<>>} /\ \A k \in 1..n : f[k] = next[<<k, f[k - 1]>>]
        BY <1>4 DEF Walks
    <2>3. \A k \in 1..n : f[k - 1] \in S
        BY <1>1, <2>1, <2>2
    <2>4. \A k \in 1..n : f[k] = Joined(f[k - 1], k)
        BY <2>2, <2>3
    <2> QED
        BY <2>1, <2>2, <2>4
<1>6. Rule(Buckets(providers))
    BY <1>5 DEF Buckets, Joined, n
<1> DEFINE g == Buckets(providers)
<1> HIDE DEF g
<1>7. g[0] = {<<>>} /\ \A k \in 1..n : g[k] = Joined(g[k - 1], k)
    <2>1. 0 \in 0..n /\ \A k \in 1..n : k \in 0..n /\ k # 0
        BY <1>1
    <2> QED
        BY <1>6, <2>1 DEF g
<1>8. \A k \in 1..n : g[k - 1] \in S => g[k] = next[<<k, g[k - 1]>>]
    BY <1>7
<1> HIDE DEF next
<1>9. \A k \in 0..n : g[k] \in S
    BY <1>1, <1>3, <1>7, <1>8, WalkStays
<1>10. g[n] \in S
    BY <1>1, <1>9
<1> QED
    BY <1>10 DEF g, n, S

LEMMA CollectedShaped ==
    ASSUME NEW plan \in Plans, probed \in [DOMAIN probed -> BOOLEAN], DOMAIN probed \subseteq Programs
    PROVE  Collected(plan) \subseteq Seq(Shapes)
<1>1. plan.providers \in Seq(SearchProviders)
    BY RowsAssumption
<1>2. Buckets(plan.providers)[Len(plan.providers)] \subseteq Seq(Shapes)
    BY <1>1, BucketsShaped
<1>3. ProviderRows("web") \subseteq Seq(Shapes)
    BY ProviderShaped DEF SearchProviders
<1> QED
    BY <1>2, <1>3 DEF Collected

\* _materialize paints the rows it is given, with the actions they have.
LEMMA MaterializedKept ==
    ASSUME NEW hits \in Seq(Shapes), NEW headers \in BOOLEAN
    PROVE  Materialized(hits, headers) \in Seq(Painting)
<1> DEFINE n == Len(hits)
           S == Seq(Painting)
           Header(k) == IF headers /\ (k = 1 \/ hits[k].kind # hits[k - 1].kind) THEN <<[header |-> hits[k].kind]>>
                        ELSE <<>>
           Entry(k) == [row |-> hits[k], active |-> HasActions(hits[k])]
           Joined(all, k) == all \o Header(k) \o <<Entry(k)>>
           next == [p \in (1..n) \X S |-> Joined(p[2], p[1])]
           Rule(f) == f = [k \in 0..n |-> IF k = 0 THEN <<>> ELSE Joined(f[k - 1], k)]
<1>1. n \in Nat /\ <<>> \in S /\ \A k \in 1..n : hits[k] \in Shapes
    BY LenProperties, ElementOfSeq, EmptySeq
<1>2. ASSUME NEW all \in S, NEW k \in 1..n PROVE Joined(all, k) \in S
    <2>1. hits[k] \in Shapes
        BY <1>1
    <2>2. hits[k].kind \in Kinds
        BY <2>1 DEF Shapes, LauncherRow
    <2>3. Header(k) \in S
        <3>1. [header |-> hits[k].kind] \in Painting
            BY <2>2 DEF Painting
        <3> QED
            BY <1>1, <3>1
    <2>4. Entry(k) \in Painting
        BY <2>1 DEF Painting
    <2> HIDE DEF Header, Entry
    <2>5. <<Entry(k)>> \in S
        BY <2>4
    <2> HIDE DEF S
    <2>6. \A a, b \in S : a \o b \in S
        BY ConcatProperties DEF S
    <2> QED
        BY <2>3, <2>5, <2>6
<1> HIDE DEF n, S, Joined
<1>3. next \in [(1..n) \X S -> S]
    BY <1>2
<1>4. PICK f : Walks(f, n, S, <<>>, next)
    <2> HIDE DEF next
    <2> QED
        BY <1>1, <1>3, WalkDefined
<1>5. Rule(f)
    <2>1. \A k \in 0..n : k # 0 => k \in 1..n /\ k - 1 \in 0..n
        BY <1>1
    <2>2. f \in [0..n -> S] /\ f[0] = <<>> /\ \A k \in 1..n : f[k] = next[<<k, f[k - 1]>>]
        BY <1>4 DEF Walks
    <2>3. \A k \in 1..n : f[k - 1] \in S
        BY <1>1, <2>1, <2>2
    <2>4. \A k \in 1..n : f[k] = Joined(f[k - 1], k)
        BY <2>2, <2>3
    <2> QED
        BY <2>1, <2>2, <2>4
<1>6. Rule(Entries(hits, headers))
    BY <1>5 DEF Entries, Joined, n
<1> DEFINE g == Entries(hits, headers)
<1> HIDE DEF g
<1>7. g[0] = <<>> /\ \A k \in 1..n : g[k] = Joined(g[k - 1], k)
    <2>1. 0 \in 0..n /\ \A k \in 1..n : k \in 0..n /\ k # 0
        BY <1>1
    <2> QED
        BY <1>6, <2>1 DEF g
<1>8. \A k \in 1..n : g[k - 1] \in S => g[k] = next[<<k, g[k - 1]>>]
    BY <1>7
<1> HIDE DEF next
<1>9. \A k \in 0..n : g[k] \in S
    BY <1>1, <1>3, <1>7, <1>8, WalkStays
<1>10. g[n] \in S
    BY <1>1, <1>9
<1> QED
    BY <1>10 DEF Materialized, g, n, S

\* The programs looked for are known to be there or not, and what is painted
\* agrees with what activate_result expects.
RowsInv ==
    /\ probed \in [DOMAIN probed -> BOOLEAN] /\ DOMAIN probed \subseteq Programs
    /\ PaintingAgrees

LEMMA InitRows == RowsInit => RowsInv
<1> SUFFICES ASSUME RowsInit PROVE RowsInv
    OBVIOUS
<1>1. probed = <<>> /\ paintedRows = <<>>
    BY DEF RowsInit
<1>2. DOMAIN probed = {} /\ probed \in [{} -> BOOLEAN]
    BY <1>1
<1> QED
    BY <1>1, <1>2, EmptySeq DEF RowsInv, PaintingAgrees

LEMMA ProbedKept ==
    ASSUME RowsInv, NEW programs \in SUBSET Programs, probed' = Probed(programs)
    PROVE  probed' \in [DOMAIN probed' -> BOOLEAN] /\ DOMAIN probed' \subseteq Programs
<1>1. ASSUME NEW program PROVE Find(program) \in BOOLEAN
    <2>1. CASE program \in DOMAIN probed
        <3>1. probed[program] \in BOOLEAN
            BY <2>1 DEF RowsInv
        <3> QED
            BY <2>1, <3>1 DEF Find
    <2>2. CASE program \notin DOMAIN probed
        BY <2>2 DEF Find
    <2> QED
        BY <2>1, <2>2
<1> QED
    BY <1>1 DEF Probed, RowsInv

LEMMA RowsNextKept ==
    ASSUME RowsInv, [RowsNext]_rowVars
    PROVE  RowsInv'
<1>1. ASSUME NEW plan \in Plans, PaintRows(plan) PROVE RowsInv'
    <2>1. PICK hits \in Collected(plan), headers \in BOOLEAN :
              /\ paintedRows' = Materialized(hits, headers /\ plan.mode = "all")
              /\ probed' = Probed(LooksFor(hits))
        BY <1>1 DEF PaintRows
    <2>2. hits \in Seq(Shapes)
        BY CollectedShaped DEF RowsInv
    <2>3. (headers /\ plan.mode = "all") \in BOOLEAN
        OBVIOUS
    <2>4. paintedRows' \in Seq(Painting)
        BY <2>1, <2>2, <2>3, MaterializedKept
    <2>5. LooksFor(hits) \in SUBSET Programs
        BY DEF LooksFor, Programs
    <2> QED
        BY <2>1, <2>4, <2>5, ProbedKept DEF RowsInv, PaintingAgrees
<1>2. ASSUME NEW i \in DOMAIN paintedRows, ActivateRow(i) PROVE RowsInv'
    <2>1. PICK programs \in SUBSET Programs : probed' = Probed(programs)
        BY <1>2 DEF ActivateRow, Programs
    <2>2. paintedRows' \in Seq(Painting)
        BY <1>2, EmptySeq DEF ActivateRow, RowsInv, PaintingAgrees
    <2> QED
        BY <2>1, <2>2, ProbedKept DEF RowsInv, PaintingAgrees
<1>3. CASE SaveSettings
    <2>1. probed' = <<>> /\ paintedRows' = paintedRows
        BY <1>3 DEF SaveSettings
    <2>2. DOMAIN probed' = {} /\ probed' \in [{} -> BOOLEAN]
        BY <2>1
    <2> QED
        BY <2>1, <2>2 DEF RowsInv, PaintingAgrees
<1>4. ASSUME NEW thing \in Things, SessionTakes(thing) PROVE RowsInv'
    BY <1>4 DEF SessionTakes, RowsInv, PaintingAgrees
<1>5. CASE UNCHANGED rowVars
    BY <1>5 DEF rowVars, RowsInv, PaintingAgrees
<1> QED
    BY <1>1, <1>2, <1>3, <1>4, <1>5 DEF RowsNext

\* An entry that can be activated: its row agrees with activate_result, and runs.
LEMMA ActiveShaped ==
    ASSUME RowsInv, NEW i \in DOMAIN paintedRows, "row" \in DOMAIN paintedRows[i], paintedRows[i].active
    PROVE  paintedRows[i].row \in Shapes /\ HasActions(paintedRows[i].row)
<1>1. paintedRows[i] \in Painting
    BY ElementOfSeq, LenProperties DEF RowsInv, PaintingAgrees
<1>2. \A kind \in Kinds : paintedRows[i] # [header |-> kind]
    <2>1. \A kind : DOMAIN [header |-> kind] = {"header"}
        OBVIOUS
    <2> QED
        BY <2>1
<1>3. PICK row \in Shapes : paintedRows[i] = [row |-> row, active |-> HasActions(row)]
    BY <1>1, <1>2 DEF Painting
<1>4. paintedRows[i].row = row /\ paintedRows[i].active = HasActions(row)
    BY <1>3
<1> QED
    BY <1>4

\* What activating a row does, when what it needs is there.
LEMMA DoneAsPromised ==
    ASSUME NEW row \in Shapes, HasActions(row), row.needs \subseteq here,
           \A program \in row.needs \cap DOMAIN probed : probed[program]
    PROVE  Done(row) = Promised(row)
<1>1. row.ready \in BOOLEAN /\ row.kind \in Kinds /\ row.form \in Forms
      /\ Agreed(row.kind, row.form, row.needs, row.ready)
    BY DEF Shapes, LauncherRow, Forms
<1>2. \A program \in row.needs : Find(program)
    BY DEF Find
<1>3. CASE row.kind \in {"url", "web"} /\ row.form = "uri"
    BY <1>3 DEF Done, Promised, OpensUri
<1>4. CASE row.kind \in {"bookmark", "file"} /\ row.form \in {"path", "uri"} /\ row.ready
    BY <1>4 DEF Done, Promised, OpensUri, OpenedLink
<1>5. CASE row.kind \in {"path", "place"} /\ row.form = "path"
    <2>1. row.ready
        BY <1>5 DEF HasActions
    <2> QED
        BY <1>5, <2>1 DEF Done, Promised, OpensUri, OpenedLink
<1>6. CASE row.kind \in {"path", "place"} /\ row.form = "terminal" /\ "terminal" \in row.needs
    <2>1. Find("terminal")
        BY <1>2, <1>6
    <2> QED
        BY <1>6, <2>1 DEF Done, Promised, OpensUri, OpenedLink
<1>7. CASE row.kind \in {"app", "app-action"} /\ row.form = "id" /\ "app" \in row.needs
    BY <1>7 DEF Done, Promised, OpensUri
<1>8. CASE row.kind \in {"window", "window-close"} /\ row.form = "id" /\ "window" \in row.needs
    BY <1>8 DEF Done, Promised, OpensUri
<1>9. CASE row.kind \in {"calculator", "units", "color", "clock"} /\ row.form = "text"
    BY <1>9 DEF Done, Promised, OpensUri
<1>10. CASE row.kind = "settings" /\ row.form = "id" /\ "settings" \in row.needs
    <2>1. Find("settings")
        BY <1>2, <1>10
    <2> QED
        BY <1>10, <2>1 DEF Done, Promised, OpensUri
<1>11. CASE row.kind \in {"workspace", "system", "command"} /\ row.form = "id"
    <2>1. row.kind = "command" => row.ready
        BY DEF HasActions
    <2> QED
        BY <1>11, <2>1 DEF Done, Promised, OpensUri
<1> QED
    BY <1>1, <1>3, <1>4, <1>5, <1>6, <1>7, <1>8, <1>9, <1>10, <1>11 DEF Agreed

\* Every entry that the popup lets the user activate does what it says, unless its
\* target is gone or a program it needs was looked for and not found before.
THEOREM RowsActAsShown == RowsSpec => ActsAsShown
<1>1. RowsSpec => []RowsInv
    BY InitRows, RowsNextKept, PTL DEF RowsSpec
<1> DEFINE Told(i) ==
        ActivateRow(i) => LET row == paintedRows[i].row IN
                          \/ activated'[2] = Promised(row)
                          \/ ~(row.needs \subseteq here)
                          \/ \E program \in row.needs \cap DOMAIN probed : ~probed[program]
<1>2. ASSUME RowsInv, NEW i \in DOMAIN paintedRows, ActivateRow(i) PROVE Told(i)
    <2> DEFINE row == paintedRows[i].row
    <2>1. /\ "row" \in DOMAIN paintedRows[i] /\ paintedRows[i].active
          /\ activated' = <<row, Done(row)>>
        BY <1>2 DEF ActivateRow
    <2>2. row \in Shapes /\ HasActions(row)
        BY <1>2, <2>1, ActiveShaped
    <2>3. activated'[2] = Done(row)
        BY <2>1
    <2> HIDE DEF row
    <2>4. ASSUME row.needs \subseteq here, \A program \in row.needs \cap DOMAIN probed : probed[program]
          PROVE  activated'[2] = Promised(row)
        BY <2>2, <2>3, <2>4, DoneAsPromised
    <2> QED
        BY <2>4 DEF row
<1>3. RowsInv => \A i \in DOMAIN paintedRows : Told(i)
    BY <1>2
<1> QED
    BY <1>1, <1>3, PTL DEF ActsAsShown

-----------------------------------------------------------------------------
(* AppSearch, for any applications and any number of launches.                 *)

\* The applications are listed once each.
LEMMA OrderKnown ==
    /\ AppOrder \in Seq(Apps) /\ Len(AppOrder) \in Nat
    /\ \A k \in 1..Len(AppOrder) : AppOrder[k] \in Apps
    /\ \A j, k \in 1..Len(AppOrder) : AppOrder[j] = AppOrder[k] => j = k
    /\ \A a \in Apps : \E k \in 1..Len(AppOrder) : AppOrder[k] = a
<1> DEFINE c == Cardinality(Apps)
<1>1. IsFiniteSet(Apps) /\ c \in Nat /\ ExistsBijection(1..c, Apps)
    BY SearchAssumption, FS_CardinalityType
<1>2. \E f \in [1..c -> Apps] : IsInjective(f)
    BY <1>1 DEF ExistsBijection, Bijection, Injection
<1>3. AppOrder \in [1..c -> Apps] /\ IsInjective(AppOrder)
    BY <1>2 DEF AppOrder, SetToSeq
<1> HIDE DEF c
<1>4. AppOrder \in Seq(Apps) /\ Len(AppOrder) = c
    BY <1>1, <1>3
<1>5. AppOrder \in Injection(1..c, Apps)
    BY <1>3 DEF Injection
<1>6. AppOrder \in Surjection(1..c, Apps)
    <2>1. Cardinality(1..c) = c /\ IsFiniteSet(1..c)
        BY <1>1, FS_Interval
    <2> QED
        BY <1>1, <1>5, <2>1, FS_Injection DEF c
<1>7. \A a \in Apps : \E k \in 1..c : AppOrder[k] = a
    BY <1>6 DEF Surjection
<1> QED
    BY <1>1, <1>3, <1>4, <1>7 DEF IsInjective

\* The sum of the first k values, and of all of them.
LEMMA SumsKnown ==
    ASSUME NEW v \in [Apps -> Nat]
    PROVE  /\ SumsUpTo(v)[0] = 0
           /\ \A k \in 0..Len(AppOrder) : SumsUpTo(v)[k] \in Nat
           /\ \A k \in 1..Len(AppOrder) : SumsUpTo(v)[k] = SumsUpTo(v)[k - 1] + v[AppOrder[k]]
<1> DEFINE n == Len(AppOrder)
           next == [p \in (1..n) \X Nat |-> p[2] + v[AppOrder[p[1]]]]
           Rule(f) == f = [k \in 0..n |-> IF k = 0 THEN 0 ELSE f[k - 1] + v[AppOrder[k]]]
<1>1. n \in Nat /\ \A k \in 1..n : v[AppOrder[k]] \in Nat
    BY OrderKnown
<1> HIDE DEF n
<1>2. next \in [(1..n) \X Nat -> Nat]
    BY <1>1
<1>3. PICK f : Walks(f, n, Nat, 0, next)
    <2> HIDE DEF next
    <2> QED
        BY <1>1, <1>2, WalkDefined
<1>4. \A k \in 0..n : k # 0 => k \in 1..n /\ k - 1 \in 0..n
    BY <1>1
<1>5. Rule(f)
    <2>1. f \in [0..n -> Nat] /\ f[0] = 0 /\ \A k \in 1..n : f[k] = next[<<k, f[k - 1]>>]
        BY <1>3 DEF Walks
    <2>2. \A k \in 1..n : k - 1 \in 0..n
        BY <1>1
    <2>3. \A k \in 1..n : f[k] = f[k - 1] + v[AppOrder[k]]
        BY <2>1, <2>2
    <2> QED
        BY <1>4, <2>1, <2>3
<1>6. Rule(SumsUpTo(v))
    BY <1>5 DEF SumsUpTo, n
<1> DEFINE g == SumsUpTo(v)
<1> HIDE DEF g
<1>7. g[0] = 0 /\ \A k \in 1..n : g[k] = g[k - 1] + v[AppOrder[k]]
    <2>1. 0 \in 0..n /\ \A k \in 1..n : k \in 0..n /\ k # 0
        BY <1>1
    <2> QED
        BY <1>6, <2>1 DEF g
<1>8. \A k \in 1..n : g[k - 1] \in Nat => g[k] = next[<<k, g[k - 1]>>]
    BY <1>7
<1> HIDE DEF next
<1>9. \A k \in 0..n : g[k] \in Nat
    <2>1. g[0] \in Nat
        BY <1>7
    <2> QED
        BY <1>1, <1>2, <1>8, <2>1, WalkStays
<1> QED
    BY <1>7, <1>9 DEF g, n

\* Raising one value raises the sum by as much.
LEMMA SumRaised ==
    ASSUME NEW v \in [Apps -> Nat], NEW a \in Apps, NEW u \in Nat
    PROVE  SumsUpTo([v EXCEPT ![a] = @ + u])[Len(AppOrder)] = SumsUpTo(v)[Len(AppOrder)] + u
<1> DEFINE n == Len(AppOrder)
           w == [v EXCEPT ![a] = @ + u]
           f == SumsUpTo(v)
           g == SumsUpTo(w)
<1>1. PICK p \in 1..n : AppOrder[p] = a
    BY OrderKnown
<1>2. n \in Nat /\ w \in [Apps -> Nat] /\ \A k \in 1..n : AppOrder[k] \in Apps /\ (AppOrder[k] = a => k = p)
    <2>1. w \in [Apps -> Nat]
        OBVIOUS
    <2> HIDE DEF w
    <2>2. n \in Nat /\ \A k \in 1..n : AppOrder[k] \in Apps
        BY OrderKnown
    <2>3. ASSUME NEW k \in 1..n, AppOrder[k] = a PROVE k = p
        BY <1>1, <2>3, OrderKnown
    <2> QED
        BY <2>1, <2>2, <2>3
<1>3. \A k \in 1..n : w[AppOrder[k]] = v[AppOrder[k]] + (IF k = p THEN u ELSE 0) /\ v[AppOrder[k]] \in Nat
    BY <1>1, <1>2
<1>4. /\ f[0] = 0 /\ g[0] = 0 /\ \A k \in 0..n : f[k] \in Nat /\ g[k] \in Nat
      /\ \A k \in 1..n : f[k] = f[k - 1] + v[AppOrder[k]] /\ g[k] = g[k - 1] + w[AppOrder[k]]
    <2> HIDE DEF w
    <2> QED
        BY <1>2, SumsKnown
<1> HIDE DEF n, w, f, g
<1> DEFINE bad == {k \in 0..n : g[k] # f[k] + (IF k < p THEN 0 ELSE u)}
<1>5. bad = {}
    <2> SUFFICES ASSUME bad # {} PROVE FALSE
        OBVIOUS
    <2>1. bad \subseteq Nat
        OBVIOUS
    <2>2. PICK k \in bad : \A y \in bad : k <= y
        BY <2>1, LeastNumber
    <2>3. k # 0 /\ k \in 1..n /\ k - 1 \in 0..n
        BY <1>1, <1>2, <1>4, <2>2
    <2>4. g[k - 1] = f[k - 1] + (IF k - 1 < p THEN 0 ELSE u)
        BY <2>2, <2>3
    <2>5. g[k] = f[k] + (IF k < p THEN 0 ELSE u)
        BY <1>1, <1>3, <1>4, <2>3, <2>4
    <2> QED
        BY <2>2, <2>5
<1>6. g[n] = f[n] + u
    BY <1>1, <1>2, <1>5
<1> QED
    BY <1>6 DEF n, w, f, g

\* Two values are no more than all of them.
LEMMA SumCovers ==
    ASSUME NEW v \in [Apps -> Nat], NEW a \in Apps, NEW b \in Apps, a # b
    PROVE  v[a] + v[b] <= SumsUpTo(v)[Len(AppOrder)]
<1> DEFINE n == Len(AppOrder)
           f == SumsUpTo(v)
<1>1. PICK p \in 1..n : AppOrder[p] = a
    BY OrderKnown
<1>2. PICK q \in 1..n : AppOrder[q] = b
    BY OrderKnown
<1>3. n \in Nat /\ p # q /\ v[a] \in Nat /\ v[b] \in Nat /\ \A k \in 1..n : v[AppOrder[k]] \in Nat
    BY <1>1, <1>2, OrderKnown
<1>4. /\ f[0] = 0 /\ \A k \in 0..n : f[k] \in Nat
      /\ \A k \in 1..n : f[k] = f[k - 1] + v[AppOrder[k]]
    BY SumsKnown
<1> HIDE DEF n, f
<1> DEFINE least(k) == (IF k < p THEN 0 ELSE v[a]) + (IF k < q THEN 0 ELSE v[b])
           bad == {k \in 0..n : ~(least(k) <= f[k])}
<1>5. bad = {}
    <2> SUFFICES ASSUME bad # {} PROVE FALSE
        OBVIOUS
    <2>1. bad \subseteq Nat
        OBVIOUS
    <2>2. PICK k \in bad : \A y \in bad : k <= y
        BY <2>1, LeastNumber
    <2>3. k # 0 /\ k \in 1..n /\ k - 1 \in 0..n
        BY <1>1, <1>2, <1>3, <1>4, <2>2
    <2>4. least(k - 1) <= f[k - 1]
        BY <2>2, <2>3
    <2>5. least(k) <= f[k]
        <3>1. CASE k = p
            BY <1>1, <1>3, <1>4, <2>3, <2>4, <3>1
        <3>2. CASE k = q
            BY <1>2, <1>3, <1>4, <2>3, <2>4, <3>2
        <3>3. CASE k # p /\ k # q
            BY <1>1, <1>2, <1>3, <1>4, <2>3, <2>4, <3>3
        <3> QED
            BY <3>1, <3>2, <3>3
    <2> QED
        BY <2>2, <2>5
<1>6. least(n) <= f[n]
    BY <1>3, <1>5
<1>7. least(n) = v[a] + v[b]
    BY <1>1, <1>2, <1>3
<1> QED
    BY <1>6, <1>7 DEF n, f

\* The first of a list stays the first of those with different base names.
LEMMA UniqueHead ==
    ASSUME NEW S, NEW n \in Nat, NEW order \in [1..n -> S]
    PROVE  IF n = 0 THEN UniqueByBaseName(order) = <<>>
           ELSE UniqueByBaseName(order) # <<>> /\ UniqueByBaseName(order)[1] = order[1]
<1> DEFINE Seen(k) == \E j \in 1..(k - 1) : BaseName[order[j]] = BaseName[order[k]]
           Joined(some, k) == IF Seen(k) THEN some ELSE Append(some, order[k])
           T == Seq(S)
           next == [p \in (1..n) \X T |-> Joined(p[2], p[1])]
           Rule(f) == f = [k \in 0..n |-> IF k = 0 THEN <<>> ELSE Joined(f[k - 1], k)]
<1>1. n = Len(order) /\ <<>> \in T /\ \A k \in 1..n : order[k] \in S
    BY EmptySeq
<1>2. ASSUME NEW some \in T, NEW k \in 1..n PROVE Joined(some, k) \in T
    <2> HIDE DEF Seen
    <2> QED
        BY <1>1, <1>2, AppendProperties
<1> DEFINE g == UniqueUpTo(order)
<1>3. Rule(g)
    <2> HIDE DEF T, Joined
    <2>1. next \in [(1..n) \X T -> T]
        BY <1>2
    <2>2. PICK f : Walks(f, n, T, <<>>, next)
        <3> HIDE DEF next
        <3> QED
            BY <1>1, <2>1, WalkDefined
    <2>3. Rule(f)
        <3>1. f \in [0..n -> T] /\ f[0] = <<>> /\ \A k \in 1..n : f[k] = next[<<k, f[k - 1]>>]
            BY <2>2 DEF Walks
        <3>2. \A k \in 0..n : k # 0 => k \in 1..n /\ k - 1 \in 0..n
            OBVIOUS
        <3>0. \A k \in 1..n : f[k - 1] \in T
            BY <3>1, <3>2
        <3>3. \A k \in 1..n : f[k] = Joined(f[k - 1], k)
            BY <3>0, <3>1
        <3> QED
            BY <3>1, <3>2, <3>3
    <2> QED
        BY <1>1, <2>3 DEF UniqueUpTo, Joined
<1> HIDE DEF g
<1>4. g[0] = <<>> /\ \A k \in 1..n : g[k] = Joined(g[k - 1], k)
    <2> HIDE DEF Joined
    <2>1. 0 \in 0..n /\ \A k \in 1..n : k \in 0..n /\ k # 0
        OBVIOUS
    <2> QED
        BY <1>3, <2>1
<1> DEFINE Right(k) == g[k] \in T /\ g[k] # <<>> /\ g[k][1] = order[1]
           bad == {k \in 1..n : ~Right(k)}
<1>5. bad = {}
    <2> SUFFICES ASSUME bad # {} PROVE FALSE
        OBVIOUS
    <2>1. bad \subseteq Nat
        OBVIOUS
    <2> HIDE DEF Right
    <2>2. PICK k \in bad : \A y \in bad : k <= y
        BY <2>1, LeastNumber
    <2>3. k \in 1..n /\ ~Right(k)
        BY <2>2
    <2>4. CASE k = 1
        <3>1. ~Seen(1) /\ 1 \in 1..n
            BY <2>3, <2>4
        <3>2. g[1] = Append(<<>>, order[1])
            <4> HIDE DEF Seen
            <4>0. 1 - 1 = 0
                OBVIOUS
            <4> HIDE DEF Joined
            <4>1. g[1] = Joined(g[0], 1)
                BY <1>4, <3>1, <4>0
            <4> QED
                BY <1>4, <3>1, <4>1 DEF Joined
        <3>3. g[1] = <<order[1]>> /\ order[1] \in S
            BY <1>1, <3>1, <3>2
        <3>4. Right(1)
            BY <3>3 DEF Right
        <3> QED
            BY <2>3, <2>4, <3>4
    <2>5. CASE k # 1
        <3>1. k - 1 \in 1..n /\ Right(k - 1)
            <4>1. k - 1 \in 1..n /\ k - 1 < k
                BY <2>3, <2>5
            <4> QED
                BY <2>2, <4>1
        <3>2. g[k] = Joined(g[k - 1], k)
            BY <1>4, <2>3
        <3> DEFINE old == g[k - 1]
        <3>3. old \in T /\ old # <<>> /\ old[1] = order[1] /\ order[k] \in S
            BY <1>1, <2>3, <3>1 DEF Right
        <3> HIDE DEF old
        <3>4. /\ Append(old, order[k]) \in T /\ Append(old, order[k]) # <<>>
              /\ Append(old, order[k])[1] = order[1]
            <4>1. Len(old) \in Nat /\ Len(old) # 0
                BY <3>3, EmptySeq, LenProperties
            <4> QED
                BY <3>3, <4>1, AppendProperties
        <3> HIDE DEF Seen
        <3>5. g[k] = old \/ g[k] = Append(old, order[k])
            BY <3>2 DEF old
        <3>6. Right(k)
            BY <3>3, <3>4, <3>5 DEF Right
        <3> QED
            BY <2>3, <3>6
    <2> QED
        BY <2>4, <2>5
<1>6. n # 0 => Right(n)
    <2>1. n # 0 => n \in 1..n
        OBVIOUS
    <2> QED
        BY <1>5, <2>1
<1>7. UniqueByBaseName(order) = g[n]
    BY <1>1 DEF UniqueByBaseName, g
<1> QED
    BY <1>4, <1>6, <1>7

-----------------------------------------------------------------------------
\* Four times what n launches add up to.
FourUp(n) == n * (n + 1) * (n + 2) * (n + 3)

LEMMA UnitAdds ==
    ASSUME NEW n \in Nat
    PROVE  /\ Unit(n) \in Nat /\ FourUp(n) \in Nat
           /\ FourUp(n) = Unit(n) * (n + 3)
           /\ FourUp(n + 1) = FourUp(n) + 4 * Unit(n + 1)
           /\ n # 0 => Unit(n) > 0
<1> DEFINE a == n * (n + 1)
           b == a * (n + 2)
<1>1. a \in Nat /\ (n # 0 => a > 0)
    OBVIOUS
<1>2. Unit(n) = b /\ FourUp(n) = b * (n + 3)
    BY DEF Unit, FourUp
<1>3. Unit(n + 1) = (n + 1) * (n + 2) * (n + 3)
    BY DEF Unit
<1>4. FourUp(n + 1) = ((n + 1) * (n + 2) * (n + 3)) * (n + 4)
    BY DEF FourUp
<1>5. FourUp(n) = n * ((n + 1) * (n + 2) * (n + 3))
    BY DEF FourUp
<1> DEFINE u == (n + 1) * (n + 2) * (n + 3)
<1>6. u \in Nat
    OBVIOUS
<1>7. FourUp(n + 1) = FourUp(n) + 4 * u
    <2> HIDE DEF u
    <2> QED
        BY <1>4, <1>5, <1>6 DEF u
<1> HIDE DEF a
<1>8. b \in Nat /\ (n # 0 => b > 0)
    BY <1>1
<1> HIDE DEF b
<1> QED
    BY <1>2, <1>3, <1>7, <1>8

LEMMA Quotient ==
    ASSUME NEW d \in Nat, d > 0, NEW q \in Nat
    PROVE  (d * q) \div d = q
OBVIOUS

LEMMA ProductsGrow ==
    ASSUME NEW a \in Nat, NEW b \in Nat, NEW c \in Nat, NEW d \in Nat, a >= c, b >= d
    PROVE  a * b >= c * d
<1>1. (a - c) \in Nat /\ (b - d) \in Nat
    OBVIOUS
<1>2. (a - c) * b \in Nat /\ c * (b - d) \in Nat
    BY <1>1
<1>3. a * b = c * d + (a - c) * b + c * (b - d)
    OBVIOUS
<1> QED
    BY <1>2, <1>3

\* More than a quarter as many launches again make up for all those before.
LEMMA Outweighs ==
    ASSUME NEW n \in Nat, NEW m \in Nat, m <= n, 4 * (n - m) > m
    PROVE  FourUp(n) > 2 * FourUp(m)
<1> DEFINE a == (4 * n) * (4 * n + 4)
           b == (4 * n + 8) * (4 * n + 12)
           c == (5 * m + 1) * (5 * m + 5)
           d == (5 * m + 9) * (5 * m + 13)
<1>1. a >= c /\ b >= d
    <2>1. 4 * n >= 5 * m + 1 /\ 4 * n + 4 >= 5 * m + 5 /\ 4 * n + 8 >= 5 * m + 9 /\ 4 * n + 12 >= 5 * m + 13
        OBVIOUS
    <2> QED
        BY <2>1, ProductsGrow
<1>2. a \in Nat /\ b \in Nat /\ c \in Nat /\ d \in Nat
    OBVIOUS
<1>3. a * b >= c * d
    <2> HIDE DEF a, b, c, d
    <2> QED
        BY <1>1, <1>2, ProductsGrow
<1>4. a * b = 256 * FourUp(n)
    BY DEF FourUp
<1> DEFINE s == m * m
           t == s * m
           u == t * m
<1>5. s \in Nat /\ t \in Nat /\ u \in Nat
    <2>1. s \in Nat
        OBVIOUS
    <2> HIDE DEF s
    <2>2. t \in Nat
        BY <2>1
    <2> HIDE DEF t
    <2> QED
        BY <2>1, <2>2
<1>6. c * d = 625 * u + 3500 * t + 6350 * s + 4060 * m + 585
    OBVIOUS
<1>7. FourUp(m) = u + 6 * t + 11 * s + 6 * m
    BY DEF FourUp
<1>8. FourUp(n) \in Nat /\ FourUp(m) \in Nat
    BY UnitAdds
<1> HIDE DEF a, b, c, d, s, t, u
<1> QED
    BY <1>2, <1>3, <1>4, <1>5, <1>6, <1>7, <1>8

-----------------------------------------------------------------------------
\* What the scores add up to, and what the last run of launches added to one.
RankTypes ==
    /\ scores \in [Apps -> Nat] /\ launches \in Nat
    /\ run \in [app : Apps, times : Nat] /\ run.times <= launches
Decayed ==
    /\ scale = Unit(launches) /\ 4 * SumOfScores = FourUp(launches)
    /\ 4 * scores[run.app] >= FourUp(launches) - FourUp(launches - run.times)
RankInv == RankTypes /\ Decayed

\* No two applications have the same name.
NamesDiffer == \A a, b \in Apps : BaseName[a] = BaseName[b] /\ (a \in Variants <=> b \in Variants) => a = b

LEMMA InitRanks == SearchInit => RankInv /\ BestFirst
<1> SUFFICES ASSUME SearchInit PROVE RankInv /\ BestFirst
    OBVIOUS
<1>1. /\ scores = [a \in Apps |-> 0] /\ scale = 0 /\ launches = 0
      /\ run \in [app : Apps, times : {0}] /\ appHits = <<>>
    BY DEF SearchInit
<1>2. RankTypes /\ run.times = 0
    BY <1>1 DEF RankTypes
<1>3. FourUp(0) = 0 /\ Unit(0) = 0
    BY DEF FourUp, Unit
<1> DEFINE f == SumsUpTo(scores)
           n == Len(AppOrder)
           bad == {k \in 0..n : f[k] # 0}
<1>4. n \in Nat /\ f[0] = 0 /\ \A k \in 1..n : f[k] = f[k - 1]
    <2>1. scores \in [Apps -> Nat]
        BY <1>2 DEF RankTypes
    <2>2. n \in Nat /\ \A k \in 1..n : scores[AppOrder[k]] = 0
        BY <1>1, OrderKnown
    <2>3. /\ f[0] = 0 /\ \A k \in 0..n : f[k] \in Nat
          /\ \A k \in 1..n : f[k] = f[k - 1] + scores[AppOrder[k]]
        BY <2>1, SumsKnown
    <2> HIDE DEF f, n
    <2>4. ASSUME NEW k \in 1..n PROVE f[k] = f[k - 1]
        <3>1. k - 1 \in 0..n
            BY <2>2
        <3> QED
            BY <2>2, <2>3, <3>1
    <2> QED
        BY <2>2, <2>3, <2>4
<1> HIDE DEF f, n
<1>5. f[n] = 0
    <2> SUFFICES ASSUME f[n] # 0 PROVE FALSE
        OBVIOUS
    <2>1. bad \subseteq Nat /\ n \in bad
        BY <1>4
    <2>2. PICK k \in bad : \A y \in bad : k <= y
        BY <2>1, LeastNumber
    <2>3. k \in 1..n /\ k - 1 \in 0..n /\ ~(k - 1 \in bad)
        BY <1>4, <2>2
    <2> QED
        BY <1>4, <2>2, <2>3
<1>6. SumOfScores = 0
    BY <1>5 DEF SumOfScores, f, n
<1>7. scores[run.app] = 0
    BY <1>1, <1>2 DEF RankTypes
<1>8. Decayed
    BY <1>1, <1>2, <1>3, <1>6, <1>7 DEF Decayed
<1> QED
    BY <1>1, <1>2, <1>8 DEF RankInv, BestFirst

\* _total_launches reads the number of launches off the sum.
LEMMA LaunchesRead == RankInv => TotalLaunches = launches
<1> SUFFICES ASSUME RankInv PROVE TotalLaunches = launches
    OBVIOUS
<1>1. launches \in Nat /\ scale = Unit(launches) /\ 4 * SumOfScores = FourUp(launches)
    BY DEF RankInv, RankTypes, Decayed
<1>2. /\ Unit(launches) \in Nat /\ FourUp(launches) = Unit(launches) * (launches + 3)
      /\ launches # 0 => Unit(launches) > 0
    BY <1>1, UnitAdds
<1>3. CASE launches = 0
    <2>1. Unit(0) = 0
        BY DEF Unit
    <2> QED
        BY <1>1, <1>3, <2>1 DEF TotalLaunches
<1>4. CASE launches # 0
    <2>1. (DecayRate + 1) * SumOfScores = 4 * SumOfScores
        BY DEF DecayRate
    <2>2. (DecayRate + 1) * SumOfScores = scale * (launches + 3) /\ scale \in Nat /\ scale > 0
        BY <1>1, <1>2, <1>4, <2>1
    <2>3. (scale * (launches + 3)) \div scale = launches + 3
        BY <1>1, <2>2, Quotient
    <2>4. TotalLaunches = (launches + 3) - 3
        BY <2>2, <2>3 DEF TotalLaunches, DecayRate
    <2> QED
        BY <1>1, <2>4
<1> QED
    BY <1>3, <1>4

LEMMA BumpKeeps ==
    ASSUME RankInv, NEW app \in Apps, Bump(app), launches' = launches + 1,
           run' = [app |-> app, times |-> IF run.app = app THEN run.times + 1 ELSE 1]
    PROVE  RankInv'
<1> DEFINE u == Unit(launches + 1)
<1>1. /\ launches \in Nat /\ run.times \in Nat /\ run.times <= launches /\ run.app \in Apps
      /\ scores \in [Apps -> Nat]
    BY DEF RankInv, RankTypes
<1>2. scale' = u /\ scores' = [scores EXCEPT ![app] = @ + u]
    BY LaunchesRead DEF Bump
<1>3. /\ u \in Nat /\ FourUp(launches) \in Nat /\ FourUp(launches + 1) = FourUp(launches) + 4 * u
    <2>1. launches + 1 \in Nat
        BY <1>1
    <2> QED
        BY <1>1, <2>1, UnitAdds
<1> HIDE DEF u
<1>4. scores' \in [Apps -> Nat] /\ scores'[app] = scores[app] + u /\ scores[app] \in Nat
    BY <1>1, <1>2, <1>3
<1>5. run'.app = app /\ run'.times = (IF run.app = app THEN run.times + 1 ELSE 1)
      /\ run' \in [app : Apps, times : Nat]
    BY <1>1
<1>6. RankTypes'
    BY <1>1, <1>4, <1>5 DEF RankTypes
<1>7. 4 * SumOfScores' = FourUp(launches')
    <2> DEFINE total == SumsUpTo(scores)[Len(AppOrder)]
    <2>1. SumsUpTo(scores')[Len(AppOrder)] = total + u /\ total \in Nat
        <3>1. Len(AppOrder) \in 0..Len(AppOrder)
            BY OrderKnown
        <3>2. total \in Nat
            BY <1>1, <3>1, SumsKnown
        <3>3. SumsUpTo([scores EXCEPT ![app] = @ + u])[Len(AppOrder)] = total + u
            BY <1>1, <1>3, SumRaised
        <3> QED
            BY <1>2, <3>2, <3>3
    <2>2. SumOfScores = total /\ SumOfScores' = SumsUpTo(scores')[Len(AppOrder)]
        BY DEF SumOfScores
    <2>3. 4 * SumOfScores = FourUp(launches)
        BY DEF RankInv, Decayed
    <2> HIDE DEF total
    <2> QED
        BY <1>3, <2>1, <2>2, <2>3
<1>8. 4 * scores'[run'.app] >= FourUp(launches') - FourUp(launches' - run'.times)
    <2>1. CASE run.app = app
        <3>1. launches' - run'.times = launches - run.times
            BY <1>1, <1>5, <2>1
        <3>2. 4 * scores[app] >= FourUp(launches) - FourUp(launches - run.times)
            BY <2>1 DEF RankInv, Decayed
        <3>3. FourUp(launches - run.times) \in Nat
            <4>1. launches - run.times \in Nat
                BY <1>1
            <4> QED
                BY <4>1, UnitAdds
        <3> QED
            BY <1>3, <1>4, <1>5, <3>1, <3>2, <3>3
    <2>2. CASE run.app # app
        <3>1. launches' - run'.times = launches
            BY <1>1, <1>5, <2>2
        <3> QED
            BY <1>3, <1>4, <1>5, <3>1
    <2> QED
        BY <2>1, <2>2
<1>9. scale' = Unit(launches')
    BY <1>2 DEF u
<1> QED
    BY <1>6, <1>7, <1>8, <1>9 DEF RankInv, Decayed

\* An application opened consistently has more than any other.
LEMMA RunOnTop ==
    ASSUME RankInv, 4 * run.times > launches - run.times, NEW b \in Apps, b # run.app
    PROVE  scores[run.app] > scores[b]
<1> DEFINE n == launches
           m == launches - run.times
           r == scores[run.app]
<1>1. /\ n \in Nat /\ m \in Nat /\ m <= n /\ 4 * (n - m) > m /\ run.app \in Apps /\ r \in Nat /\ scores[b] \in Nat
      /\ scores \in [Apps -> Nat]
    BY DEF RankInv, RankTypes
<1>2. r + scores[b] <= SumOfScores
    BY <1>1, SumCovers DEF SumOfScores
<1>3. 4 * SumOfScores = FourUp(n) /\ 4 * r >= FourUp(n) - FourUp(m)
    BY DEF RankInv, Decayed
<1>4. SumOfScores \in Nat
    <2>1. Len(AppOrder) \in 0..Len(AppOrder)
        BY OrderKnown
    <2> QED
        BY <1>1, <2>1, SumsKnown DEF SumOfScores
<1> HIDE DEF n, m, r
<1>5. FourUp(n) > 2 * FourUp(m) /\ FourUp(n) \in Nat /\ FourUp(m) \in Nat
    BY <1>1, Outweighs, UnitAdds
<1>6. r > scores[b]
    BY <1>1, <1>2, <1>3, <1>4, <1>5
<1> QED
    BY <1>6 DEF r

\* The first that is found: nothing that was found ranks before it.
LEMMA FirstFound ==
    ASSUME NEW name, SearchApps(name), appHits' # <<>>
    PROVE  /\ appHits'[1] \in Apps /\ Tier(appHits'[1], name) < 9
           /\ \A a \in Apps : Tier(a, name) < 9 /\ a # appHits'[1] => ~RanksBefore(a, appHits'[1], name, usage')
<1> DEFINE found == {a \in Apps : Tier(a, name) < 9}
           c == Cardinality(found)
<1>1. IsFiniteSet(found) /\ c \in Nat
    BY SearchAssumption, FS_Subset, FS_CardinalityType
<1> HIDE DEF found
<1>2. PICK order \in SetToSeqs(found) :
          /\ \A i, j \in DOMAIN order : i < j => ~RanksBefore(order[j], order[i], name, usage')
          /\ appHits' = UniqueByBaseName(order)
    BY DEF SearchApps, found
<1>3. order \in [1..c -> found] /\ \A i, j \in 1..c : i # j => order[i] # order[j]
    BY DEF SetToSeqs
<1>4. order \in Injection(1..c, found)
    BY <1>3 DEF Injection, IsInjective
<1>5. order \in Surjection(1..c, found)
    <2>1. Cardinality(1..c) = c
        BY <1>1, FS_Interval
    <2> QED
        BY <1>1, <1>4, <2>1, FS_Injection
<1> HIDE DEF c
<1>6. c # 0 /\ appHits'[1] = order[1]
    BY <1>1, <1>2, <1>3, UniqueHead
<1>7. 1 \in 1..c /\ order[1] \in found
    BY <1>1, <1>3, <1>6
<1>8. ASSUME NEW a \in found, a # order[1] PROVE ~RanksBefore(a, order[1], name, usage')
    <2>1. PICK j \in 1..c : order[j] = a
        BY <1>5 DEF Surjection
    <2>2. j \in DOMAIN order /\ 1 \in DOMAIN order /\ 1 < j
        BY <1>1, <1>3, <1>7, <1>8, <2>1
    <2> QED
        BY <1>2, <2>1, <2>2
<1> QED
    BY <1>6, <1>7, <1>8 DEF found

LEMMA SearchBestFirst ==
    ASSUME RankInv, NamesDiffer, NEW name \in NamesTyped \union {NoName}, SearchApps(name)
    PROVE  BestFirst'
<1> SUFFICES ASSUME appHits' # <<>>
             PROVE  /\ name = NoName => \A a \in Apps : ~GnomeAbove(a, appHits'[1], usage')
                    /\ (/\ name = NoName /\ 4 * run.times > launches - run.times
                        /\ ~GnomeAbove(appHits'[1], run.app, usage')) => appHits'[1] = run.app
                    /\ \A a \in Apps : Exact(a, name) => appHits'[1] = a
    BY DEF SearchApps, BestFirst, Exact, GnomeAbove
<1> DEFINE first == appHits'[1]
           table == usage'
<1>1. /\ first \in Apps /\ Tier(first, name) < 9
      /\ \A a \in Apps : Tier(a, name) < 9 /\ a # first => ~RanksBefore(a, first, name, table)
    BY FirstFound
<1>0. \A a \in DOMAIN table : table[a] \in Nat
    BY SearchAssumption DEF SearchApps, NoUsage
<1> HIDE DEF first, table
<1>2. \A a \in Apps : Exact(a, name) \in BOOLEAN
    BY DEF Exact
<1>3. ASSUME name = NoName, NEW a \in Apps, a # first, UsedMore(a, first, table) PROVE FALSE
    <2>1. \A x \in Apps : Tier(x, name) = 0 /\ ~Exact(x, name)
        BY <1>3 DEF NoName, Tier, Exact
    <2>2. RanksBefore(a, first, name, table)
        <3>1. Tier(a, name) = Tier(first, name) /\ Exact(a, name) = Exact(first, name)
            BY <1>1, <1>2, <1>3, <2>1
        <3> QED
            BY <1>3, <3>1 DEF RanksBefore
    <2>3. Tier(a, name) < 9
        BY <1>3, <2>1
    <2> QED
        BY <1>1, <1>3, <2>2, <2>3
<1>5. ASSUME name = NoName, NEW a \in Apps, GnomeAbove(a, first, table) PROVE FALSE
    <2>1. CASE a = first
        BY <1>0, <1>5, <2>1 DEF GnomeAbove
    <2>2. CASE a # first
        BY <1>3, <1>5, <2>2 DEF UsedMore
    <2> QED
        BY <2>1, <2>2
<1>6. ASSUME name = NoName, 4 * run.times > launches - run.times, ~GnomeAbove(first, run.app, table), first # run.app
      PROVE  FALSE
    <2>1. run.app \in Apps /\ scores[run.app] > scores[first]
        BY <1>1, <1>6, RunOnTop DEF RankInv, RankTypes
    <2> QED
        BY <1>3, <1>6, <2>1 DEF UsedMore
<1>4. ASSUME NEW a \in Apps, Exact(a, name), first # a PROVE FALSE
    <2>1. /\ BaseName[a] = name.base /\ name.kind \in {"base", "full"}
          /\ name.kind = "full" <=> a \in Variants
        BY <1>4 DEF Exact
    <2>2. Tier(a, name) = 0
        BY <2>1 DEF Tier
    <2>3. ~RanksBefore(a, first, name, table)
        BY <1>1, <1>4, <2>2
    <2>4. Tier(first, name) = 0
        <3>1. Tier(first, name) \in {0, 9}
            BY <2>1 DEF Tier
        <3> QED
            BY <1>1, <3>1
    <2>5. Exact(first, name)
        <3> SUFFICES ASSUME ~Exact(first, name) PROVE FALSE
            OBVIOUS
        <3>1. Exact(a, name) # Exact(first, name) /\ Tier(a, name) = Tier(first, name)
            BY <1>2, <1>4, <2>2, <2>4
        <3>2. RanksBefore(a, first, name, table)
            BY <1>4, <3>1 DEF RanksBefore
        <3> QED
            BY <2>3, <3>2
    <2>6. BaseName[first] = BaseName[a] /\ (first \in Variants <=> a \in Variants)
        BY <2>1, <2>5 DEF Exact
    <2> QED
        BY <1>1, <1>4, <2>6 DEF NamesDiffer
<1> QED
    BY <1>4, <1>5, <1>6 DEF first, table

LEMMA SearchNextKept ==
    ASSUME RankInv, BestFirst, NamesDiffer, [SearchNext]_searchVars
    PROVE  RankInv' /\ BestFirst'
<1>1. ASSUME NEW app \in Apps, LaunchRow(app) PROVE RankInv' /\ BestFirst'
    <2>1. appHits' = <<>>
        BY <1>1 DEF LaunchRow
    <2>2. CASE Bump(app) /\ launches' = launches + 1
               /\ run' = [app |-> app, times |-> IF run.app = app THEN run.times + 1 ELSE 1]
        BY <2>1, <2>2, BumpKeeps DEF BestFirst
    <2>3. CASE UNCHANGED <<scores, scale, launches, run>>
        BY <2>1, <2>3 DEF BestFirst, RankInv, RankTypes, Decayed, SumOfScores
    <2> QED
        BY <1>1, <2>2, <2>3 DEF LaunchRow
<1>2. ASSUME NEW name \in NamesTyped \union {NoName}, SearchApps(name) PROVE RankInv' /\ BestFirst'
    <2>1. UNCHANGED <<scores, scale, launches, run>>
        BY <1>2 DEF SearchApps
    <2> QED
        BY <1>2, <2>1, SearchBestFirst DEF RankInv, RankTypes, Decayed, SumOfScores
<1>3. CASE UNCHANGED searchVars
    BY <1>3 DEF searchVars, BestFirst, RankInv, RankTypes, Decayed, SumOfScores
<1> QED
    BY <1>1, <1>2, <1>3 DEF SearchNext

\* For any applications of different names, any number of launches and whatever
\* GNOME counted at each search: on top of an empty query's list is one that GNOME
\* puts below none, and the one that was opened consistently unless GNOME says that
\* the other is used more; one whose exact name is typed is shown first
\* (app_rankings.py, _usage_sort_key, home_apps, match_apps).
THEOREM AlwaysBestFirst ==
    ASSUME NamesDiffer
    PROVE  SearchSpec => []BestFirst
<1>1. SearchInit => RankInv /\ BestFirst
    BY InitRanks
<1>2. RankInv /\ BestFirst /\ [SearchNext]_searchVars => RankInv' /\ BestFirst'
    BY SearchNextKept
<1> QED
    BY <1>1, <1>2, PTL DEF SearchSpec

-----------------------------------------------------------------------------
(* AppWindows, for any catalog of applications that can be told apart.         *)

\* An application's class words are its own; one that D-Bus starts shows that it
\* is unique, or has a way of its own to open a window.
ToldApart ==
    /\ \A a, b \in CatalogApps : Catalog[a].needles \cap Catalog[b].tokens # {} <=> a = b
    /\ \A a \in CatalogApps : Catalog[a].dbus => Catalog[a].newWindow \/ Catalog[a].unique \/ Catalog[a].single

AppsInv ==
    /\ sessionKind \in Sessions /\ appRows \subseteq AppRow
    /\ lastWindow \in 0..MaxWindows
    /\ \A w \in opened : w.id \in 1..MaxWindows /\ w.app \in CatalogApps

LEMMA NewWindowKept ==
    ASSUME AppsInv, NEW a \in CatalogApps, NEW skip, NewWindow(a, skip)
    PROVE  /\ lastWindow' = lastWindow + 1 /\ lastWindow' \in 0..MaxWindows
           /\ \A w \in opened' : w.id \in 1..MaxWindows /\ w.app \in CatalogApps
           /\ \E w \in opened' : w.id = onTop' /\ w.app = a
<1> DEFINE new == [id |-> lastWindow + 1, app |-> a, skip |-> skip]
<1>1. /\ lastWindow < MaxWindows /\ lastWindow' = lastWindow + 1 /\ onTop' = lastWindow + 1
      /\ opened' = opened \cup {new}
    BY DEF NewWindow
<1>2. new.id = lastWindow + 1 /\ new.app = a
    OBVIOUS
<1> HIDE DEF new
<1>3. lastWindow \in Nat /\ lastWindow + 1 \in 1..MaxWindows /\ lastWindow + 1 \in 0..MaxWindows
    BY <1>1, WindowBound DEF AppsInv
<1>4. \A w \in opened' : w.id \in 1..MaxWindows /\ w.app \in CatalogApps
    BY <1>1, <1>2, <1>3 DEF AppsInv
<1> QED
    BY <1>1, <1>2, <1>3, <1>4

\* The first and the last of some windows are among them.
LEMMA WindowChosen ==
    ASSUME NEW ws, ws # {}, \A w \in ws : w.id \in 1..MaxWindows
    PROVE  EarliestOf(ws) \in ws /\ LatestOf(ws) \in ws
<1>1. \E w \in ws : \A v \in ws : w.id <= v.id
    <2> DEFINE ids == {w.id : w \in ws}
    <2>1. ids \subseteq Nat /\ ids # {}
        OBVIOUS
    <2> HIDE DEF ids
    <2>2. PICK i \in ids : \A j \in ids : i <= j
        BY <2>1, LeastNumber
    <2> QED
        BY <2>2 DEF ids
<1>2. \E w \in ws : \A v \in ws : v.id <= w.id
    <2> DEFINE rest == {MaxWindows - w.id : w \in ws}
    <2>1. rest \subseteq Nat /\ rest # {}
        BY WindowBound
    <2> HIDE DEF rest
    <2>2. PICK i \in rest : \A j \in rest : i <= j
        BY <2>1, LeastNumber
    <2>3. PICK w \in ws : i = MaxWindows - w.id
        BY <2>2 DEF rest
    <2>4. \A v \in ws : MaxWindows - w.id <= MaxWindows - v.id
        BY <2>2, <2>3 DEF rest
    <2>5. \A v \in ws : v.id <= w.id
        BY <2>4, WindowBound
    <2> QED
        BY <2>5
<1> QED
    BY <1>1, <1>2 DEF EarliestOf, LatestOf

LEMMA StartLands ==
    ASSUME AppsInv, NEW a \in CatalogApps, AppStarted(a)
    PROVE  /\ lastWindow' \in 0..MaxWindows
           /\ \A w \in opened' : w.id \in 1..MaxWindows /\ w.app \in CatalogApps
           /\ \E w \in opened' : w.id = onTop' /\ w.app = a
           /\ ~OneInstance(a) \/ WindowsOf(a) = {} => lastWindow' = lastWindow + 1
<1>1. CASE OneInstance(a) /\ WindowsOf(a) # {}
    <2>1. Raise(LatestOf(WindowsOf(a)))
        BY <1>1 DEF AppStarted
    <2>2. LatestOf(WindowsOf(a)) \in WindowsOf(a)
        BY <1>1, WindowChosen DEF WindowsOf, AppsInv
    <2> QED
        BY <1>1, <2>1, <2>2 DEF Raise, WindowsOf, AppsInv
<1>2. CASE ~(OneInstance(a) /\ WindowsOf(a) # {})
    <2>1. NewWindow(a, FALSE)
        BY <1>2 DEF AppStarted
    <2> QED
        BY <2>1, NewWindowKept
<1> QED
    BY <1>1, <1>2

LEMMA LaunchLands ==
    ASSUME AppsInv, NEW a \in CatalogApps, NEW raiseExisting \in BOOLEAN, LaunchApp(a, raiseExisting)
    PROVE  /\ lastWindow' \in 0..MaxWindows
           /\ \A w \in opened' : w.id \in 1..MaxWindows /\ w.app \in CatalogApps
           /\ \E w \in opened' : w.id = onTop' /\ w.app = a
           /\ WindowsOf(a) = {} \/ (~raiseExisting /\ ~OneInstance(a)) => lastWindow' = lastWindow + 1
<1>1. CASE raiseExisting /\ (raiseStarted \/ Catalog[a].single) /\ TryRaiseApp(a)
    <2>1. Raise(LatestOf(WindowsOf(a))) /\ WindowsOf(a) # {}
        BY <1>1 DEF LaunchApp, TryRaiseApp
    <2>2. LatestOf(WindowsOf(a)) \in WindowsOf(a)
        BY <2>1, WindowChosen DEF WindowsOf, AppsInv
    <2> QED
        BY <1>1, <2>1, <2>2 DEF Raise, WindowsOf, AppsInv
<1>2. CASE ~(raiseExisting /\ (raiseStarted \/ Catalog[a].single) /\ TryRaiseApp(a))
    <2>1. AppStarted(a)
        BY <1>2 DEF LaunchApp
    <2> QED
        BY <2>1, StartLands
<1> QED
    BY <1>1, <1>2

\* The windows that match an application are its windows.
LEMMA OwnWindows ==
    ASSUME AppsInv, ToldApart, NEW a \in CatalogApps
    PROVE  MatchingWindows(a, opened) = WindowsOf(a)
<1>1. ASSUME NEW w \in opened PROVE AppMatchesWindow(a, w) <=> w.app = a
    <2>1. w.app \in CatalogApps
        BY DEF AppsInv
    <2> QED
        BY <2>1 DEF AppMatchesWindow, ToldApart
<1> QED
    BY <1>1 DEF MatchingWindows, WindowsOf

LEMMA SwitchLands ==
    ASSUME AppsInv, ToldApart, "ext" \notin Sessions, NEW a \in CatalogApps, SwitchOrLaunch(a)
    PROVE  /\ lastWindow' \in 0..MaxWindows
           /\ \A w \in opened' : w.id \in 1..MaxWindows /\ w.app \in CatalogApps
           /\ \E w \in opened' : w.id = onTop' /\ w.app = a /\ (WindowsOf(a) # {} => w \in opened)
<1>1. MatchingWindows(a, opened) = WindowsOf(a)
    BY OwnWindows
<1>2. CASE WindowsOf(a) # {}
    <2> DEFINE mine == MatchingWindows(a, opened)
               listed == {w \in mine : ~w.skip}
               w == FrontWindow(a, opened)
    <2>1. \A v \in mine : v.id \in 1..MaxWindows
        BY <1>1 DEF WindowsOf, AppsInv
    <2>2. w = IF listed # {} THEN EarliestOf(listed) ELSE EarliestOf(mine)
        BY DEF FrontWindow
    <2> HIDE DEF w
    <2>3. w \in mine
        <3> HIDE DEF mine
        <3>1. CASE listed # {}
            <4>1. EarliestOf(listed) \in listed
                BY <2>1, <3>1, WindowChosen
            <4> QED
                BY <2>2, <3>1, <4>1
        <3>2. CASE listed = {}
            <4>1. EarliestOf(mine) \in mine
                BY <1>1, <1>2, <2>1, WindowChosen DEF mine
            <4> QED
                BY <2>2, <3>2, <4>1
        <3> QED
            BY <3>1, <3>2
    <2>4. FocusOpenWindows(a, opened) = {w}
        BY <1>1, <1>2 DEF FocusOpenWindows, w
    <2>5. BringToFront(w)
        BY <2>4 DEF SwitchOrLaunch
    <2>6. CanFocus
        BY DEF CanFocus, AppsInv
    <2>7. Raise(w)
        BY <2>5, <2>6 DEF BringToFront
    <2>8. w \in opened /\ w.app = a
        BY <1>1, <2>3 DEF WindowsOf
    <2> QED
        BY <2>7, <2>8 DEF Raise, AppsInv
<1>3. CASE WindowsOf(a) = {}
    <2>1. FocusOpenWindows(a, opened) = {}
        BY <1>1, <1>3 DEF FocusOpenWindows
    <2>2. LaunchApp(a, TRUE)
        BY <2>1 DEF SwitchOrLaunch
    <2> QED
        BY <1>3, <2>2, LaunchLands
<1> QED
    BY <1>2, <1>3

LEMMA NewLands ==
    ASSUME AppsInv, ToldApart, NEW a \in CatalogApps, OpenNewWindow(a)
    PROVE  /\ lastWindow' \in 0..MaxWindows
           /\ \A w \in opened' : w.id \in 1..MaxWindows /\ w.app \in CatalogApps
           /\ \E w \in opened' : w.id = onTop' /\ w.app = a
           /\ (WindowsOf(a) = {} \/ CanOpenNewWindow(a, opened)) /\ ~OnlyByExportedAction(a)
              => lastWindow' = lastWindow + 1
<1>1. CASE Catalog[a].newWindow
    <2>1. NewWindow(a, FALSE)
        BY <1>1 DEF OpenNewWindow
    <2> QED
        BY <2>1, NewWindowKept
<1>2. CASE ~Catalog[a].newWindow
    <2>1. LaunchApp(a, FALSE)
        BY <1>2 DEF OpenNewWindow
    <2>2. ASSUME WindowsOf(a) # {}, CanOpenNewWindow(a, opened), ~OnlyByExportedAction(a) PROVE ~OneInstance(a)
        <3>1. CASE MuxerHasNewWindow(a, opened)
            BY <1>2, <2>2, <3>1 DEF OnlyByExportedAction
        <3>2. CASE ~MuxerHasNewWindow(a, opened)
            <4>1. ~Catalog[a].single /\ ~AppIsUniqueGtk(a, opened)
                BY <1>2, <2>2, <3>2 DEF CanOpenNewWindow
            <4>2. ~Catalog[a].unique
                BY <2>2, <4>1, OwnWindows DEF AppIsUniqueGtk, AppRuns
            <4>3. ~Catalog[a].dbus
                BY <1>2, <4>1, <4>2 DEF ToldApart
            <4> QED
                BY <4>1, <4>2, <4>3 DEF OneInstance
        <3> QED
            BY <3>1, <3>2
    <2> QED
        BY <2>1, <2>2, LaunchLands
<1> QED
    BY <1>1, <1>2

\* What a step does that activates a row.
Lands ==
    /\ used' # NoRow =>
        \E w \in opened' :
            /\ w.id = onTop' /\ w.app = used'.app
            /\ used'.kind # "new" /\ WindowsOf(used'.app) # {} => w \in opened
    /\ OffersWhatItOpens(used') \/ OnlyByExportedAction(used'.app)

LEMMA UseLands ==
    ASSUME AppsInv, ToldApart, "ext" \notin Sessions, NEW r \in appRows, UseRow(r)
    PROVE  AppsInv' /\ Lands
<1>1. r.app \in CatalogApps /\ r.kind \in {"start", "switch", "new"}
    BY DEF AppsInv, AppRow
<1>2. used' = r /\ appRows' = {} /\ sessionKind' = sessionKind
    BY DEF UseRow
<1>3. CASE r.kind = "new"
    <2>1. OpenNewWindow(r.app)
        BY <1>3 DEF UseRow
    <2> QED
        BY <1>1, <1>2, <1>3, <2>1, NewLands DEF AppsInv, Lands, OffersWhatItOpens
<1>4. CASE r.kind # "new"
    <2>1. SwitchOrLaunch(r.app)
        BY <1>4 DEF UseRow
    <2> QED
        BY <1>1, <1>2, <1>4, <2>1, SwitchLands DEF AppsInv, Lands, OffersWhatItOpens
<1> QED
    BY <1>3, <1>4

LEMMA AppsNextLands ==
    ASSUME AppsInv, ToldApart, "ext" \notin Sessions, AppsNext
    PROVE  AppsInv' /\ Lands
<1>1. used' = NoRow => Lands
    BY DEF Lands, NoRow, OffersWhatItOpens
<1>2. ASSUME NEW found \in SUBSET CatalogApps, SearchAppRows(found) PROVE AppsInv' /\ Lands
    <2>1. RowsOfApps(found) \subseteq AppRow
        BY DEF RowsOfApps, AppRow
    <2> QED
        BY <1>1, <1>2, <2>1 DEF SearchAppRows, AppsInv
<1>3. CASE RefreshList
    BY <1>1, <1>3 DEF RefreshList, AppsInv
<1>4. ASSUME NEW r \in appRows, UseRow(r) PROVE AppsInv' /\ Lands
    BY <1>4, UseLands
<1>5. ASSUME NEW a \in CatalogApps, NEW skip \in BOOLEAN, UserOpens(a, skip) PROVE AppsInv' /\ Lands
    <2>1. NewWindow(a, skip)
        BY <1>5 DEF UserOpens
    <2> QED
        BY <1>1, <1>5, <2>1, NewWindowKept DEF UserOpens, AppsInv
<1>6. ASSUME NEW w \in opened, UserCloses(w) PROVE AppsInv' /\ Lands
    BY <1>1, <1>6 DEF UserCloses, AppsInv
<1> QED
    BY <1>2, <1>3, <1>4, <1>5, <1>6 DEF AppsNext

\* Where a tool of the session can focus a window, and applications can be told
\* apart: a click on an application's row leaves a window of it on top, one it had
\* if it had one, and a row that offers a new window opens one, unless it is offered
\* for nothing but an action that the application exports (focus_open_windows,
\* launch_app, can_open_new_window, open_new_window).
THEOREM AppRowsAlwaysAct ==
    ASSUME "ext" \notin Sessions, ToldApart
    PROVE  AppsSpec => AppRowsAct
<1>1. AppsInit => AppsInv
    BY WindowBound DEF AppsInit, AppsInv
<1>2. AppsInv /\ [AppsNext]_appVars => AppsInv'
    <2>1. ASSUME AppsInv, UNCHANGED appVars PROVE AppsInv'
        BY <2>1 DEF appVars, AppsInv
    <2> QED
        BY <2>1, AppsNextLands
<1>3. AppsInv /\ [AppsNext]_appVars => [Lands]_appVars
    BY AppsNextLands
<1>4. [Lands]_appVars =>
        [used' # NoRow =>
            \E w \in opened' :
                /\ w.id = onTop' /\ w.app = used'.app
                /\ used'.kind # "new" /\ WindowsOf(used'.app) # {} => w \in opened]_appVars
    BY DEF Lands
<1>5. [Lands]_appVars =>
        [OffersWhatItOpens(used') \/ OnlyByExportedAction(used'.app)]_appVars
    BY DEF Lands
<1> QED
    BY <1>1, <1>2, <1>3, <1>4, <1>5, PTL DEF AppsSpec, AppRowsAct, ClickLands, NewMeansNew
-----------------------------------------------------------------------------
(* WaylandClient: what the client makes of a log is what the compositor meant.  *)

HandleRows == [id : Nat, coord : Int, name : Nat, gone : BOOLEAN, done : BOOLEAN]
Logs == Seq(WireMessages)

Is(e, of, id) == e.of = of /\ e.id = id
Ever(log, of, id) == \E i \in DOMAIN log : Is(log[i], of, id)

\* What one message does to the rows.
LEMMA NotedRows ==
    ASSUME NEW handles \in Seq(HandleRows), NEW e \in WireMessages
    PROVE  /\ Noted(handles, e) \in Seq(HandleRows)
           /\ e.of = "new" => /\ Noted(handles, e) = Append(handles, Handle(e.id))
                              /\ Len(Noted(handles, e)) = Len(handles) + 1
           /\ e.of # "new" => /\ Len(Noted(handles, e)) = Len(handles)
                              /\ \A k \in 1..Len(handles) :
                                    LET h == handles[k]
                                        n == Noted(handles, e)[k]
                                    IN  /\ n.id = h.id
                                        /\ n.gone <=> h.gone \/ Is(e, "gone", h.id)
                                        /\ ~h.gone => (n.done <=> h.done \/ Is(e, "batch", h.id))
                                        /\ ~h.gone /\ Is(e, "info", h.id) => n.coord = e.coord /\ n.name = e.name
                                        /\ ~Is(e, "info", h.id) => n.coord = h.coord /\ n.name = h.name
<1>1. Len(handles) \in Nat /\ DOMAIN handles = 1..Len(handles) /\ \A k \in 1..Len(handles) : handles[k] \in HandleRows
    BY ElementOfSeq, LenProperties
<1>2. e.id \in Nat /\ e.coord \in Int /\ e.name \in Nat
    BY DEF WireMessages
<1>3. CASE e.of = "new"
    <2>1. Handle(e.id) \in HandleRows
        BY <1>2 DEF Handle, HandleRows
    <2>2. Noted(handles, e) = Append(handles, Handle(e.id))
        BY <1>3 DEF Noted
    <2> QED
        BY <1>3, <2>1, <2>2, AppendProperties
<1>4. CASE e.of # "new"
    <2> DEFINE Mine(h) == h.id = e.id /\ (protocol = "toplevels" => ~h.gone)
               n(k) == IF Mine(handles[k]) THEN Marked(handles[k], e) ELSE handles[k]
               new == [k \in 1..Len(handles) |-> n(k)]
    <2>1. Noted(handles, e) = new
        BY <1>1, <1>4 DEF Noted
    <2>2. \A h \in HandleRows :
            /\ Marked(h, e) \in HandleRows /\ Marked(h, e).id = h.id
            /\ Marked(h, e).gone <=> h.gone \/ e.of = "gone"
            /\ Marked(h, e).done <=> h.done \/ e.of = "batch"
            /\ e.of = "info" => Marked(h, e).coord = e.coord /\ Marked(h, e).name = e.name
            /\ e.of # "info" => Marked(h, e).coord = h.coord /\ Marked(h, e).name = h.name
        <3> SUFFICES ASSUME NEW h \in HandleRows
                     PROVE  /\ Marked(h, e) \in HandleRows /\ Marked(h, e).id = h.id
                            /\ Marked(h, e).gone <=> h.gone \/ e.of = "gone"
                            /\ Marked(h, e).done <=> h.done \/ e.of = "batch"
                            /\ e.of = "info" => Marked(h, e).coord = e.coord /\ Marked(h, e).name = e.name
                            /\ e.of # "info" => Marked(h, e).coord = h.coord /\ Marked(h, e).name = h.name
            OBVIOUS
        <3>1. CASE e.of = "info"
            <4>1. Marked(h, e) = [h EXCEPT !.coord = e.coord, !.name = e.name]
                BY <3>1 DEF Marked
            <4> QED
                BY <1>2, <3>1, <4>1 DEF HandleRows
        <3>2. CASE e.of = "gone"
            <4>1. Marked(h, e) = [h EXCEPT !.gone = TRUE]
                BY <3>2 DEF Marked
            <4> QED
                BY <3>2, <4>1 DEF HandleRows
        <3>3. CASE e.of = "batch"
            <4>1. Marked(h, e) = [h EXCEPT !.done = TRUE]
                BY <3>3 DEF Marked
            <4> QED
                BY <3>3, <4>1 DEF HandleRows
        <3>4. CASE e.of \notin {"info", "gone", "batch"}
            BY <3>4 DEF Marked
        <3> QED
            BY <3>1, <3>2, <3>3, <3>4
    <2>3. \A k \in 1..Len(handles) :
            /\ n(k) \in HandleRows /\ n(k).id = handles[k].id
            /\ n(k).gone <=> handles[k].gone \/ Is(e, "gone", handles[k].id)
            /\ ~handles[k].gone => (n(k).done <=> handles[k].done \/ Is(e, "batch", handles[k].id))
            /\ ~handles[k].gone /\ Is(e, "info", handles[k].id) => n(k).coord = e.coord /\ n(k).name = e.name
            /\ ~Is(e, "info", handles[k].id) => n(k).coord = handles[k].coord /\ n(k).name = handles[k].name
        <3> QED
            BY <1>1, <2>2 DEF Is
    <2> HIDE DEF n
    <2>4. new \in Seq(HandleRows) /\ Len(new) = Len(handles)
        <3>1. new \in [1..Len(handles) -> HandleRows]
            BY <2>3
        <3> QED
            BY <1>1, <3>1, IsASeq, LenProperties
    <2> QED
        BY <1>4, <2>1, <2>3, <2>4
<1> QED
    BY <1>3, <1>4

\* The rows are those of a walk over the log.
LEMMA HandlesKnown ==
    ASSUME NEW log \in Logs
    PROVE  \E f \in [0..Len(log) -> Seq(HandleRows)] :
              /\ f[0] = <<>> /\ \A n \in 1..Len(log) : f[n] = Noted(f[n - 1], log[n])
              /\ Handles(log) = f[Len(log)]
<1> DEFINE m == Len(log)
           S == Seq(HandleRows)
           next == [p \in (1..m) \X S |-> Noted(p[2], log[p[1]])]
           Rule(g) == g = [n \in 0..m |-> IF n = 0 THEN <<>> ELSE Noted(g[n - 1], log[n])]
           after == CHOOSE g : Rule(g)
<1>1. m \in Nat /\ \A n \in 1..m : log[n] \in WireMessages
    BY ElementOfSeq, LenProperties DEF Logs
<1>2. next \in [(1..m) \X S -> S] /\ <<>> \in S
    BY <1>1, NotedRows, EmptySeq
<1>3. PICK f : Walks(f, m, S, <<>>, next)
    <2> HIDE DEF S, next
    <2> QED
        BY <1>1, <1>2, WalkDefined
<1>4. \A n \in 1..m : f[n] = Noted(f[n - 1], log[n])
    <2>1. \A n \in 1..m : f[n - 1] \in S
        BY <1>1, <1>3 DEF Walks
    <2> QED
        BY <1>3, <2>1 DEF Walks
<1>5. Rule(f)
    <2>1. \A n \in 0..m : n # 0 => n \in 1..m
        BY <1>1
    <2> QED
        BY <1>3, <1>4, <2>1 DEF Walks
<1>6. Rule(after)
    BY <1>5
<1>7. Handles(log) = after[m]
    BY DEF Handles
<1> HIDE DEF after, m
<1>8. after[0] = <<>> /\ \A n \in 1..m : after[n] = Noted(after[n - 1], log[n])
    BY <1>1, <1>6
<1>9. \A n \in 0..m : after[n] \in S
    <2>1. \A n \in 1..m : after[n - 1] \in S => after[n] = next[<<n, after[n - 1]>>]
        BY <1>8
    <2> HIDE DEF S, next
    <2>2. after[0] \in S
        BY <1>2, <1>8
    <2> QED
        BY <1>1, <1>2, <2>1, <2>2, WalkStays
<1>10. after \in [0..m -> S]
    BY <1>6, <1>9
<1> QED
    BY <1>7, <1>8, <1>10 DEF m

\* The compositor announces things as they were made, those in order are not gone,
\* and what is not in order is.
NewsRise(log) ==
    \A i, j \in DOMAIN log : i < j /\ log[i].of = "new" /\ log[j].of = "new" => log[i].id < log[j].id
Named(log, order) ==
    /\ \A id \in Members(order) : Ever(log, "new", id) /\ ~Ever(log, "gone", id)
    /\ \A i \in DOMAIN log : log[i].of = "new" /\ log[i].id \notin Members(order)
          => \E j \in DOMAIN log : i < j /\ Is(log[j], "gone", log[i].id)
\* Each was told completely, and the last that was said of it is true.
Seen(sch, id, order) ==
    [of |-> "info", id |-> id, coord |-> IF sch = "coords" THEN Place(id, order) - 1 ELSE -1,
     name |-> IF sch = "numbers" THEN id ELSE 0]
Told(sch, log, order) ==
    \A id \in Members(order) : \E i, j, p \in DOMAIN log :
        /\ i < j /\ i < p /\ Is(log[i], "new", id) /\ Is(log[j], "batch", id)
        /\ log[p] = Seen(sch, id, order)
        /\ \A q \in DOMAIN log : p < q /\ Is(log[q], "info", id) => log[q] = log[p]

\* The rows after n messages.
RowsMean(log, n, handles) ==
    /\ \A k, l \in 1..Len(handles) : k < l => handles[k].id < handles[l].id
    /\ \A k \in 1..Len(handles) : \E i \in 1..n : Is(log[i], "new", handles[k].id)
    /\ \A i \in 1..n : log[i].of = "new" => \E k \in 1..Len(handles) : handles[k].id = log[i].id
    /\ \A k \in 1..Len(handles) : handles[k].gone => Ever(log, "gone", handles[k].id)
    /\ \A i, j \in 1..n, k \in 1..Len(handles) :
          i < j /\ Is(log[i], "new", handles[k].id) /\ Is(log[j], "gone", handles[k].id) => handles[k].gone
    /\ \A i, j \in 1..n, k \in 1..Len(handles) :
          i < j /\ Is(log[i], "new", handles[k].id) /\ Is(log[j], "batch", handles[k].id)
          /\ ~Ever(log, "gone", handles[k].id) => handles[k].done
    /\ \A i, p \in 1..n, k \in 1..Len(handles) :
          i < p /\ Is(log[i], "new", handles[k].id) /\ Is(log[p], "info", handles[k].id)
          /\ ~Ever(log, "gone", handles[k].id)
          /\ (\A q \in 1..n : p < q /\ Is(log[q], "info", handles[k].id) => log[q] = log[p])
          => handles[k].coord = log[p].coord /\ handles[k].name = log[p].name

LEMMA LogKnown ==
    ASSUME NEW log \in Logs
    PROVE  /\ Len(log) \in Nat /\ DOMAIN log = 1..Len(log) /\ \A i \in 1..Len(log) : log[i] \in WireMessages
           /\ \A i \in 1..Len(log) : log[i].id \in Nat
<1>1. \A i \in 1..Len(log) : log[i] \in WireMessages
    BY ElementOfSeq DEF Logs
<1>2. Len(log) \in Nat /\ DOMAIN log = 1..Len(log)
    BY LenProperties DEF Logs
<1> QED
    BY <1>1, <1>2 DEF WireMessages

LEMMA RowsStayMeant ==
    ASSUME NEW log \in Logs, NewsRise(log), NEW n \in 1..Len(log), NEW handles \in Seq(HandleRows),
           RowsMean(log, n - 1, handles)
    PROVE  RowsMean(log, n, Noted(handles, log[n]))
<1> DEFINE e == log[n]
           new == Noted(handles, e)
<1>1. /\ Len(log) \in Nat /\ DOMAIN log = 1..Len(log) /\ \A i \in 1..Len(log) : log[i] \in WireMessages
      /\ \A i \in 1..Len(log) : log[i].id \in Nat
    BY LogKnown
<1>2. e \in WireMessages
    BY <1>1
<1>3. /\ Len(handles) \in Nat /\ DOMAIN handles = 1..Len(handles)
      /\ \A k \in 1..Len(handles) : handles[k].id \in Nat /\ handles[k].gone \in BOOLEAN /\ handles[k].done \in BOOLEAN
    <2>1. \A k \in 1..Len(handles) : handles[k] \in HandleRows
        BY ElementOfSeq
    <2>2. Len(handles) \in Nat /\ DOMAIN handles = 1..Len(handles)
        BY LenProperties
    <2> QED
        BY <2>1, <2>2 DEF HandleRows
<1>4. new \in Seq(HandleRows) /\ DOMAIN new = 1..Len(new) /\ Len(new) \in Nat
    BY <1>2, NotedRows, LenProperties
<1>5. 1..n = (1..(n - 1)) \cup {n} /\ n \notin 1..(n - 1) /\ 1..(n - 1) \subseteq 1..Len(log) /\ n \in Nat
    BY <1>1
<1>6. CASE e.of = "new"
    <2> DEFINE new2 == Append(handles, Handle(e.id))
    <2>1. new = new2 /\ Len(new) = Len(handles) + 1
        BY <1>2, <1>6, NotedRows
    <2>2. Handle(e.id) \in HandleRows
        BY <1>2 DEF Handle, HandleRows, WireMessages
    <2>3. /\ \A k \in 1..Len(handles) : new[k] = handles[k]
          /\ new[Len(handles) + 1] = Handle(e.id) /\ 1..Len(new) = (1..Len(handles)) \cup {Len(handles) + 1}
        BY <1>3, <2>1, <2>2, AppendProperties
    <2>4. /\ Handle(e.id).id = e.id /\ Handle(e.id).gone = FALSE
        BY DEF Handle
    <2>5. \A i \in 1..(n - 1) : log[i].of = "new" => log[i].id < e.id
        BY <1>1, <1>5, <1>6 DEF NewsRise
    <2>6. \A k \in 1..Len(handles) : handles[k].id < e.id
        BY <1>3, <2>5 DEF RowsMean, Is
    <2>7. \A i, j \in 1..n, k \in 1..Len(handles) :
            Is(log[j], "gone", handles[k].id) \/ Is(log[j], "batch", handles[k].id) \/ Is(log[j], "info", handles[k].id)
            => j \in 1..(n - 1) /\ (i < j => i \in 1..(n - 1))
        BY <1>5, <1>6 DEF Is
    <2>8. \A i, j \in 1..n : i < j /\ Is(log[i], "new", e.id) => FALSE
        <3> SUFFICES ASSUME NEW i \in 1..n, NEW j \in 1..n, i < j, Is(log[i], "new", e.id) PROVE FALSE
            OBVIOUS
        <3>1. i \in 1..(n - 1)
            BY <1>5
        <3>2. log[i].id \in Nat /\ log[i].id = e.id /\ log[i].of = "new"
            BY <1>1, <1>5, <3>1 DEF Is
        <3> QED
            BY <2>5, <3>1, <3>2
    <2> HIDE DEF new, new2, e
    <2>9. /\ \A k, l \in 1..Len(new) : k < l => new[k].id < new[l].id
        <3> SUFFICES ASSUME NEW k \in 1..Len(new), NEW l \in 1..Len(new), k < l PROVE new[k].id < new[l].id
            OBVIOUS
        <3>1. k \in 1..Len(handles)
            BY <1>3, <2>3
        <3>2. CASE l \in 1..Len(handles)
            BY <1>3, <2>3, <3>1, <3>2 DEF RowsMean
        <3>3. CASE l = Len(handles) + 1
            BY <2>3, <2>4, <2>6, <3>1, <3>3
        <3> QED
            BY <2>3, <3>2, <3>3
    <2>10. \A k \in 1..Len(new) : \E i \in 1..n : Is(log[i], "new", new[k].id)
        <3>1. Is(log[n], "new", new[Len(handles) + 1].id) /\ n \in 1..n
            BY <1>5, <1>6, <2>3, <2>4 DEF Is, e
        <3>2. \A k \in 1..Len(handles) : \E i \in 1..(n - 1) : Is(log[i], "new", new[k].id)
            BY <1>3, <2>3 DEF RowsMean
        <3> QED
            BY <1>5, <2>3, <3>1, <3>2
    <2>11. \A i \in 1..n : log[i].of = "new" => \E k \in 1..Len(new) : new[k].id = log[i].id
        <3>1. new[Len(handles) + 1].id = log[n].id
            BY <2>3, <2>4 DEF e
        <3>2. \A i \in 1..(n - 1) : log[i].of = "new" => \E k \in 1..Len(handles) : new[k].id = log[i].id
            <4>1. \A i \in 1..(n - 1) : log[i].of = "new" => \E k \in 1..Len(handles) : handles[k].id = log[i].id
                BY DEF RowsMean
            <4> QED
                BY <2>3, <4>1
        <3> QED
            BY <1>5, <2>3, <3>1, <3>2
    <2>12. \A k \in 1..Len(new) : new[k].gone => Ever(log, "gone", new[k].id)
        BY <1>3, <2>3, <2>4 DEF RowsMean
    <2>13. \A i, j \in 1..n, k \in 1..Len(new) :
             i < j /\ Is(log[i], "new", new[k].id) => k \in 1..Len(handles) /\ new[k] = handles[k]
        BY <2>3, <2>4, <2>8
    <2>14. \A i, j \in 1..n, k \in 1..Len(new) :
             i < j /\ Is(log[i], "new", new[k].id) /\ Is(log[j], "gone", new[k].id) => new[k].gone
        <3> SUFFICES ASSUME NEW i \in 1..n, NEW j \in 1..n, NEW k \in 1..Len(new), i < j,
                            Is(log[i], "new", new[k].id), Is(log[j], "gone", new[k].id)
                     PROVE  new[k].gone
            OBVIOUS
        <3>1. k \in 1..Len(handles) /\ new[k] = handles[k]
            BY <2>13
        <3>2. j \in 1..(n - 1) /\ i \in 1..(n - 1)
            BY <2>7, <3>1
        <3> QED
            BY <3>1, <3>2 DEF RowsMean
    <2>15. \A i, j \in 1..n, k \in 1..Len(new) :
             i < j /\ Is(log[i], "new", new[k].id) /\ Is(log[j], "batch", new[k].id)
             /\ ~Ever(log, "gone", new[k].id) => new[k].done
        <3> SUFFICES ASSUME NEW i \in 1..n, NEW j \in 1..n, NEW k \in 1..Len(new), i < j,
                            Is(log[i], "new", new[k].id), Is(log[j], "batch", new[k].id), ~Ever(log, "gone", new[k].id)
                     PROVE  new[k].done
            OBVIOUS
        <3>1. k \in 1..Len(handles) /\ new[k] = handles[k]
            BY <2>13
        <3>2. j \in 1..(n - 1) /\ i \in 1..(n - 1)
            BY <2>7, <3>1
        <3> QED
            BY <3>1, <3>2 DEF RowsMean
    <2>16. \A i, p \in 1..n, k \in 1..Len(new) :
             i < p /\ Is(log[i], "new", new[k].id) /\ Is(log[p], "info", new[k].id)
             /\ ~Ever(log, "gone", new[k].id)
             /\ (\A q \in 1..n : p < q /\ Is(log[q], "info", new[k].id) => log[q] = log[p])
             => new[k].coord = log[p].coord /\ new[k].name = log[p].name
        <3> SUFFICES ASSUME NEW i \in 1..n, NEW p \in 1..n, NEW k \in 1..Len(new),
                            i < p, Is(log[i], "new", new[k].id), Is(log[p], "info", new[k].id),
                            ~Ever(log, "gone", new[k].id),
                            \A q \in 1..n : p < q /\ Is(log[q], "info", new[k].id) => log[q] = log[p]
                     PROVE  new[k].coord = log[p].coord /\ new[k].name = log[p].name
            OBVIOUS
        <3>1. k \in 1..Len(handles) /\ new[k] = handles[k]
            BY <2>13
        <3>2. p \in 1..(n - 1) /\ i \in 1..(n - 1)
            BY <2>7, <3>1
        <3>3. \A q \in 1..(n - 1) : p < q /\ Is(log[q], "info", handles[k].id) => log[q] = log[p]
            BY <1>5, <3>1
        <3> QED
            BY <3>1, <3>2, <3>3 DEF RowsMean
    <2> QED
        BY <1>4, <2>9, <2>10, <2>11, <2>12, <2>14, <2>15, <2>16 DEF RowsMean, new, e
<1>7. CASE e.of # "new"
    <2>1. /\ 1..Len(new) = 1..Len(handles)
          /\ \A k \in 1..Len(handles) :
                /\ new[k].id = handles[k].id
                /\ new[k].gone <=> handles[k].gone \/ Is(e, "gone", handles[k].id)
                /\ ~handles[k].gone => (new[k].done <=> handles[k].done \/ Is(e, "batch", handles[k].id))
                /\ ~handles[k].gone /\ Is(e, "info", handles[k].id) => new[k].coord = e.coord /\ new[k].name = e.name
                /\ ~Is(e, "info", handles[k].id) => new[k].coord = handles[k].coord /\ new[k].name = handles[k].name
        BY <1>2, <1>7, NotedRows
    <2>2. e = log[n] /\ log[n].of # "new" /\ n \in 1..Len(log)
        BY <1>7
    <2> HIDE DEF new, e
    <2>3. /\ \A k, l \in 1..Len(handles) : k < l => new[k].id < new[l].id
          /\ \A k \in 1..Len(handles) : \E i \in 1..n : Is(log[i], "new", new[k].id)
        BY <1>3, <1>5, <2>1 DEF RowsMean
    <2>4. \A i \in 1..n : log[i].of = "new" => i \in 1..(n - 1) /\ \E k \in 1..Len(handles) : new[k].id = log[i].id
        BY <1>3, <1>5, <2>1, <2>2 DEF RowsMean
    <2>5. \A k \in 1..Len(handles) : new[k].gone => Ever(log, "gone", new[k].id)
        BY <1>1, <1>3, <2>1, <2>2 DEF RowsMean, Ever
    <2>6. \A k \in 1..Len(handles) : ~Ever(log, "gone", new[k].id) => ~handles[k].gone
        BY <1>3, <2>1 DEF RowsMean
    <2>7. \A i, j \in 1..n, k \in 1..Len(handles) :
             i < j /\ Is(log[i], "new", new[k].id) /\ Is(log[j], "gone", new[k].id) => new[k].gone
        <3> SUFFICES ASSUME NEW i \in 1..n, NEW j \in 1..n, NEW k \in 1..Len(handles), i < j,
                            Is(log[i], "new", new[k].id), Is(log[j], "gone", new[k].id)
                     PROVE  new[k].gone
            OBVIOUS
        <3>1. CASE j = n
            BY <2>1, <2>2, <3>1
        <3>2. CASE j \in 1..(n - 1)
            <4>1. i \in 1..(n - 1)
                BY <1>5, <3>2
            <4> QED
                BY <1>3, <2>1, <3>2, <4>1 DEF RowsMean
        <3> QED
            BY <1>5, <3>1, <3>2
    <2>8. \A i, j \in 1..n, k \in 1..Len(handles) :
             i < j /\ Is(log[i], "new", new[k].id) /\ Is(log[j], "batch", new[k].id)
             /\ ~Ever(log, "gone", new[k].id) => new[k].done
        <3> SUFFICES ASSUME NEW i \in 1..n, NEW j \in 1..n, NEW k \in 1..Len(handles), i < j,
                            Is(log[i], "new", new[k].id), Is(log[j], "batch", new[k].id),
                            ~Ever(log, "gone", new[k].id)
                     PROVE  new[k].done
            OBVIOUS
        <3>1. CASE j = n
            BY <2>1, <2>2, <2>6, <3>1
        <3>2. CASE j \in 1..(n - 1)
            <4>1. i \in 1..(n - 1)
                BY <1>5, <3>2
            <4>2. handles[k].done
                BY <1>3, <2>1, <3>2, <4>1 DEF RowsMean
            <4> QED
                BY <2>1, <2>6, <4>2
        <3> QED
            BY <1>5, <3>1, <3>2
    <2>9. \A i, p \in 1..n, k \in 1..Len(handles) :
             i < p /\ Is(log[i], "new", new[k].id) /\ Is(log[p], "info", new[k].id)
             /\ ~Ever(log, "gone", new[k].id)
             /\ (\A q \in 1..n : p < q /\ Is(log[q], "info", new[k].id) => log[q] = log[p])
             => new[k].coord = log[p].coord /\ new[k].name = log[p].name
        <3> SUFFICES ASSUME NEW i \in 1..n, NEW p \in 1..n, NEW k \in 1..Len(handles),
                            i < p, Is(log[i], "new", new[k].id), Is(log[p], "info", new[k].id),
                            ~Ever(log, "gone", new[k].id),
                            \A q \in 1..n : p < q /\ Is(log[q], "info", new[k].id) => log[q] = log[p]
                     PROVE  new[k].coord = log[p].coord /\ new[k].name = log[p].name
            OBVIOUS
        <3>1. i \in 1..(n - 1) /\ ~handles[k].gone /\ new[k].id = handles[k].id
            BY <2>1, <2>4, <2>6 DEF Is
        <3>2. CASE Is(e, "info", handles[k].id)
            <4>1. log[p] = e
                BY <1>5, <2>2, <3>1, <3>2
            <4> QED
                BY <2>1, <3>1, <3>2, <4>1
        <3>3. CASE ~Is(e, "info", handles[k].id)
            <4>1. p \in 1..(n - 1)
                BY <1>5, <2>2, <3>1, <3>3
            <4>2. \A q \in 1..(n - 1) : p < q /\ Is(log[q], "info", handles[k].id) => log[q] = log[p]
                BY <1>5, <3>1
            <4>3. i < p /\ Is(log[i], "new", handles[k].id) /\ Is(log[p], "info", handles[k].id)
                  /\ ~Ever(log, "gone", handles[k].id)
                BY <3>1
            <4>4. handles[k].coord = log[p].coord /\ handles[k].name = log[p].name
                BY <3>1, <4>1, <4>2, <4>3 DEF RowsMean
            <4> QED
                BY <2>1, <3>3, <4>4
        <3> QED
            BY <3>2, <3>3
    <2> QED
        <3>1. Len(new) = Len(handles)
            BY <1>2, <1>7, NotedRows DEF new, e
        <3>2. \A i \in 1..n : log[i].of = "new" => \E k \in 1..Len(handles) : new[k].id = log[i].id
            BY <2>4
        <3>3. RowsMean(log, n, new)
            BY <2>3, <2>5, <2>7, <2>8, <2>9, <3>1, <3>2 DEF RowsMean
        <3> QED
            BY <3>3 DEF new, e
<1> QED
    BY <1>6, <1>7

\* The rows that the client makes of a log.
LEMMA HandlesMean ==
    ASSUME NEW log \in Logs, NewsRise(log)
    PROVE  Handles(log) \in Seq(HandleRows) /\ RowsMean(log, Len(log), Handles(log))
<1>1. PICK f \in [0..Len(log) -> Seq(HandleRows)] :
          /\ f[0] = <<>> /\ \A n \in 1..Len(log) : f[n] = Noted(f[n - 1], log[n])
          /\ Handles(log) = f[Len(log)]
    BY HandlesKnown
<1>2. Len(log) \in Nat
    BY LenProperties DEF Logs
<1> DEFINE bad == {n \in 0..Len(log) : ~RowsMean(log, n, f[n])}
<1>3. bad = {}
    <2> SUFFICES ASSUME bad # {} PROVE FALSE
        OBVIOUS
    <2>1. bad \subseteq Nat
        OBVIOUS
    <2>2. PICK n \in bad : \A y \in bad : n <= y
        BY <2>1, LeastNumber
    <2>3. CASE n = 0
        <3>1. f[n] = <<>> /\ Len(<<>>) = 0 /\ 1..n = {} /\ 1..0 = {}
            BY <1>1, <2>3
        <3>2. RowsMean(log, n, <<>>)
            BY <3>1 DEF RowsMean
        <3> QED
            BY <2>2, <3>1, <3>2
    <2>4. CASE n # 0
        <3>1. n \in 1..Len(log) /\ n - 1 \in 0..Len(log) /\ ~(n - 1 \in bad)
            BY <1>2, <2>2, <2>4
        <3>2. RowsMean(log, n - 1, f[n - 1]) /\ f[n - 1] \in Seq(HandleRows)
            BY <1>1, <3>1
        <3> QED
            BY <1>1, <2>2, <3>1, <3>2, RowsStayMeant
    <2> QED
        BY <2>3, <2>4
<1> QED
    BY <1>1, <1>2, <1>3

Accurate(sch, log, order) == NewsRise(log) /\ Named(log, order) /\ Told(sch, log, order)

\* Every row of a thing in order is live, complete and true; every other one is gone.
LEMMA RowsAccurate ==
    ASSUME NEW log \in Logs, NEW order, Accurate(scheme, log, order)
    PROVE  LET handles == Handles(log) IN
           /\ handles \in Seq(HandleRows) /\ Len(handles) \in Nat /\ DOMAIN handles = 1..Len(handles)
           /\ \A k, l \in 1..Len(handles) : k < l => handles[k].id < handles[l].id
           /\ \A k \in 1..Len(handles) :
                IF handles[k].id \in Members(order)
                THEN /\ ~handles[k].gone /\ handles[k].done
                     /\ handles[k].coord = Seen(scheme, handles[k].id, order).coord
                     /\ handles[k].name = Seen(scheme, handles[k].id, order).name
                ELSE handles[k].gone
           /\ \A id \in Members(order) : \E k \in 1..Len(handles) : handles[k].id = id
<1> DEFINE handles == Handles(log)
<1>1. /\ Len(log) \in Nat /\ DOMAIN log = 1..Len(log)
    BY LogKnown
<1>2. handles \in Seq(HandleRows) /\ RowsMean(log, Len(log), handles)
    BY HandlesMean DEF Accurate
<1>3. Len(handles) \in Nat /\ DOMAIN handles = 1..Len(handles)
    BY <1>2, LenProperties
<1> HIDE DEF handles
<1>4. ASSUME NEW k \in 1..Len(handles), handles[k].id \in Members(order)
      PROVE  /\ ~handles[k].gone /\ handles[k].done
             /\ handles[k].coord = Seen(scheme, handles[k].id, order).coord
             /\ handles[k].name = Seen(scheme, handles[k].id, order).name
    <2> DEFINE id == handles[k].id
    <2>1. ~Ever(log, "gone", id)
        BY <1>4 DEF Accurate, Named
    <2>2. ~handles[k].gone
        BY <1>2, <2>1 DEF RowsMean
    <2>3. PICK i, j, p \in 1..Len(log) :
            /\ i < j /\ i < p /\ Is(log[i], "new", id) /\ Is(log[j], "batch", id)
            /\ log[p] = Seen(scheme, id, order)
            /\ \A q \in 1..Len(log) : p < q /\ Is(log[q], "info", id) => log[q] = log[p]
        BY <1>1, <1>4 DEF Accurate, Told
    <2>4. handles[k].done
        BY <1>2, <2>1, <2>3 DEF RowsMean
    <2>5. Is(log[p], "info", id)
        BY <2>3 DEF Seen, Is
    <2>6. handles[k].coord = log[p].coord /\ handles[k].name = log[p].name
        BY <1>2, <2>1, <2>3, <2>5 DEF RowsMean
    <2> QED
        BY <2>2, <2>3, <2>4, <2>6
<1>5. ASSUME NEW k \in 1..Len(handles), handles[k].id \notin Members(order) PROVE handles[k].gone
    <2>1. PICK i \in 1..Len(log) : Is(log[i], "new", handles[k].id)
        BY <1>2 DEF RowsMean
    <2>2. PICK j \in 1..Len(log) : i < j /\ Is(log[j], "gone", handles[k].id)
        BY <1>1, <1>5, <2>1 DEF Accurate, Named, Is
    <2> QED
        BY <1>2, <2>1, <2>2 DEF RowsMean
<1>6. \A id \in Members(order) : \E k \in 1..Len(handles) : handles[k].id = id
    <2> SUFFICES ASSUME NEW id \in Members(order) PROVE \E k \in 1..Len(handles) : handles[k].id = id
        OBVIOUS
    <2>1. PICK i \in 1..Len(log) : Is(log[i], "new", id)
        BY <1>1 DEF Accurate, Named, Ever
    <2> QED
        BY <1>2, <2>1 DEF RowsMean, Is
<1>7. \A k, l \in 1..Len(handles) : k < l => handles[k].id < handles[l].id
    BY <1>2 DEF RowsMean
<1> QED
    BY <1>2, <1>3, <1>4, <1>5, <1>6, <1>7 DEF handles

LEMMA ListedRight ==
    ASSUME NEW log \in Logs, NEW order, Accurate(scheme, log, order)
    PROVE  ListedItems(Handles(log)) = Members(order)
<1> DEFINE handles == Handles(log)
<1>1. /\ DOMAIN handles = 1..Len(handles)
      /\ \A k \in 1..Len(handles) : handles[k].id \in Members(order) => ~handles[k].gone /\ handles[k].done
      /\ \A k \in 1..Len(handles) : handles[k].id \notin Members(order) => handles[k].gone
      /\ \A id \in Members(order) : \E k \in 1..Len(handles) : handles[k].id = id
    BY RowsAccurate
<1> HIDE DEF handles
<1>2. ListedItems(handles) = Members(order)
    BY <1>1 DEF ListedItems, CollectedToplevels, CollectedWorkspaces, Live
<1> QED
    BY <1>2 DEF handles

\* In the list of a compositor nothing is twice; where it places nothing, it has
\* things as they were made.
Orders(sch) == {order \in Seq(Nat) :
              \A i, j \in 1..Len(order) : i < j =>
                 order[i] # order[j] /\ (sch # "coords" => order[i] < order[j])}

LEMMA ItemsOrdered ==
    ASSUME NEW order \in Orders(scheme)
    PROVE  /\ Len(order) \in Nat /\ DOMAIN order = 1..Len(order) /\ \A i \in 1..Len(order) : order[i] \in Nat
           /\ \A i, j \in 1..Len(order) : order[i] = order[j] => i = j
           /\ \A id \in Members(order) : \E i \in 1..Len(order) : order[i] = id
           /\ \A i \in 1..Len(order) : order[i] \in Members(order)
           /\ Members(order) \subseteq Nat
<1>1. order \in Seq(Nat)
    BY DEF Orders
<1>2. /\ Len(order) \in Nat /\ DOMAIN order = 1..Len(order)
    BY <1>1, LenProperties
<1>3. \A i \in 1..Len(order) : order[i] \in Nat
    BY <1>1, ElementOfSeq
<1>4. \A i, j \in 1..Len(order) : order[i] = order[j] => i = j
    BY <1>2 DEF Orders
<1>5. /\ \A id \in Members(order) : \E i \in 1..Len(order) : order[i] = id
      /\ \A i \in 1..Len(order) : order[i] \in Members(order)
    BY <1>2 DEF Members
<1>6. Members(order) \subseteq Nat
    BY <1>3, <1>5
<1> QED
    BY <1>2, <1>3, <1>4, <1>5, <1>6

LEMMA PlaceRight ==
    ASSUME NEW order \in Orders(scheme), NEW m \in 1..Len(order)
    PROVE  Place(order[m], order) = m
BY ItemsOrdered DEF Place

\* Where things are listed as they were made, the live rows are in that order.
Sorted(handles, order) ==
    /\ \A i, j \in 1..Len(order) : i < j => order[i] < order[j]
    /\ Len(handles) \in Nat /\ DOMAIN handles = 1..Len(handles)
    /\ \A k \in 1..Len(handles) : handles[k].id \in Nat
    /\ \A k, l \in 1..Len(handles) : k < l => handles[k].id < handles[l].id
    /\ \A k \in 1..Len(handles) : handles[k].gone <=> handles[k].id \notin Members(order)
    /\ \A id \in Members(order) : \E k \in 1..Len(handles) : handles[k].id = id

LEMMA LiveCounted ==
    ASSUME NEW order \in Orders(scheme), NEW handles, Sorted(handles, order),
           NEW k \in 1..Len(handles), NEW m \in 1..Len(order), handles[k].id = order[m]
    PROVE  Cardinality(LiveBefore(handles, k)) = m - 1
<1> USE DEF Sorted
<1> DEFINE T == LiveBefore(handles, k)
           g == [i \in 1..(m - 1) |-> CHOOSE j \in 1..Len(handles) : handles[j].id = order[i]]
<1>1. /\ Len(order) \in Nat /\ \A i \in 1..Len(order) : order[i] \in Nat
      /\ \A id \in Members(order) : \E i \in 1..Len(order) : order[i] = id
      /\ \A i \in 1..Len(order) : order[i] \in Members(order)
      /\ m \in Nat /\ m >= 1 /\ \A i \in 1..(m - 1) : i \in 1..Len(order)
    <2>1. /\ Len(order) \in Nat /\ \A i \in 1..Len(order) : order[i] \in Nat
          /\ \A id \in Members(order) : \E i \in 1..Len(order) : order[i] = id
          /\ \A i \in 1..Len(order) : order[i] \in Members(order)
        BY ItemsOrdered
    <2>2. m \in Nat /\ m >= 1 /\ m <= Len(order)
        BY <2>1
    <2>3. \A i \in 1..(m - 1) : i \in 1..Len(order)
        BY <2>1, <2>2
    <2> QED
        BY <2>1, <2>2, <2>3
<1>2. \A i \in 1..(m - 1) : g[i] \in 1..Len(handles) /\ handles[g[i]].id = order[i] /\ i \in 1..Len(order)
    <2> SUFFICES ASSUME NEW i \in 1..(m - 1)
                 PROVE  g[i] \in 1..Len(handles) /\ handles[g[i]].id = order[i] /\ i \in 1..Len(order)
        OBVIOUS
    <2>1. i \in 1..Len(order) /\ order[i] \in Members(order)
        BY <1>1
    <2>2. \E j \in 1..Len(handles) : handles[j].id = order[i]
        BY <2>1
    <2> QED
        BY <2>1, <2>2
<1> HIDE DEF g
<1>3. \A i \in 1..(m - 1) : g[i] \in T
    <2> SUFFICES ASSUME NEW i \in 1..(m - 1) PROVE g[i] \in T
        OBVIOUS
    <2>1. g[i] \in Live(handles)
        <3>1. g[i] \in 1..Len(handles) /\ handles[g[i]].id \in Members(order)
            BY <1>1, <1>2
        <3> QED
            BY <3>1 DEF Live
    <2>2. handles[g[i]].id < handles[k].id
        BY <1>1, <1>2
    <2>3. ~(k < g[i]) /\ k # g[i]
        BY <1>2, <2>2
    <2> QED
        BY <1>2, <2>1, <2>3 DEF LiveBefore
<1>4. \A i, j \in 1..(m - 1) : g[i] = g[j] => i = j
    <2>1. \A i, j \in 1..(m - 1) : g[i] = g[j] => order[i] = order[j]
        BY <1>2
    <2> QED
        BY <1>1, <2>1, ItemsOrdered
<1>5. \A j \in T : \E i \in 1..(m - 1) : g[i] = j
    <2> SUFFICES ASSUME NEW j \in T PROVE \E i \in 1..(m - 1) : g[i] = j
        OBVIOUS
    <2>1. j \in 1..Len(handles) /\ j < k /\ handles[j].id \in Members(order) /\ handles[j].id < handles[k].id
        BY DEF Live, LiveBefore
    <2>2. PICK i \in 1..Len(order) : order[i] = handles[j].id
        BY <1>1, <2>1
    <2>3. order[i] < order[m]
        BY <2>1, <2>2
    <2>4. i < m
        BY <1>1, <2>3
    <2>5. i \in 1..(m - 1) /\ handles[g[i]].id = handles[j].id /\ g[i] \in 1..Len(handles)
        BY <1>1, <1>2, <2>2, <2>4
    <2>6. ~(g[i] < j) /\ ~(j < g[i])
        <3>1. handles[j].id \in Nat /\ j \in 1..Len(handles) /\ handles[g[i]].id = handles[j].id
            BY <2>1, <2>5
        <3> QED
            BY <2>5, <3>1
    <2> QED
        BY <2>1, <2>5, <2>6
<1>6. g \in Bijection(1..(m - 1), T)
    <2>1. g \in [1..(m - 1) -> T]
        BY <1>3 DEF g
    <2> QED
        BY <1>4, <1>5, <2>1 DEF Bijection, Injection, Surjection, IsInjective
<1>7. IsFiniteSet(1..(m - 1)) /\ Cardinality(1..(m - 1)) = m - 1
    <2>1. m - 1 \in Int /\ 1 \in Int
        BY <1>1
    <2>2. IsFiniteSet(1..(m - 1)) /\ Cardinality(1..(m - 1)) = IF 1 > m - 1 THEN 0 ELSE m - 1 - 1 + 1
        BY <2>1, FS_Interval
    <2> QED
        BY <1>1, <2>2
<1> HIDE DEF T
<1> QED
    BY <1>6, <1>7, FS_Bijection DEF ExistsBijection, T

\* Whatever way it is told apart, the workspace picked is the one the index meant.
LEMMA PickRight ==
    ASSUME heard \in Logs, NEW order \in Orders(scheme), Accurate(scheme, heard, order), index \in Nat, MeantItem(order) # {}
    PROVE  PickWorkspace(index) \in MeantItem(order)
<1> DEFINE handles == Handles(heard)
           placed == {k \in Live(handles) : handles[k].coord = index}
           named == {k \in Live(handles) : handles[k].name = index + 1}
           nth == LiveAt(handles, index)
           pick == CASE placed # {} -> placed
                     [] placed = {} /\ named # {} -> named
                     [] OTHER -> nth
           chosen == CHOOSE k \in pick : TRUE
<1>1. /\ Len(order) \in Nat /\ \A i \in 1..Len(order) : order[i] \in Nat /\ order[i] \in Members(order)
      /\ \A id \in Members(order) : \E i \in 1..Len(order) : order[i] = id
      /\ DOMAIN order = 1..Len(order)
    BY ItemsOrdered
<1>2. /\ Len(handles) \in Nat /\ DOMAIN handles = 1..Len(handles)
      /\ \A k \in 1..Len(handles) : handles[k] \in HandleRows
    <2>1. handles \in Seq(HandleRows) /\ Len(handles) \in Nat /\ DOMAIN handles = 1..Len(handles)
        BY RowsAccurate
    <2> QED
        BY <2>1, ElementOfSeq
<1>3. /\ \A k, l \in 1..Len(handles) : k < l => handles[k].id < handles[l].id
      /\ \A k \in 1..Len(handles) :
           IF handles[k].id \in Members(order)
           THEN /\ ~handles[k].gone /\ handles[k].done
                /\ handles[k].coord = Seen(scheme, handles[k].id, order).coord
                /\ handles[k].name = Seen(scheme, handles[k].id, order).name
           ELSE handles[k].gone
      /\ \A id \in Members(order) : \E k \in 1..Len(handles) : handles[k].id = id
    BY RowsAccurate
<1>4. PickWorkspace(index) = IF pick = {} THEN 0 ELSE handles[chosen].id
    BY DEF PickWorkspace, Picked
<1> HIDE DEF handles
<1>5. \A k \in Live(handles) :
        /\ k \in 1..Len(handles)
        /\ handles[k].id \in Members(order)
        /\ handles[k].coord = IF scheme = "coords" THEN Place(handles[k].id, order) - 1 ELSE -1
        /\ handles[k].name = IF scheme = "numbers" THEN handles[k].id ELSE 0
    BY <1>2, <1>3 DEF Live, Seen
<1>6. \A k \in 1..Len(handles) : handles[k].id \in Members(order) => k \in Live(handles)
    BY <1>2, <1>3 DEF Live
<1> SUFFICES pick # {} /\ \A k \in pick : handles[k].id \in MeantItem(order)
    BY <1>4
<1>7. CASE scheme = "numbers"
    <2>1. index + 1 \in Members(order) /\ MeantItem(order) = {index + 1}
        BY <1>7 DEF MeantItem
    <2>2. PICK k \in 1..Len(handles) : handles[k].id = index + 1
        BY <1>3, <2>1
    <2>3. k \in named
        BY <1>5, <1>6, <1>7, <2>1, <2>2
    <2>4. placed = {}
        BY <1>5, <1>7
    <2>5. pick = named
        BY <2>3, <2>4
    <2>6. \A l \in named : handles[l].id = index + 1
        BY <1>5, <1>7
    <2> QED
        BY <2>1, <2>3, <2>5, <2>6
<1>8. CASE scheme # "numbers"
    <2>1. index + 1 \in 1..Len(order) /\ MeantItem(order) = {order[index + 1]}
        BY <1>1, <1>8 DEF MeantItem
    <2>2. PICK k \in 1..Len(handles) : handles[k].id = order[index + 1]
        BY <1>1, <1>3, <2>1
    <2>3. k \in Live(handles)
        BY <1>1, <1>6, <2>1, <2>2
    <2>4. CASE scheme = "coords"
        <3>1. Place(order[index + 1], order) = index + 1
            BY <2>1, PlaceRight
        <3>2. k \in placed
            BY <1>5, <2>2, <2>3, <2>4, <3>1
        <3>3. pick = placed
            BY <3>2
        <3>4. \A l \in placed : handles[l].id = order[index + 1]
            <4> SUFFICES ASSUME NEW l \in placed PROVE handles[l].id = order[index + 1]
                OBVIOUS
            <4>1. PICK m \in 1..Len(order) : order[m] = handles[l].id
                BY <1>1, <1>5
            <4>2. Place(handles[l].id, order) = m
                BY <4>1, PlaceRight
            <4>3. m - 1 = index
                BY <1>5, <2>4, <4>2
            <4> QED
                BY <1>1, <4>1, <4>3
        <3> QED
            BY <2>1, <3>2, <3>3, <3>4
    <2>5. CASE scheme # "coords"
        <3>1. placed = {} /\ named = {}
            BY <1>5, <1>8, <2>5
        <3>2. pick = nth
            BY <3>1
        <3>3. \A i, j \in 1..Len(order) : i < j => order[i] < order[j]
            BY <2>5 DEF Orders
        <3>4. ASSUME NEW l \in 1..Len(handles), NEW m \in 1..Len(order), handles[l].id = order[m]
              PROVE  Cardinality(LiveBefore(handles, l)) = m - 1
            <4>1. \A j \in 1..Len(handles) : handles[j].id \in Nat
                BY <1>2 DEF HandleRows
            <4>2. \A j \in 1..Len(handles) : handles[j].gone <=> handles[j].id \notin Members(order)
                BY <1>3
            <4>3. \A j, p \in 1..Len(handles) : j < p => handles[j].id < handles[p].id
                BY <1>3
            <4>4. \A id \in Members(order) : \E j \in 1..Len(handles) : handles[j].id = id
                BY <1>3
            <4>5. Len(handles) \in Nat /\ DOMAIN handles = 1..Len(handles)
                BY <1>2
            <4> HIDE DEF placed, named, nth, pick, chosen
            <4>6. Sorted(handles, order)
                BY <3>3, <4>1, <4>2, <4>3, <4>4, <4>5 DEF Sorted
            <4> QED
                BY <3>4, <4>6, LiveCounted
        <3>5. k \in nth
            BY <1>1, <2>1, <2>2, <2>3, <3>4 DEF LiveAt
        <3>6. \A l \in nth : handles[l].id = order[index + 1]
            <4> SUFFICES ASSUME NEW l \in nth PROVE handles[l].id = order[index + 1]
                OBVIOUS
            <4>1. l \in Live(handles) /\ Cardinality(LiveBefore(handles, l)) = index
                BY DEF LiveAt
            <4>2. PICK m \in 1..Len(order) : order[m] = handles[l].id
                BY <1>1, <1>5, <4>1
            <4>3. m - 1 = index
                BY <1>5, <3>4, <4>1, <4>2
            <4> QED
                BY <1>1, <4>2, <4>3
        <3> QED
            BY <2>1, <3>2, <3>5, <3>6
    <2> QED
        BY <2>4, <2>5
<1> QED
    BY <1>7, <1>8

-----------------------------------------------------------------------------
(* What the compositor says keeps a log accurate.                               *)

LEMMA LogsJoined ==
    ASSUME NEW a \in Logs, NEW b \in Logs
    PROVE  /\ a \o b \in Logs /\ Len(a \o b) = Len(a) + Len(b) /\ DOMAIN (a \o b) = 1..(Len(a) + Len(b))
           /\ \A i \in 1..Len(a) : (a \o b)[i] = a[i]
           /\ \A i \in 1..Len(b) : (a \o b)[Len(a) + i] = b[i]
           /\ \A k \in 1..(Len(a) + Len(b)) : k \in 1..Len(a) \/ \E i \in 1..Len(b) : k = Len(a) + i
<1>1. /\ a \o b \in Logs /\ Len(a \o b) = Len(a) + Len(b)
      /\ \A i \in 1..(Len(a) + Len(b)) : (a \o b)[i] = IF i <= Len(a) THEN a[i] ELSE b[i - Len(a)]
    BY ConcatProperties DEF Logs
<1>2. Len(a) \in Nat /\ Len(b) \in Nat /\ DOMAIN (a \o b) = 1..(Len(a) + Len(b))
    BY <1>1, LogKnown
<1>3. \A i \in 1..Len(a) : (a \o b)[i] = a[i]
    BY <1>1, <1>2
<1>4. \A i \in 1..Len(b) : (a \o b)[Len(a) + i] = b[i]
    BY <1>1, <1>2
<1>5. ASSUME NEW k \in 1..(Len(a) + Len(b)), k \notin 1..Len(a) PROVE \E i \in 1..Len(b) : k = Len(a) + i
    <2>1. k - Len(a) \in 1..Len(b) /\ k = Len(a) + (k - Len(a))
        BY <1>2, <1>5
    <2> QED
        BY <2>1
<1> QED
    BY <1>1, <1>2, <1>3, <1>4, <1>5

LEMMA InfoSeen == \A id, order : Info(id, order) = Seen(scheme, id, order)
<1> SUFFICES ASSUME NEW id, NEW order PROVE Info(id, order) = Seen(scheme, id, order)
    OBVIOUS
<1> DEFINE coord == IF scheme = "coords" THEN Place(id, order) - 1 ELSE -1
           name == IF scheme = "numbers" THEN id ELSE 0
<1>1. Info(id, order) = [WireMessage("info", id) EXCEPT !.coord = coord, !.name = name]
    BY DEF Info
<1>2. Seen(scheme, id, order) = [of |-> "info", id |-> id, coord |-> coord, name |-> name]
    BY DEF Seen
<1> HIDE DEF coord, name
<1> QED
    BY <1>1, <1>2 DEF WireMessage

LEMMA BlockKnown ==
    ASSUME NEW order \in Orders(scheme)
    PROVE  /\ Details(order) \in Logs /\ Len(Details(order)) = Len(order)
           /\ \A i \in 1..Len(order) : Details(order)[i] = Seen(scheme, order[i], order)
           /\ Batches(order) \in Logs /\ Len(Batches(order)) = Len(order)
           /\ \A i \in 1..Len(order) : Batches(order)[i] = WireMessage("batch", order[i])
<1>1. Len(order) \in Nat /\ DOMAIN order = 1..Len(order) /\ \A i \in 1..Len(order) : order[i] \in Nat
    BY ItemsOrdered
<1>2. \A i \in 1..Len(order) : Seen(scheme, order[i], order) \in WireMessages
    <2> SUFFICES ASSUME NEW i \in 1..Len(order) PROVE Seen(scheme, order[i], order) \in WireMessages
        OBVIOUS
    <2>1. Place(order[i], order) = i /\ i \in Nat
        BY PlaceRight
    <2> DEFINE coord == IF scheme = "coords" THEN i - 1 ELSE -1
               name == IF scheme = "numbers" THEN order[i] ELSE 0
    <2>2. Seen(scheme, order[i], order) = [of |-> "info", id |-> order[i], coord |-> coord, name |-> name]
        BY <2>1 DEF Seen
    <2>3. coord \in Int /\ name \in Nat /\ order[i] \in Nat
        BY <1>1, <2>1
    <2> QED
        BY <2>2, <2>3 DEF WireMessages, MessageKinds
<1>3. \A i \in 1..Len(order) : WireMessage("batch", order[i]) \in WireMessages
    BY <1>1 DEF WireMessage, WireMessages, MessageKinds
<1>4. Details(order) = [i \in 1..Len(order) |-> Seen(scheme, order[i], order)]
    BY <1>1, InfoSeen DEF Details
<1>5. Batches(order) = [i \in 1..Len(order) |-> WireMessage("batch", order[i])]
    BY <1>1 DEF Batches
<1>6. Details(order) \in [1..Len(order) -> WireMessages] /\ Batches(order) \in [1..Len(order) -> WireMessages]
    BY <1>2, <1>3, <1>4, <1>5
<1>7. Details(order) \in Logs /\ Batches(order) \in Logs
    BY <1>1, <1>6, SeqDef DEF Logs
<1>8. Len(Details(order)) = Len(order) /\ Len(Batches(order)) = Len(order)
    <2>1. DOMAIN Details(order) = 1..Len(Details(order)) /\ DOMAIN Batches(order) = 1..Len(Batches(order))
          /\ Len(Details(order)) \in Nat /\ Len(Batches(order)) \in Nat
        BY <1>7, LogKnown
    <2> QED
        BY <1>1, <1>6, <2>1
<1> QED
    BY <1>4, <1>5, <1>7, <1>8

\* With the details and the end of a batch, everything is told.
LEMMA BlockTells ==
    ASSUME NEW log \in Logs, NEW order \in Orders(scheme), NewsRise(log), Named(log, order)
    PROVE  /\ log \o Details(order) \o Batches(order) \in Logs
           /\ Accurate(scheme, log \o Details(order) \o Batches(order), order)
<1> DEFINE n == Len(log)
           m == Len(order)
           all == log \o Details(order) \o Batches(order)
<1>1. /\ n \in Nat /\ DOMAIN log = 1..n /\ m \in Nat
      /\ \A id \in Members(order) : \E i \in 1..m : order[i] = id
      /\ \A i, j \in 1..m : order[i] = order[j] => i = j
    BY LogKnown, ItemsOrdered
<1>2. /\ all \in Logs /\ DOMAIN all = 1..(n + m + m)
      /\ \A i \in 1..n : all[i] = log[i]
      /\ \A i \in 1..m : all[n + i] = Seen(scheme, order[i], order)
      /\ \A i \in 1..m : all[n + m + i] = WireMessage("batch", order[i])
    <2> DEFINE d == Details(order)
               b == Batches(order)
    <2>1. /\ d \in Logs /\ Len(d) = m /\ \A i \in 1..m : d[i] = Seen(scheme, order[i], order)
          /\ b \in Logs /\ Len(b) = m /\ \A i \in 1..m : b[i] = WireMessage("batch", order[i])
        BY BlockKnown
    <2> HIDE DEF d, b
    <2> DEFINE ld == log \o d
    <2>2. /\ ld \in Logs /\ Len(ld) = n + m
          /\ \A i \in 1..n : ld[i] = log[i]
          /\ \A i \in 1..m : ld[n + i] = d[i]
        <3>1. /\ ld \in Logs /\ Len(ld) = n + Len(d)
              /\ \A i \in 1..n : ld[i] = log[i]
              /\ \A i \in 1..Len(d) : ld[n + i] = d[i]
            BY <2>1, LogsJoined
        <3> HIDE DEF ld, n, m
        <3> QED
            BY <2>1, <3>1
    <2> HIDE DEF ld
    <2>3. /\ ld \o b \in Logs /\ DOMAIN (ld \o b) = 1..(n + m + m)
          /\ \A i \in 1..(n + m) : (ld \o b)[i] = ld[i]
          /\ \A i \in 1..m : (ld \o b)[n + m + i] = b[i]
        <3>1. /\ ld \o b \in Logs /\ DOMAIN (ld \o b) = 1..(Len(ld) + Len(b))
              /\ \A i \in 1..Len(ld) : (ld \o b)[i] = ld[i]
              /\ \A i \in 1..Len(b) : (ld \o b)[Len(ld) + i] = b[i]
            BY <2>1, <2>2, LogsJoined
        <3> HIDE DEF n, m
        <3> QED
            BY <2>1, <2>2, <3>1
    <2>4. all = ld \o b
        BY DEF d, b, ld
    <2> HIDE DEF all, n, m
    <2>5. (\A i \in 1..n : i \in 1..(n + m)) /\ (\A i \in 1..m : n + i \in 1..(n + m))
        BY <1>1
    <2> QED
        BY <2>1, <2>2, <2>3, <2>4, <2>5
<1> HIDE DEF all, n, m
<1>3. DOMAIN all = 1..(n + m + m)
    BY <1>2
<1>4. \A i \in 1..n : i \in 1..(n + m + m) /\ all[i] = log[i]
    BY <1>1, <1>2
<1>9. ASSUME NEW k \in 1..(n + m + m)
      PROVE  \/ k \in 1..n
             \/ \E i \in 1..m : k = n + i /\ all[k] = Seen(scheme, order[i], order)
             \/ \E i \in 1..m : k = n + m + i /\ all[k] = WireMessage("batch", order[i])
    <2>1. CASE k <= n
        BY <1>1, <2>1
    <2>2. CASE n < k /\ k <= n + m
        <3>1. k - n \in 1..m /\ k = n + (k - n)
            BY <1>1, <2>2
        <3> QED
            BY <1>2, <3>1
    <2>3. CASE n + m < k
        <3>1. k - (n + m) \in 1..m /\ k = n + m + (k - (n + m))
            BY <1>1, <2>3
        <3> QED
            BY <1>2, <3>1
    <2> QED
        BY <1>1, <2>1, <2>2, <2>3
<1>10. /\ \A id : Seen(scheme, id, order).of = "info" /\ Seen(scheme, id, order).id = id
       /\ \A id : WireMessage("batch", id).of = "batch" /\ WireMessage("batch", id).id = id
    BY DEF Seen, WireMessage
<1>5. \A i \in 1..(n + m + m) : all[i].of \in {"new", "gone"} => i \in 1..n
    BY <1>9, <1>10
<1>6. NewsRise(all)
    BY <1>1, <1>3, <1>4, <1>5 DEF NewsRise
<1>7. Named(all, order)
    <2>1. ASSUME NEW id \in Members(order) PROVE Ever(all, "new", id) /\ ~Ever(all, "gone", id)
        BY <1>1, <1>3, <1>4, <1>5, <2>1 DEF Named, Ever, Is
    <2>2. ASSUME NEW i \in 1..(n + m + m), all[i].of = "new", all[i].id \notin Members(order)
          PROVE  \E j \in 1..(n + m + m) : i < j /\ Is(all[j], "gone", all[i].id)
        <3>1. i \in 1..n /\ all[i] = log[i]
            BY <1>4, <1>5, <2>2
        <3>2. PICK j \in 1..n : i < j /\ Is(log[j], "gone", log[i].id)
            BY <1>1, <2>2, <3>1 DEF Named
        <3> QED
            BY <1>4, <3>1, <3>2
    <2> QED
        BY <1>3, <2>1, <2>2 DEF Named
<1>8. Told(scheme, all, order)
    <2> SUFFICES ASSUME NEW id \in Members(order)
                 PROVE  \E i, j, p \in 1..(n + m + m) :
                            /\ i < j /\ i < p /\ Is(all[i], "new", id) /\ Is(all[j], "batch", id)
                            /\ all[p] = Seen(scheme, id, order)
                            /\ \A q \in 1..(n + m + m) : p < q /\ Is(all[q], "info", id) => all[q] = all[p]
        BY <1>3 DEF Told
    <2>1. PICK i \in 1..n : Is(log[i], "new", id)
        BY <1>1 DEF Named, Ever
    <2>2. PICK k \in 1..m : order[k] = id
        BY <1>1
    <2>3. /\ n + k \in 1..(n + m + m) /\ n + m + k \in 1..(n + m + m) /\ i \in 1..(n + m + m)
          /\ i < n + k /\ i < n + m + k
          /\ all[n + k] = Seen(scheme, id, order)
        BY <1>1, <1>2, <2>2
    <2>4. all[n + m + k] = WireMessage("batch", id)
        BY <1>2, <2>2
    <2>5. Is(all[i], "new", id) /\ Is(all[n + m + k], "batch", id)
        BY <1>4, <2>1, <2>4 DEF Is, WireMessage
    <2>6. ASSUME NEW q \in 1..(n + m + m), n + k < q, Is(all[q], "info", id) PROVE all[q] = all[n + k]
        <3>1. ~(q \in 1..n)
            BY <1>1, <2>6
        <3>2. PICK l \in 1..m : all[q] = Seen(scheme, order[l], order)
            BY <1>9, <1>10, <2>6, <3>1 DEF Is
        <3>3. order[l] = id
            BY <1>10, <2>6, <3>2 DEF Is
        <3> QED
            BY <2>3, <3>2, <3>3
    <2> QED
        BY <2>3, <2>5, <2>6
<1> QED
    BY <1>2, <1>6, <1>7, <1>8 DEF Accurate, all

\* An answer says nothing of the things listed.
LEMMA AnswerTellsNothing ==
    ASSUME NEW log \in Logs, NEW order, Accurate(scheme, log, order), NEW e \in WireMessages,
           e.of \notin {"new", "gone", "info", "batch"}
    PROVE  Append(log, e) \in Logs /\ Accurate(scheme, Append(log, e), order)
<1> DEFINE n == Len(log)
           all == Append(log, e)
<1>1. n \in Nat /\ DOMAIN log = 1..n
    BY LogKnown
<1>2. /\ all \in Logs /\ Len(all) = n + 1 /\ all[n + 1] = e /\ \A i \in 1..n : all[i] = log[i]
    BY AppendProperties DEF Logs
<1>3. DOMAIN all = 1..(n + 1)
    BY <1>2, LogKnown
<1> HIDE DEF all, n
<1>4. /\ 1..(n + 1) = (1..n) \cup {n + 1}
      /\ \A of, id : Is(all[n + 1], of, id) => of \notin {"new", "gone", "info", "batch"}
      /\ all[n + 1].of # "new"
    BY <1>1, <1>2 DEF Is
<1>5. NewsRise(all)
    BY <1>1, <1>2, <1>3, <1>4 DEF Accurate, NewsRise
<1>6. Named(all, order)
    <2>1. ASSUME NEW id \in Members(order) PROVE Ever(all, "new", id) /\ ~Ever(all, "gone", id)
        BY <1>1, <1>2, <1>3, <1>4, <2>1 DEF Accurate, Named, Ever
    <2>2. ASSUME NEW i \in 1..(n + 1), all[i].of = "new", all[i].id \notin Members(order)
          PROVE  \E j \in 1..(n + 1) : i < j /\ Is(all[j], "gone", all[i].id)
        <3>1. i \in 1..n /\ all[i] = log[i]
            BY <1>2, <1>4, <2>2
        <3>2. PICK j \in 1..n : i < j /\ Is(log[j], "gone", log[i].id)
            BY <1>1, <2>2, <3>1 DEF Accurate, Named
        <3> QED
            BY <1>2, <1>4, <3>1, <3>2
    <2> QED
        BY <1>3, <2>1, <2>2 DEF Named
<1>7. Told(scheme, all, order)
    <2> SUFFICES ASSUME NEW id \in Members(order)
                 PROVE  \E i, j, p \in 1..(n + 1) :
                            /\ i < j /\ i < p /\ Is(all[i], "new", id) /\ Is(all[j], "batch", id)
                            /\ all[p] = Seen(scheme, id, order)
                            /\ \A q \in 1..(n + 1) : p < q /\ Is(all[q], "info", id) => all[q] = all[p]
        BY <1>3 DEF Told
    <2>1. PICK i, j, p \in 1..n :
                            /\ i < j /\ i < p /\ Is(log[i], "new", id) /\ Is(log[j], "batch", id)
                            /\ log[p] = Seen(scheme, id, order)
                            /\ \A q \in 1..n : p < q /\ Is(log[q], "info", id) => log[q] = log[p]
        BY <1>1 DEF Accurate, Told
    <2>2. \A q \in 1..(n + 1) : p < q /\ Is(all[q], "info", id) => all[q] = all[p]
        BY <1>2, <1>4, <2>1
    <2> QED
        BY <1>2, <1>4, <2>1, <2>2
<1> QED
    BY <1>2, <1>5, <1>6, <1>7 DEF Accurate, all

Below(log, n) == \A i \in DOMAIN log : log[i].id < n

LEMMA LogEnds ==
    ASSUME NEW log \in Logs, NEW e \in WireMessages
    PROVE  /\ log \o <<e>> \in Logs /\ Len(log \o <<e>>) = Len(log) + 1
           /\ DOMAIN (log \o <<e>>) = (1..Len(log)) \cup {Len(log) + 1}
           /\ \A i \in 1..Len(log) : (log \o <<e>>)[i] = log[i]
           /\ (log \o <<e>>)[Len(log) + 1] = e
<1>1. <<e>> \in Logs /\ Len(<<e>>) = 1 /\ <<e>>[1] = e
    BY DEF Logs
<1>2. Len(log) \in Nat
    BY LogKnown
<1>3. /\ log \o <<e>> \in Logs /\ Len(log \o <<e>>) = Len(log) + Len(<<e>>)
      /\ DOMAIN (log \o <<e>>) = 1..(Len(log) + Len(<<e>>))
      /\ \A i \in 1..Len(log) : (log \o <<e>>)[i] = log[i]
      /\ \A i \in 1..Len(<<e>>) : (log \o <<e>>)[Len(log) + i] = <<e>>[i]
    BY <1>1, LogsJoined
<1>4. 1..(Len(log) + 1) = (1..Len(log)) \cup {Len(log) + 1}
    BY <1>2
<1>5. (log \o <<e>>)[Len(log) + 1] = e
    BY <1>1, <1>3
<1> QED
    BY <1>1, <1>3, <1>4, <1>5

\* Something new, with an id that none had, is named before it is told.
LEMMA NewNamed ==
    ASSUME NEW log \in Logs, NEW order, Accurate(scheme, log, order), NEW n \in Nat, Below(log, n),
           NEW order2, \A id : id \in Members(order2) <=> id \in Members(order) \/ id = n
    PROVE  LET all == log \o <<WireMessage("new", n)>> IN
           all \in Logs /\ NewsRise(all) /\ Named(all, order2)
<1> DEFINE e == WireMessage("new", n)
           all == log \o <<e>>
           len == Len(log)
<1>1. e \in WireMessages /\ e.of = "new" /\ e.id = n
    BY DEF WireMessage, WireMessages, MessageKinds
<1> HIDE DEF e
<1>2. /\ len \in Nat /\ DOMAIN log = 1..len /\ len + 1 \notin 1..len
      /\ \A i \in 1..len : log[i].id \in Nat /\ log[i].id < n /\ i < len + 1
    BY LogKnown DEF Below
<1>3. /\ all \in Logs /\ DOMAIN all = (1..len) \cup {len + 1} /\ all[len + 1] = e
      /\ \A i \in 1..len : all[i] = log[i]
    BY <1>1, LogEnds
<1> HIDE DEF all, len
<1>4. NewsRise(all)
    <2> SUFFICES ASSUME NEW i \in DOMAIN all, NEW j \in DOMAIN all, i < j, all[i].of = "new", all[j].of = "new"
                 PROVE  all[i].id < all[j].id
        BY DEF NewsRise
    <2>1. i \in 1..len
        BY <1>2, <1>3
    <2>2. CASE j = len + 1
        BY <1>1, <1>2, <1>3, <2>1, <2>2
    <2>3. CASE j \in 1..len
        BY <1>2, <1>3, <2>1, <2>3 DEF Accurate, NewsRise
    <2> QED
        BY <1>3, <2>2, <2>3
<1>5. ASSUME NEW id \in Members(order2) PROVE Ever(all, "new", id) /\ ~Ever(all, "gone", id)
    <2>1. CASE id = n
        <3>1. Is(all[len + 1], "new", id)
            BY <1>1, <1>3, <2>1 DEF Is
        <3>2. \A i \in 1..len : ~Is(all[i], "gone", id)
            BY <1>2, <1>3, <2>1 DEF Is
        <3> QED
            BY <1>1, <1>3, <3>1, <3>2 DEF Ever, Is
    <2>2. CASE id \in Members(order)
        <3>1. Ever(log, "new", id) /\ ~Ever(log, "gone", id)
            BY <2>2 DEF Accurate, Named
        <3> QED
            BY <1>1, <1>2, <1>3, <3>1 DEF Ever, Is
    <2> QED
        BY <1>5, <2>1, <2>2
<1>6. ASSUME NEW i \in DOMAIN all, all[i].of = "new", all[i].id \notin Members(order2)
      PROVE  \E j \in DOMAIN all : i < j /\ Is(all[j], "gone", all[i].id)
    <2>1. i \in 1..len /\ all[i] = log[i] /\ log[i].id \notin Members(order)
        BY <1>1, <1>3, <1>6
    <2>2. PICK j \in 1..len : i < j /\ Is(log[j], "gone", log[i].id)
        BY <1>2, <1>6, <2>1 DEF Accurate, Named
    <2> QED
        BY <1>3, <2>1, <2>2
<1> QED
    BY <1>3, <1>4, <1>5, <1>6 DEF Named, all, e

\* What went is named no more.
LEMMA GoneNamed ==
    ASSUME NEW log \in Logs, NEW order, Accurate(scheme, log, order), NEW n \in Nat,
           NEW order2, \A id : id \in Members(order2) <=> id \in Members(order) /\ id # n
    PROVE  LET all == log \o <<WireMessage("gone", n)>> IN
           all \in Logs /\ NewsRise(all) /\ Named(all, order2)
<1> DEFINE e == WireMessage("gone", n)
           all == log \o <<e>>
           len == Len(log)
<1>1. e \in WireMessages /\ e.of = "gone" /\ e.id = n
    BY DEF WireMessage, WireMessages, MessageKinds
<1> HIDE DEF e
<1>2. /\ len \in Nat /\ DOMAIN log = 1..len /\ len + 1 \notin 1..len
      /\ \A i \in 1..len : i < len + 1
    BY LogKnown
<1>3. /\ all \in Logs /\ DOMAIN all = (1..len) \cup {len + 1} /\ all[len + 1] = e
      /\ \A i \in 1..len : all[i] = log[i]
    BY <1>1, LogEnds
<1> HIDE DEF all, len
<1>4. NewsRise(all)
    <2>1. \A i \in DOMAIN all : all[i].of = "new" => i \in 1..len
        BY <1>1, <1>3
    <2> QED
        BY <1>2, <1>3, <2>1 DEF Accurate, NewsRise
<1>5. ASSUME NEW id \in Members(order2) PROVE Ever(all, "new", id) /\ ~Ever(all, "gone", id)
    <2>1. Ever(log, "new", id) /\ ~Ever(log, "gone", id) /\ id # n
        BY <1>5 DEF Accurate, Named
    <2> QED
        BY <1>1, <1>2, <1>3, <2>1 DEF Ever, Is
<1>6. ASSUME NEW i \in DOMAIN all, all[i].of = "new", all[i].id \notin Members(order2)
      PROVE  \E j \in DOMAIN all : i < j /\ Is(all[j], "gone", all[i].id)
    <2>1. i \in 1..len /\ all[i] = log[i]
        BY <1>1, <1>3, <1>6
    <2>2. CASE log[i].id \notin Members(order)
        <3>1. PICK j \in 1..len : i < j /\ Is(log[j], "gone", log[i].id)
            BY <1>2, <1>6, <2>1, <2>2 DEF Accurate, Named
        <3> QED
            BY <1>3, <2>1, <3>1
    <2>3. CASE log[i].id = n
        BY <1>1, <1>2, <1>3, <2>1, <2>3 DEF Is
    <2> QED
        BY <1>6, <2>1, <2>2, <2>3
<1> QED
    BY <1>3, <1>4, <1>5, <1>6 DEF Named, all, e

\* Until the list is bound, nothing is said of what is on it.
Early(offered, log) ==
    \A i \in DOMAIN log : /\ log[i].of \in {"global", "intro", "delete"}
                          /\ log[i].of = "global" /\ log[i].id = 1 => offered

\* Then all there is is announced.
LEMMA AllNamed ==
    ASSUME NEW log \in Logs, Early(bindable, log), NEW order \in Orders(scheme), NEW ids \in AsMade(order)
    PROVE  log \o News(ids) \in Logs /\ NewsRise(log \o News(ids)) /\ Named(log \o News(ids), order)
<1> DEFINE n == Len(log)
           m == Len(order)
           all == log \o News(ids)
<1>1. /\ n \in Nat /\ DOMAIN log = 1..n
    BY LogKnown
<1>2. /\ m \in Nat /\ DOMAIN order = 1..m /\ Members(order) \subseteq Nat
    BY ItemsOrdered
<1>3. /\ ids \in [1..m -> Members(order)] /\ Members(ids) = Members(order)
      /\ \A i, j \in 1..m : i < j => ids[i] < ids[j]
    <2>1. DOMAIN ids = 1..m
        BY <1>2 DEF AsMade
    <2> QED
        BY <1>2, <2>1 DEF AsMade
<1>4. /\ News(ids) \in Logs /\ Len(News(ids)) = m
      /\ \A i \in 1..m : News(ids)[i].of = "new" /\ News(ids)[i].id = ids[i]
    <2>1. \A i \in 1..m : /\ WireMessage("new", ids[i]) \in WireMessages
                          /\ WireMessage("new", ids[i]).of = "new" /\ WireMessage("new", ids[i]).id = ids[i]
        BY <1>2, <1>3 DEF WireMessage, WireMessages, MessageKinds
    <2>2. News(ids) = [i \in 1..m |-> WireMessage("new", ids[i])]
        BY <1>3 DEF News
    <2>3. News(ids) \in [1..m -> WireMessages]
        BY <2>1, <2>2
    <2>4. News(ids) \in Logs
        BY <1>2, <2>3, SeqDef DEF Logs
    <2>5. Len(News(ids)) \in Nat /\ DOMAIN News(ids) = 1..Len(News(ids))
        BY <2>4, LogKnown
    <2>6. Len(News(ids)) = m
        BY <1>2, <2>3, <2>5
    <2> QED
        BY <2>1, <2>2, <2>4, <2>6
<1>5. /\ all \in Logs /\ DOMAIN all = 1..(n + m)
      /\ \A i \in 1..n : all[i] = log[i]
      /\ \A i \in 1..m : all[n + i] = News(ids)[i]
      /\ \A k \in 1..(n + m) : k \in 1..n \/ \E i \in 1..m : k = n + i
    <2>1. /\ all \in Logs /\ DOMAIN all = 1..(Len(log) + Len(News(ids)))
          /\ \A i \in 1..Len(log) : all[i] = log[i]
          /\ \A i \in 1..Len(News(ids)) : all[Len(log) + i] = News(ids)[i]
          /\ \A k \in 1..(Len(log) + Len(News(ids))) :
                k \in 1..Len(log) \/ \E i \in 1..Len(News(ids)) : k = Len(log) + i
        BY <1>4, LogsJoined
    <2> HIDE DEF all, m
    <2> QED
        BY <1>4, <2>1
<1> HIDE DEF all, n, m
<1>6. /\ \A i \in 1..n : all[i].of \notin {"new", "gone"}
      /\ \A i \in 1..m : all[n + i].of = "new" /\ all[n + i].id = ids[i]
    <2>1. \A i \in 1..n : log[i].of \in {"global", "intro", "delete"}
        BY <1>1 DEF Early
    <2>2. \A i \in 1..n : all[i].of \notin {"new", "gone"}
        BY <1>5, <2>1
    <2> QED
        BY <1>4, <1>5, <2>2
<1>7. NewsRise(all)
    <2> SUFFICES ASSUME NEW i \in 1..(n + m), NEW j \in 1..(n + m), i < j, all[i].of = "new", all[j].of = "new"
                 PROVE  all[i].id < all[j].id
        BY <1>5 DEF NewsRise
    <2>1. PICK k \in 1..m : i = n + k
        BY <1>5, <1>6
    <2>2. PICK l \in 1..m : j = n + l
        BY <1>5, <1>6
    <2>3. k < l
        BY <1>1, <1>2, <2>1, <2>2
    <2> QED
        BY <1>3, <1>6, <2>1, <2>2, <2>3
<1>8. ASSUME NEW id \in Members(order) PROVE Ever(all, "new", id) /\ ~Ever(all, "gone", id)
    <2>1. PICK k \in 1..m : ids[k] = id
        BY <1>3 DEF Members
    <2>2. n + k \in 1..(n + m) /\ Is(all[n + k], "new", id)
        BY <1>1, <1>2, <1>6, <2>1 DEF Is
    <2>3. \A k2 \in 1..(n + m) : all[k2].of # "gone"
        BY <1>5, <1>6
    <2> QED
        BY <1>5, <2>2, <2>3 DEF Ever, Is
<1>9. ASSUME NEW i \in 1..(n + m), all[i].of = "new" PROVE all[i].id \in Members(order)
    <2>1. PICK k \in 1..m : i = n + k
        BY <1>5, <1>6, <1>9
    <2> QED
        BY <1>3, <1>6, <2>1
<1> QED
    BY <1>5, <1>7, <1>8, <1>9 DEF Named, all

\* Something new takes its place among the others.
LEMMA OrderGrows ==
    ASSUME NEW order \in Orders(scheme), NEW n \in Nat, \A id \in Members(order) : id < n,
           NEW place \in 1..(Len(order) + 1), scheme # "coords" => place = Len(order) + 1
    PROVE  LET order2 == SubSeq(order, 1, place - 1) \o <<n>> \o SubSeq(order, place, Len(order)) IN
           order2 \in Orders(scheme) /\ \A id : id \in Members(order2) <=> id \in Members(order) \/ id = n
<1> DEFINE len == Len(order)
           a == SubSeq(order, 1, place - 1)
           b == SubSeq(order, place, len)
           an == a \o <<n>>
           order2 == a \o <<n>> \o b
<1>1. /\ len \in Nat /\ DOMAIN order = 1..len /\ \A i \in 1..len : order[i] \in Nat /\ order[i] \in Members(order)
      /\ \A id \in Members(order) : \E i \in 1..len : order[i] = id
      /\ \A i, j \in 1..len : order[i] = order[j] => i = j
      /\ \A i, j \in 1..len : i < j /\ scheme # "coords" => order[i] < order[j]
    <2>1. \A i, j \in 1..len : i < j /\ scheme # "coords" => order[i] < order[j]
        BY DEF Orders
    <2> QED
        BY <2>1, ItemsOrdered
<1>2. /\ a \in Seq(Nat) /\ Len(a) = place - 1 /\ \A i \in 1..(place - 1) : a[i] = order[i]
    <2>1. /\ a \in Seq(Nat) /\ Len(a) = IF 1 <= place - 1 THEN place - 1 - 1 + 1 ELSE 0
          /\ \A i \in 1..(place - 1 - 1 + 1) : a[i] = order[1 + i - 1]
        <3>1. 1 \in Int /\ place - 1 \in Int /\ \A i \in 1..(place - 1) : order[i] \in Nat
            BY <1>1
        <3> HIDE DEF a
        <3> QED
            BY <3>1, SubSeqProperties DEF a
    <2> HIDE DEF a, len
    <2> QED
        BY <1>1, <2>1
<1>3. /\ b \in Seq(Nat) /\ Len(b) = len + 1 - place /\ \A i \in 1..(len + 1 - place) : b[i] = order[place + i - 1]
    <2>1. /\ b \in Seq(Nat) /\ Len(b) = IF place <= len THEN len - place + 1 ELSE 0
          /\ \A i \in 1..(len - place + 1) : b[i] = order[place + i - 1]
        <3>1. place \in Int /\ len \in Int /\ \A i \in place..len : order[i] \in Nat
            BY <1>1
        <3> HIDE DEF b, len
        <3> QED
            BY <3>1, SubSeqProperties DEF b
    <2> HIDE DEF b, len
    <2> QED
        BY <1>1, <2>1
<1> HIDE DEF a, b
<1>4. <<n>> \in Seq(Nat) /\ Len(<<n>>) = 1 /\ <<n>>[1] = n
    OBVIOUS
<1>5. /\ an \in Seq(Nat) /\ Len(an) = place
      /\ \A i \in 1..place : an[i] = IF i < place THEN order[i] ELSE n
    <2>1. /\ an \in Seq(Nat) /\ Len(an) = Len(a) + Len(<<n>>)
          /\ \A i \in 1..(Len(a) + Len(<<n>>)) : an[i] = IF i <= Len(a) THEN a[i] ELSE <<n>>[i - Len(a)]
        BY <1>2, <1>4, ConcatProperties
    <2> HIDE DEF an, len
    <2>2. ASSUME NEW i \in 1..place PROVE an[i] = IF i < place THEN order[i] ELSE n
        <3>1. CASE i < place
            BY <1>1, <1>2, <1>4, <2>1, <3>1
        <3>2. CASE i = place
            BY <1>1, <1>2, <1>4, <2>1, <3>2
        <3> QED
            BY <1>1, <3>1, <3>2
    <2> QED
        BY <1>1, <1>2, <1>4, <2>1, <2>2
<1>6. order2 = an \o b
    OBVIOUS
<1> HIDE DEF an
<1>7. /\ order2 \in Seq(Nat) /\ Len(order2) = len + 1 /\ DOMAIN order2 = 1..(len + 1)
      /\ \A i \in 1..(len + 1) : order2[i] = IF i < place THEN order[i] ELSE IF i = place THEN n ELSE order[i - 1]
    <2>1. /\ order2 \in Seq(Nat) /\ Len(order2) = Len(an) + Len(b)
          /\ \A i \in 1..(Len(an) + Len(b)) : order2[i] = IF i <= Len(an) THEN an[i] ELSE b[i - Len(an)]
        <3>1. /\ an \o b \in Seq(Nat) /\ Len(an \o b) = Len(an) + Len(b)
              /\ \A i \in 1..(Len(an) + Len(b)) : (an \o b)[i] = IF i <= Len(an) THEN an[i] ELSE b[i - Len(an)]
            BY <1>3, <1>5, ConcatProperties
        <3> HIDE DEF order2
        <3> QED
            BY <1>6, <3>1
    <2>2. DOMAIN order2 = 1..Len(order2)
        BY <2>1, LenProperties
    <2> HIDE DEF order2, len
    <2>3. Len(order2) = len + 1
        BY <1>1, <1>3, <1>5, <2>1
    <2>4. ASSUME NEW i \in 1..(len + 1)
          PROVE  order2[i] = IF i < place THEN order[i] ELSE IF i = place THEN n ELSE order[i - 1]
        <3>1. i \in 1..(Len(an) + Len(b))
            BY <2>1, <2>3
        <3>2. CASE i <= place
            BY <1>1, <1>5, <2>1, <3>1, <3>2
        <3>3. CASE i > place
            <4>1. i - place \in 1..(len + 1 - place) /\ place + (i - place) - 1 = i - 1
                BY <1>1, <3>3
            <4>2. order2[i] = b[i - place] /\ ~(i < place) /\ i # place
                BY <1>1, <1>5, <2>1, <3>1, <3>3
            <4> QED
                BY <1>3, <4>1, <4>2
        <3> QED
            BY <1>1, <3>2, <3>3
    <2> QED
        BY <2>1, <2>2, <2>3, <2>4
<1> HIDE DEF order2, len
<1>8. \A i \in 1..(len + 1) :
         \/ i < place /\ i \in 1..len /\ order2[i] = order[i]
         \/ i = place /\ order2[i] = n
         \/ i > place /\ i - 1 \in 1..len /\ order2[i] = order[i - 1]
    BY <1>1, <1>7
<1>9. \A i \in 1..len : order[i] < n
    BY <1>1
<1>10. order2 \in Orders(scheme)
    <2> SUFFICES ASSUME NEW i \in 1..Len(order2), NEW j \in 1..Len(order2), i < j
                 PROVE  order2[i] # order2[j] /\ (scheme # "coords" => order2[i] < order2[j])
        BY <1>7 DEF Orders
    <2>0. i \in 1..(len + 1) /\ j \in 1..(len + 1)
        BY <1>7
    <2>1. scheme # "coords" => ~(j > place)
        BY <1>1, <2>0 DEF len
    <2>2. CASE i < place
        <3>1. i \in 1..len /\ order2[i] = order[i]
            BY <1>8, <2>0, <2>2
        <3>2. CASE j < place
            BY <1>1, <1>8, <2>0, <3>1, <3>2
        <3>3. CASE j = place
            BY <1>1, <1>8, <1>9, <2>0, <3>1, <3>3
        <3>4. CASE j > place
            <4>1. j - 1 \in 1..len /\ order2[j] = order[j - 1] /\ i # j - 1
                BY <1>1, <1>8, <2>0, <2>2, <3>4
            <4> QED
                BY <1>1, <2>1, <3>1, <3>4, <4>1
        <3> QED
            BY <1>1, <2>0, <3>2, <3>3, <3>4
    <2>3. CASE i = place
        <3>1. j - 1 \in 1..len /\ order2[j] = order[j - 1] /\ order2[i] = n /\ j > place
            BY <1>1, <1>8, <2>0, <2>3
        <3> QED
            BY <1>1, <1>9, <2>1, <3>1
    <2>4. CASE i > place
        <3>1. j - 1 \in 1..len /\ order2[j] = order[j - 1] /\ i - 1 \in 1..len /\ order2[i] = order[i - 1] /\ j > place
              /\ i - 1 # j - 1
            BY <1>1, <1>8, <2>0, <2>4
        <3> QED
            BY <1>1, <2>1, <3>1
    <2> QED
        BY <1>1, <2>0, <2>2, <2>3, <2>4
<1>11. ASSUME NEW id, id \in Members(order2) PROVE id \in Members(order) \/ id = n
    <2>1. PICK i \in 1..(len + 1) : order2[i] = id
        BY <1>7, <1>11 DEF Members
    <2> QED
        BY <1>1, <1>8, <2>1
<1>12. n \in Members(order2)
    <2>1. place \in 1..(len + 1) /\ order2[place] = n
        BY <1>1, <1>7 DEF len
    <2> QED
        BY <1>7, <2>1 DEF Members
<1>13. ASSUME NEW id \in Members(order) PROVE id \in Members(order2)
    <2>1. PICK i \in 1..len : order[i] = id
        BY <1>1
    <2>2. CASE i < place
        <3>1. i \in 1..(len + 1) /\ order2[i] = id
            BY <1>1, <1>7, <2>1, <2>2
        <3> QED
            BY <1>7, <3>1 DEF Members
    <2>3. CASE i >= place
        <3>1. i + 1 \in 1..(len + 1) /\ order2[i + 1] = id
            <4>1. i + 1 \in 1..(len + 1) /\ ~(i + 1 < place) /\ i + 1 # place /\ i + 1 - 1 = i
                BY <1>1, <2>3
            <4> QED
                BY <1>7, <2>1, <4>1
        <3> QED
            BY <1>7, <3>1 DEF Members
    <2> QED
        BY <1>1, <2>2, <2>3
<1> QED
    BY <1>10, <1>11, <1>12, <1>13 DEF order2, len, a, b

\* What goes leaves the others in their order.
LEMMA OrderShrinks ==
    ASSUME NEW order \in Orders(scheme), NEW place \in 1..Len(order)
    PROVE  LET order2 == SubSeq(order, 1, place - 1) \o SubSeq(order, place + 1, Len(order)) IN
           order2 \in Orders(scheme) /\ \A id : id \in Members(order2) <=> id \in Members(order) /\ id # order[place]
<1> DEFINE len == Len(order)
           a == SubSeq(order, 1, place - 1)
           b == SubSeq(order, place + 1, len)
           order2 == a \o b
<1>1. /\ len \in Nat /\ DOMAIN order = 1..len /\ \A i \in 1..len : order[i] \in Nat /\ order[i] \in Members(order)
      /\ \A id \in Members(order) : \E i \in 1..len : order[i] = id
      /\ \A i, j \in 1..len : order[i] = order[j] => i = j
      /\ \A i, j \in 1..len : i < j /\ scheme # "coords" => order[i] < order[j]
      /\ place \in 1..len
    <2>1. \A i, j \in 1..len : i < j /\ scheme # "coords" => order[i] < order[j]
        BY DEF Orders
    <2> QED
        BY <2>1, ItemsOrdered
<1>2. /\ a \in Seq(Nat) /\ Len(a) = place - 1 /\ \A i \in 1..(place - 1) : a[i] = order[i]
    <2>1. /\ a \in Seq(Nat) /\ Len(a) = IF 1 <= place - 1 THEN place - 1 - 1 + 1 ELSE 0
          /\ \A i \in 1..(place - 1 - 1 + 1) : a[i] = order[1 + i - 1]
        <3>1. 1 \in Int /\ place - 1 \in Int /\ \A i \in 1..(place - 1) : order[i] \in Nat
            BY <1>1
        <3> HIDE DEF a
        <3> QED
            BY <3>1, SubSeqProperties DEF a
    <2> HIDE DEF a, len
    <2> QED
        BY <1>1, <2>1
<1>3. /\ b \in Seq(Nat) /\ Len(b) = len - place /\ \A i \in 1..(len - place) : b[i] = order[place + i]
    <2>1. /\ b \in Seq(Nat) /\ Len(b) = IF place + 1 <= len THEN len - (place + 1) + 1 ELSE 0
          /\ \A i \in 1..(len - (place + 1) + 1) : b[i] = order[place + 1 + i - 1]
        <3>1. place + 1 \in Int /\ len \in Int /\ \A i \in (place + 1)..len : order[i] \in Nat
            BY <1>1
        <3> HIDE DEF b, len
        <3> QED
            BY <3>1, SubSeqProperties DEF b
    <2> HIDE DEF b, len
    <2> QED
        BY <1>1, <2>1
<1> HIDE DEF a, b
<1>4. /\ order2 \in Seq(Nat) /\ Len(order2) = len - 1 /\ DOMAIN order2 = 1..(len - 1)
      /\ \A i \in 1..(len - 1) : order2[i] = IF i < place THEN order[i] ELSE order[i + 1]
    <2>1. /\ order2 \in Seq(Nat) /\ Len(order2) = Len(a) + Len(b)
          /\ \A i \in 1..(Len(a) + Len(b)) : order2[i] = IF i <= Len(a) THEN a[i] ELSE b[i - Len(a)]
        BY <1>2, <1>3, ConcatProperties
    <2>2. DOMAIN order2 = 1..Len(order2)
        BY <2>1, LenProperties
    <2> HIDE DEF order2, len
    <2>3. Len(order2) = len - 1
        BY <1>1, <1>2, <1>3, <2>1
    <2>4. ASSUME NEW i \in 1..(len - 1) PROVE order2[i] = IF i < place THEN order[i] ELSE order[i + 1]
        <3>1. i \in 1..(Len(a) + Len(b))
            BY <2>1, <2>3
        <3>2. CASE i < place
            BY <1>1, <1>2, <2>1, <3>1, <3>2
        <3>3. CASE i >= place
            <4>1. i - (place - 1) \in 1..(len - place) /\ place + (i - (place - 1)) = i + 1 /\ ~(i <= place - 1)
                BY <1>1, <3>3
            <4>2. order2[i] = b[i - (place - 1)] /\ ~(i < place)
                BY <1>1, <1>2, <2>1, <3>1, <3>3, <4>1
            <4>3. b[i - (place - 1)] = order[place + (i - (place - 1))]
                BY <1>3, <4>1
            <4> QED
                BY <4>1, <4>2, <4>3
        <3> QED
            BY <1>1, <3>2, <3>3
    <2> QED
        BY <2>1, <2>2, <2>3, <2>4
<1> HIDE DEF order2, len
<1>5. \A i \in 1..(len - 1) :
         \/ i < place /\ i \in 1..len /\ order2[i] = order[i]
         \/ i >= place /\ i + 1 \in 1..len /\ order2[i] = order[i + 1]
    BY <1>1, <1>4
<1>6. order2 \in Orders(scheme)
    <2> SUFFICES ASSUME NEW i \in 1..Len(order2), NEW j \in 1..Len(order2), i < j
                 PROVE  order2[i] # order2[j] /\ (scheme # "coords" => order2[i] < order2[j])
        BY <1>4 DEF Orders
    <2>0. i \in 1..(len - 1) /\ j \in 1..(len - 1)
        BY <1>4
    <2>1. PICK k \in 1..len : order2[i] = order[k] /\ k = IF i < place THEN i ELSE i + 1
        BY <1>1, <1>5, <2>0
    <2>2. PICK l \in 1..len : order2[j] = order[l] /\ l = IF j < place THEN j ELSE j + 1
        BY <1>1, <1>5, <2>0
    <2>3. k < l
        BY <1>1, <2>0, <2>1, <2>2
    <2> QED
        BY <1>1, <2>1, <2>2, <2>3
<1>7. ASSUME NEW id, id \in Members(order2) PROVE id \in Members(order) /\ id # order[place]
    <2>1. PICK i \in 1..(len - 1) : order2[i] = id
        BY <1>4, <1>7 DEF Members
    <2>2. PICK k \in 1..len : id = order[k] /\ k # place
        <3>1. CASE i < place
            BY <1>1, <1>5, <2>1, <3>1
        <3>2. CASE i >= place
            BY <1>1, <1>5, <2>1, <3>2
        <3> QED
            BY <1>1, <3>1, <3>2
    <2> QED
        BY <1>1, <2>2
<1>8. ASSUME NEW id \in Members(order), id # order[place] PROVE id \in Members(order2)
    <2>1. PICK i \in 1..len : order[i] = id /\ i # place
        BY <1>1, <1>8
    <2>2. CASE i < place
        <3>1. i \in 1..(len - 1) /\ order2[i] = id
            BY <1>1, <1>4, <2>1, <2>2
        <3> QED
            BY <1>4, <3>1 DEF Members
    <2>3. CASE i > place
        <3>1. i - 1 \in 1..(len - 1) /\ ~(i - 1 < place) /\ i - 1 + 1 = i
            BY <1>1, <2>3
        <3>2. order2[i - 1] = id
            BY <1>4, <2>1, <3>1
        <3> QED
            BY <1>4, <3>1, <3>2 DEF Members
    <2> QED
        BY <1>1, <2>1, <2>2, <2>3
<1> QED
    BY <1>6, <1>7, <1>8 DEF order2, len, a, b

-----------------------------------------------------------------------------
(* The session, from its start to the activation.                               *)

SessionRequests == {"registry", "intro", "bind", "list", "activate", "commit", "ack"}

SessionTypes ==
    /\ items \in Orders(scheme) /\ truth \in Orders(scheme)
    /\ nextItem \in Nat /\ \A id \in Members(items) : id < nextItem
    /\ requests \in Seq(SessionRequests)
    /\ wire \in Logs /\ heard \in Logs /\ Below(wire, nextItem) /\ Below(heard, nextItem)
    /\ nextItem > 1 /\ index \in Nat
    /\ stage \in {"idle", "intro", "list", "listed", "ack", "done", "none"}

NoneOf(log, of) == \A i \in DOMAIN log : log[i].of # of

\* Until the globals are known.
Introduced ==
    /\ requests \in {<<"registry", "intro">>, <<"intro">>, <<>>}
    /\ Early(bindable, wire) /\ Early(bindable, heard)
    /\ requests # <<>> => NoneOf(wire, "intro")

\* The list is asked for; it is being announced; or it was answered for.
Unbound == requests = <<"bind", "list">> /\ Early(bindable, wire) /\ Early(bindable, heard)
Unanswered == requests = <<"list">> /\ NoneOf(wire, "list") /\ Accurate(scheme, heard \o wire, items)
AnsweredBy(a) ==
    /\ requests = <<>>
    /\ \A k \in DOMAIN wire : wire[k].of = "list" <=> k = a
    /\ wire[a] = WireMessage("list", 0)
    /\ Accurate(scheme, heard \o SubSeq(wire, 1, a), truth)

SessionInv ==
    /\ SessionTypes
    /\ stage = "idle" => requests = <<>> /\ wire = <<>> /\ heard = <<>>
    /\ stage = "intro" => Introduced
    /\ stage = "list" => bindable /\ (Unbound \/ Unanswered \/ \E a \in DOMAIN wire : AnsweredBy(a))
    /\ stage = "listed" => requests = <<>> /\ Accurate(scheme, heard, truth)
    /\ stage \in {"ack", "done"} => \A i \in DOMAIN requests : requests[i] # "list"
    /\ stage \notin {"ack", "done"} => picked = 0
    /\ SwitchMeant

\* What holds of the messages of two logs holds of theirs together.
LEMMA JoinedFrom ==
    ASSUME NEW a \in Logs, NEW b \in Logs
    PROVE  /\ a \o b \in Logs
           /\ \A k \in DOMAIN (a \o b) : \/ \E i \in DOMAIN a : (a \o b)[k] = a[i]
                                         \/ \E i \in DOMAIN b : (a \o b)[k] = b[i]
           /\ \A n : Below(a, n) /\ Below(b, n) => Below(a \o b, n)
           /\ \A of : NoneOf(a, of) /\ NoneOf(b, of) => NoneOf(a \o b, of)
           /\ \A known : Early(known, a) /\ Early(known, b) => Early(known, a \o b)
<1> DEFINE c == a \o b
<1>1. /\ c \in Logs /\ DOMAIN c = 1..(Len(a) + Len(b))
      /\ \A i \in 1..Len(a) : c[i] = a[i]
      /\ \A i \in 1..Len(b) : c[Len(a) + i] = b[i]
      /\ \A k \in 1..(Len(a) + Len(b)) : k \in 1..Len(a) \/ \E i \in 1..Len(b) : k = Len(a) + i
    BY LogsJoined
<1>2. DOMAIN a = 1..Len(a) /\ DOMAIN b = 1..Len(b)
    BY LogKnown
<1> HIDE DEF c
<1>3. ASSUME NEW k \in DOMAIN c
      PROVE  (\E i \in DOMAIN a : c[k] = a[i]) \/ (\E i \in DOMAIN b : c[k] = b[i])
    <2>1. CASE k \in 1..Len(a)
        BY <1>1, <1>2, <2>1
    <2>2. CASE \E i \in 1..Len(b) : k = Len(a) + i
        BY <1>1, <1>2, <2>2
    <2> QED
        BY <1>1, <2>1, <2>2
<1>4. ASSUME NEW n, Below(a, n), Below(b, n) PROVE Below(c, n)
    BY <1>3, <1>4 DEF Below
<1>5. ASSUME NEW of, NoneOf(a, of), NoneOf(b, of) PROVE NoneOf(c, of)
    BY <1>3, <1>5 DEF NoneOf
<1>6. ASSUME NEW known, Early(known, a), Early(known, b) PROVE Early(known, c)
    <2> SUFFICES ASSUME NEW k \in DOMAIN c
                 PROVE  c[k].of \in {"global", "intro", "delete"} /\ (c[k].of = "global" /\ c[k].id = 1 => known)
        BY DEF Early
    <2>1. CASE \E i \in DOMAIN a : c[k] = a[i]
        BY <1>6, <2>1 DEF Early
    <2>2. CASE \E i \in DOMAIN b : c[k] = b[i]
        BY <1>6, <2>2 DEF Early
    <2> QED
        BY <1>3, <2>1, <2>2
<1> QED
    BY <1>1, <1>3, <1>4, <1>5, <1>6 DEF c

\* A log cut in two.
LEMMA LogCut ==
    ASSUME NEW log \in Logs, NEW n \in 0..Len(log)
    PROVE  LET a == SubSeq(log, 1, n)
               b == SubSeq(log, n + 1, Len(log))
           IN  /\ a \in Logs /\ Len(a) = n /\ DOMAIN a = 1..n /\ \A i \in 1..n : a[i] = log[i]
               /\ b \in Logs /\ Len(b) = Len(log) - n /\ DOMAIN b = 1..(Len(log) - n)
               /\ \A i \in 1..(Len(log) - n) : b[i] = log[n + i]
               /\ a \o b = log
<1> DEFINE m == Len(log)
           a == SubSeq(log, 1, n)
           b == SubSeq(log, n + 1, m)
<1>1. m \in Nat /\ n \in Nat /\ n <= m /\ \A i \in 1..m : log[i] \in WireMessages
    BY LogKnown
<1>2. a \in Seq(WireMessages) /\ Len(a) = n /\ \A i \in 1..n : a[i] = log[i]
    <2>1. 1 \in Int /\ n \in Int /\ \A i \in 1..n : log[i] \in WireMessages
        BY <1>1
    <2>2. /\ a \in Seq(WireMessages) /\ Len(a) = IF 1 <= n THEN n - 1 + 1 ELSE 0
          /\ \A i \in 1..(n - 1 + 1) : a[i] = log[1 + i - 1]
        BY <2>1, SubSeqProperties
    <2> HIDE DEF a, m
    <2> QED
        BY <1>1, <2>2
<1>3. b \in Seq(WireMessages) /\ Len(b) = m - n /\ \A i \in 1..(m - n) : b[i] = log[n + i]
    <2>1. n + 1 \in Int /\ m \in Int /\ \A i \in (n + 1)..m : log[i] \in WireMessages
        BY <1>1
    <2>2. /\ b \in Seq(WireMessages) /\ Len(b) = IF n + 1 <= m THEN m - (n + 1) + 1 ELSE 0
          /\ \A i \in 1..(m - (n + 1) + 1) : b[i] = log[n + 1 + i - 1]
        <3> HIDE DEF m
        <3> QED
            BY <2>1, SubSeqProperties
    <2> HIDE DEF b, m
    <2>3. m - (n + 1) + 1 = m - n /\ \A i \in 1..(m - n) : n + 1 + i - 1 = n + i
        BY <1>1
    <2> QED
        BY <1>1, <2>2, <2>3
<1>4. a \o b = log
    <2>1. 1 \in 1..(Len(log) + 1) /\ n \in (1 - 1)..Len(log) /\ m \in n..Len(log) /\ log \in Seq(WireMessages)
        BY <1>1 DEF Logs
    <2>2. a \o b = SubSeq(log, 1, m)
        <3> HIDE DEF m
        <3> QED
            BY <2>1, ConcatAdjacentSubSeq
    <2>3. SubSeq(log, 1, m) = log
        BY SubSeqFull DEF Logs
    <2> QED
        BY <2>2, <2>3
<1> HIDE DEF a, b, m
<1>5. a \in Logs /\ b \in Logs
    BY <1>2, <1>3 DEF Logs
<1>6. DOMAIN a = 1..n /\ DOMAIN b = 1..(m - n)
    BY <1>2, <1>3, <1>5, LogKnown
<1> QED
    BY <1>2, <1>3, <1>4, <1>5, <1>6 DEF a, b, m

\* What is told of what there is names nothing else, and answers nothing.
LEMMA BlockNames ==
    ASSUME NEW order \in Orders(scheme), NEW n, \A id \in Members(order) : id < n
    PROVE  /\ Details(order) \in Logs /\ Batches(order) \in Logs
           /\ Below(Details(order), n) /\ Below(Batches(order), n)
           /\ NoneOf(Details(order), "list") /\ NoneOf(Batches(order), "list")
<1>1. /\ DOMAIN order = 1..Len(order) /\ \A i \in 1..Len(order) : order[i] \in Members(order)
    BY ItemsOrdered
<1>2. /\ Details(order) \in Logs /\ Len(Details(order)) = Len(order)
      /\ \A i \in 1..Len(order) : Details(order)[i] = Seen(scheme, order[i], order)
      /\ Batches(order) \in Logs /\ Len(Batches(order)) = Len(order)
      /\ \A i \in 1..Len(order) : Batches(order)[i] = WireMessage("batch", order[i])
    BY BlockKnown
<1>3. DOMAIN Details(order) = 1..Len(order) /\ DOMAIN Batches(order) = 1..Len(order)
    BY <1>2, LogKnown
<1>4. ASSUME NEW i \in 1..Len(order)
      PROVE  /\ Details(order)[i].id = order[i] /\ Details(order)[i].of = "info"
             /\ Batches(order)[i].id = order[i] /\ Batches(order)[i].of = "batch"
    <2>1. \A id : Seen(scheme, id, order).id = id /\ Seen(scheme, id, order).of = "info"
        BY ZenonT(30) DEF Seen
    <2>2. \A id : WireMessage("batch", id).id = id /\ WireMessage("batch", id).of = "batch"
        BY DEF WireMessage
    <2> QED
        BY <1>2, <2>1, <2>2
<1> QED
    BY <1>1, <1>2, <1>3, <1>4 DEF Below, NoneOf

LEMMA NewsNames ==
    ASSUME NEW order \in Orders(scheme), NEW n, \A id \in Members(order) : id < n, NEW ids \in AsMade(order)
    PROVE  News(ids) \in Logs /\ Below(News(ids), n) /\ NoneOf(News(ids), "list")
<1>1. ids \in [1..Len(order) -> Members(order)] /\ Members(order) \subseteq Nat /\ Len(order) \in Nat
    BY ItemsOrdered DEF AsMade
<1>2. DOMAIN News(ids) = 1..Len(order) /\ \A i \in 1..Len(order) : News(ids)[i] = WireMessage("new", ids[i])
    BY <1>1 DEF News
<1>3. \A i \in 1..Len(order) : /\ ids[i] \in Members(order) /\ ids[i] \in Nat
                               /\ WireMessage("new", ids[i]) \in WireMessages
                               /\ WireMessage("new", ids[i]).id = ids[i] /\ WireMessage("new", ids[i]).of = "new"
    BY <1>1 DEF WireMessage, WireMessages, MessageKinds
<1>4. News(ids) \in Logs
    <2>1. News(ids) = [i \in 1..Len(order) |-> WireMessage("new", ids[i])]
        BY <1>1 DEF News
    <2> QED
        BY <1>1, <1>3, <2>1 DEF Logs
<1> QED
    BY <1>2, <1>3, <1>4 DEF Below, NoneOf

\* What the compositor says of a change makes every true log true of what there is then.
Changed(events) ==
    /\ events \in Logs /\ Below(events, nextItem') /\ NoneOf(events, "list") /\ Tells(events)
    /\ items' \in Orders(scheme) /\ nextItem' \in Nat /\ nextItem' >= nextItem
    /\ \A id \in Members(items') : id < nextItem'
    /\ \A log \in Logs : Accurate(scheme, log, items) /\ Below(log, nextItem)
                         => Accurate(scheme, log \o events, items')

LEMMA LogsAssociate ==
    ASSUME NEW a \in Logs, NEW b \in Logs, NEW c \in Logs
    PROVE  a \o (b \o c) = (a \o b) \o c
<1>1. a \in Seq(WireMessages) /\ b \in Seq(WireMessages) /\ c \in Seq(WireMessages)
    BY DEF Logs
<1> QED
    BY <1>1, ConcatAssociative, SMTT(30)

LEMMA OneNames ==
    ASSUME NEW n, NEW of \in {"new", "gone"}, NEW id \in Nat, id < n
    PROVE  /\ <<WireMessage(of, id)>> \in Logs
           /\ Below(<<WireMessage(of, id)>>, n) /\ NoneOf(<<WireMessage(of, id)>>, "list")
<1> DEFINE e == WireMessage(of, id)
<1>1. e \in WireMessages /\ e.of = of /\ e.id = id
    BY DEF WireMessage, WireMessages, MessageKinds
<1> HIDE DEF e
<1>2. DOMAIN <<e>> = {1} /\ <<e>>[1] = e
    OBVIOUS
<1>3. <<e>> \in Logs
    BY <1>1 DEF Logs
<1> QED
    BY <1>1, <1>2, <1>3 DEF Below, NoneOf, e

LEMMA AppearsTells ==
    ASSUME SessionTypes, NEW place, Appears(place)
    PROVE  Changed(<<WireMessage("new", nextItem)>> \o Details(items') \o Batches(items'))
<1> DEFINE new == <<WireMessage("new", nextItem)>>
           order2 == SubSeq(items, 1, place - 1) \o <<nextItem>> \o SubSeq(items, place, Len(items))
           events == new \o Details(order2) \o Batches(order2)
<1>1. /\ items \in Orders(scheme) /\ nextItem \in Nat /\ nextItem > 1 /\ \A id \in Members(items) : id < nextItem
    BY DEF SessionTypes
<1>2. /\ items' = order2 /\ nextItem' = nextItem + 1
      /\ Tells(new \o Details(items') \o Batches(items'))
      /\ place \in (IF scheme = "coords" THEN 1 .. Len(items) + 1 ELSE {Len(items) + 1})
    BY DEF Appears
<1>3. place \in 1..(Len(items) + 1) /\ (scheme # "coords" => place = Len(items) + 1)
    <2>1. Len(items) \in Nat
        BY <1>1, ItemsOrdered
    <2> QED
        BY <1>2, <2>1
<1>4. order2 \in Orders(scheme) /\ \A id : id \in Members(order2) <=> id \in Members(items) \/ id = nextItem
    BY <1>1, <1>3, OrderGrows
<1> HIDE DEF order2
<1>5. \A id \in Members(order2) : id < nextItem + 1
    <2>1. Members(items) \subseteq Nat
        BY <1>1, ItemsOrdered
    <2> QED
        BY <1>1, <1>4, <2>1
<1>6. /\ Details(order2) \in Logs /\ Batches(order2) \in Logs
      /\ Below(Details(order2), nextItem + 1) /\ Below(Batches(order2), nextItem + 1)
      /\ NoneOf(Details(order2), "list") /\ NoneOf(Batches(order2), "list")
    BY <1>4, <1>5, BlockNames
<1>7. new \in Logs /\ Below(new, nextItem + 1) /\ NoneOf(new, "list")
    <2>1. nextItem < nextItem + 1
        BY <1>1
    <2> QED
        BY <1>1, <2>1, OneNames
<1> HIDE DEF new
<1>8. events \in Logs /\ Below(events, nextItem + 1) /\ NoneOf(events, "list")
    <2>1. new \o Details(order2) \in Logs /\ Below(new \o Details(order2), nextItem + 1)
          /\ NoneOf(new \o Details(order2), "list")
        BY <1>6, <1>7, JoinedFrom
    <2> QED
        BY <1>6, <2>1, JoinedFrom
<1>9. ASSUME NEW log \in Logs, Accurate(scheme, log, items), Below(log, nextItem)
      PROVE  Accurate(scheme, log \o events, order2)
    <2>1. log \o new \in Logs /\ NewsRise(log \o new) /\ Named(log \o new, order2)
        BY <1>1, <1>4, <1>9, NewNamed DEF new
    <2>2. Accurate(scheme, log \o new \o Details(order2) \o Batches(order2), order2)
        BY <1>4, <2>1, BlockTells
    <2>3. log \o events = log \o new \o Details(order2) \o Batches(order2)
        <3> DEFINE details == Details(order2)
                   batches == Batches(order2)
        <3>1. details \in Logs /\ batches \in Logs
            BY <1>6
        <3> HIDE DEF details, batches
        <3>2. new \in Logs /\ log \in Logs
            BY <1>7
        <3>3. new \o details \in Logs
            BY <3>1, <3>2, LogsJoined
        <3>4. log \o ((new \o details) \o batches) = (log \o (new \o details)) \o batches
            BY <3>1, <3>2, <3>3, LogsAssociate, SMTT(30)
        <3>5. log \o (new \o details) = (log \o new) \o details
            BY <3>1, <3>2, LogsAssociate, SMTT(30)
        <3> QED
            BY <3>4, <3>5 DEF details, batches
    <2> QED
        BY <2>2, <2>3
<1> HIDE DEF events
<1>10. Tells(events)
    <2>1. events = new \o Details(items') \o Batches(items')
        BY <1>2 DEF events
    <2> QED
        BY <1>2, <2>1
<1>11. Changed(events)
    <2>1. nextItem' \in Nat /\ nextItem' >= nextItem
        BY <1>1, <1>2
    <2> QED
        BY <1>2, <1>4, <1>5, <1>8, <1>9, <1>10, <2>1 DEF Changed
<1>12. events = <<WireMessage("new", nextItem)>> \o Details(items') \o Batches(items')
    BY <1>2 DEF events, new
<1> QED
    BY <1>11, <1>12

LEMMA DisappearsTells ==
    ASSUME SessionTypes, NEW place \in DOMAIN items, Disappears(place)
    PROVE  Changed(<<WireMessage("gone", items[place])>> \o Details(items') \o Batches(items'))
<1> DEFINE gone == <<WireMessage("gone", items[place])>>
           order2 == SubSeq(items, 1, place - 1) \o SubSeq(items, place + 1, Len(items))
           events == gone \o Details(order2) \o Batches(order2)
<1>1. /\ items \in Orders(scheme) /\ nextItem \in Nat /\ nextItem > 1 /\ \A id \in Members(items) : id < nextItem
    BY DEF SessionTypes
<1>2. /\ items' = order2 /\ nextItem' = nextItem
      /\ Tells(gone \o Details(items') \o Batches(items'))
    BY DEF Disappears
<1>3. place \in 1..Len(items) /\ items[place] \in Nat /\ items[place] < nextItem
    BY <1>1, ItemsOrdered
<1>4. order2 \in Orders(scheme) /\ \A id : id \in Members(order2) <=> id \in Members(items) /\ id # items[place]
    BY <1>1, <1>3, OrderShrinks
<1> HIDE DEF order2
<1>5. \A id \in Members(order2) : id < nextItem
    BY <1>1, <1>4
<1>6. /\ Details(order2) \in Logs /\ Batches(order2) \in Logs
      /\ Below(Details(order2), nextItem) /\ Below(Batches(order2), nextItem)
      /\ NoneOf(Details(order2), "list") /\ NoneOf(Batches(order2), "list")
    BY <1>4, <1>5, BlockNames
<1>7. gone \in Logs /\ Below(gone, nextItem) /\ NoneOf(gone, "list")
    BY <1>3, OneNames
<1> HIDE DEF gone
<1>8. events \in Logs /\ Below(events, nextItem) /\ NoneOf(events, "list")
    <2>1. gone \o Details(order2) \in Logs /\ Below(gone \o Details(order2), nextItem)
          /\ NoneOf(gone \o Details(order2), "list")
        BY <1>6, <1>7, JoinedFrom
    <2> QED
        BY <1>6, <2>1, JoinedFrom
<1>9. ASSUME NEW log \in Logs, Accurate(scheme, log, items), Below(log, nextItem)
      PROVE  Accurate(scheme, log \o events, order2)
    <2>1. log \o gone \in Logs /\ NewsRise(log \o gone) /\ Named(log \o gone, order2)
        BY <1>3, <1>4, <1>9, GoneNamed DEF gone
    <2>2. Accurate(scheme, log \o gone \o Details(order2) \o Batches(order2), order2)
        BY <1>4, <2>1, BlockTells
    <2>3. log \o events = log \o gone \o Details(order2) \o Batches(order2)
        <3> DEFINE details == Details(order2)
                   batches == Batches(order2)
        <3>1. details \in Logs /\ batches \in Logs
            BY <1>6
        <3> HIDE DEF details, batches
        <3>2. gone \in Logs /\ log \in Logs
            BY <1>7
        <3>3. gone \o details \in Logs
            BY <3>1, <3>2, LogsJoined
        <3>4. log \o ((gone \o details) \o batches) = (log \o (gone \o details)) \o batches
            BY <3>1, <3>2, <3>3, LogsAssociate, SMTT(30)
        <3>5. log \o (gone \o details) = (log \o gone) \o details
            BY <3>1, <3>2, LogsAssociate, SMTT(30)
        <3> QED
            BY <3>4, <3>5 DEF details, batches
    <2> QED
        BY <2>2, <2>3
<1> HIDE DEF events
<1>10. Tells(events)
    <2>1. events = gone \o Details(items') \o Batches(items')
        BY <1>2 DEF events
    <2> QED
        BY <1>2, <2>1
<1>11. Changed(events)
    <2>1. nextItem' \in Nat /\ nextItem' >= nextItem
        BY <1>1, <1>2
    <2> QED
        BY <1>2, <1>4, <1>5, <1>8, <1>9, <1>10, <2>1 DEF Changed
<1>12. events = <<WireMessage("gone", items[place])>> \o Details(items') \o Batches(items')
    BY <1>2 DEF events, gone
<1> QED
    BY <1>11, <1>12

\* An answer under way is not touched by what follows it.
LEMMA AnsweredStays ==
    ASSUME wire \in Logs, NEW a \in DOMAIN wire, AnsweredBy(a),
           NEW events \in Logs, NoneOf(events, "list"), wire' = wire \o events,
           UNCHANGED <<scheme, requests, heard, truth>>
    PROVE  a \in DOMAIN wire' /\ AnsweredBy(a)'
<1> DEFINE m == Len(wire)
           all == wire \o events
<1>1. /\ m \in Nat /\ DOMAIN wire = 1..m /\ a \in 1..m
      /\ Len(events) \in Nat /\ DOMAIN events = 1..Len(events)
    BY LogKnown
<1>2. /\ DOMAIN all = 1..(m + Len(events))
      /\ \A i \in 1..m : all[i] = wire[i]
      /\ \A i \in 1..Len(events) : all[m + i] = events[i]
      /\ \A k \in 1..(m + Len(events)) : k \in 1..m \/ \E i \in 1..Len(events) : k = m + i
    BY LogsJoined
<1>3. SubSeq(all, 1, a) = SubSeq(wire, 1, a)
    <2>1. wire \in Seq(WireMessages) /\ events \in Seq(WireMessages) /\ 1 \in 1..Len(wire) /\ a \in 1..Len(wire)
        BY <1>1 DEF Logs
    <2> QED
        BY <2>1, SubSeqOfConcat1
<1> HIDE DEF m, all
<1>4. /\ \A k \in 1..m : wire[k].of = "list" <=> k = a
      /\ wire[a] = WireMessage("list", 0) /\ requests = <<>>
      /\ Accurate(scheme, heard \o SubSeq(wire, 1, a), truth)
    BY <1>1 DEF AnsweredBy
<1>5. ASSUME NEW k \in DOMAIN all PROVE all[k].of = "list" <=> k = a
    <2>1. CASE k \in 1..m
        BY <1>2, <1>4, <2>1
    <2>2. CASE \E i \in 1..Len(events) : k = m + i
        <3>1. PICK i \in 1..Len(events) : k = m + i
            BY <2>2
        <3>2. all[k] = events[i] /\ events[i].of # "list"
            BY <1>1, <1>2, <3>1 DEF NoneOf
        <3>3. k # a
            BY <1>1, <3>1
        <3> QED
            BY <3>2, <3>3
    <2> QED
        BY <1>2, <2>1, <2>2
<1>6. a \in DOMAIN all /\ all[a] = WireMessage("list", 0)
    BY <1>1, <1>2, <1>4
<1>7. wire' = all /\ scheme' = scheme /\ requests' = requests /\ heard' = heard /\ truth' = truth
    BY DEF all
<1> QED
    BY <1>3, <1>4, <1>5, <1>6, <1>7 DEF AnsweredBy

LEMMA BelowMore ==
    ASSUME NEW log \in Logs, NEW n \in Nat, Below(log, n), NEW m \in Nat, m >= n
    PROVE  Below(log, m)
<1>1. \A i \in DOMAIN log : log[i].id \in Nat
    BY LogKnown
<1> QED
    BY <1>1 DEF Below

\* What the session knows outlives every change on screen.
LEMMA ChangeKeeps ==
    ASSUME SessionInv, NEW events, Changed(events),
           UNCHANGED <<scheme, bindable, requests, stage, index, heard, picked, truth>>
    PROVE  SessionInv'
<1>1. /\ SessionTypes
      /\ stage = "idle" => requests = <<>> /\ wire = <<>> /\ heard = <<>>
      /\ stage = "intro" => Introduced
      /\ stage = "list" => bindable /\ (Unbound \/ Unanswered \/ \E a \in DOMAIN wire : AnsweredBy(a))
      /\ stage = "listed" => requests = <<>> /\ Accurate(scheme, heard, truth)
      /\ stage \in {"ack", "done"} => \A i \in DOMAIN requests : requests[i] # "list"
      /\ stage \notin {"ack", "done"} => picked = 0
      /\ SwitchMeant
    BY DEF SessionInv
<1>2. /\ items \in Orders(scheme) /\ truth \in Orders(scheme)
      /\ nextItem \in Nat /\ \A id \in Members(items) : id < nextItem
      /\ requests \in Seq(SessionRequests)
      /\ wire \in Logs /\ heard \in Logs /\ Below(wire, nextItem) /\ Below(heard, nextItem)
      /\ nextItem > 1 /\ index \in Nat
      /\ stage \in {"idle", "intro", "list", "listed", "ack", "done", "none"}
    BY <1>1 DEF SessionTypes
<1>3. /\ events \in Logs /\ Below(events, nextItem') /\ NoneOf(events, "list")
      /\ items' \in Orders(scheme) /\ nextItem' \in Nat /\ nextItem' >= nextItem
      /\ \A id \in Members(items') : id < nextItem'
      /\ \A log \in Logs : Accurate(scheme, log, items) /\ Below(log, nextItem)
                           => Accurate(scheme, log \o events, items')
    BY DEF Changed
<1>4. /\ Bound /\ bindable => wire' = wire \o events
      /\ ~(Bound /\ bindable) => wire' = wire
    BY DEF Changed, Tells
<1>5. SessionTypes'
    <2>1. Below(wire, nextItem') /\ Below(heard, nextItem')
        BY <1>2, <1>3, BelowMore
    <2>2. wire' \in Logs /\ Below(wire', nextItem')
        <3>1. wire \o events \in Logs /\ Below(wire \o events, nextItem')
            BY <1>2, <1>3, <2>1, JoinedFrom
        <3> QED
            BY <1>2, <1>4, <2>1, <3>1
    <2>3. nextItem' > 1
        BY <1>2, <1>3
    <2> QED
        BY <1>2, <1>3, <2>1, <2>2, <2>3 DEF SessionTypes
<1>6. (stage = "idle" => requests = <<>> /\ wire = <<>> /\ heard = <<>>)'
    BY <1>1, <1>4 DEF Bound
<1>7. (stage = "intro" => Introduced)'
    BY <1>1, <1>4 DEF Bound, Introduced
<1>8. (stage = "list" => bindable /\ (Unbound \/ Unanswered \/ \E a \in DOMAIN wire : AnsweredBy(a)))'
    <2> SUFFICES ASSUME stage = "list"
                 PROVE  bindable' /\ (Unbound' \/ Unanswered' \/ \E a \in DOMAIN wire' : AnsweredBy(a)')
        OBVIOUS
    <2>1. bindable
        BY <1>1
    <2>2. CASE Unbound
        <3>1. 1 \in DOMAIN requests /\ requests[1] = "bind"
            BY <2>2 DEF Unbound
        <3>2. ~Bound
            BY <3>1 DEF Bound
        <3> QED
            BY <1>4, <2>1, <2>2, <3>2 DEF Unbound
    <2>3. CASE Unanswered
        <3>1. requests = <<"list">> /\ NoneOf(wire, "list") /\ Accurate(scheme, heard \o wire, items)
            BY <2>3 DEF Unanswered
        <3>2. \A i \in DOMAIN requests : requests[i] # "bind"
            BY <3>1
        <3>3. wire' = wire \o events
            BY <1>4, <2>1, <3>2 DEF Bound
        <3>4. heard \o wire \in Logs /\ Below(heard \o wire, nextItem)
            BY <1>2, JoinedFrom
        <3>5. Accurate(scheme, (heard \o wire) \o events, items')
            BY <1>3, <3>1, <3>4
        <3>6. heard \o (wire \o events) = (heard \o wire) \o events
            BY <1>2, <1>3, LogsAssociate
        <3>7. NoneOf(wire \o events, "list")
            BY <1>2, <1>3, <3>1, JoinedFrom
        <3> QED
            BY <2>1, <3>1, <3>3, <3>5, <3>6, <3>7 DEF Unanswered
    <2>4. CASE \E a \in DOMAIN wire : AnsweredBy(a)
        <3>1. PICK a \in DOMAIN wire : AnsweredBy(a)
            BY <2>4
        <3>2. \A i \in DOMAIN requests : requests[i] # "bind"
            BY <3>1 DEF AnsweredBy
        <3>3. wire' = wire \o events
            BY <1>4, <2>1, <3>2 DEF Bound
        <3>4. a \in DOMAIN wire' /\ AnsweredBy(a)'
            BY <1>2, <1>3, <3>1, <3>3, AnsweredStays
        <3> QED
            BY <2>1, <3>4
    <2> QED
        BY <1>1, <2>2, <2>3, <2>4
<1>9. (stage = "listed" => requests = <<>> /\ Accurate(scheme, heard, truth))'
    BY <1>1
<1>10. (stage \in {"ack", "done"} => \A i \in DOMAIN requests : requests[i] # "list")'
    BY <1>1
<1>11. (stage \notin {"ack", "done"} => picked = 0)' /\ SwitchMeant'
    <2>1. MeantItem(truth)' = MeantItem(truth)
        BY DEF MeantItem
    <2> QED
        BY <1>1, <2>1 DEF SwitchMeant
<1> QED
    BY <1>5, <1>6, <1>7, <1>8, <1>9, <1>10, <1>11 DEF SessionInv

LEMMA AnswerKnown ==
    ASSUME NEW sync \in {"intro", "list", "ack"}
    PROVE  /\ WireMessage(sync, 0) \in WireMessages /\ WireMessage("delete", 0) \in WireMessages
           /\ Answer(sync) \in Logs /\ DOMAIN Answer(sync) = 1..2 /\ Len(Answer(sync)) = 2
           /\ Answer(sync)[1] = WireMessage(sync, 0) /\ Answer(sync)[2] = WireMessage("delete", 0)
           /\ WireMessage(sync, 0).of = sync /\ WireMessage("delete", 0).of = "delete"
           /\ WireMessage(sync, 0).id = 0 /\ WireMessage("delete", 0).id = 0
<1>1. /\ WireMessage(sync, 0) \in WireMessages /\ WireMessage("delete", 0) \in WireMessages
      /\ WireMessage(sync, 0).of = sync /\ WireMessage("delete", 0).of = "delete"
      /\ WireMessage(sync, 0).id = 0 /\ WireMessage("delete", 0).id = 0
    BY DEF WireMessage, WireMessages, MessageKinds
<1>2. Answer(sync) = <<WireMessage(sync, 0), WireMessage("delete", 0)>>
    BY DEF Answer
<1> QED
    BY <1>1, <1>2 DEF Logs

\* What the compositor does about each request.
LEMMA RequestHandled ==
    ASSUME SessionTypes, HandleRequest
    PROVE  LET r == Head(requests) IN
           /\ requests # <<>> /\ requests' = Tail(requests) /\ r \in SessionRequests /\ r = requests[1]
           /\ requests' \in Seq(SessionRequests)
           /\ \A i \in DOMAIN requests' : \E j \in DOMAIN requests : requests'[i] = requests[j]
           /\ wire' \in Logs /\ Below(wire', nextItem)
           /\ truth' = IF r = "list" THEN items ELSE truth
           /\ r = "registry" => wire' = Append(wire, WireMessage("global", IF bindable THEN 1 ELSE 0))
           /\ r = "bind" => \E ids \in AsMade(items) : wire' = wire \o News(ids) \o Details(items) \o Batches(items)
           /\ r \in {"intro", "list", "ack"} => wire' = wire \o Answer(r)
<1> DEFINE r == Head(requests)
<1>1. /\ items \in Orders(scheme) /\ nextItem \in Nat /\ nextItem > 1 /\ \A id \in Members(items) : id < nextItem
      /\ requests \in Seq(SessionRequests) /\ wire \in Logs /\ Below(wire, nextItem)
    BY DEF SessionTypes
<1>2. PICK ids \in AsMade(items) :
         wire' = CASE r = "registry" -> Append(wire, WireMessage("global", IF bindable THEN 1 ELSE 0))
                   [] r = "bind" -> wire \o News(ids) \o Details(items) \o Batches(items)
                   [] r \in {"intro", "list", "ack"} -> wire \o Answer(r)
                   [] OTHER -> wire
    BY DEF HandleRequest
<1>3. requests # <<>> /\ requests' = Tail(requests) /\ truth' = IF r = "list" THEN items ELSE truth
    BY DEF HandleRequest
<1>4. /\ r \in SessionRequests /\ r = requests[1] /\ requests' \in Seq(SessionRequests)
      /\ \A i \in DOMAIN requests' : \E j \in DOMAIN requests : requests'[i] = requests[j]
    <2>1. /\ Tail(requests) \in Seq(SessionRequests) /\ Len(Tail(requests)) = Len(requests) - 1
          /\ \A i \in 1..(Len(requests) - 1) : Tail(requests)[i] = requests[i + 1]
          /\ r \in SessionRequests
        BY <1>1, <1>3, HeadTailProperties
    <2>2. r = requests[1]
        BY <1>1, <1>3
    <2>3. /\ DOMAIN requests = 1..Len(requests) /\ Len(requests) \in Nat
          /\ DOMAIN Tail(requests) = 1..(Len(requests) - 1)
        BY <1>1, <2>1, LenProperties
    <2>4. ASSUME NEW i \in DOMAIN Tail(requests) PROVE \E j \in DOMAIN requests : Tail(requests)[i] = requests[j]
        <3>1. i + 1 \in DOMAIN requests /\ Tail(requests)[i] = requests[i + 1]
            BY <2>1, <2>3
        <3> QED
            BY <3>1
    <2> QED
        BY <1>3, <2>1, <2>2, <2>4
<1> HIDE DEF r
<1>5. /\ r = "registry" => wire' = Append(wire, WireMessage("global", IF bindable THEN 1 ELSE 0))
      /\ r = "bind" => wire' = wire \o News(ids) \o Details(items) \o Batches(items)
      /\ r \in {"intro", "list", "ack"} => wire' = wire \o Answer(r)
      /\ r \notin {"registry", "bind", "intro", "list", "ack"} => wire' = wire
    <2>1. CASE r = "registry"
        BY <1>2, <2>1
    <2>2. CASE r = "bind"
        BY <1>2, <2>2
    <2>3. CASE r \in {"intro", "list", "ack"}
        BY <1>2, <2>3
    <2>4. CASE r \notin {"registry", "bind", "intro", "list", "ack"}
        BY <1>2, <2>4
    <2> QED
        BY <2>1, <2>2, <2>3, <2>4
<1>6. wire' \in Logs /\ Below(wire', nextItem)
    <2>1. CASE r = "registry"
        <3> DEFINE e == WireMessage("global", IF bindable THEN 1 ELSE 0)
        <3>1. e \in WireMessages /\ e.id < nextItem
            <4>1. (IF bindable THEN 1 ELSE 0) \in Nat /\ (IF bindable THEN 1 ELSE 0) < nextItem
                BY <1>1
            <4> QED
                BY <4>1 DEF WireMessage, WireMessages, MessageKinds
        <3> HIDE DEF e
        <3>2. <<e>> \in Logs /\ Below(<<e>>, nextItem)
            BY <3>1 DEF Logs, Below
        <3>3. wire \o <<e>> \in Logs /\ Below(wire \o <<e>>, nextItem)
            BY <1>1, <3>2, JoinedFrom
        <3>4. Append(wire, e) = wire \o <<e>>
            BY <1>1, <3>1, AppendIsConcat DEF Logs
        <3> QED
            BY <1>5, <2>1, <3>3, <3>4 DEF e
    <2>2. CASE r = "bind"
        <3>1. /\ News(ids) \in Logs /\ Below(News(ids), nextItem)
              /\ Details(items) \in Logs /\ Batches(items) \in Logs
              /\ Below(Details(items), nextItem) /\ Below(Batches(items), nextItem)
            BY <1>1, NewsNames, BlockNames
        <3>2. wire \o News(ids) \in Logs /\ Below(wire \o News(ids), nextItem)
            BY <1>1, <3>1, JoinedFrom
        <3>3. wire \o News(ids) \o Details(items) \in Logs /\ Below(wire \o News(ids) \o Details(items), nextItem)
            BY <3>1, <3>2, JoinedFrom
        <3>4. /\ wire \o News(ids) \o Details(items) \o Batches(items) \in Logs
              /\ Below(wire \o News(ids) \o Details(items) \o Batches(items), nextItem)
            BY <3>1, <3>3, JoinedFrom
        <3> QED
            BY <1>5, <2>2, <3>4
    <2>3. CASE r \in {"intro", "list", "ack"}
        <3>1. Answer(r) \in Logs /\ Below(Answer(r), nextItem)
            <4>1. /\ Answer(r) \in Logs /\ DOMAIN Answer(r) = 1..2
                  /\ Answer(r)[1].id = 0 /\ Answer(r)[2].id = 0
                BY <2>3, AnswerKnown
            <4> QED
                BY <1>1, <4>1 DEF Below
        <3> QED
            BY <1>1, <1>5, <2>3, <3>1, JoinedFrom
    <2>4. CASE r \notin {"registry", "bind", "intro", "list", "ack"}
        BY <1>1, <1>5, <2>4
    <2> QED
        BY <2>1, <2>2, <2>3, <2>4
<1> QED
    BY <1>3, <1>4, <1>5, <1>6 DEF r

\* The globals are told before the list is asked for.
LEMMA IntroHandled ==
    ASSUME SessionTypes, Introduced, HandleRequest
    PROVE  Introduced'
<1> DEFINE r == Head(requests)
           e == WireMessage("global", IF bindable THEN 1 ELSE 0)
<1>1. /\ requests # <<>> /\ requests' = Tail(requests) /\ r = requests[1]
      /\ r = "registry" => wire' = Append(wire, e)
      /\ r \in {"intro", "list", "ack"} => wire' = wire \o Answer(r)
    BY RequestHandled
<1>2. /\ requests \in {<<"registry", "intro">>, <<"intro">>, <<>>}
      /\ Early(bindable, wire) /\ Early(bindable, heard) /\ NoneOf(wire, "intro")
    BY <1>1 DEF Introduced
<1>3. wire \in Logs /\ bindable' = bindable /\ heard' = heard
    BY DEF SessionTypes, HandleRequest
<1>4. Early(bindable', heard')
    BY <1>2, <1>3
<1>5. CASE requests = <<"registry", "intro">>
    <2>1. r = "registry" /\ requests' = <<"intro">>
        BY <1>1, <1>5
    <2>2. e \in WireMessages /\ e.of = "global" /\ (e.id = 1 => bindable)
        <3>1. (IF bindable THEN 1 ELSE 0) \in Nat /\ ((IF bindable THEN 1 ELSE 0) = 1 => bindable)
            OBVIOUS
        <3> QED
            BY <3>1 DEF WireMessage, WireMessages, MessageKinds
    <2> HIDE DEF e
    <2>3. <<e>> \in Logs /\ DOMAIN <<e>> = {1} /\ <<e>>[1] = e
        BY <2>2 DEF Logs
    <2>4. Early(bindable, <<e>>) /\ NoneOf(<<e>>, "intro")
        BY <2>2, <2>3 DEF Early, NoneOf
    <2>5. Early(bindable, wire \o <<e>>) /\ NoneOf(wire \o <<e>>, "intro")
        BY <1>2, <1>3, <2>3, <2>4, JoinedFrom
    <2>6. wire' = wire \o <<e>>
        <3>1. Append(wire, e) = wire \o <<e>>
            BY <1>3, <2>2, AppendIsConcat DEF Logs
        <3> QED
            BY <1>1, <2>1, <3>1
    <2> QED
        BY <1>3, <1>4, <2>1, <2>5, <2>6 DEF Introduced
<1>6. CASE requests = <<"intro">>
    <2>1. r = "intro" /\ requests' = <<>>
        BY <1>1, <1>6
    <2>2. /\ Answer("intro") \in Logs /\ DOMAIN Answer("intro") = 1..2
          /\ Answer("intro")[1].of = "intro" /\ Answer("intro")[2].of = "delete"
        BY AnswerKnown
    <2>3. Early(bindable, Answer("intro"))
        BY <2>2 DEF Early
    <2>4. Early(bindable, wire \o Answer("intro"))
        BY <1>2, <1>3, <2>2, <2>3, JoinedFrom
    <2>5. wire' = wire \o Answer("intro")
        BY <1>1, <2>1
    <2> QED
        BY <1>3, <1>4, <2>1, <2>4, <2>5 DEF Introduced
<1> QED
    BY <1>1, <1>2, <1>5, <1>6

\* Once bound, what the client hears up to now is true of what there is.
LEMMA BindHandled ==
    ASSUME SessionTypes, bindable, Unbound, HandleRequest
    PROVE  Unanswered'
<1>1. /\ items \in Orders(scheme) /\ nextItem \in Nat /\ \A id \in Members(items) : id < nextItem
      /\ wire \in Logs /\ heard \in Logs
    BY DEF SessionTypes
<1>2. requests = <<"bind", "list">> /\ Early(bindable, wire) /\ Early(bindable, heard)
    BY DEF Unbound
<1>3. Head(requests) = "bind" /\ Tail(requests) = <<"list">>
    BY <1>2
<1>4. /\ requests' = <<"list">>
      /\ \E ids \in AsMade(items) : wire' = wire \o News(ids) \o Details(items) \o Batches(items)
    BY <1>3, RequestHandled
<1>5. PICK ids \in AsMade(items) : wire' = wire \o News(ids) \o Details(items) \o Batches(items)
    BY <1>4
<1> DEFINE news == News(ids)
           details == Details(items)
           batches == Batches(items)
           known == heard \o wire
<1>6. news \in Logs /\ details \in Logs /\ batches \in Logs
      /\ NoneOf(news, "list") /\ NoneOf(details, "list") /\ NoneOf(batches, "list")
    BY <1>1, NewsNames, BlockNames
<1>7. known \in Logs /\ Early(bindable, known)
    BY <1>1, <1>2, JoinedFrom
<1>8. Accurate(scheme, known \o news \o details \o batches, items)
    <2>1. known \o news \in Logs /\ NewsRise(known \o news) /\ Named(known \o news, items)
        <3> HIDE DEF known
        <3> QED
            BY <1>1, <1>7, AllNamed
    <2> HIDE DEF known, news
    <2> QED
        BY <1>1, <2>1, BlockTells
<1>9. NoneOf(wire, "list")
    BY <1>2 DEF NoneOf, Early
<1> HIDE DEF news, details, batches
<1>10. /\ wire \o news \in Logs /\ NoneOf(wire \o news, "list")
       /\ heard \o (wire \o news) = known \o news
    <2>1. wire \o news \in Logs /\ NoneOf(wire \o news, "list")
        BY <1>1, <1>6, <1>9, JoinedFrom
    <2>2. heard \o (wire \o news) = (heard \o wire) \o news
        BY <1>1, <1>6, LogsAssociate
    <2> QED
        BY <2>1, <2>2
<1>11. /\ (wire \o news) \o details \in Logs /\ NoneOf((wire \o news) \o details, "list")
       /\ heard \o ((wire \o news) \o details) = (heard \o (wire \o news)) \o details
    <2> DEFINE first == wire \o news
    <2>1. first \in Logs /\ NoneOf(first, "list")
        BY <1>10
    <2> HIDE DEF first
    <2>2. first \o details \in Logs /\ NoneOf(first \o details, "list")
        BY <1>6, <2>1, JoinedFrom
    <2>3. heard \o (first \o details) = (heard \o first) \o details
        BY <1>1, <1>6, <2>1, LogsAssociate, SMTT(30)
    <2> QED
        BY <2>2, <2>3 DEF first
<1>12. /\ NoneOf(((wire \o news) \o details) \o batches, "list")
       /\ heard \o (((wire \o news) \o details) \o batches) = (heard \o ((wire \o news) \o details)) \o batches
    <2> DEFINE first == (wire \o news) \o details
    <2>1. first \in Logs /\ NoneOf(first, "list")
        BY <1>11
    <2> HIDE DEF first
    <2>2. NoneOf(first \o batches, "list")
        BY <1>6, <2>1, JoinedFrom
    <2>3. heard \o (first \o batches) = (heard \o first) \o batches
        BY <1>1, <1>6, <2>1, LogsAssociate, SMTT(30)
    <2> QED
        BY <2>2, <2>3 DEF first
<1>13. wire' = wire \o news \o details \o batches
    BY <1>5 DEF news, details, batches
<1>14. Accurate(scheme, heard \o wire', items) /\ NoneOf(wire', "list")
    BY <1>8, <1>10, <1>11, <1>12, <1>13
<1> QED
    BY <1>4, <1>14 DEF Unanswered, HandleRequest

\* The answer to the list says nothing more.
LEMMA ListHandled ==
    ASSUME SessionTypes, Unanswered, HandleRequest
    PROVE  \E a \in DOMAIN wire' : AnsweredBy(a)'
<1> DEFINE e == WireMessage("list", 0)
           all == wire \o Answer("list")
<1>1. items \in Orders(scheme) /\ wire \in Logs /\ heard \in Logs
    BY DEF SessionTypes
<1>2. requests = <<"list">> /\ NoneOf(wire, "list") /\ Accurate(scheme, heard \o wire, items)
    BY DEF Unanswered
<1>3. Head(requests) = "list" /\ Tail(requests) = <<>>
    BY <1>2
<1>4. requests' = <<>> /\ wire' = all /\ truth' = items
    BY <1>3, RequestHandled
<1>5. scheme' = scheme /\ heard' = heard
    BY DEF HandleRequest
<1>6. /\ e \in WireMessages /\ e.of = "list"
      /\ Answer("list") \in Logs /\ DOMAIN Answer("list") = 1..2 /\ Len(Answer("list")) = 2
      /\ Answer("list")[1] = e /\ Answer("list")[2].of = "delete"
    BY AnswerKnown
<1>7. Len(wire) \in Nat /\ DOMAIN wire = 1..Len(wire)
    BY <1>1, LogKnown
<1>8. /\ all \in Logs /\ DOMAIN all = 1..(Len(wire) + 2)
      /\ \A i \in 1..Len(wire) : all[i] = wire[i]
      /\ \A i \in 1..2 : all[Len(wire) + i] = Answer("list")[i]
    <2>1. /\ all \in Logs /\ DOMAIN all = 1..(Len(wire) + Len(Answer("list")))
          /\ \A i \in 1..Len(wire) : all[i] = wire[i]
          /\ \A i \in 1..Len(Answer("list")) : all[Len(wire) + i] = Answer("list")[i]
        BY <1>1, <1>6, LogsJoined
    <2> QED
        BY <1>6, <2>1
<1> PICK a \in Nat : a = Len(wire) + 1
    BY <1>7
<1> HIDE DEF all, e
<1>9. a \in DOMAIN all /\ all[a] = e
    <2>1. all[Len(wire) + 1] = Answer("list")[1]
        BY <1>8
    <2> QED
        BY <1>6, <1>7, <1>8, <2>1
<1>10. ASSUME NEW k \in DOMAIN all PROVE all[k].of = "list" <=> k = a
    <2>1. CASE k \in 1..Len(wire)
        BY <1>2, <1>7, <1>8, <2>1 DEF NoneOf
    <2>2. CASE k = Len(wire) + 1
        BY <1>6, <1>9, <2>2
    <2>3. CASE k = Len(wire) + 2
        <3>1. all[k].of = "delete"
            BY <1>6, <1>8, <2>3
        <3> QED
            BY <1>7, <2>3, <3>1
    <2> QED
        BY <1>7, <1>8, <2>1, <2>2, <2>3
<1>11. Accurate(scheme, heard \o SubSeq(all, 1, a), items)
    <2>1. SubSeq(all, 1, a) = wire \o <<e>>
        <3>1. a \in 0..Len(all)
            BY <1>7, <1>8, <1>9, LogKnown
        <3>2. /\ SubSeq(all, 1, a) \in Logs /\ Len(SubSeq(all, 1, a)) = a
              /\ \A i \in 1..a : SubSeq(all, 1, a)[i] = all[i]
            BY <1>8, <3>1, LogCut
        <3>3. /\ wire \o <<e>> \in Logs /\ Len(wire \o <<e>>) = a
              /\ \A i \in 1..Len(wire) : (wire \o <<e>>)[i] = wire[i]
              /\ (wire \o <<e>>)[Len(wire) + 1] = e
            BY <1>1, <1>6, LogEnds
        <3>4. \A i \in 1..a : SubSeq(all, 1, a)[i] = (wire \o <<e>>)[i]
            BY <1>7, <1>8, <1>9, <3>2, <3>3
        <3> QED
            BY <1>7, <3>2, <3>3, <3>4, SeqEqual DEF Logs
    <2>2. heard \o wire \in Logs
        BY <1>1, JoinedFrom
    <2>3. Accurate(scheme, Append(heard \o wire, e), items)
        BY <1>2, <1>6, <2>2, AnswerTellsNothing
    <2>4. Append(heard \o wire, e) = heard \o (wire \o <<e>>)
        <3>1. Append(heard \o wire, e) = (heard \o wire) \o <<e>>
            BY <1>6, <2>2, AppendIsConcat DEF Logs
        <3>2. <<e>> \in Logs
            BY <1>6 DEF Logs
        <3> QED
            BY <1>1, <3>1, <3>2, LogsAssociate
    <2> QED
        BY <2>1, <2>3, <2>4
<1>12. AnsweredBy(a)'
    BY <1>4, <1>5, <1>9, <1>10, <1>11 DEF AnsweredBy, e
<1> QED
    BY <1>4, <1>9, <1>12

LEMMA HandleKeeps ==
    ASSUME SessionInv, HandleRequest
    PROVE  SessionInv'
<1>1. /\ SessionTypes
      /\ stage = "idle" => requests = <<>> /\ wire = <<>> /\ heard = <<>>
      /\ stage = "intro" => Introduced
      /\ stage = "list" => bindable /\ (Unbound \/ Unanswered \/ \E a \in DOMAIN wire : AnsweredBy(a))
      /\ stage = "listed" => requests = <<>> /\ Accurate(scheme, heard, truth)
      /\ stage \in {"ack", "done"} => \A i \in DOMAIN requests : requests[i] # "list"
      /\ stage \notin {"ack", "done"} => picked = 0
      /\ SwitchMeant
    BY DEF SessionInv
<1>2. /\ items \in Orders(scheme) /\ truth \in Orders(scheme)
      /\ nextItem \in Nat /\ \A id \in Members(items) : id < nextItem
      /\ requests \in Seq(SessionRequests) /\ heard \in Logs /\ Below(heard, nextItem)
      /\ nextItem > 1 /\ index \in Nat
      /\ stage \in {"idle", "intro", "list", "listed", "ack", "done", "none"}
    BY <1>1 DEF SessionTypes
<1>3. UNCHANGED <<scheme, bindable, items, nextItem, stage, index, heard, picked>>
    BY DEF HandleRequest
<1>4. /\ requests # <<>> /\ requests' = Tail(requests) /\ Head(requests) = requests[1]
      /\ requests' \in Seq(SessionRequests)
      /\ \A i \in DOMAIN requests' : \E j \in DOMAIN requests : requests'[i] = requests[j]
      /\ wire' \in Logs /\ Below(wire', nextItem)
      /\ truth' = IF Head(requests) = "list" THEN items ELSE truth
    BY <1>1, RequestHandled
<1>5. truth' \in Orders(scheme)
    BY <1>2, <1>4
<1>6. SessionTypes'
    BY <1>2, <1>3, <1>4, <1>5 DEF SessionTypes
<1>7. stage # "idle" /\ stage # "listed"
    BY <1>1, <1>4
<1>8. (stage = "intro" => Introduced)'
    BY <1>1, <1>3, IntroHandled
<1>9. (stage = "list" => bindable /\ (Unbound \/ Unanswered \/ \E a \in DOMAIN wire : AnsweredBy(a)))'
    <2> SUFFICES ASSUME stage = "list"
                 PROVE  bindable' /\ (Unbound' \/ Unanswered' \/ \E a \in DOMAIN wire' : AnsweredBy(a)')
        BY <1>3
    <2>1. bindable
        BY <1>1
    <2>2. CASE Unbound
        BY <1>1, <1>3, <2>1, <2>2, BindHandled
    <2>3. CASE Unanswered
        BY <1>1, <1>3, <2>1, <2>3, ListHandled
    <2>4. ~\E a \in DOMAIN wire : AnsweredBy(a)
        BY <1>4 DEF AnsweredBy
    <2> QED
        BY <1>1, <2>2, <2>3, <2>4
<1>10. (stage \in {"ack", "done"} => \A i \in DOMAIN requests : requests[i] # "list")'
    BY <1>1, <1>3, <1>4
<1>11. SwitchMeant'
    <2>1. CASE picked = 0
        BY <1>3, <2>1 DEF SwitchMeant
    <2>2. CASE picked # 0
        <3>1. \A i \in DOMAIN requests : requests[i] # "list"
            BY <1>1, <2>2
        <3>2. 1 \in DOMAIN requests
            BY <1>2, <1>4
        <3>3. truth' = truth
            BY <1>4, <3>1, <3>2
        <3>4. MeantItem(truth)' = MeantItem(truth)
            BY <1>3, <3>3 DEF MeantItem
        <3> QED
            BY <1>1, <1>3, <3>3, <3>4 DEF SwitchMeant
    <2> QED
        BY <2>1, <2>2
<1> QED
    BY <1>1, <1>3, <1>6, <1>7, <1>8, <1>9, <1>10, <1>11 DEF SessionInv

\* The part of a piece that counts: the piece up to the first answer in it.
LEMMA ReadUpTo ==
    ASSUME NEW log \in Logs, NEW n \in 0..Len(log), NEW sync
    PROVE  LET piece == SubSeq(log, 1, n)
               upTo == UpTo(piece, sync)
           IN  /\ \E a \in 0..Len(log) : upTo = SubSeq(log, 1, a)
               /\ WireMessage(sync, 0) \in Members(upTo) =>
                     \E a \in 1..n : log[a] = WireMessage(sync, 0)
               /\ \A a \in 1..n : (\A k \in DOMAIN log : log[k].of = sync <=> k = a) => upTo = SubSeq(log, 1, a)
<1> DEFINE piece == SubSeq(log, 1, n)
           at == {i \in DOMAIN piece : piece[i].of = sync}
           upTo == UpTo(piece, sync)
<1>1. /\ piece \in Logs /\ Len(piece) = n /\ DOMAIN piece = 1..n /\ \A i \in 1..n : piece[i] = log[i]
      /\ Len(log) \in Nat /\ DOMAIN log = 1..Len(log) /\ n \in Nat /\ n <= Len(log)
    <2>1. piece \in Logs /\ Len(piece) = n /\ DOMAIN piece = 1..n /\ \A i \in 1..n : piece[i] = log[i]
        BY LogCut
    <2>2. Len(log) \in Nat /\ DOMAIN log = 1..Len(log)
        BY LogKnown
    <2> QED
        BY <2>1, <2>2
<1>2. ASSUME NEW a \in 1..n PROVE SubSeq(piece, 1, a) = SubSeq(log, 1, a)
    <2>1. /\ log \in Seq(WireMessages) /\ 1 \in 1..Len(log) /\ n \in 1..Len(log)
          /\ 1 \in 1..(n - 1 + 1) /\ a \in 1..(n - 1 + 1) /\ 1 + 1 - 1 = 1 /\ 1 + a - 1 = a
        BY <1>1 DEF Logs
    <2>2. SubSeq(SubSeq(log, 1, n), 1, a) = SubSeq(log, 1 + 1 - 1, 1 + a - 1)
        BY <2>1, SubSeqOfSubSeq
    <2> QED
        BY <2>1, <2>2
<1> HIDE DEF piece
<1>3. upTo = IF at = {} THEN piece ELSE SubSeq(piece, 1, CHOOSE i \in at : TRUE)
    BY DEF UpTo
<1>4. at # {} => (CHOOSE i \in at : TRUE) \in at
    OBVIOUS
<1>5. at \subseteq 1..n
    BY <1>1
<1>6. \E a \in 0..n : upTo = SubSeq(log, 1, a)
    <2>1. CASE at = {}
        BY <1>1, <1>3, <2>1 DEF piece
    <2>2. CASE at # {}
        <3>1. PICK a \in 1..n : a = CHOOSE i \in at : TRUE
            BY <1>4, <1>5, <2>2
        <3> HIDE DEF at
        <3>2. upTo = SubSeq(log, 1, a)
            BY <1>2, <1>3, <2>2, <3>1
        <3> QED
            BY <1>1, <3>2
    <2> QED
        BY <2>1, <2>2
<1>7. ASSUME WireMessage(sync, 0) \in Members(upTo) PROVE \E a \in 1..n : log[a] = WireMessage(sync, 0)
    <2>1. PICK a \in 0..n : upTo = SubSeq(log, 1, a)
        BY <1>6
    <2>2. DOMAIN upTo = 1..a /\ \A i \in 1..a : upTo[i] = log[i]
        BY <1>1, <2>1, LogCut
    <2> HIDE DEF upTo
    <2>3. PICK i \in 1..a : upTo[i] = WireMessage(sync, 0)
        BY <1>7, <2>2 DEF Members
    <2> QED
        BY <1>1, <2>2, <2>3
<1>8. ASSUME NEW a \in 1..n, \A k \in DOMAIN log : log[k].of = sync <=> k = a
      PROVE  upTo = SubSeq(log, 1, a)
    <2>1. at = {a}
        <3>1. a \in DOMAIN piece /\ piece[a].of = sync
            BY <1>1, <1>8
        <3>2. \A i \in DOMAIN piece : piece[i].of = sync => i = a
            BY <1>1, <1>8
        <3> QED
            BY <3>1, <3>2
    <2> HIDE DEF at
    <2>2. (CHOOSE i \in at : TRUE) = a /\ at # {}
        BY <2>1
    <2> QED
        BY <1>2, <1>3, <2>2
<1>9. \E a \in 0..Len(log) : upTo = SubSeq(log, 1, a)
    BY <1>1, <1>6
<1> HIDE DEF at, upTo
<1> QED
    BY <1>7, <1>8, <1>9 DEF upTo, piece

\* What holds of the messages of a log holds of its parts.
LEMMA CutKeeps ==
    ASSUME NEW log \in Logs, NEW n \in 0..Len(log)
    PROVE  LET a == SubSeq(log, 1, n)
               b == SubSeq(log, n + 1, Len(log))
           IN  /\ a \in Logs /\ b \in Logs
               /\ \A m : Below(log, m) => Below(a, m) /\ Below(b, m)
               /\ \A of : NoneOf(log, of) => NoneOf(a, of) /\ NoneOf(b, of)
               /\ \A known : Early(known, log) => Early(known, a) /\ Early(known, b)
<1> DEFINE a == SubSeq(log, 1, n)
           b == SubSeq(log, n + 1, Len(log))
<1>1. /\ a \in Logs /\ DOMAIN a = 1..n /\ \A i \in 1..n : a[i] = log[i]
      /\ b \in Logs /\ DOMAIN b = 1..(Len(log) - n)
      /\ \A i \in 1..(Len(log) - n) : b[i] = log[n + i]
    BY LogCut
<1>2. Len(log) \in Nat /\ DOMAIN log = 1..Len(log)
    BY LogKnown
<1> HIDE DEF a, b
<1>3. \A i \in DOMAIN a : i \in DOMAIN log /\ a[i] = log[i]
    BY <1>1, <1>2
<1>4. \A i \in DOMAIN b : n + i \in DOMAIN log /\ b[i] = log[n + i]
    <2>1. \A i \in 1..(Len(log) - n) : n + i \in 1..Len(log)
        BY <1>2
    <2> QED
        BY <1>1, <1>2, <2>1
<1>5. \A m : Below(log, m) => Below(a, m) /\ Below(b, m)
    BY <1>3, <1>4 DEF Below
<1>6. \A of : NoneOf(log, of) => NoneOf(a, of) /\ NoneOf(b, of)
    BY <1>3, <1>4 DEF NoneOf
<1>7. ASSUME NEW known, Early(known, log) PROVE Early(known, a) /\ Early(known, b)
    <2>1. \A i \in DOMAIN log : log[i].of \in {"global", "intro", "delete"} /\ (log[i].of = "global" /\ log[i].id = 1 => known)
        BY <1>7 DEF Early
    <2>2. Early(known, a)
        BY <1>3, <2>1 DEF Early
    <2>3. Early(known, b)
        BY <1>4, <2>1 DEF Early
    <2> QED
        BY <2>2, <2>3
<1> QED
    BY <1>1, <1>5, <1>6, <1>7 DEF a, b

\* What follows the end of a piece still ends in the answer.
LEMMA AnsweredCut ==
    ASSUME SessionTypes, NEW a \in DOMAIN wire, AnsweredBy(a), NEW n \in 0..Len(wire), n < a,
           wire' = SubSeq(wire, n + 1, Len(wire)), heard' = heard \o SubSeq(wire, 1, n),
           UNCHANGED <<scheme, requests, truth>>
    PROVE  a - n \in DOMAIN wire' /\ AnsweredBy(a - n)'
<1> DEFINE m == Len(wire)
           rest == SubSeq(wire, n + 1, m)
           piece == SubSeq(wire, 1, n)
<1>1. wire \in Logs /\ heard \in Logs
    BY DEF SessionTypes
<1>2. m \in Nat /\ DOMAIN wire = 1..m /\ a \in 1..m /\ n \in Nat /\ a - n \in Nat /\ a - n \in 1..(m - n) /\ a - n <= m - n
    BY <1>1, LogKnown
<1>3. /\ \A k \in 1..m : wire[k].of = "list" <=> k = a
      /\ wire[a] = WireMessage("list", 0) /\ requests = <<>>
      /\ Accurate(scheme, heard \o SubSeq(wire, 1, a), truth)
    BY <1>2 DEF AnsweredBy
<1>4. /\ piece \in Logs /\ rest \in Logs /\ Len(rest) = m - n /\ DOMAIN rest = 1..(m - n)
      /\ \A i \in 1..(m - n) : rest[i] = wire[n + i]
    BY <1>1, LogCut
<1>5. piece \o SubSeq(rest, 1, a - n) = SubSeq(wire, 1, a)
    <2>1. SubSeq(rest, 1, a - n) = SubSeq(wire, n + 1, a)
        <3>1. /\ wire \in Seq(WireMessages) /\ n + 1 \in 1..Len(wire) /\ m \in 1..Len(wire)
              /\ 1 \in 1..(m - (n + 1) + 1) /\ a - n \in 1..(m - (n + 1) + 1)
              /\ (n + 1) + 1 - 1 = n + 1 /\ (n + 1) + (a - n) - 1 = a
            <4>1. wire \in Seq(WireMessages)
                BY <1>1 DEF Logs
            <4>2. n + 1 \in 1..m /\ m \in 1..m /\ m - (n + 1) + 1 = m - n
                BY <1>2
            <4>3. 1 \in 1..(m - n) /\ (n + 1) + 1 - 1 = n + 1 /\ (n + 1) + (a - n) - 1 = a
                BY <1>2
            <4> QED
                BY <1>2, <4>1, <4>2, <4>3
        <3>2. SubSeq(SubSeq(wire, n + 1, m), 1, a - n) = SubSeq(wire, (n + 1) + 1 - 1, (n + 1) + (a - n) - 1)
            <4> HIDE DEF m
            <4> QED
                BY <3>1, SubSeqOfSubSeq, SMTT(30)
        <3> QED
            BY <3>1, <3>2
    <2>2. piece \o SubSeq(wire, n + 1, a) = SubSeq(wire, 1, a)
        <3>1. /\ wire \in Seq(WireMessages) /\ 1 \in 1..(Len(wire) + 1) /\ n \in (1 - 1)..Len(wire)
              /\ a \in n..Len(wire)
            BY <1>1, <1>2 DEF Logs
        <3> QED
            BY <3>1, ConcatAdjacentSubSeq
    <2> QED
        BY <2>1, <2>2
<1> HIDE DEF rest, piece, m
<1>6. (heard \o piece) \o SubSeq(rest, 1, a - n) = heard \o SubSeq(wire, 1, a)
    <2>1. a - n \in 0..Len(rest)
        BY <1>2, <1>4
    <2>2. SubSeq(rest, 1, a - n) \in Logs
        BY <1>4, <2>1, LogCut
    <2>3. heard \o (piece \o SubSeq(rest, 1, a - n)) = (heard \o piece) \o SubSeq(rest, 1, a - n)
        <3> DEFINE next == SubSeq(rest, 1, a - n)
        <3>1. next \in Logs
            BY <2>2
        <3> HIDE DEF next
        <3>2. heard \o (piece \o next) = (heard \o piece) \o next
            BY <1>1, <1>4, <3>1, LogsAssociate, SMTT(30)
        <3> QED
            BY <3>2 DEF next
    <2> QED
        BY <1>5, <2>3
<1>7. ASSUME NEW k \in DOMAIN rest PROVE rest[k].of = "list" <=> k = a - n
    <2>1. n + k \in 1..m /\ rest[k] = wire[n + k] /\ k \in Nat
        BY <1>2, <1>4
    <2>2. rest[k].of = "list" <=> n + k = a
        BY <1>3, <2>1
    <2> QED
        BY <1>2, <2>1, <2>2
<1>8. a - n \in DOMAIN rest /\ rest[a - n] = WireMessage("list", 0)
    <2>1. rest[a - n] = wire[n + (a - n)] /\ n + (a - n) = a
        BY <1>2, <1>4
    <2> QED
        BY <1>2, <1>3, <1>4, <2>1
<1>9. wire' = rest /\ heard' = heard \o piece
    BY DEF rest, piece, m
<1> PICK b \in Nat : b = a - n
    BY <1>2
<1>10. AnsweredBy(b)'
    BY <1>3, <1>6, <1>7, <1>8, <1>9 DEF AnsweredBy
<1> QED
    BY <1>8, <1>9, <1>10

\* What a piece may do to the client.
Missed == stage' = (IF stage = "ack" THEN "done" ELSE "none") /\ heard' = heard /\ requests' = requests
Over(n) == WireMessage(stage, 0) \in Members(UpTo(SubSeq(wire, 1, n), stage))
Hears(n) == ~Over(n) /\ heard' = heard \o SubSeq(wire, 1, n) /\ stage' = stage /\ requests' = requests
Ends(n) == Over(n) /\ AfterAnswer(stage, heard \o UpTo(SubSeq(wire, 1, n), stage))
ReadsOn(n) ==
    /\ n \in 0..Len(wire) /\ wire' = SubSeq(wire, n + 1, Len(wire))
    /\ UNCHANGED <<scheme, bindable, items, nextItem, truth, index, picked>>
    /\ Missed \/ Hears(n) \/ Ends(n)

LEMMA PieceRead ==
    ASSUME NEW n, NEW half, ReceivePiece(n, half)
    PROVE  Waiting /\ ReadsOn(n)
<1>1. /\ Waiting /\ n \in 0..Len(wire) /\ wire' = SubSeq(wire, n + 1, Len(wire))
      /\ UNCHANGED <<scheme, bindable, items, nextItem, truth, index, picked>>
    BY DEF ReceivePiece, compositorVars
<1>2. CASE lost
    BY <1>1, <1>2 DEF ReceivePiece, Missed, ReadsOn
<1>3. CASE ~lost /\ ~Over(n)
    BY <1>1, <1>3 DEF ReceivePiece, Over, Hears, ReadsOn
<1>4. CASE ~lost /\ Over(n)
    BY <1>1, <1>4 DEF ReceivePiece, Over, Ends, ReadsOn
<1> QED
    BY <1>2, <1>3, <1>4

LEMMA PieceKnown ==
    ASSUME SessionTypes, NEW n \in 0..Len(wire)
    PROVE  LET piece == SubSeq(wire, 1, n)
               upTo == UpTo(piece, stage)
               rest == SubSeq(wire, n + 1, Len(wire))
           IN  /\ heard \o piece \in Logs /\ heard \o upTo \in Logs /\ rest \in Logs
               /\ Below(heard \o piece, nextItem) /\ Below(heard \o upTo, nextItem) /\ Below(rest, nextItem)
               /\ \A known : Early(known, wire) /\ Early(known, heard) =>
                     Early(known, rest) /\ Early(known, heard \o piece) /\ Early(known, heard \o upTo)
               /\ \A of : NoneOf(wire, of) => NoneOf(rest, of)
<1> DEFINE piece == SubSeq(wire, 1, n)
           upTo == UpTo(piece, stage)
           rest == SubSeq(wire, n + 1, Len(wire))
<1>1. wire \in Logs /\ heard \in Logs /\ Below(wire, nextItem) /\ Below(heard, nextItem)
    BY DEF SessionTypes
<1>2. PICK a \in 0..Len(wire) : upTo = SubSeq(wire, 1, a)
    BY <1>1, ReadUpTo
<1>3. /\ piece \in Logs /\ rest \in Logs /\ Below(piece, nextItem) /\ Below(rest, nextItem)
      /\ \A of : NoneOf(wire, of) => NoneOf(rest, of)
      /\ \A known : Early(known, wire) => Early(known, piece) /\ Early(known, rest)
    BY <1>1, CutKeeps
<1>4. /\ upTo \in Logs /\ Below(upTo, nextItem)
      /\ \A known : Early(known, wire) => Early(known, upTo)
    <2> HIDE DEF upTo
    <2> QED
        BY <1>1, <1>2, CutKeeps
<1> HIDE DEF upTo, piece, rest
<1>5. /\ heard \o piece \in Logs /\ Below(heard \o piece, nextItem)
      /\ \A known : Early(known, heard) /\ Early(known, piece) => Early(known, heard \o piece)
    BY <1>1, <1>3, JoinedFrom
<1>6. /\ heard \o upTo \in Logs /\ Below(heard \o upTo, nextItem)
      /\ \A known : Early(known, heard) /\ Early(known, upTo) => Early(known, heard \o upTo)
    BY <1>1, <1>4, JoinedFrom
<1>7. ASSUME NEW known, Early(known, wire), Early(known, heard)
      PROVE  Early(known, rest) /\ Early(known, heard \o piece) /\ Early(known, heard \o upTo)
    BY <1>3, <1>4, <1>5, <1>6, <1>7
<1> QED
    BY <1>3, <1>5, <1>6, <1>7 DEF upTo, piece, rest

\* Until the list is there, at every stage there is something that holds.
Understood ==
    \/ stage = "none"
    \/ stage = "intro" /\ Introduced
    \/ stage = "list" /\ bindable /\ (Unbound \/ Unanswered \/ \E a \in DOMAIN wire : AnsweredBy(a))
    \/ stage = "listed" /\ requests = <<>> /\ Accurate(scheme, heard, truth)

LEMMA IntroRead ==
    ASSUME SessionTypes, stage = "intro", Introduced, NEW n, ReadsOn(n)
    PROVE  Understood'
<1> DEFINE piece == SubSeq(wire, 1, n)
           upTo == UpTo(piece, stage)
           rest == SubSeq(wire, n + 1, Len(wire))
<1>1. /\ n \in 0..Len(wire) /\ wire' = rest /\ scheme' = scheme /\ bindable' = bindable
      /\ Missed \/ Hears(n) \/ Ends(n)
    BY DEF ReadsOn
<1>2. /\ requests \in {<<"registry", "intro">>, <<"intro">>, <<>>}
      /\ Early(bindable, wire) /\ Early(bindable, heard)
      /\ requests # <<>> => NoneOf(wire, "intro")
    BY DEF Introduced
<1>3. /\ Early(bindable, rest) /\ Early(bindable, heard \o piece) /\ Early(bindable, heard \o upTo)
      /\ NoneOf(wire, "intro") => NoneOf(rest, "intro")
    BY <1>1, <1>2, PieceKnown
<1>4. wire \in Logs
    BY DEF SessionTypes
<1>5. CASE Missed
    BY <1>5 DEF Missed, Understood
<1>6. CASE Hears(n)
    BY <1>1, <1>2, <1>3, <1>6 DEF Hears, Introduced, Understood
<1>7. CASE Ends(n)
    <2>1. PICK a \in 1..n : wire[a] = WireMessage("intro", 0)
        BY <1>1, <1>4, <1>7, ReadUpTo DEF Ends, Over
    <2>2. requests = <<>>
        <3>1. a \in DOMAIN wire /\ wire[a].of = "intro"
            <4>1. WireMessage("intro", 0).of = "intro"
                BY DEF WireMessage
            <4> QED
                BY <1>1, <1>4, <2>1, <4>1, LogKnown
        <3> QED
            BY <1>2, <3>1 DEF NoneOf
    <2>3. AfterAnswer("intro", heard \o upTo)
        BY <1>7 DEF Ends
    <2> HIDE DEF upTo, rest, piece
    <2>4. CASE Finds(heard \o upTo)
        <3>1. stage' = "list" /\ heard' = <<>> /\ requests' = requests \o <<"bind", "list">>
            BY <2>3, <2>4 DEF AfterAnswer, Sends
        <3>2. requests' = <<"bind", "list">>
            BY <2>2, <3>1
        <3>3. bindable
            BY <1>3, <2>4 DEF Finds, Early
        <3>4. Early(bindable, <<>>)
            BY DEF Early
        <3> QED
            BY <1>1, <1>3, <3>1, <3>2, <3>3, <3>4 DEF Unbound, Understood
    <2>5. CASE ~Finds(heard \o upTo)
        <3>1. stage' = "none"
            BY <2>3, <2>5 DEF AfterAnswer
        <3> QED
            BY <3>1 DEF Understood
    <2> QED
        BY <2>4, <2>5
<1> QED
    BY <1>1, <1>5, <1>6, <1>7

LEMMA ListRead ==
    ASSUME SessionTypes, stage = "list", bindable, Unbound \/ Unanswered \/ \E a \in DOMAIN wire : AnsweredBy(a),
           NEW n, ReadsOn(n)
    PROVE  Understood'
<1> DEFINE piece == SubSeq(wire, 1, n)
           upTo == UpTo(piece, stage)
           rest == SubSeq(wire, n + 1, Len(wire))
<1>1. /\ n \in 0..Len(wire) /\ wire' = rest /\ scheme' = scheme /\ bindable' = bindable
      /\ items' = items /\ truth' = truth
      /\ Missed \/ Hears(n) \/ Ends(n)
    BY DEF ReadsOn
<1>2. wire \in Logs /\ heard \in Logs /\ Len(wire) \in Nat /\ DOMAIN wire = 1..Len(wire)
    BY LogKnown DEF SessionTypes
<1>3. CASE Missed
    BY <1>3 DEF Missed, Understood
<1>4. ASSUME Over(n) PROVE \E a \in 1..n : a \in DOMAIN wire /\ wire[a].of = "list"
    <2>1. PICK a \in 1..n : wire[a] = WireMessage("list", 0)
        BY <1>1, <1>2, <1>4, ReadUpTo DEF Over
    <2>2. WireMessage("list", 0).of = "list"
        BY DEF WireMessage
    <2> QED
        BY <1>1, <1>2, <2>1, <2>2
<1>5. Hears(n) => heard' = heard \o piece /\ stage' = stage /\ requests' = requests
    BY DEF Hears
<1>6. CASE Unbound /\ ~Missed
    <2>1. requests = <<"bind", "list">> /\ Early(bindable, wire) /\ Early(bindable, heard)
        BY <1>6 DEF Unbound
    <2>2. ~Over(n)
        BY <1>4, <2>1 DEF Early
    <2>3. Hears(n)
        BY <1>1, <1>6, <2>2 DEF Ends
    <2>4. Early(bindable, rest) /\ Early(bindable, heard \o piece)
        BY <1>1, <2>1, PieceKnown
    <2> QED
        BY <1>1, <1>5, <2>1, <2>3, <2>4 DEF Unbound, Understood
<1>7. CASE Unanswered /\ ~Missed
    <2>1. requests = <<"list">> /\ NoneOf(wire, "list") /\ Accurate(scheme, heard \o wire, items)
        BY <1>7 DEF Unanswered
    <2>2. ~Over(n)
        BY <1>4, <2>1 DEF NoneOf
    <2>3. Hears(n)
        BY <1>1, <1>7, <2>2 DEF Ends
    <2>4. NoneOf(rest, "list")
        BY <1>1, <2>1, PieceKnown
    <2>5. piece \in Logs /\ rest \in Logs /\ piece \o rest = wire
        BY <1>1, <1>2, LogCut
    <2> HIDE DEF piece, rest
    <2>6. (heard \o piece) \o rest = heard \o wire
        <3>1. heard \o (piece \o rest) = (heard \o piece) \o rest
            <4>1. heard \in Logs /\ piece \in Logs /\ rest \in Logs
                BY <1>2, <2>5
            <4> QED
                BY ONLY <4>1, LogsAssociate, SMTT(30)
        <3> QED
            BY <2>5, <3>1
    <2>7. heard' = heard \o piece /\ stage' = stage /\ requests' = requests
        BY <1>5, <2>3
    <2> QED
        BY <1>1, <2>1, <2>4, <2>6, <2>7 DEF Unanswered, Understood
<1>8. CASE (\E a \in DOMAIN wire : AnsweredBy(a)) /\ ~Missed
    <2>1. PICK a \in DOMAIN wire : AnsweredBy(a)
        BY <1>8
    <2>2. /\ \A k \in DOMAIN wire : wire[k].of = "list" <=> k = a
          /\ wire[a] = WireMessage("list", 0) /\ requests = <<>>
          /\ Accurate(scheme, heard \o SubSeq(wire, 1, a), truth)
        BY <2>1 DEF AnsweredBy
    <2>3. a \in 1..Len(wire) /\ n \in Nat
        BY <1>1, <1>2
    <2>4. CASE n < a
        <3>1. ~Over(n)
            BY <1>4, <2>2, <2>3, <2>4
        <3>2. Hears(n)
            BY <1>1, <1>8, <3>1 DEF Ends
        <3>3. a - n \in DOMAIN wire' /\ AnsweredBy(a - n)'
            <4>1. UNCHANGED <<scheme, requests, truth>> /\ wire' = SubSeq(wire, n + 1, Len(wire))
                  /\ heard' = heard \o SubSeq(wire, 1, n)
                BY <1>1, <1>5, <3>2
            <4> QED
                BY <1>1, <2>1, <2>4, <4>1, AnsweredCut
        <3>4. stage' = stage
            BY <1>5, <3>2
        <3>5. \E b \in DOMAIN wire' : AnsweredBy(b)'
            <4> PICK b \in Int : b = a - n
                BY <2>3
            <4> QED
                BY <3>3
        <3> QED
            BY <1>1, <3>4, <3>5 DEF Understood
    <2>5. CASE n >= a
        <3>1. a \in 1..n /\ a \in 0..Len(wire)
            BY <2>3, <2>5
        <3>2. upTo = SubSeq(wire, 1, a)
            <4>1. \A k \in DOMAIN wire : wire[k].of = stage <=> k = a
                BY <2>2
            <4>2. wire \in Logs /\ n \in 0..Len(wire) /\ a \in 1..n
                BY <1>1, <1>2, <3>1
            <4> QED
                BY ONLY <4>1, <4>2, ReadUpTo, SMTT(30)
        <3>3. Over(n)
            <4>1. DOMAIN SubSeq(wire, 1, a) = 1..a /\ SubSeq(wire, 1, a)[a] = wire[a]
                BY <1>2, <3>1, LogCut
            <4>2. WireMessage("list", 0) \in Members(SubSeq(wire, 1, a))
                BY <2>2, <3>1, <4>1 DEF Members
            <4> QED
                BY <3>2, <4>2 DEF Over
        <3>4. AfterAnswer("list", heard \o SubSeq(wire, 1, a))
            BY <1>1, <1>8, <3>2, <3>3 DEF Hears, Ends
        <3>5. stage' = "listed" /\ heard' = heard \o SubSeq(wire, 1, a) /\ requests' = requests
            BY <3>4 DEF AfterAnswer
        <3> QED
            BY <1>1, <2>2, <3>5 DEF Understood
    <2> QED
        BY <2>3, <2>4, <2>5
<1> QED
    BY <1>3, <1>6, <1>7, <1>8

LEMMA ReceiveKeeps ==
    ASSUME SessionInv, NEW n, NEW half, ReceivePiece(n, half)
    PROVE  SessionInv'
<1>1. /\ SessionTypes
      /\ stage = "intro" => Introduced
      /\ stage = "list" => bindable /\ (Unbound \/ Unanswered \/ \E a \in DOMAIN wire : AnsweredBy(a))
      /\ stage \in {"ack", "done"} => \A i \in DOMAIN requests : requests[i] # "list"
      /\ stage \notin {"ack", "done"} => picked = 0
      /\ SwitchMeant
    BY DEF SessionInv
<1>2. /\ items \in Orders(scheme) /\ truth \in Orders(scheme)
      /\ nextItem \in Nat /\ \A id \in Members(items) : id < nextItem
      /\ requests \in Seq(SessionRequests) /\ heard \in Logs /\ Below(heard, nextItem)
      /\ nextItem > 1 /\ index \in Nat
    BY <1>1 DEF SessionTypes
<1>3. ReadsOn(n) /\ stage \in {"intro", "list", "ack"}
    BY PieceRead DEF Waiting
<1>4. /\ n \in 0..Len(wire) /\ wire' = SubSeq(wire, n + 1, Len(wire))
      /\ UNCHANGED <<scheme, bindable, items, nextItem, truth, index, picked>>
      /\ Missed \/ Hears(n) \/ Ends(n)
    BY <1>3 DEF ReadsOn
<1>5. /\ \/ heard' = heard \/ heard' = <<>>
         \/ heard' = heard \o SubSeq(wire, 1, n) \/ heard' = heard \o UpTo(SubSeq(wire, 1, n), stage)
      /\ requests' = requests \/ requests' = requests \o <<"bind", "list">>
      /\ stage' \in {"intro", "list", "listed", "ack", "done", "none"}
      /\ stage' \in {"ack", "done"} => stage = "ack" /\ requests' = requests
      /\ stage = "ack" => stage' \in {"ack", "done"}
    <2>1. CASE Missed
        BY <1>3, <2>1 DEF Missed
    <2>2. CASE Hears(n)
        BY <1>3, <2>2 DEF Hears
    <2>3. CASE Ends(n)
        <3>1. AfterAnswer(stage, heard \o UpTo(SubSeq(wire, 1, n), stage))
            BY <2>3 DEF Ends
        <3>2. CASE stage = "intro"
            BY <3>1, <3>2 DEF AfterAnswer, Sends
        <3>3. CASE stage = "list"
            BY <3>1, <3>3 DEF AfterAnswer
        <3>4. CASE stage = "ack"
            BY <3>1, <3>4 DEF AfterAnswer
        <3> QED
            BY <1>3, <3>2, <3>3, <3>4
    <2> QED
        BY <1>4, <2>1, <2>2, <2>3
<1>6. SessionTypes'
    <2>1. /\ heard \o SubSeq(wire, 1, n) \in Logs /\ heard \o UpTo(SubSeq(wire, 1, n), stage) \in Logs
          /\ Below(heard \o SubSeq(wire, 1, n), nextItem)
          /\ Below(heard \o UpTo(SubSeq(wire, 1, n), stage), nextItem)
          /\ SubSeq(wire, n + 1, Len(wire)) \in Logs /\ Below(SubSeq(wire, n + 1, Len(wire)), nextItem)
        BY <1>1, <1>4, PieceKnown
    <2>2. <<>> \in Logs /\ Below(<<>>, nextItem)
        BY DEF Logs, Below
    <2>3. heard' \in Logs /\ Below(heard', nextItem)
        BY <1>2, <1>5, <2>1, <2>2
    <2>4. requests' \in Seq(SessionRequests)
        <3>1. <<"bind", "list">> \in Seq(SessionRequests)
            BY DEF SessionRequests
        <3> QED
            BY <1>2, <1>5, <3>1, ConcatProperties
    <2> QED
        BY <1>2, <1>4, <1>5, <2>1, <2>3, <2>4 DEF SessionTypes
<1>7. stage \in {"intro", "list"} => Understood'
    BY <1>1, <1>3, IntroRead, ListRead
<1>8. /\ (stage = "idle" => requests = <<>> /\ wire = <<>> /\ heard = <<>>)'
      /\ (stage = "intro" => Introduced)'
      /\ (stage = "list" => bindable /\ (Unbound \/ Unanswered \/ \E a \in DOMAIN wire : AnsweredBy(a)))'
      /\ (stage = "listed" => requests = <<>> /\ Accurate(scheme, heard, truth))'
    BY <1>3, <1>5, <1>7 DEF Understood
<1>9. (stage \in {"ack", "done"} => \A i \in DOMAIN requests : requests[i] # "list")'
    BY <1>1, <1>5
<1>10. (stage \notin {"ack", "done"} => picked = 0)'
    BY <1>1, <1>3, <1>4, <1>5
<1>11. SwitchMeant'
    <2>1. MeantItem(truth)' = MeantItem(truth)
        BY <1>4 DEF MeantItem
    <2> QED
        BY <1>1, <1>4, <2>1 DEF SwitchMeant
<1> QED
    BY <1>6, <1>8, <1>9, <1>10, <1>11 DEF SessionInv

LEMMA StartKeeps ==
    ASSUME SessionInv, NEW i \in 0..(MaxItems - 1), StartSession(i)
    PROVE  SessionInv'
<1>1. /\ SessionTypes /\ requests = <<>> /\ wire = <<>> /\ heard = <<>> /\ picked = 0
    BY DEF SessionInv, StartSession
<1>2. /\ stage' = "intro" /\ index' = i /\ requests' = requests \o <<"registry", "intro">>
      /\ UNCHANGED <<scheme, bindable, items, nextItem, truth, wire, heard, picked>>
    BY DEF StartSession, Sends, compositorVars
<1>3. requests' = <<"registry", "intro">> /\ requests' \in Seq(SessionRequests)
    BY <1>1, <1>2 DEF SessionRequests
<1>4. i \in Nat
    BY ItemsAssumption
<1>5. SessionTypes'
    BY <1>1, <1>2, <1>3, <1>4 DEF SessionTypes
<1>6. Introduced'
    BY <1>1, <1>2, <1>3 DEF Introduced, Early, NoneOf
<1> QED
    BY <1>1, <1>2, <1>5, <1>6 DEF SessionInv, SwitchMeant

LEMMA ActivateKeeps ==
    ASSUME SessionInv, ActivateWorkspace
    PROVE  SessionInv'
<1>1. /\ SessionTypes /\ stage = "listed" /\ requests = <<>> /\ Accurate(scheme, heard, truth)
    BY DEF SessionInv, ActivateWorkspace
<1>2. /\ picked' = PickWorkspace(index)
      /\ IF picked' = 0 THEN stage' = "none" /\ requests' = requests
         ELSE stage' = "ack" /\ requests' = requests \o <<"activate", "commit", "ack">>
      /\ UNCHANGED <<scheme, bindable, items, nextItem, truth, index, wire, heard>>
    BY DEF ActivateWorkspace, Sends, compositorVars
<1>3. truth \in Orders(scheme) /\ heard \in Logs /\ index \in Nat
    BY <1>1 DEF SessionTypes
<1>4. requests' \in {<<>>, <<"activate", "commit", "ack">>}
    BY <1>1, <1>2
<1>5. requests' \in Seq(SessionRequests) /\ \A k \in DOMAIN requests' : requests'[k] # "list"
    <2> DEFINE sent == <<"activate", "commit", "ack">>
    <2>1. sent \in Seq(SessionRequests) /\ <<>> \in Seq(SessionRequests)
        BY DEF SessionRequests
    <2>2. \A k \in DOMAIN sent : sent[k] # "list"
        OBVIOUS
    <2>3. CASE requests' = <<>>
        BY <2>1, <2>3
    <2>4. CASE requests' = sent
        <3> HIDE DEF sent
        <3> QED
            BY <2>1, <2>2, <2>4
    <2> QED
        BY <1>4, <2>3, <2>4
<1>6. stage' \in {"none", "ack"} /\ (stage' = "none" => picked' = 0)
    BY <1>2
<1>7. SessionTypes'
    BY <1>1, <1>2, <1>5, <1>6 DEF SessionTypes
<1>8. SwitchMeant'
    <2>1. MeantItem(truth)' = MeantItem(truth)
        BY <1>2 DEF MeantItem
    <2>2. MeantItem(truth) # {} => PickWorkspace(index) \in MeantItem(truth)
        BY <1>1, <1>3, PickRight
    <2> QED
        BY <1>2, <2>1, <2>2 DEF SwitchMeant
<1> QED
    BY <1>5, <1>6, <1>7, <1>8 DEF SessionInv

\* Where the stage stays or is given up and nothing the client knows changes.
LEMMA RestKeeps ==
    ASSUME SessionInv,
           UNCHANGED <<scheme, bindable, items, nextItem, truth, index, wire, heard, picked, requests>>,
           \/ stage' = stage
           \/ Waiting /\ stage' = IF stage = "ack" THEN "done" ELSE "none"
    PROVE  SessionInv'
<1>1. /\ SessionTypes
      /\ stage = "idle" => requests = <<>> /\ wire = <<>> /\ heard = <<>>
      /\ stage = "intro" => Introduced
      /\ stage = "list" => bindable /\ (Unbound \/ Unanswered \/ \E a \in DOMAIN wire : AnsweredBy(a))
      /\ stage = "listed" => requests = <<>> /\ Accurate(scheme, heard, truth)
      /\ stage \in {"ack", "done"} => \A i \in DOMAIN requests : requests[i] # "list"
      /\ stage \notin {"ack", "done"} => picked = 0
      /\ SwitchMeant
    BY DEF SessionInv
<1>2. MeantItem(truth)' = MeantItem(truth)
    BY DEF MeantItem
<1>3. SwitchMeant'
    BY <1>1, <1>2 DEF SwitchMeant
<1>4. stage' \in {"idle", "intro", "list", "listed", "ack", "done", "none"}
    BY <1>1 DEF SessionTypes, Waiting
<1>5. SessionTypes'
    BY <1>1, <1>4 DEF SessionTypes
<1>6. CASE stage' = stage
    <2>1. (stage = "intro" => Introduced)'
        BY <1>1, <1>6 DEF Introduced
    <2>2. (stage = "list" => bindable /\ (Unbound \/ Unanswered \/ \E a \in DOMAIN wire : AnsweredBy(a)))'
        <3>1. Unbound' = Unbound /\ Unanswered' = Unanswered /\ (\E a \in DOMAIN wire : AnsweredBy(a))' = \E a \in DOMAIN wire : AnsweredBy(a)
            BY DEF Unbound, Unanswered, AnsweredBy
        <3> QED
            BY <1>1, <1>6, <3>1
    <2> QED
        BY <1>1, <1>3, <1>5, <1>6, <2>1, <2>2 DEF SessionInv
<1>7. CASE stage' # stage
    <2>1. stage \in {"intro", "list", "ack"} /\ stage' = IF stage = "ack" THEN "done" ELSE "none"
        BY <1>7 DEF Waiting
    <2> QED
        BY <1>1, <1>3, <1>5, <2>1 DEF SessionInv
<1> QED
    BY <1>6, <1>7

LEMMA SessionStarts == ASSUME WaylandInit PROVE SessionInv
<1>1. /\ items = <<1, 2>> /\ nextItem = 3 /\ requests = <<>> /\ wire = <<>> /\ heard = <<>>
      /\ truth = <<>> /\ index = 0 /\ picked = 0 /\ stage = "idle"
    BY DEF WaylandInit
<1>2. items \in Orders(scheme) /\ truth \in Orders(scheme)
    <2>1. <<1, 2>> \in Seq(Nat) /\ <<>> \in Seq(Nat)
        OBVIOUS
    <2>2. \A i, j \in 1..Len(<<1, 2>>) : i < j => <<1, 2>>[i] # <<1, 2>>[j] /\ <<1, 2>>[i] < <<1, 2>>[j]
        OBVIOUS
    <2>3. \A i, j \in 1..Len(<<>>) : i < j => <<>>[i] # <<>>[j] /\ <<>>[i] < <<>>[j]
        OBVIOUS
    <2> QED
        BY <1>1, <2>1, <2>2, <2>3 DEF Orders
<1>3. \A id \in Members(items) : id < 3
    BY <1>1 DEF Members
<1>4. SessionTypes
    <2>1. <<>> \in Logs /\ \A n : Below(<<>>, n)
        BY DEF Logs, Below
    <2>2. <<>> \in Seq(SessionRequests)
        OBVIOUS
    <2> QED
        BY <1>1, <1>2, <1>3, <2>1, <2>2 DEF SessionTypes
<1> QED
    BY <1>1, <1>4 DEF SessionInv, SwitchMeant

\* What a session lists is all that the compositor had when it answered, and nothing
\* that had gone, and the workspace it activates is the one its index meant then,
\* however the messages were cut and whatever changes meanwhile
\* (collect_ext_foreign_handles, collect_ext_workspace_handles, pick_ext_workspace,
\* _recv_until_callback).
THEOREM SessionStaysFaithful == WaylandSpec => []SessionFaithful
<1>1. WaylandInit => SessionInv
    BY SessionStarts
<1>2. SessionInv /\ [WaylandNext]_waylandVars => SessionInv'
    <2> SUFFICES ASSUME SessionInv, [WaylandNext]_waylandVars PROVE SessionInv'
        OBVIOUS
    <2>1. CASE HandleRequest
        BY <2>1, HandleKeeps
    <2>2. ASSUME NEW place \in 1 .. MaxItems, Appears(place) PROVE SessionInv'
        <3> DEFINE events == <<WireMessage("new", nextItem)>> \o Details(items') \o Batches(items')
        <3>1. Changed(events)
            BY <2>2, AppearsTells DEF SessionInv
        <3>2. UNCHANGED <<scheme, bindable, requests, stage, index, heard, picked, truth>>
            BY <2>2 DEF Appears
        <3> HIDE DEF events
        <3> QED
            BY <3>1, <3>2, ChangeKeeps
    <2>3. ASSUME NEW place \in DOMAIN items, Disappears(place) PROVE SessionInv'
        <3> DEFINE events == <<WireMessage("gone", items[place])>> \o Details(items') \o Batches(items')
        <3>1. Changed(events)
            BY <2>3, DisappearsTells DEF SessionInv
        <3>2. UNCHANGED <<scheme, bindable, requests, stage, index, heard, picked, truth>>
            BY <2>3 DEF Disappears
        <3> HIDE DEF events
        <3> QED
            BY <3>1, <3>2, ChangeKeeps
    <2>4. ASSUME NEW id \in Members(items), UserSwitches(id) PROVE SessionInv'
        <3>1. /\ UNCHANGED <<scheme, bindable, items, nextItem, truth, index, wire, heard, picked, requests>>
              /\ stage' = stage
            BY <2>4 DEF UserSwitches
        <3> QED
            BY <3>1, RestKeeps
    <2>5. ASSUME NEW i \in 0 .. MaxItems - 1, StartSession(i) PROVE SessionInv'
        BY <2>5, StartKeeps
    <2>6. ASSUME NEW n \in 0 .. Len(wire), NEW half \in BOOLEAN, ReceivePiece(n, half) PROVE SessionInv'
        BY <2>6, ReceiveKeeps
    <2>7. CASE TimeOut
        <3>1. /\ UNCHANGED <<scheme, bindable, items, nextItem, truth, index, wire, heard, picked, requests>>
              /\ Waiting /\ stage' = IF stage = "ack" THEN "done" ELSE "none"
            BY <2>7 DEF TimeOut, compositorVars
        <3> QED
            BY <3>1, RestKeeps
    <2>8. CASE ActivateWorkspace
        BY <2>8, ActivateKeeps
    <2>9. CASE UNCHANGED waylandVars
        <3>1. /\ UNCHANGED <<scheme, bindable, items, nextItem, truth, index, wire, heard, picked, requests>>
              /\ stage' = stage
            BY <2>9 DEF waylandVars
        <3> QED
            BY <3>1, RestKeeps
    <2> QED
        BY <2>1, <2>2, <2>3, <2>4, <2>5, <2>6, <2>7, <2>8, <2>9 DEF WaylandNext
<1>3. SessionInv => SessionFaithful
    <2> SUFFICES ASSUME SessionInv PROVE ListingWhole /\ SwitchMeant
        BY DEF SessionFaithful
    <2>1. SwitchMeant
        BY DEF SessionInv
    <2>2. CASE stage = "listed"
        <3>1. Accurate(scheme, heard, truth) /\ heard \in Logs
            BY <2>2 DEF SessionInv, SessionTypes
        <3> QED
            BY <2>1, <3>1, ListedRight DEF ListingWhole
    <2>3. CASE stage # "listed"
        BY <2>1, <2>3 DEF ListingWhole
    <2> QED
        BY <2>2, <2>3
<1> QED
    BY <1>1, <1>2, <1>3, PTL DEF WaylandSpec
=============================================================================
