---- MODULE TriggerRouting ----
(***************************************************************************)
(* Keywords and who answers them.  Shortcuts and extensions have keywords; *)
(* Core keeps, for each of the two modes, the keywords it registered when  *)
(* the launcher was last shown, and routes a query with an argument by     *)
(* them.  The mode then looks the keyword up once more, ShortcutMode in    *)
(* the shortcuts themselves and ExtensionMode in a cache of its own, which *)
(* starting or stopping an extension empties.                              *)
(***************************************************************************)
EXTENDS Naturals, Sequences, FiniteSets, SequencesExt

CONSTANTS
    ShortcutIds,   \* the shortcuts, in the order of their file
    ExtensionIds,  \* the extensions, in the order of their names
    Keywords,      \* keywords
    NoKeyword,     \* the keyword of a trigger that does not exist
    MaxEdits       \* bound: changes the user makes

TriggerIds == Range(ShortcutIds) \cup Range(ExtensionIds)
Modes == {"ShortcutMode", "ExtensionMode"}
Nobody == "nobody"
Search == "LauncherMode"
Unavailable == "Extension not available"
RowsKept == "the rows of the query before"
ASSUME RoutingAssumption ==
    /\ ShortcutIds \in Seq(TriggerIds) /\ ExtensionIds \in Seq(TriggerIds)
    /\ TriggerIds \cap {Nobody, Search, Unavailable, RowsKept} = {}
    /\ NoKeyword \notin Keywords /\ MaxEdits \in Nat

VARIABLES
    keywordOf,     \* what is configured: [trigger -> keyword], NoKeyword if removed or disabled
    registered,    \* UlauncherCore._keyword_cache: [mode -> [keyword -> trigger]]
    ownCache,      \* ExtensionMode._trigger_cache: [keyword -> extension]
    readyPending,  \* window_ready waits for the main loop
    edits,         \* changes made so far
    editedSince,   \* triggers changed since the triggers were loaded
    answer         \* who answered the last query: [keyword, by]

routingVars == <<keywordOf, registered, ownCache, readyPending, edits, editedSince, answer>>

RoutingTypeOK ==
    /\ keywordOf \in [TriggerIds -> Keywords \cup {NoKeyword}]
    /\ \A m \in Modes : registered[m] \in [Keywords -> TriggerIds \cup {Nobody}]
    /\ ownCache \in [Keywords -> Range(ExtensionIds) \cup {Nobody}]
    /\ readyPending \in BOOLEAN /\ edits \in 0 .. MaxEdits /\ editedSince \subseteq TriggerIds
    /\ answer.by \in TriggerIds \cup {Nobody, Search, Unavailable, RowsKept}

NoCache == [k \in Keywords |-> Nobody]
Triggers(m) == IF m = "ShortcutMode" THEN ShortcutIds ELSE ExtensionIds
Having(ids, k) == {i \in DOMAIN ids : keywordOf[ids[i]] = k}   \* the places of those with keyword k

(* The trigger that registers keyword k among those of one mode. *)
FirstHaving(m, k) ==
    LET having == Having(Triggers(m), k) IN IF having = {} THEN Nobody ELSE Triggers(m)[Min(having)]

(* load_triggers(force=True), for one order in which the set of modes is gone through. *)
Claimed(first, k) == FirstHaving(first, k) # Nobody
(* Mutant: a keyword is registered for both modes. *)
LoadedAll(first) == [m \in Modes |-> [k \in Keywords |-> FirstHaving(m, k)]]
Loaded(first) ==
    [m \in Modes |-> [k \in Keywords |->
        IF m # first /\ Claimed(first, k) THEN Nobody ELSE FirstHaving(m, k)]]

(* The extensions' own cache keeps the last one that has the keyword. *)
LastHaving(k) ==
    LET having == Having(ExtensionIds, k) IN IF having = {} THEN Nobody ELSE ExtensionIds[Max(having)]
OwnTriggers == [k \in Keywords |-> LastHaving(k)]
Ensured == IF ownCache = NoCache THEN OwnTriggers ELSE ownCache

LoadTriggersForced ==
    /\ readyPending
    /\ readyPending' = FALSE
    /\ \E first \in Modes : registered' = Loaded(first)
    /\ ownCache' = OwnTriggers
    /\ editedSince' = {}
    /\ UNCHANGED <<keywordOf, edits, answer>>

OpenLauncher ==
    /\ ~readyPending
    /\ readyPending' = TRUE
    /\ UNCHANGED <<keywordOf, registered, ownCache, edits, editedSince, answer>>

HandledByShortcuts(k) ==
    LET active == Having(ShortcutIds, k) IN IF active = {} THEN RowsKept ELSE ShortcutIds[Min(active)]

HandledByExtensions(k) ==
    IF Ensured[k] = Nobody THEN Unavailable ELSE Ensured[k]

SetQuery(k, argument) ==
    /\ LET owner == {m \in Modes : argument /\ registered[m][k] # Nobody}
       IN  /\ answer' = [keyword |-> k,
                         by |-> CASE "ShortcutMode" \in owner -> HandledByShortcuts(k)
                                  [] owner = {"ExtensionMode"} -> HandledByExtensions(k)
                                  [] OTHER -> Search]
           /\ ownCache' = IF owner = {"ExtensionMode"} THEN Ensured ELSE ownCache
    /\ UNCHANGED <<keywordOf, registered, readyPending, edits, editedSince>>

(***************************************************************************)
(* The user edits a keyword, adds or removes a shortcut, enables or        *)
(* disables an extension.  Only the start or the stop of an extension      *)
(* empties the extensions' cache.                                          *)
(***************************************************************************)
Edited(t, k) ==
    /\ edits < MaxEdits /\ keywordOf[t] # k
    /\ keywordOf' = [keywordOf EXCEPT ![t] = k]
    /\ edits' = edits + 1
    /\ editedSince' = editedSince \cup {t}
    /\ UNCHANGED <<registered, readyPending, answer>>

SaveShortcut(t, k) == Edited(t, k) /\ UNCHANGED ownCache

SaveKeyword(t, k) ==
    /\ keywordOf[t] # NoKeyword /\ k # NoKeyword
    /\ Edited(t, k)
    /\ UNCHANGED ownCache

InvalidateCache == ownCache' = NoCache

ToggleExtension(t, k) ==
    /\ keywordOf[t] = NoKeyword \/ k = NoKeyword
    /\ Edited(t, k)
    /\ InvalidateCache

RoutingInit ==
    /\ keywordOf \in [TriggerIds -> Keywords \cup {NoKeyword}]
    /\ registered = [m \in Modes |-> NoCache] /\ ownCache = NoCache
    /\ readyPending = TRUE /\ edits = 0 /\ editedSince = {}
    /\ answer = [keyword |-> NoKeyword, by |-> Nobody]

RoutingNext ==
    \/ LoadTriggersForced
    \/ OpenLauncher
    \/ \E k \in Keywords, argument \in BOOLEAN : SetQuery(k, argument)
    \/ \E t \in Range(ShortcutIds), k \in Keywords \cup {NoKeyword} : SaveShortcut(t, k)
    \/ \E t \in Range(ExtensionIds), k \in Keywords \cup {NoKeyword} : SaveKeyword(t, k) \/ ToggleExtension(t, k)

RoutingSpec == RoutingInit /\ [][RoutingNext]_routingVars

(***************************************************************************)
(* Once the triggers are loaded, and until one changes, a keyword somebody *)
(* has is registered for exactly one mode, for a trigger that has it, and  *)
(* no other is (load_triggers).                                            *)
(***************************************************************************)
OneRegistered ==
    editedSince = {} /\ ~readyPending =>
        \A k \in Keywords :
            LET owners == {m \in Modes : registered[m][k] # Nobody}
            IN  /\ Cardinality(owners) = IF \E t \in TriggerIds : keywordOf[t] = k THEN 1 ELSE 0
                /\ \A m \in owners : keywordOf[registered[m][k]] = k

(***************************************************************************)
(* Whoever answers a query has its keyword, unless the user changed the    *)
(* keyword of that extension since the launcher was shown (set_query,      *)
(* ShortcutMode._get_active_shortcut, ExtensionMode.handle_query).         *)
(***************************************************************************)
AnswerHasKeyword ==
    [][answer' # answer /\ answer'.by \in TriggerIds \ editedSince
        => keywordOf[answer'.by] = answer'.keyword]_routingVars

(* Both together, at every step: a keyword leads to the trigger that has it. *)
KeywordsRoute == [][OneRegistered']_routingVars /\ AnswerHasKeyword
====
