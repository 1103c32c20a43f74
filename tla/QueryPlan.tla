------------------------------ MODULE QueryPlan ------------------------------
(* What the launcher searches for, and where: a prefix character forces one    *)
(* provider, the words around the name are taken off, the settings and the     *)
(* result order give the providers. A text is a sequence of words, each by     *)
(* the list of the code's patterns it is on.                                    *)
EXTENDS Naturals, Sequences, SequencesExt, FiniteSets

CONSTANTS MaxWords   \* bound on the length of a text
ASSUME PlanAssumption == MaxWords \in Nat

VARIABLES planText, planned
planVars == <<planText, planned>>

PrefixMode == [calculator |-> "=", web |-> "@", settings |-> "#", windows |-> "$", files |-> ".", command |-> "!"]
PrefixChars == {PrefixMode[m] : m \in DOMAIN PrefixMode}
\* "open" and "up" also make "open up"; "article" is one of my, the, a, an and
\* me; "answer" is "answer to"; "category" opens a name (files report), "noun"
\* closes one (music folder), "both" does either (settings wifi); "kept" is one
\* of office, vpn, source and jdk.
Words == {"polite", "open", "verb", "up", "article", "answer", "category", "noun", "both", "kept", "name"}
PlanTexts == {<<>>} \union {p \o t : p \in {<<>>} \union {<<c>> : c \in PrefixChars}, t \in BoundedSeq(Words, MaxWords)}

-----------------------------------------------------------------------------
\* parse_query: the settings may switch the prefixes off.
ModeOf(text, prefixes) ==
    IF prefixes /\ text # <<>> /\ Head(text) \in PrefixChars
    THEN CHOOSE m \in DOMAIN PrefixMode : PrefixMode[m] = Head(text)
    ELSE "all"
QueryOf(text, prefixes) == IF ModeOf(text, prefixes) = "all" THEN text ELSE Tail(text)

\* Words at the front that are on a list, as long as something follows them.
WithoutLeading(text, list) ==
    LET leading == Max({0} \union {n \in 1..(Len(text) - 1) : \A i \in 1..n : text[i] \in list})
    IN  SubSeq(text, leading + 1, Len(text))
WithoutOne(text, list) == IF Len(text) > 1 /\ Head(text) \in list THEN Tail(text) ELSE text

\* LAUNCH_VERB: one verb; "open" stays before the names it is part of, and "up"
\* goes with the verb.
WithoutVerb(text) ==
    IF Len(text) < 2 \/ Head(text) \notin {"open", "verb"} \/ (Head(text) = "open" /\ text[2] = "kept") THEN text
    ELSE WithoutOne(IF Head(text) = "open" THEN WithoutOne(Tail(text), {"up"}) ELSE Tail(text), {"up"})
\* Mutant: the noun goes even if it is all there is.
WithoutAnyNoun(text) == IF text # <<>> /\ Last(text) \in {"noun", "both"} THEN Front(text) ELSE text
WithoutNoun(text) == IF Len(text) > 1 /\ Last(text) \in {"noun", "both"} THEN Front(text) ELSE text
StripLeadingVerb(text) ==
    LET spoken == WithoutVerb(WithoutLeading(text, {"polite"}))
        answer == WithoutOne(WithoutLeading(spoken, {"article"}), {"answer"})
    IN  WithoutNoun(WithoutOne(answer, {"category", "both"}))

\* plan_search
StripVerbModes == {"all", "windows", "settings", "files"}
DefaultOrder == <<"url", "path", "places", "bookmarks", "apps", "calculator", "units", "color",
                  "time", "windows", "system", "settings", "files">>
WindowsFirstOrder == <<"url", "path", "places", "bookmarks", "windows", "apps", "calculator", "units",
                       "color", "time", "system", "settings", "files">>
ProvidersFor(mode, flags, windowsFirst) ==
    IF mode = "all"
    THEN SelectSeq(IF windowsFirst THEN WindowsFirstOrder ELSE DefaultOrder, LAMBDA p : p \in flags)
    ELSE IF mode = "web" \/ mode \in flags THEN <<mode>> ELSE <<>>
PlanSearch(text, flags, windowsFirst) ==
    LET mode == ModeOf(text, "prefixes" \in flags)
        query == QueryOf(text, "prefixes" \in flags)
    IN  [mode |-> mode,
         query |-> IF mode \in StripVerbModes THEN StripLeadingVerb(query) ELSE query,
         providers |-> IF text = <<>> THEN <<>> ELSE ProvidersFor(mode, flags, windowsFirst),
         fallback |-> mode = "all" /\ text # <<>> /\ "web" \in flags]

Unplanned == [mode |-> "none", query |-> <<>>, providers |-> <<>>, fallback |-> FALSE]
PlanInit == planText \in PlanTexts /\ planned = Unplanned
PlanTyped ==
    /\ planned = Unplanned
    /\ \E prefixes \in BOOLEAN :
         planned' = PlanSearch(planText, {"apps", "web"} \union (IF prefixes THEN {"prefixes"} ELSE {}), FALSE)
    /\ UNCHANGED planText
PlanSpec == PlanInit /\ [][PlanTyped]_planVars

-----------------------------------------------------------------------------
\* However the words around it are combined, the name that is searched for stays:
\* taking off polite words, verbs, articles, categories and nouns, one after the
\* other, leaves a stretch of the text, never an empty one, and no word before or
\* after it is on none of the lists, nor is it the "open" of "open office".
QueryKept ==
    planned # Unplanned =>
        LET bare == IF planned.mode = "all" THEN planText ELSE Tail(planText)
            query == planned.query
        IN  /\ bare # <<>> => query # <<>>
            /\ \E before \in 0..(Len(bare) - Len(query)) :
                 /\ \A i \in 1..Len(query) : query[i] = bare[before + i]
                 /\ \A i \in (1..Len(bare)) \ ((before + 1)..(before + Len(query))) : bare[i] \notin {"name", "kept"}
            /\ (Len(bare) > 1 /\ bare[1] = "open" /\ bare[2] = "kept" /\ planned.mode \in StripVerbModes)
                   => Len(query) > 1 /\ query[1] = "open" /\ query[2] = "kept"
=============================================================================
