------------------------------- MODULE AppSearch -------------------------------
(* Which application comes first: how it matches the text, its exact name, how  *)
(* much GNOME Shell says it is used, how often it is launched here. Every launch *)
(* that worked is counted, and fades with the later ones; the number of launches *)
(* is read off the sum of the scores.                                           *)
EXTENDS Naturals, Sequences, SequencesExt, FiniteSets

CONSTANTS Apps,
          BaseName,     \* an application's name without what marks a variant
          Variants,     \* the applications that are a variant (Firefox ESR)
          EntryOf,      \* what their desktop entries say
          UsageTables,  \* what GNOME's application_state may say: scores of some
          MaxLaunches
ASSUME SearchAssumption ==
    /\ IsFiniteSet(Apps) /\ Variants \subseteq Apps /\ MaxLaunches \in Nat
    /\ \A table \in UsageTables : DOMAIN table \subseteq Apps /\ \A a \in DOMAIN table : table[a] \in Nat
    /\ EntryOf \in [Apps -> [dbus : BOOLEAN, terminal : BOOLEAN, exec : BOOLEAN, single : BOOLEAN]]

VARIABLES scores,   \* AppRankings, times the common scale
          scale,    \* what one launch added last
          launches, \* the launches that worked
          run,      \* the application of the last of them, and how many in a row
          usage,    \* what the last search read in GNOME's file
          typedName, appHits
searchVars == <<scores, scale, launches, run, usage, typedName, appHits>>

\* The file is missing, cannot be read, or says nothing.
NoUsage == [a \in {} |-> 0]

\* What is typed: nothing, a base name, a name with its suffix, or something a
\* keyword of all of them starts with.
NamesTyped == {[kind |-> k, base |-> BaseName[a]] : k \in {"base", "full", "keyword"}, a \in Apps}
NoName == [kind |-> "none", base |-> "none"]

SearchTypeOK ==
    /\ scores \in [Apps -> Nat] /\ scale \in Nat /\ launches \in 0..MaxLaunches
    /\ run \in [app : Apps, times : Nat] /\ usage \in UsageTables \union {NoUsage} /\ typedName \in NamesTyped \union {NoName} /\ appHits \in Seq(Apps)
SearchInit ==
    /\ scores = [a \in Apps |-> 0] /\ scale = 0 /\ launches = 0
    /\ run \in [app : Apps, times : {0}] /\ usage = NoUsage /\ typedName = NoName /\ appHits = <<>>

-----------------------------------------------------------------------------
\* bump: with n launches so far every score is multiplied by n / (n + DECAY_RATE).
\* The scores of n launches have the common divisor n (n+1) (n+2), which is what a
\* launch adds in these units; _total_launches recovers n from their sum.
DecayRate == 3
AppOrder == SetToSeq(Apps)
SumsUpTo(values) ==
    LET Upto[k \in 0..Len(AppOrder)] == IF k = 0 THEN 0 ELSE Upto[k - 1] + values[AppOrder[k]]
    IN  Upto
SumOfScores == SumsUpTo(scores)[Len(AppOrder)]
TotalLaunches == IF scale = 0 THEN 0 ELSE ((DecayRate + 1) * SumOfScores) \div scale - DecayRate
Unit(n) == n * (n + 1) * (n + 2)
Bump(app) ==
    LET n == TotalLaunches IN
    /\ scale' = Unit(n + 1)
    /\ scores' = [scores EXCEPT ![app] = @ + Unit(n + 1)]

\* launch_app, for an application that is not an action: whether it says it worked.
ScoreLaunch(entry, raised, activates, hasTerminal, custom) ==
    \/ raised
    \/ entry.dbus /\ activates
    \/ ~entry.dbus /\ entry.exec /\ (entry.terminal /\ ~custom => hasTerminal)
\* The session: a window that raise_if_started raises, a D-Bus service, a terminal.
LaunchRow(app) ==
    /\ launches < MaxLaunches /\ app \in ToSet(appHits)
    /\ \E raised, activates, hasTerminal, custom \in BOOLEAN :
         IF ScoreLaunch(EntryOf[app], raised, activates, hasTerminal, custom)
         THEN /\ Bump(app) /\ launches' = launches + 1
              /\ run' = [app |-> app, times |-> IF run.app = app THEN run.times + 1 ELSE 1]
         ELSE UNCHANGED <<scores, scale, launches, run>>
    /\ appHits' = <<>> /\ typedName' = NoName /\ usage' = NoUsage

-----------------------------------------------------------------------------
\* app_match_tier: 0 the name starts with it, 5 a keyword does, 9 no match.
Tier(app, name) ==
    CASE name.kind = "none" -> 0
      [] name.kind = "keyword" -> 5
      [] OTHER -> IF name.base = BaseName[app] /\ (name.kind = "base" \/ app \in Variants) THEN 0 ELSE 9
Exact(app, name) ==
    /\ BaseName[app] = name.base
    /\ (name.kind = "base" /\ app \notin Variants) \/ (name.kind = "full" /\ app \in Variants)
\* _usage_sort_key: what GNOME counts first, and no score stands below any score;
\* then the place in this launcher's own ranking, where equal scores stand in any
\* order and what was never launched stands last.
GnomeAbove(a, b, table) ==
    /\ a \in DOMAIN table
    /\ b \in DOMAIN table => table[a] > table[b]
UsedMore(a, b, table) ==
    \/ GnomeAbove(a, b, table)
    \/ ~GnomeAbove(b, a, table) /\ scores[a] > scores[b]
SameUse(a, b, table) ==
    /\ ~GnomeAbove(a, b, table) /\ ~GnomeAbove(b, a, table)
    /\ scores[a] = 0 /\ scores[b] = 0
\* Mutant: the exact name counts less than the launches.
RanksByUse(a, b, name, table) ==
    \/ Tier(a, name) < Tier(b, name)
    \/ Tier(a, name) = Tier(b, name) /\ UsedMore(a, b, table)
\* match_apps: tier, exact name, use, the shorter name; home_apps: use alone.
RanksBefore(a, b, name, table) ==
    \/ Tier(a, name) < Tier(b, name)
    \/ /\ Tier(a, name) = Tier(b, name)
       /\ \/ Exact(a, name) /\ ~Exact(b, name)
          \/ /\ Exact(a, name) = Exact(b, name)
             /\ \/ UsedMore(a, b, table)
                \/ name # NoName /\ SameUse(a, b, table) /\ a \notin Variants /\ b \in Variants
\* The first of every base name: the others were seen before.
UniqueUpTo(apps) ==
    LET Upto[k \in 0..Len(apps)] ==
            IF k = 0 THEN <<>>
            ELSE IF \E j \in 1..(k - 1) : BaseName[apps[j]] = BaseName[apps[k]] THEN Upto[k - 1]
            ELSE Append(Upto[k - 1], apps[k])
    IN  Upto
UniqueByBaseName(apps) == UniqueUpTo(apps)[Len(apps)]
SearchApps(name) ==
    /\ typedName' = name
    /\ usage' \in UsageTables \union {NoUsage}
    /\ \E order \in SetToSeqs({a \in Apps : Tier(a, name) < 9}) :
         /\ \A i, j \in DOMAIN order : i < j => ~RanksBefore(order[j], order[i], name, usage')
         /\ appHits' = UniqueByBaseName(order)
    /\ UNCHANGED <<scores, scale, launches, run>>

SearchNext == (\E a \in Apps : LaunchRow(a)) \/ (\E name \in NamesTyped \union {NoName} : SearchApps(name))
SearchSpec == SearchInit /\ [][SearchNext]_searchVars

-----------------------------------------------------------------------------
\* An empty query's list has what GNOME says is used most on top of it, and nothing
\* that GNOME does not know above what it knows. Among what GNOME does not tell
\* apart, and where it has no file, what app_rankings.py promises of the decay holds
\* for every history: an application that was opened consistently, more than a
\* quarter as often as all were before (19 %, and the rounding of small numbers),
\* is first. And typing an application's exact name shows that one first, however
\* much more its variant is used.
BestFirst ==
    appHits # <<>> =>
        /\ typedName = NoName => \A a \in Apps : ~GnomeAbove(a, appHits[1], usage)
        /\ /\ typedName = NoName /\ 4 * run.times > launches - run.times
           /\ ~GnomeAbove(appHits[1], run.app, usage)
           => appHits[1] = run.app
        /\ \A a \in Apps : Exact(a, typedName) => appHits[1] = a
=============================================================================
