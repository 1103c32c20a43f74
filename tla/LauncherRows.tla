----------------------------- MODULE LauncherRows -----------------------------
(* The rows of the launcher mode: what every provider of the plan found, one    *)
(* provider failing in the middle of it, the rows that can be activated, and    *)
(* what activating one does, after the session changed under the painted rows.  *)
EXTENDS Naturals, Sequences, SequencesExt, FiniteSets

CONSTANTS Plans,      \* plans to collect, as plan_search makes them
          MaxSessionChanges  \* bound on the changes of the session

\* The providers that _collect knows.
SearchProviders ==
    {"url", "path", "places", "bookmarks", "apps", "calculator", "units", "color", "time", "windows",
     "system", "settings", "files", "command", "web"}
ASSUME RowsAssumption ==
    /\ MaxSessionChanges \in Nat
    /\ \A plan \in Plans : plan.providers \in Seq(SearchProviders) /\ plan.fallback \in BOOLEAN

VARIABLES here,      \* what is installed, on the disk or on the screen now
          probed,    \* the programs looked for: _program_path_cache
          paintedRows,   \* the entries of the popup: headers and rows
          activated, \* what the last activation did
          sessionChanges
rowVars == <<here, probed, paintedRows, activated, sessionChanges>>

\* What rows name. "settings" is whatever opens a panel of GNOME Settings.
Programs == {"terminal", "settings"}
Things == Programs \union {"app", "window", "folder"}
Kinds == {"url", "path", "place", "bookmark", "app", "app-action", "calculator", "units", "color", "clock",
          "window", "window-close", "workspace", "system", "settings", "file", "command", "web"}
\* form: what the payload holds; needs: what must be there for the row to work;
\* ready: exists, ready or activatable, as the provider says.
LauncherRow == [kind : Kinds, form : {"path", "uri", "text", "terminal", "id"}, needs : SUBSET Things, ready : BOOLEAN]
Hit(kind, form, needs, ready) == [kind |-> kind, form |-> form, needs |-> needs, ready |-> ready]

\* find_in_user_path: the answer is kept, a miss as well, until preferences are saved.
Find(program) == IF program \in DOMAIN probed THEN probed[program] ELSE program \in here
Probed(programs) == [p \in DOMAIN probed \union programs |-> Find(p)]

-----------------------------------------------------------------------------
\* What a provider may find for a text: the collect_ functions of _collect.
WithTerminal(rows, kind, needs) ==
    IF Find("terminal") THEN Append(rows, Hit(kind, "terminal", needs \union {"terminal"}, TRUE)) ELSE rows
Links(kind) == <<Hit(kind, "path", {}, TRUE), Hit(kind, "uri", {}, TRUE)>>
Copied(kind) == {<<Hit(kind, "text", {}, TRUE)>>}
AppRows == IF "app" \in here THEN <<Hit("app", "id", {"app"}, TRUE), Hit("app-action", "id", {"app"}, TRUE)>> ELSE <<>>
WindowRows == IF "window" \in here
              THEN <<Hit("window", "id", {"window"}, TRUE), Hit("window-close", "id", {"window"}, TRUE)>> ELSE <<>>
PathRows == IF "folder" \in here THEN WithTerminal(<<Hit("path", "path", {"folder"}, TRUE)>>, "path", {"folder"})
            ELSE <<>>
SettingsRows == <<Hit("settings", "id", {"settings"}, Find("settings"))>>
CommandRows == {<<Hit("command", "id", {}, ready)>> : ready \in BOOLEAN}   \* FALSE: checking or not found
WebRows == <<Hit("web", "uri", {}, TRUE)>>
Found(provider) ==
    CASE provider = "url"        -> {<<Hit("url", "uri", {}, TRUE)>>}
      [] provider = "path"       -> {<<Hit("path", "path", {"folder"}, FALSE)>>, PathRows} \* FALSE: checking or missing
      [] provider = "places"     -> {WithTerminal(<<Hit("place", "path", {}, TRUE)>>, "place", {})}
      [] provider = "bookmarks"  -> {Links("bookmark")}
      [] provider = "apps"       -> {AppRows}
      [] provider \in {"calculator", "units", "color"} -> Copied(provider)
      [] provider = "time"       -> Copied("clock")
      [] provider = "windows"    -> {Append(WindowRows, Hit("workspace", "id", {}, TRUE))}
      [] provider = "system"     -> {<<Hit("system", "id", {}, TRUE)>>}
      [] provider = "settings"   -> {SettingsRows}
      [] provider = "files"      -> {Links("file")}
      [] provider = "command"    -> CommandRows
      [] provider = "web"        -> {WebRows}
\* Nothing matched, all of it, or what was added before an exception.
ProviderRows(provider) == {<<>>} \union UNION {{SubSeq(rows, 1, n) : n \in 0..Len(rows)} : rows \in Found(provider)}
\* The programs they looked for on the way.
LooksFor(rows) ==
    (IF \E row \in ToSet(rows) : row.kind \in {"path", "place"} /\ row.ready THEN {"terminal"} ELSE {})
    \union (IF \E row \in ToSet(rows) : row.kind = "settings" THEN {"settings"} ELSE {})

\* _collect: the buckets in the plan's order, the web only when they are empty.
Extended(buckets, provider) == UNION {{rows \o found : found \in ProviderRows(provider)} : rows \in buckets}
Buckets(providers) ==
    LET Upto[k \in 0..Len(providers)] == IF k = 0 THEN {<<>>} ELSE Extended(Upto[k - 1], providers[k])
    IN  Upto
Collected(plan) ==
    LET buckets == Buckets(plan.providers)[Len(plan.providers)]
    IN  IF plan.fallback /\ <<>> \in buckets THEN (buckets \ {<<>>}) \union ProviderRows("web") ELSE buckets

\* _materialize: a header where the kind changes, no actions on what cannot run.
HasActions(row) == row.ready \/ row.kind \notin {"command", "path", "place", "file", "bookmark", "settings"}
Entries(rows, headers) ==
    LET Upto[k \in 0..Len(rows)] ==
            IF k = 0 THEN <<>>
            ELSE Upto[k - 1]
                 \o (IF headers /\ (k = 1 \/ rows[k].kind # rows[k - 1].kind) THEN <<[header |-> rows[k].kind]>> ELSE <<>>)
                 \o <<[row |-> rows[k], active |-> HasActions(rows[k])]>>
    IN  Upto
Materialized(rows, headers) == Entries(rows, headers)[Len(rows)]

PaintRows(plan) ==
    LET asked == ToSet(plan.providers) \union {"web"} IN
    /\ \E rows \in Collected(plan), headers \in BOOLEAN :
         /\ paintedRows' = Materialized(rows, headers /\ plan.mode = "all")
         /\ probed' = Probed(LooksFor(rows))
    /\ activated' = <<>> /\ UNCHANGED <<here, sessionChanges>>

-----------------------------------------------------------------------------
\* Mutant: a file found is taken to have a path.
OpensUriOfLinks(row) == row.kind \in {"url", "bookmark"} /\ row.form = "uri"
\* activate_result: the branches in their order.
OpensUri(row) == row.kind \in {"url", "bookmark", "file"} /\ row.form = "uri"
OpenedLink(row) ==
    CASE row.form = "terminal" -> IF Find("terminal") THEN "terminal" ELSE "nothing"
      [] row.form = "path" -> IF row.ready THEN "open" ELSE "nothing"
      [] OTHER -> "error"              \* no "path" in the payload
Done(row) ==
    CASE row.kind \in {"app", "app-action"} -> IF "app" \in here THEN "launch" ELSE "nothing"
      [] OpensUri(row) -> "open"
      [] row.kind \in {"path", "place", "file", "bookmark"} /\ ~OpensUri(row) -> OpenedLink(row)
      [] row.kind \in {"calculator", "units", "color", "clock"} -> "copy"
      [] row.kind \in {"window", "window-close"} -> IF "window" \in here THEN "window" ELSE "nothing"
      [] row.kind = "settings" -> IF Find("settings") THEN "panel" ELSE "nothing"
      [] row.kind = "web" -> "open"
      [] row.kind = "command" /\ ~row.ready -> "nothing"
      [] OTHER -> row.kind             \* runs the command, the system action, the switch

\* The popup only activates an entry that has actions; it closes but for do_nothing,
\* which no row of a window or a panel asks for.
Stays(row) == Done(row) \in {"nothing", "error"} /\ row.kind \notin {"window", "window-close", "settings"}
ActivateRow(i) ==
    /\ i \in DOMAIN paintedRows /\ "row" \in DOMAIN paintedRows[i] /\ paintedRows[i].active
    /\ activated' = <<paintedRows[i].row, Done(paintedRows[i].row)>>
    /\ probed' = Probed(IF paintedRows[i].row.form = "terminal" THEN {"terminal"}
                        ELSE IF paintedRows[i].row.kind = "settings" THEN {"settings"} ELSE {})
    /\ paintedRows' = IF Stays(paintedRows[i].row) THEN paintedRows ELSE <<>>
    /\ UNCHANGED <<here, sessionChanges>>

\* _reset_reconfigure_caches
SaveSettings == probed # <<>> /\ probed' = <<>> /\ UNCHANGED <<here, paintedRows, activated, sessionChanges>>
SessionTakes(thing) ==
    /\ sessionChanges < MaxSessionChanges /\ sessionChanges' = sessionChanges + 1
    /\ here' = SymDiff(here, {thing}) /\ UNCHANGED <<probed, paintedRows, activated>>

RowsInit ==
    /\ here \in SUBSET Things /\ probed = <<>> /\ paintedRows = <<>> /\ activated = <<>> /\ sessionChanges = 0
RowsNext ==
    \/ \E plan \in Plans : PaintRows(plan)
    \/ \E i \in DOMAIN paintedRows : ActivateRow(i)
    \/ SaveSettings \/ \E thing \in Things : SessionTakes(thing)
RowsSpec == RowsInit /\ [][RowsNext]_rowVars

-----------------------------------------------------------------------------
\* What the row says it does.
Promised(row) ==
    CASE row.form \in {"path", "uri"} -> "open"
      [] row.form = "terminal" -> "terminal"
      [] row.form = "text" -> "copy"
      [] row.kind \in {"app", "app-action"} -> "launch"
      [] row.kind \in {"window", "window-close"} -> "window"
      [] row.kind = "settings" -> "panel"
      [] OTHER -> row.kind

\* Whatever a provider found, wherever it failed and however the session changed
\* since, an entry that the popup lets the user activate does what it says, or its
\* target is gone, or a program it needs is one that was looked for and not found
\* before (tests/modes/launcher/test_gio_launch.py:86-94: the miss stays until the
\* preferences are saved). No entry leads to nothing, or into an exception, because
\* one side knows a row of a kind that the other does not expect (a recent file on
\* a share has a URI and no path).
ActsAsShown ==
    [][\A i \in DOMAIN paintedRows : ActivateRow(i) =>
         LET row == paintedRows[i].row IN
         \/ activated'[2] = Promised(row)
         \/ ~(row.needs \subseteq here)
         \/ \E program \in row.needs \cap DOMAIN probed : ~probed[program]]_rowVars
=============================================================================
