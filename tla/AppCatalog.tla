------------------------------ MODULE AppCatalog ------------------------------
(* The installed applications: desktop entries of the user's and the system's  *)
(* directories, read once and kept until a watched directory or the settings   *)
(* change, while packages are installed and removed at any moment.             *)
EXTENDS Naturals, Sequences, SequencesExt, FiniteSets

CONSTANTS AppDirs,     \* _application_dirs: the user's directory first
          EntryIds,
          MaxWrites  \* bound on the changes of the disk
ASSUME CatalogAssumption == AppDirs \in Seq(STRING) \ {<<>>} /\ MaxWrites \in Nat

VARIABLES entryFiles, \* what every directory holds
          dirsMade,       \* the directories that exist
          filtered,   \* the settings respect OnlyShowIn and NotShowIn
          entries,    \* _cache.entries
          watching,   \* the directories QFileSystemWatcher was made with
          event,      \* it has something to deliver
          read,       \* the directories read so far by the search that runs
          taken,      \* the entries it took
          writes
catalogVars == <<entryFiles, dirsMade, filtered, entries, watching, event, read, taken, writes>>

\* A file that cannot be parsed is passed over, a hidden one counts as removed,
\* an other one belongs to another desktop.
Content == {"none", "broken", "hidden", "other", "app"}
Dirs == ToSet(AppDirs)
Unread == [loaded |-> FALSE, ids |-> {}]
Unwatched == [on |-> FALSE, dirs |-> {}]
NothingTaken == [id \in EntryIds |-> "none"]

CatalogTypeOK ==
    /\ entryFiles \in [Dirs -> [EntryIds -> Content]] /\ dirsMade \subseteq Dirs /\ filtered \in BOOLEAN
    /\ entries \in [loaded : BOOLEAN, ids : SUBSET EntryIds]
    /\ watching \in [on : BOOLEAN, dirs : SUBSET Dirs] /\ event \in BOOLEAN
    /\ read \in 0..Len(AppDirs) /\ taken \in [EntryIds -> Content] /\ writes \in 0..MaxWrites

CatalogInit ==
    /\ dirsMade \in SUBSET Dirs
    /\ entryFiles \in [Dirs -> [EntryIds -> {"none", "app"}]]
    /\ \A d \in Dirs \ dirsMade : entryFiles[d] = NothingTaken
    /\ filtered \in BOOLEAN /\ entries = Unread /\ watching = Unwatched /\ event = FALSE
    /\ read = 0 /\ taken = NothingTaken /\ writes = 0

-----------------------------------------------------------------------------
\* get_all_desktop_entries: the first entry of an id wins, also a hidden one.
Taking(sofar, files) ==
    [id \in EntryIds |-> IF sofar[id] = "none" /\ files[id] # "broken" THEN files[id] ELSE sofar[id]]
\* _installed_app_result
Usable(kept) == {id \in EntryIds : kept[id] = "app" \/ (kept[id] = "other" /\ ~filtered)}
Searching == read > 0

\* installed_apps: the watcher is made once, of the directories there are, and
\* before the first of them is read.
WatchedDirs == IF watching.on THEN watching ELSE [on |-> TRUE, dirs |-> dirsMade]
BeginSearch ==
    /\ ~Searching /\ ~entries.loaded
    /\ watching' = WatchedDirs /\ read' = 1 /\ taken' = Taking(NothingTaken, entryFiles[AppDirs[1]])
    /\ UNCHANGED <<entryFiles, dirsMade, filtered, entries, event, writes>>
ReadDirectory ==
    /\ Searching
    /\ IF read < Len(AppDirs)
       THEN /\ read' = read + 1 /\ taken' = Taking(taken, entryFiles[AppDirs[read + 1]])
            /\ UNCHANGED entries
       ELSE /\ read' = 0 /\ taken' = NothingTaken
            /\ entries' = [loaded |-> TRUE, ids |-> Usable(taken)]
    /\ UNCHANGED <<entryFiles, dirsMade, filtered, watching, event, writes>>

\* invalidate_installed_apps, from the watcher and from the preferences.
DirectoryChanged ==
    /\ ~Searching /\ event /\ event' = FALSE /\ entries' = Unread
    /\ UNCHANGED <<entryFiles, dirsMade, filtered, watching, read, taken, writes>>
\* Mutant: the entries read stay.
SaveFiltersOnly ==
    /\ ~Searching /\ writes < MaxWrites /\ writes' = writes + 1
    /\ filtered' = ~filtered
    /\ UNCHANGED <<entryFiles, dirsMade, entries, watching, event, read, taken>>
SaveFilters ==
    /\ ~Searching /\ writes < MaxWrites /\ writes' = writes + 1
    /\ filtered' = ~filtered /\ entries' = Unread
    /\ UNCHANGED <<entryFiles, dirsMade, watching, event, read, taken>>

-----------------------------------------------------------------------------
\* Files are created, replaced and removed; a new directory is not signalled.
WriteEntry(dir, id, content) ==
    /\ writes < MaxWrites /\ writes' = writes + 1 /\ entryFiles[dir][id] # content
    /\ entryFiles' = [entryFiles EXCEPT ![dir][id] = content] /\ dirsMade' = dirsMade \union {dir}
    /\ event' = (event \/ dir \in watching.dirs)
    /\ UNCHANGED <<filtered, entries, watching, read, taken>>

CatalogNext ==
    \/ BeginSearch \/ ReadDirectory \/ DirectoryChanged \/ SaveFilters
    \/ \E d \in Dirs, id \in EntryIds, c \in Content : WriteEntry(d, id, c)
CatalogSpec == CatalogInit /\ [][CatalogNext]_catalogVars

-----------------------------------------------------------------------------
\* The list that searches are answered from is the list of now: an id is on it if
\* the first directory that has a readable entry of it, has one that is shown here.
\* This is so once what the watcher signalled is delivered, whatever was installed,
\* replaced or removed before, while and after the directories were read, one after
\* the other, and whatever the settings filter since - as long as no directory was
\* made later (get_all_desktop_entries, installed_apps).
PassedOver == {"none", "broken"}
ShownHere == {"app"} \union (IF filtered THEN {} ELSE {"other"})
EntriesFresh ==
    (entries.loaded /\ ~event /\ dirsMade \subseteq watching.dirs) =>
        entries.ids = {id \in EntryIds : \E i \in DOMAIN AppDirs :
                          /\ entryFiles[AppDirs[i]][id] \in ShownHere
                          /\ \A j \in 1..(i - 1) : entryFiles[AppDirs[j]][id] \in PassedOver}
=============================================================================
