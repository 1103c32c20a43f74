------------------------------ MODULE StoreProofs ------------------------------
(* Theorems about what outlives the process: the settings files (ConfigStore),   *)
(* the extensions on disk (ExtensionInstall) and the desktop's shortcut (Hotkeys). *)
EXTENDS ExtensionInstall, ConfigStore, Hotkeys, FiniteSetTheorems, SequenceTheorems, TLAPS

-----------------------------------------------------------------------------
(* ExtensionInstall, for any commits and any number of jobs.                   *)

\* From the resolved commit on, and while a staged copy is complete.
Resolved == {"download", "extract", "checkout", "dependencies", "dropBackup", "backUp", "moveIn",
             "restore", "dropOld", "save", "clear"}
Staged == {"dependencies", "dropBackup", "backUp", "moveIn"}
Swapped == {"dropOld", "save", "clear"}
BeforeSwap == Steps \ (Swapped \union {"backUp", "moveIn", "restore"})

Kinds ==
    /\ {target, backup} \subseteq Commits \union {Absent}
    /\ offered \in Commits /\ step \in Steps /\ commit \in Commits \union {Latest}
    /\ archive \in BOOLEAN /\ faults \in 0..MaxFaults
    /\ step \in Resolved => commit \in Commits
    /\ step \in Staged => staging = commit

\* Where the copy of an installed extension is, at each step of the next job: in
\* place until the backup takes over; only a fault leaves it to the backup.
CopyAt ==
    /\ step \in {"backUp"} \union Swapped => target \in Commits
    /\ recorded # Absent =>
        /\ step \in BeforeSwap => target \in Commits \/ (faults # 0 /\ backup \in Commits)
        /\ step = "moveIn" => faults # 0 \/ backup \in Commits
        /\ step = "restore" => backup \in Commits
    /\ step = "restore" => faults # 0

\* What a job without faults has on disk beside the copy in place.
CleanAt ==
    faults = 0 =>
        /\ step \in {"idle", "check"} => staging = Absent
        /\ backup # Absent => step \in {"moveIn", "dropOld"}
        /\ archive => step = "extract"

InstallInv == Kinds /\ CopyAt /\ CleanAt

LEMMA InstallInvInit == InstallInit => InstallInv
<1> SUFFICES ASSUME InstallInit PROVE InstallInv
    OBVIOUS
<1>1. Kinds
    <2>1. faults \in 0..MaxFaults
        BY InstallAssumption DEF InstallInit
    <2>2. archive \in BOOLEAN
        BY DEF InstallInit
    <2> QED BY <2>1, <2>2 DEF InstallInit, Kinds, Steps, Resolved, Staged, Latest
<1>2. CopyAt
    BY DEF InstallInit, CopyAt, Swapped
<1>3. CleanAt
    BY DEF InstallInit, CleanAt
<1> QED BY <1>1, <1>2, <1>3 DEF InstallInv

-----------------------------------------------------------------------------
\* The steps up to the staged copy leave the directories in place alone.
LEMMA StagingSteps ==
    ASSUME InstallInv,
           \/ Install \/ Update \/ CheckUpdate \/ PrepareStaging \/ ResolveHash \/ Download
           \/ ExtractAndInstall \/ Checkout \/ InstallDependencies \/ Publish
    PROVE  InstallInv'
<1> USE InstallAssumption DEF InstallInv, DirsKept, CountsKept, Goes, FailJob, Fetched, Absent, Latest
<1>1. CASE Install
    BY <1>1 DEF Install, Kinds, CopyAt, CleanAt, Steps, Resolved, Staged, Swapped, BeforeSwap
<1>2. CASE Update
    BY <1>2 DEF Update, Kinds, CopyAt, CleanAt, Steps, Resolved, Staged, Swapped, BeforeSwap
<1>3. CASE CheckUpdate
    BY <1>3 DEF CheckUpdate, Kinds, CopyAt, CleanAt, Steps, Resolved, Staged, Swapped, BeforeSwap
<1>4. CASE PrepareStaging
    BY <1>4 DEF PrepareStaging, Kinds, CopyAt, CleanAt, Steps, Resolved, Staged, Swapped, BeforeSwap
<1>5. CASE ResolveHash
    BY <1>5 DEF ResolveHash, Kinds, CopyAt, CleanAt, Steps, Resolved, Staged, Swapped, BeforeSwap
<1>6. CASE Download
    BY <1>6 DEF Download, Kinds, CopyAt, CleanAt, Steps, Resolved, Staged, Swapped, BeforeSwap
<1>7. CASE ExtractAndInstall
    BY <1>7 DEF ExtractAndInstall, Kinds, CopyAt, CleanAt, Steps, Resolved, Staged, Swapped, BeforeSwap
<1>8. CASE Checkout
    BY <1>8 DEF Checkout, Kinds, CopyAt, CleanAt, Steps, Resolved, Staged, Swapped, BeforeSwap
<1>9. CASE InstallDependencies
    BY <1>9 DEF InstallDependencies, Kinds, CopyAt, CleanAt, Steps, Resolved, Staged, Swapped, BeforeSwap
<1>10. CASE Publish
    BY <1>10 DEF Publish, Kinds, CopyAt, CleanAt, Steps, Resolved, Staged, Swapped, BeforeSwap
<1> QED BY <1>1, <1>2, <1>3, <1>4, <1>5, <1>6, <1>7, <1>8, <1>9, <1>10

\* The swap: the copy goes from the target to the backup and comes back, or the
\* staged one takes its place. After a fault the next one is out of the bound.
LEMMA SwapSteps ==
    ASSUME InstallInv, MaxFaults <= 1,
           \/ DropBackup \/ BackUp \/ MoveIn \/ Restore \/ DropOld \/ SaveInstalledState \/ FinishInstall
    PROVE  InstallInv'
<1> USE InstallAssumption DEF InstallInv, DirsKept, CountsKept, SwapKept, Goes, FailJob, Faulty, Absent, Latest
<1>1. CASE DropBackup
    BY <1>1 DEF DropBackup, Kinds, CopyAt, CleanAt, Steps, Resolved, Staged, Swapped, BeforeSwap
<1>2. CASE BackUp
    BY <1>2 DEF BackUp, Kinds, CopyAt, CleanAt, Steps, Resolved, Staged, Swapped, BeforeSwap
<1>3. CASE MoveIn
    BY <1>3 DEF MoveIn, Kinds, CopyAt, CleanAt, Steps, Resolved, Staged, Swapped, BeforeSwap
<1>4. CASE Restore
    BY <1>4 DEF Restore, Kinds, CopyAt, CleanAt, Steps, Resolved, Staged, Swapped, BeforeSwap
<1>5. CASE DropOld
    BY <1>5 DEF DropOld, Kinds, CopyAt, CleanAt, Steps, Resolved, Staged, Swapped, BeforeSwap
<1>6. CASE SaveInstalledState
    BY <1>6 DEF SaveInstalledState, Kinds, CopyAt, CleanAt, Steps, Resolved, Staged, Swapped, BeforeSwap
<1>7. CASE FinishInstall
    BY <1>7 DEF FinishInstall, Kinds, CopyAt, CleanAt, Steps, Resolved, Staged, Swapped, BeforeSwap
<1> QED BY <1>1, <1>2, <1>3, <1>4, <1>5, <1>6, <1>7

\* A crash, at any step, is the one fault: until it, the backup holds what the
\* target does not.
LEMMA CrashStep ==
    ASSUME InstallInv, MaxFaults <= 1, CrashInstall
    PROVE  InstallInv'
BY InstallAssumption
   DEF InstallInv, CrashInstall, Faulty, DirsKept, Absent, Latest,
       Kinds, CopyAt, CleanAt, Steps, Resolved, Staged, Swapped, BeforeSwap

LEMMA InvKeepsDirectories ==
    ASSUME InstallInv
    PROVE  DirectoriesKept
<1>1. CopyKept
    BY InstallAssumption
       DEF CopyKept, InstallInv, Kinds, CopyAt, Steps, Staged, Swapped, Resolved, BeforeSwap
<1>2. NothingLeft
    BY DEF NothingLeft, InstallInv, CleanAt
<1> QED BY <1>1, <1>2 DEF DirectoriesKept

-----------------------------------------------------------------------------
\* One crash, or one move that fails, at any step of any job, leaves a whole copy
\* of an installed extension, and a job that meets none leaves nothing beside it
\* (_swap_dir, install, update), for any number of jobs and any commits. The
\* bound on the faults is a premise: with two the copy may be lost.
THEOREM InstallKeepsCopy == MaxFaults <= 1 /\ InstallSpec => []DirectoriesKept
<1> SUFFICES ASSUME MaxFaults <= 1
             PROVE  InstallSpec => []DirectoriesKept
    OBVIOUS
<1>1. InstallInv /\ [InstallNext]_installVars => InstallInv'
    <2>1. CASE UNCHANGED installVars
        BY <2>1 DEF installVars, InstallInv, Kinds, CopyAt, CleanAt
    <2> QED BY <2>1, StagingSteps, SwapSteps, CrashStep DEF InstallNext
<1> QED BY <1>1, InstallInvInit, InvKeepsDirectories, PTL DEF InstallSpec

-----------------------------------------------------------------------------
(* ConfigStore, for any processes, keys and values.                            *)

\* What a process has of a file: for every key it did not save since, what the file
\* gave when it was last read or written - or nothing, where the file has the default.
Mirrors(values, file, k) ==
    values[k] = OnDisk(file, k) \/ (values[k] = Empty /\ OnDisk(file, k) = Default[k])

HolderCurrent(h) ==
    /\ cached[h] = Unloaded => seen[h] = NoFile /\ pending[h] = {} /\ temporary[h] = Unloaded
    /\ cached[h] # Unloaded => \A k \in Keys \ pending[h] : Mirrors(cached[h], seen[h], k)
    /\ temporary[h] # Unloaded => temporary[h] = Filtered(cached[h])

ConfigKinds ==
    /\ confFile \in File /\ (confFile.state # "data" => confFile.data = NoData)
    /\ cached \in [Holders -> [Keys -> Values] \union {Unloaded}]
    /\ temporary \in [Holders -> Data \union {Unloaded}]
    /\ pending \in [Holders -> SUBSET Keys] /\ seen \in [Holders -> File]

ConfigCurrent == ConfigKinds /\ \A h \in Holders : HolderCurrent(h)

LEMMA DataOf ==
    /\ NoData \in Data /\ DOMAIN NoData = {} /\ NoFile \in File
    /\ \A data \in Data : WithDefaults(data) \in [Keys -> Values]
    /\ \A values \in [Keys -> Values] : Filtered(values) \in Data
<1>1. NoData \in [{} -> Values] /\ DOMAIN NoData = {}
    BY DEF NoData
<1>2. NoData \in Data
    BY <1>1 DEF Data
<1>3. NoFile \in File
    BY <1>2 DEF NoFile, File
<1>4. ASSUME NEW data \in Data PROVE WithDefaults(data) \in [Keys -> Values]
    <2>1. \A k \in DOMAIN data : data[k] \in Values
        BY DEF Data
    <2> QED
        BY <2>1, ConfigAssumption DEF WithDefaults
<1>5. ASSUME NEW values \in [Keys -> Values] PROVE Filtered(values) \in Data
    <2> DEFINE kept == {k \in Keys : values[k] # Empty}
    <2>1. Filtered(values) = [k \in kept |-> values[k]] /\ kept \in SUBSET Keys
        BY DEF Filtered
    <2> HIDE DEF kept
    <2>2. Filtered(values) \in [kept -> Values]
        BY <2>1
    <2> QED
        BY <2>1, <2>2 DEF Data
<1> QED
    BY <1>1, <1>2, <1>3, <1>4, <1>5

\* What a file written from an instance gives back.
LEMMA WrittenBack ==
    ASSUME NEW values \in [Keys -> Values], NEW k \in Keys
    PROVE  OnDisk([state |-> "data", data |-> Filtered(values)], k) = IF values[k] = Empty THEN Default[k] ELSE values[k]
BY DEF OnDisk, Filtered

LEMMA InitConfig == ConfigInit => ConfigCurrent
<1> SUFFICES ASSUME ConfigInit PROVE ConfigCurrent
    OBVIOUS
<1>1. ConfigKinds
    BY DataOf DEF ConfigInit, ConfigKinds, NoFile
<1> QED
    BY <1>1 DEF ConfigInit, ConfigCurrent, HolderCurrent

\* A step that leaves what the other processes hold.
LEMMA OtherHolders ==
    ASSUME ConfigCurrent, ConfigKinds', NEW h \in Holders,
           \A g \in Holders \ {h} : /\ cached'[g] = cached[g] /\ seen'[g] = seen[g]
                                    /\ pending'[g] = pending[g] /\ temporary'[g] = temporary[g],
           HolderCurrent(h)'
    PROVE  ConfigCurrent'
<1>1. \A g \in Holders \ {h} : HolderCurrent(g)'
    BY DEF ConfigCurrent, HolderCurrent
<1> QED
    BY <1>1 DEF ConfigCurrent

LEMMA LoadStep ==
    ASSUME ConfigCurrent, NEW h \in Holders, NEW force \in BOOLEAN, LoadConf(h, force)
    PROVE  ConfigCurrent'
<1> USE DEF ConfigCurrent
<1>1. /\ cached' = [cached EXCEPT ![h] = Populated(cached[h])] /\ confFile' = AfterReading
      /\ temporary' = temporary /\ temporary[h] = Unloaded
    BY DEF LoadConf
<1>2. confFile.data \in Data /\ confFile.state \in {"data", "missing", "invalid", "unreadable", "rejected"}
    BY DEF ConfigKinds, File
<1>3. Populated(cached[h]) \in [Keys -> Values] \union {Unloaded}
    BY <1>2, DataOf DEF Populated, ConfigKinds
<1>4. AfterReading \in File /\ (AfterReading.state # "data" => AfterReading.data = NoData)
    BY DataOf DEF AfterReading, ConfigKinds, NoFile
<1>5. CASE confFile.state \in {"data", "missing", "invalid"}
    <2>1. seen' = [seen EXCEPT ![h] = AfterReading] /\ pending' = [pending EXCEPT ![h] = {}]
        BY <1>5 DEF LoadConf
    <2>2. ConfigKinds'
        BY <1>1, <1>3, <1>4, <2>1 DEF ConfigKinds
    <2>3. Populated(cached[h]) = WithDefaults(IF confFile.state = "data" THEN confFile.data ELSE NoData)
        BY <1>5 DEF Populated
    <2>4. Populated(cached[h]) # Unloaded
        BY <1>2, <2>3, DataOf, ConfigAssumption
    <2>5. AfterReading.data = IF confFile.state = "data" THEN confFile.data ELSE NoData
        BY <1>5 DEF AfterReading, NoFile, ConfigKinds
    <2>6. \A k \in Keys : Populated(cached[h])[k] = OnDisk(AfterReading, k)
        BY <2>3, <2>5 DEF WithDefaults, OnDisk
    <2>7. cached'[h] = Populated(cached[h]) /\ seen'[h] = AfterReading /\ temporary'[h] = Unloaded
        BY <1>1, <2>1 DEF ConfigKinds
    <2>8. HolderCurrent(h)'
        BY <2>4, <2>6, <2>7 DEF HolderCurrent, Mirrors
    <2> QED
        BY <1>1, <2>1, <2>2, <2>8, OtherHolders DEF ConfigKinds
<1>6. CASE confFile.state \notin {"data", "missing", "invalid"}
    <2>1. UNCHANGED <<seen, pending>>
        BY <1>6 DEF LoadConf
    <2>2. ConfigKinds'
        BY <1>1, <1>3, <1>4, <2>1 DEF ConfigKinds
    <2>3. cached'[h] = Populated(cached[h])
        BY <1>1 DEF ConfigKinds
    <2>4. ASSUME cached[h] = Unloaded, Populated(cached[h]) = WithDefaults(NoData) PROVE HolderCurrent(h)'
        <3>1. seen[h] = NoFile /\ pending[h] = {}
            BY <2>4 DEF HolderCurrent
        <3>2. \A k \in Keys : WithDefaults(NoData)[k] = OnDisk(NoFile, k)
            BY DEF WithDefaults, OnDisk, NoFile
        <3>3. WithDefaults(NoData) # Unloaded
            BY DataOf, ConfigAssumption
        <3> QED
            BY <1>1, <2>1, <2>3, <2>4, <3>1, <3>2, <3>3 DEF HolderCurrent, Mirrors
    <2>5. HolderCurrent(h)'
        <3>1. Populated(cached[h]) = cached[h] \/ (cached[h] = Unloaded /\ Populated(cached[h]) = WithDefaults(NoData))
            BY <1>6 DEF Populated
        <3>2. Populated(cached[h]) = cached[h] => HolderCurrent(h)'
            BY <1>1, <2>1, <2>3 DEF HolderCurrent
        <3> QED
            BY <2>4, <3>1, <3>2
    <2> QED
        BY <1>1, <2>1, <2>2, <2>5, OtherHolders DEF ConfigKinds
<1> QED
    BY <1>5, <1>6

LEMMA SaveStep ==
    ASSUME ConfigCurrent, NEW h \in Holders, NEW k \in Keys, NEW value \in Values, SaveConf(h, k, value)
    PROVE  ConfigCurrent'
<1> USE DEF ConfigCurrent
<1>1. cached[h] \in [Keys -> Values] /\ cached[h] # Unloaded
    BY DEF SaveConf, ConfigKinds
<1> DEFINE new == [cached[h] EXCEPT ![k] = value]
<1>2. new \in [Keys -> Values] /\ new # Unloaded /\ \A j \in Keys \ {k} : new[j] = cached[h][j]
    BY <1>1, ConfigAssumption
<1>3. /\ cached' = [cached EXCEPT ![h] = new] /\ pending' = [pending EXCEPT ![h] = pending[h] \union {k}]
      /\ temporary' = [temporary EXCEPT ![h] = Filtered(cached'[h])] /\ UNCHANGED <<confFile, seen>>
    BY DEF SaveConf, ConfigKinds
<1> HIDE DEF new
<1>4. /\ cached'[h] = new /\ pending'[h] = pending[h] \union {k} /\ temporary'[h] = Filtered(new)
    BY <1>3 DEF ConfigKinds
<1>5. ConfigKinds'
    BY <1>2, <1>3, <1>4, DataOf DEF ConfigKinds
<1>6. HolderCurrent(h)'
    BY <1>1, <1>2, <1>3, <1>4 DEF HolderCurrent, Mirrors
<1> QED
    BY <1>3, <1>5, <1>6, OtherHolders DEF ConfigKinds

LEMMA ReplaceStep ==
    ASSUME ConfigCurrent, NEW h \in Holders, ReplaceFile(h)
    PROVE  ConfigCurrent'
<1> USE DEF ConfigCurrent
<1>1. cached[h] \in [Keys -> Values] /\ cached[h] # Unloaded /\ temporary[h] = Filtered(cached[h])
    BY DEF ReplaceFile, ConfigKinds, HolderCurrent
<1>2. /\ confFile' = [state |-> "data", data |-> Filtered(cached[h])]
      /\ temporary' = [temporary EXCEPT ![h] = Unloaded] /\ pending' = [pending EXCEPT ![h] = {}]
      /\ seen' = [seen EXCEPT ![h] = confFile'] /\ cached' = cached
    BY <1>1 DEF ReplaceFile
<1>3. confFile' \in File /\ confFile'.state = "data"
    BY <1>1, <1>2, DataOf DEF File
<1>4. ConfigKinds'
    BY <1>2, <1>3 DEF ConfigKinds
<1>5. cached'[h] = cached[h] /\ temporary'[h] = Unloaded /\ pending'[h] = {} /\ seen'[h] = confFile'
    BY <1>2 DEF ConfigKinds
<1>6. \A k \in Keys : Mirrors(cached[h], confFile', k)
    BY <1>1, <1>2, WrittenBack DEF Mirrors
<1>7. HolderCurrent(h)'
    BY <1>1, <1>5, <1>6 DEF HolderCurrent
<1> QED
    BY <1>2, <1>4, <1>7, OtherHolders DEF ConfigKinds

LEMMA FailStep ==
    ASSUME ConfigCurrent, NEW h \in Holders, SaveFails(h) \/ EndHolder(h)
    PROVE  ConfigCurrent'
<1> USE DEF ConfigCurrent
<1>1. ConfigKinds'
    <2>1. CASE SaveFails(h)
        BY <2>1 DEF ConfigKinds, SaveFails
    <2>2. CASE EndHolder(h)
        BY <2>2, DataOf DEF ConfigKinds, EndHolder
    <2> QED
        BY <2>1, <2>2
<1>2. HolderCurrent(h)'
    BY DEF ConfigKinds, SaveFails, EndHolder, HolderCurrent
<1> QED
    BY <1>1, <1>2, OtherHolders DEF ConfigKinds, SaveFails, EndHolder

LEMMA EditStep ==
    ASSUME ConfigCurrent, EditFile \/ UNCHANGED configVars
    PROVE  ConfigCurrent'
<1>1. ConfigKinds'
    BY DEF ConfigCurrent, ConfigKinds, EditFile, configVars
<1> QED
    BY <1>1 DEF ConfigCurrent, HolderCurrent, EditFile, configVars

\* A save changes the settings it was asked to change and no other, for any number of
\* processes that share the file, keys and values, and whatever was loaded, rejected,
\* moved aside or failed before (SaveChangesOneKey: JsonConf.load, save).
THEOREM SavesChangeOneKey == ConfigSpec => SaveChangesOneKey
<1> DEFINE Kept == \A h \in Holders :
                      ReplaceFile(h) /\ seen[h] = confFile =>
                          \A k \in Keys \ pending[h] : cached[h][k] # Empty \/ Default[k] = Empty =>
                              OnDisk(confFile', k) = OnDisk(confFile, k)
<1>1. ConfigCurrent /\ [ConfigNext]_configVars => ConfigCurrent'
    BY LoadStep, SaveStep, ReplaceStep, FailStep, EditStep DEF ConfigNext
<1>2. ASSUME ConfigCurrent PROVE Kept
    <2> SUFFICES ASSUME NEW h \in Holders, ReplaceFile(h), seen[h] = confFile,
                        NEW k \in Keys \ pending[h], cached[h][k] # Empty \/ Default[k] = Empty
                 PROVE  OnDisk(confFile', k) = OnDisk(confFile, k)
        OBVIOUS
    <2>1. cached[h] \in [Keys -> Values] /\ cached[h] # Unloaded /\ temporary[h] = Filtered(cached[h])
        BY <1>2 DEF ReplaceFile, ConfigCurrent, ConfigKinds, HolderCurrent
    <2>2. OnDisk(confFile', k) = IF cached[h][k] = Empty THEN Default[k] ELSE cached[h][k]
        BY <2>1, WrittenBack DEF ReplaceFile
    <2>3. Mirrors(cached[h], confFile, k)
        BY <1>2, <2>1 DEF ConfigCurrent, HolderCurrent
    <2> QED
        BY <2>2, <2>3 DEF Mirrors
<1>3. ConfigCurrent => [Kept]_configVars
    BY <1>2
<1> QED
    BY <1>1, <1>3, InitConfig, PTL DEF ConfigSpec, SaveChangesOneKey

-----------------------------------------------------------------------------
(* Hotkeys, for any combinations, changes and restarts, and one failing write.  *)

\* A store holds the shortcut from the first run on; a portal client that exists
\* is of the running process and wants the current combination.
StoreHolds ==
    /\ hotkeyProcess = "fresh" => chosen = NoAccel /\ store.binding = NoAccel
    /\ hotkeyProcess # "fresh" /\ desk = "GNOME" => store.binding \in Accels /\ store.enabled
    /\ desk = "XFCE" /\ chosen # NoAccel => store = Written(store, chosen)

ClientCurrent ==
    /\ client # NoPortal => /\ hotkeyProcess = "running" /\ desk = "PORTAL"
                            /\ client.accel = Current /\ client.awaits \in 1..(hotkeyChanges + 1)
    /\ client = NoPortal => /\ toPortal = <<>> /\ toClient = <<>> /\ asking = {}
                            /\ \A i \in Ids : sessions[i] = "closed"

\* Nothing is on its way behind the newest request for a session.
NewestLast ==
    /\ \A n \in 1..Len(toPortal) : toPortal[n].kind = "create" =>
            toPortal[n].id <= client.awaits /\ (toPortal[n].id = client.awaits => n = Len(toPortal))
    /\ \A n \in 1..Len(toClient) :
            toClient[n] <= client.awaits /\ (toClient[n] = client.awaits => n = Len(toClient) /\ toPortal = <<>>)

Grabs(i) == sessions[i] \notin {NoAccel, "closed"}
CreatesFrom(k) == \A n \in k..Len(toPortal) : toPortal[n].kind = "create"
BindMessage == [kind |-> "bind", id |-> client.handle, accel |-> client.accel]
CloseMessage(id) == [kind |-> "close", id |-> id, accel |-> NoAccel]

\* Only the session of the client's handle can grab, and only what it wants; a
\* session it left is closed before the next one is created; else there is none.
Held ==
    /\ toClient = <<>> /\ toPortal \in {<<>>, <<BindMessage>>} /\ asking \subseteq {BindMessage}
    /\ \A i \in Ids : Grabs(i) => i = client.handle /\ sessions[i] = client.accel
LeftAt(o, k) ==
    /\ k \in 1..Len(toPortal) /\ toPortal[k] = CloseMessage(o) /\ CreatesFrom(k + 1)
    /\ \A n \in 1..(k - 1) : n = 1 /\ toPortal[n].kind = "bind" /\ toPortal[n].id = o
    /\ \A m \in asking : m.id = o
    /\ \A i \in Ids : Grabs(i) => i = o
NoneHeld == CreatesFrom(1) /\ asking = {} /\ \A i \in Ids : ~Grabs(i)
OneSession ==
    IF client.handle # 0 THEN Held
    ELSE NoneHeld \/ \E o \in Ids, k \in 1..2 : LeftAt(o, k)

HotkeyInv == HotkeyTypeOK /\ StoreHolds /\ ClientCurrent /\ NewestLast /\ OneSession

LEMMA CurrentKnown == HotkeyTypeOK => Current \in Accels /\ Head(FallbackAccels) \in Accels
<1>1. Head(FallbackAccels) \in Accels
    BY HotkeyAssumption, HeadTailProperties
<1> QED
    BY <1>1 DEF HotkeyTypeOK, Store, MaybeAccel, Current

\* There is a second combination to try.
LEMMA AttemptsKnown ==
    ASSUME NEW requested \in Accels
    PROVE  Attempts(requested) \in Seq(Accels) /\ Len(Attempts(requested)) > 1
<1> DEFINE at == {i \in DOMAIN FallbackAccels : FallbackAccels[i] = requested}
           rest == IF at = {} THEN FallbackAccels ELSE RemoveAt(FallbackAccels, CHOOSE i \in at : TRUE)
<1>1. FallbackAccels \in Seq(Accels) /\ Len(FallbackAccels) \in Nat /\ Len(FallbackAccels) > 1
      /\ DOMAIN FallbackAccels = 1..Len(FallbackAccels)
    BY HotkeyAssumption
<1>2. rest \in Seq(Accels) /\ Len(rest) >= 1
    <2>1. CASE at = {}
        BY <1>1, <2>1
    <2>2. CASE at # {}
        <3> DEFINE i == CHOOSE i \in at : TRUE
        <3>1. i \in 1..Len(FallbackAccels)
            BY <1>1, <2>2
        <3> HIDE DEF i
        <3> DEFINE before == SubSeq(FallbackAccels, 1, i - 1)
                   after == SubSeq(FallbackAccels, i + 1, Len(FallbackAccels))
        <3>2. /\ \A j \in 1..(i - 1) : FallbackAccels[j] \in Accels
              /\ \A j \in (i + 1)..Len(FallbackAccels) : FallbackAccels[j] \in Accels
              /\ i - 1 \in Int /\ i + 1 \in Int /\ 1 \in Int /\ Len(FallbackAccels) \in Int
            BY <1>1, <3>1
        <3>3. rest = before \o after
            BY <2>2 DEF RemoveAt, i
        <3> HIDE DEF before, after, rest
        <3>4. /\ before \in Seq(Accels) /\ after \in Seq(Accels)
              /\ Len(before) = i - 1 /\ Len(after) = Len(FallbackAccels) - i
            <4>1. /\ before \in Seq(Accels) /\ after \in Seq(Accels)
                  /\ Len(before) = IF 1 <= i - 1 THEN (i - 1) - 1 + 1 ELSE 0
                  /\ Len(after) = IF i + 1 <= Len(FallbackAccels) THEN Len(FallbackAccels) - (i + 1) + 1 ELSE 0
                BY <3>2, SubSeqProperties DEF before, after
            <4>2. i \in Nat /\ i >= 1 /\ i <= Len(FallbackAccels) /\ Len(FallbackAccels) \in Nat
                BY <1>1, <3>1
            <4>3. (IF 1 <= i - 1 THEN (i - 1) - 1 + 1 ELSE 0) = i - 1
                BY <4>2
            <4>4. (IF i + 1 <= Len(FallbackAccels) THEN Len(FallbackAccels) - (i + 1) + 1 ELSE 0) = Len(FallbackAccels) - i
                BY <4>2
            <4> QED
                BY <4>1, <4>3, <4>4
        <3>6. rest \in Seq(Accels) /\ Len(rest) = Len(before) + Len(after)
            BY <3>3, <3>4, ConcatProperties
        <3> QED
            BY <1>1, <3>1, <3>4, <3>6
    <2> QED
        BY <2>1, <2>2
<1>3. Attempts(requested) = <<requested>> \o rest
    BY DEF Attempts
<1> HIDE DEF rest
<1>4. <<requested>> \in Seq(Accels) /\ Len(<<requested>>) = 1
    OBVIOUS
<1> QED
    BY <1>2, <1>3, <1>4, ConcatProperties

LEMMA InitHotkey == HotkeyInit => HotkeyInv
<1> SUFFICES ASSUME HotkeyInit PROVE HotkeyInv
    OBVIOUS
<1>1. HotkeyTypeOK
    BY HotkeyAssumption DEF HotkeyInit, HotkeyTypeOK, Store, MaybeAccel, Client, NoPortal, Ids
<1>2. StoreHolds /\ ClientCurrent /\ NewestLast /\ OneSession
    BY HotkeyAssumption DEF HotkeyInit, StoreHolds, ClientCurrent, NewestLast, OneSession, NoneHeld, CreatesFrom, Grabs, NoPortal
<1> QED
    BY <1>1, <1>2 DEF HotkeyInv

-----------------------------------------------------------------------------
\* A new request: the session of the client's handle is closed first.
LEMMA Requested ==
    ASSUME HotkeyInv, NEW accel \in Accels, NEW id \in Ids, id > client.awaits, PortalStart(accel, id)
    PROVE  /\ toPortal' \in Seq(PortalMessage) /\ NewestLast' /\ OneSession'
           /\ client' \in Client /\ client' # NoPortal
<1> DEFINE create == [kind |-> "create", id |-> id, accel |-> NoAccel]
           close == CloseMessage(client.handle)
<1>0. /\ toPortal \in Seq(PortalMessage) /\ client \in Client /\ toClient \in Seq(Ids)
      /\ client.awaits \in {0} \union Ids /\ client.handle \in {0} \union Ids
      /\ hotkeyChanges \in Nat /\ Ids \subseteq Nat \ {0} /\ Len(toPortal) \in Nat /\ Len(toClient) \in Nat
    BY HotkeyAssumption DEF HotkeyInv, HotkeyTypeOK, Client, Ids
<1>1. create \in PortalMessage /\ (client.handle # 0 => close \in PortalMessage)
    BY <1>0 DEF PortalMessage, CloseMessage, MaybeAccel
<1>1a. \A n \in 1..Len(toPortal) : toPortal[n] \in PortalMessage
    BY <1>0
<1>1b. /\ \A m \in PortalMessage : m.id \in Nat
       /\ \A n \in 1..Len(toClient) : toClient[n] \in Nat
       /\ client.awaits \in Nat /\ id \in Nat
    <2>1. \A m \in PortalMessage : m.id \in Ids
        BY DEF PortalMessage
    <2>2. \A n \in 1..Len(toClient) : toClient[n] \in Ids
        BY <1>0
    <2>3. \A i \in Ids \union {0} : i \in Nat
        BY <1>0
    <2> QED
        BY <1>0, <2>1, <2>2, <2>3
<1>2. client' = [accel |-> accel, awaits |-> id, handle |-> 0] /\ UNCHANGED <<sessions, toClient, asking>>
    BY DEF PortalStart
<1>3. client' \in Client /\ client' # NoPortal /\ client'.awaits = id /\ client'.handle = 0
    BY <1>0, <1>2 DEF Client, NoPortal, MaybeAccel
<1>4. CASE client.handle = 0
    <2> HIDE DEF create, close
    <2>0. create.kind = "create" /\ create.id = id
        BY DEF create
    <2>1. toPortal' = toPortal \o <<>> \o <<create>>
        BY <1>4 DEF PortalStart, Closing, create
    <2>2. toPortal' = Append(toPortal, create)
        BY <1>0, <1>1, <2>1
    <2>3. /\ toPortal' \in Seq(PortalMessage) /\ Len(toPortal') = Len(toPortal) + 1
          /\ toPortal'[Len(toPortal) + 1] = create /\ \A n \in 1..Len(toPortal) : toPortal'[n] = toPortal[n]
        BY <1>0, <1>1, <2>2
    <2>4. NewestLast'
        <3>1. \A n \in 1..Len(toPortal') : n = Len(toPortal') \/ n \in 1..Len(toPortal)
            BY <1>0, <2>3
        <3>2. \A n \in 1..Len(toPortal) : toPortal[n].kind = "create" => toPortal[n].id < id
            BY <1>1a, <1>1b DEF HotkeyInv, NewestLast
        <3>3. \A n \in 1..Len(toClient) : toClient[n] < id
            BY <1>1a, <1>1b DEF HotkeyInv, NewestLast
        <3> QED
            BY <1>1a, <1>1b, <1>2, <1>3, <2>0, <2>3, <3>1, <3>2, <3>3 DEF NewestLast
    <2>5. NoneHeld \/ \E o \in Ids, k \in 1..2 : LeftAt(o, k)
        BY <1>4 DEF HotkeyInv, OneSession
    <2>6. ASSUME NoneHeld PROVE NoneHeld'
        <3>1. \A n \in 1..Len(toPortal') : n = Len(toPortal) + 1 \/ n \in 1..Len(toPortal)
            BY <1>0, <2>3
        <3>2. CreatesFrom(1)'
            BY <2>0, <2>3, <2>6, <3>1 DEF NoneHeld, CreatesFrom
        <3> QED
            BY <1>2, <2>6, <3>2 DEF NoneHeld, Grabs
    <2>7. ASSUME NEW o \in Ids, NEW k \in 1..2, LeftAt(o, k) PROVE LeftAt(o, k)'
        <3>1. /\ k \in 1..Len(toPortal) /\ k \in 1..Len(toPortal') /\ toPortal'[k] = CloseMessage(o)
              /\ \A n \in 1..(k - 1) : n \in 1..Len(toPortal) /\ toPortal'[n] = toPortal[n]
            <4>1. k \in 1..Len(toPortal) /\ toPortal[k] = CloseMessage(o)
                BY <2>7 DEF LeftAt
            <4>2. k \in 1..Len(toPortal') /\ \A n \in 1..(k - 1) : n \in 1..Len(toPortal)
                BY <1>0, <2>3, <4>1
            <4> QED
                BY ONLY <2>3, <4>1, <4>2 DEF CloseMessage
        <3>2. CreatesFrom(k + 1)'
            <4>1. \A n \in (k + 1)..Len(toPortal') : n = Len(toPortal) + 1 \/ n \in (k + 1)..Len(toPortal)
                BY <1>0, <2>3, <3>1
            <4>2. \A n \in (k + 1)..Len(toPortal) : n \in 1..Len(toPortal) /\ toPortal[n].kind = "create"
                BY <1>0, <2>7, <3>1 DEF LeftAt, CreatesFrom
            <4> QED
                BY <2>0, <2>3, <4>1, <4>2 DEF CreatesFrom
        <3> QED
            BY <1>2, <2>7, <3>1, <3>2 DEF LeftAt, Grabs
    <2>8. OneSession'
        BY <1>3, <2>5, <2>6, <2>7 DEF OneSession, Ids
    <2> QED
        BY <1>3, <2>3, <2>4, <2>8
<1>5. CASE client.handle # 0
    <2>0. Held
        BY <1>5 DEF HotkeyInv, OneSession
    <2>1. toPortal' = toPortal \o <<close>> \o <<create>>
        BY <1>5 DEF PortalStart, Closing, CloseMessage
    <2>2. toPortal' = Append(Append(toPortal, close), create)
        BY <1>0, <1>1, <1>5, <2>1
    <2>3. /\ toPortal' \in Seq(PortalMessage) /\ Len(toPortal') = Len(toPortal) + 2
          /\ toPortal'[Len(toPortal) + 2] = create /\ toPortal'[Len(toPortal) + 1] = close
          /\ \A n \in 1..Len(toPortal) : toPortal'[n] = toPortal[n]
        BY <1>0, <1>1, <1>5, <2>2
    <2>4. \A n \in 1..Len(toPortal) : n = 1 /\ toPortal[n] = BindMessage
        BY <1>0, <2>0 DEF Held
    <2>5. Len(toPortal) < 2
        BY <1>0, <2>4
    <2>6. /\ close.kind = "close" /\ create.kind = "create" /\ create.id = id
          /\ BindMessage.kind = "bind" /\ BindMessage.id = client.handle
        BY DEF CloseMessage, BindMessage
    <2>7. NewestLast'
        <3>1. toClient' = <<>>
            BY <1>2, <2>0 DEF Held
        <3> HIDE DEF close, create
        <3> QED
            BY <1>0, <1>2, <1>3, <2>3, <2>4, <2>5, <2>6, <3>1 DEF NewestLast
    <2>8. PICK o \in Ids, k \in 1..2 : o = client.handle /\ k = Len(toPortal) + 1
        <3>1. client.handle \in Ids /\ Len(toPortal) + 1 \in 1..2
            BY <1>0, <1>5, <2>5
        <3> QED
            BY <3>1
    <2>9. LeftAt(o, k)'
        <3>1. toPortal'[k] = CloseMessage(o)
            BY <2>3, <2>8
        <3>2. CreatesFrom(k + 1)'
            <4> HIDE DEF close, create
            <4> QED
                BY <1>0, <2>3, <2>6, <2>8 DEF CreatesFrom
        <3>3. \A m \in asking : m.id = o
            BY <2>0, <2>6, <2>8 DEF Held
        <3>4. \A i \in Ids : Grabs(i)' => i = o
            BY <1>2, <2>0, <2>8 DEF Held, Grabs
        <3>5. \A n \in 1..(k - 1) : n = 1 /\ toPortal'[n] = BindMessage
            BY <1>0, <2>3, <2>4, <2>8
        <3>6. k \in 1..Len(toPortal')
            BY <1>0, <2>3, <2>8
        <3> QED
            BY <1>2, <2>6, <2>8, <3>1, <3>2, <3>3, <3>4, <3>5, <3>6 DEF LeftAt
    <2>10. OneSession'
        BY <1>3, <2>9 DEF OneSession, Ids
    <2> QED
        BY <1>3, <2>3, <2>7, <2>10
<1> QED
    BY <1>4, <1>5

\* What the portal has under way does not concern the store.
LEMMA SameStore ==
    ASSUME HotkeyInv, UNCHANGED <<desk, store, chosen, hotkeyProcess>>
    PROVE  StoreHolds' /\ Current' = Current
BY DEF HotkeyInv, StoreHolds, Written, Current

LEMMA CreateAnswered == HotkeyInv /\ CreateSessionResponse => HotkeyInv'
<1> SUFFICES ASSUME HotkeyInv, CreateSessionResponse PROVE HotkeyInv'
    OBVIOUS
<1>0. /\ toPortal \in Seq(PortalMessage) /\ toClient \in Seq(Ids) /\ toClient # <<>> /\ client \in Client
      /\ Ids \subseteq Nat \ {0} /\ toClient' = Tail(toClient)
      /\ UNCHANGED <<desktopVars, hotkeyProcess, sessions, asking, hotkeyChanges>>
    BY HotkeyAssumption DEF HotkeyInv, HotkeyTypeOK, CreateSessionResponse, Ids
<1>1. /\ Len(toClient) \in Nat /\ Len(toClient) >= 1 /\ Head(toClient) = toClient[1] /\ toClient[1] \in Ids
      /\ toClient' \in Seq(Ids) /\ Len(toClient') = Len(toClient) - 1
      /\ \A n \in 1..Len(toClient') : toClient'[n] = toClient[n + 1]
    BY <1>0, HeadTailProperties
<1>2. StoreHolds' /\ Current' = Current
    BY <1>0, SameStore DEF desktopVars
<1>3. client.handle = 0
    BY <1>0 DEF HotkeyInv, OneSession, Held
<1>4. client # NoPortal /\ client.awaits \in Ids
    BY <1>0, <1>3 DEF HotkeyInv, ClientCurrent, NoPortal, Client, Ids
<1>5. CASE Head(toClient) = client.awaits
    <2> DEFINE bind == [kind |-> "bind", id |-> Head(toClient), accel |-> client.accel]
    <2>1. /\ client' = [client EXCEPT !.handle = Head(toClient)]
          /\ toPortal' = Append(toPortal, bind)
        BY <1>5 DEF CreateSessionResponse
    <2>2. Len(toClient) = 1 /\ toPortal = <<>>
        BY <1>1, <1>5 DEF HotkeyInv, NewestLast
    <2>3. /\ client' \in Client /\ client'.handle = Head(toClient) /\ client'.awaits = client.awaits
          /\ client'.accel = client.accel /\ client' # NoPortal
        BY <1>0, <1>1, <1>4, <2>1 DEF Client, NoPortal
    <2>4. bind \in PortalMessage /\ bind = BindMessage'
        BY <1>0, <1>1, <2>3 DEF PortalMessage, Client, BindMessage
    <2>5. toPortal' = <<BindMessage'>> /\ toPortal' \in Seq(PortalMessage) /\ toClient' = <<>>
        BY <1>1, <2>1, <2>2, <2>4
    <2>6. NoneHeld
        BY <1>3, <2>2 DEF HotkeyInv, OneSession, LeftAt
    <2>7. OneSession'
        BY <1>0, <1>1, <2>3, <2>5, <2>6 DEF OneSession, Held, NoneHeld, Grabs
    <2>8. NewestLast'
        BY <2>3, <2>5 DEF NewestLast, BindMessage
    <2>9. ClientCurrent'
        BY <1>0, <1>2, <1>4, <2>3 DEF HotkeyInv, ClientCurrent, desktopVars
    <2>10. HotkeyTypeOK'
        BY <1>0, <1>1, <2>3, <2>5 DEF HotkeyInv, HotkeyTypeOK, desktopVars
    <2> QED
        BY <1>2, <2>7, <2>8, <2>9, <2>10 DEF HotkeyInv
<1>6. CASE Head(toClient) # client.awaits
    <2>1. UNCHANGED <<client, toPortal>>
        BY <1>6 DEF CreateSessionResponse
    <2>2. HotkeyTypeOK'
        BY <1>0, <1>1, <2>1 DEF HotkeyInv, HotkeyTypeOK, desktopVars
    <2>3. ClientCurrent'
        BY <1>0, <1>2, <1>4, <2>1 DEF HotkeyInv, ClientCurrent, desktopVars
    <2>4. NewestLast'
        <3>1. \A n \in 1..Len(toClient') : n + 1 \in 1..Len(toClient) /\ (n + 1 = Len(toClient) => n = Len(toClient'))
            BY <1>1
        <3> QED
            BY <1>1, <2>1, <3>1 DEF HotkeyInv, NewestLast
    <2>5. OneSession'
        <3>1. NoneHeld \/ \E o \in Ids, k \in 1..2 : LeftAt(o, k)
            BY <1>3 DEF HotkeyInv, OneSession
        <3>2. UNCHANGED <<toPortal, asking, sessions>>
            BY <1>0, <2>1 DEF desktopVars
        <3>3. (NoneHeld => NoneHeld') /\ \A o \in Ids, k \in 1..2 : LeftAt(o, k) => LeftAt(o, k)'
            BY <3>2 DEF NoneHeld, LeftAt, CreatesFrom, Grabs, CloseMessage
        <3> QED
            BY <1>3, <2>1, <3>1, <3>3 DEF OneSession
    <2> QED
        BY <1>2, <2>2, <2>3, <2>4, <2>5 DEF HotkeyInv
<1> QED
    BY <1>5, <1>6

LEMMA UserAnswered ==
    ASSUME HotkeyInv, NEW message \in asking, NEW accepts \in BOOLEAN, UserAnswers(message, accepts)
    PROVE  HotkeyInv'
<1>0. /\ message \in PortalMessage /\ asking' = asking \ {message} /\ asking \subseteq PortalMessage
      /\ sessions' = IF accepts THEN [sessions EXCEPT ![message.id] = message.accel] ELSE sessions
      /\ UNCHANGED <<desktopVars, hotkeyProcess, client, toPortal, toClient, hotkeyChanges>>
      /\ sessions \in [Ids -> MaybeAccel \union {"closed"}]
    BY DEF HotkeyInv, HotkeyTypeOK, UserAnswers
<1>1. StoreHolds' /\ Current' = Current
    BY <1>0, SameStore DEF desktopVars
<1>2. message.id \in Ids /\ message.accel \in MaybeAccel
    BY <1>0 DEF PortalMessage
<1>3. \A i \in Ids : sessions'[i] = sessions[i] \/ (i = message.id /\ sessions'[i] = message.accel)
    BY <1>0
<1>4. sessions' \in [Ids -> MaybeAccel \union {"closed"}]
    BY <1>0, <1>2
<1>5. HotkeyTypeOK'
    BY <1>0, <1>4 DEF HotkeyInv, HotkeyTypeOK, desktopVars
<1>6. client # NoPortal
    BY <1>0 DEF HotkeyInv, ClientCurrent
<1>7. ClientCurrent'
    BY <1>0, <1>1, <1>6 DEF HotkeyInv, ClientCurrent, desktopVars
<1>8. NewestLast'
    BY <1>0 DEF HotkeyInv, NewestLast
<1>9. OneSession'
    <2>1. CASE client.handle # 0
        <3>1. message = BindMessage /\ Held
            BY <1>0, <2>1 DEF HotkeyInv, OneSession, Held
        <3>2. message.id = client.handle /\ message.accel = client.accel /\ BindMessage' = BindMessage
            BY <1>0, <3>1 DEF BindMessage
        <3> QED
            BY <1>0, <1>3, <2>1, <3>1, <3>2 DEF OneSession, Held, Grabs
    <2>2. CASE client.handle = 0
        <3>1. PICK o \in Ids, k \in 1..2 : LeftAt(o, k)
            BY <1>0, <2>2 DEF HotkeyInv, OneSession, NoneHeld
        <3>2. LeftAt(o, k)'
            BY <1>0, <1>3, <3>1 DEF LeftAt, CreatesFrom, Grabs
        <3> QED
            BY <1>0, <2>2, <3>2 DEF OneSession, Ids
    <2> QED
        BY <2>1, <2>2
<1> QED
    BY <1>1, <1>5, <1>7, <1>8, <1>9 DEF HotkeyInv

LEMMA PortalHandled == HotkeyInv /\ PortalHandles => HotkeyInv'
<1> SUFFICES ASSUME HotkeyInv, PortalHandles PROVE HotkeyInv'
    OBVIOUS
<1> DEFINE message == Head(toPortal)
<1>0. /\ toPortal \in Seq(PortalMessage) /\ toPortal # <<>> /\ toPortal' = Tail(toPortal) /\ toClient \in Seq(Ids)
      /\ asking \subseteq PortalMessage /\ sessions \in [Ids -> MaybeAccel \union {"closed"}]
      /\ Ids \subseteq Nat \ {0}
      /\ UNCHANGED <<desktopVars, hotkeyProcess, client, hotkeyChanges>>
    BY HotkeyAssumption DEF HotkeyInv, HotkeyTypeOK, PortalHandles, Ids
<1>1. /\ Len(toPortal) \in Nat /\ Len(toPortal) >= 1 /\ message = toPortal[1] /\ message \in PortalMessage
      /\ toPortal' \in Seq(PortalMessage) /\ Len(toPortal') = Len(toPortal) - 1
      /\ \A n \in 1..Len(toPortal') : toPortal'[n] = toPortal[n + 1] /\ n + 1 \in 1..Len(toPortal)
      /\ 1 \in 1..Len(toPortal) /\ Len(toPortal') \in Nat
    BY <1>0, HeadTailProperties
<1>2. message.id \in Ids /\ message.kind \in {"create", "bind", "close"} /\ message.accel \in MaybeAccel
    BY <1>1 DEF PortalMessage
<1>3. StoreHolds' /\ Current' = Current
    BY <1>0, SameStore DEF desktopVars
<1>4. client # NoPortal /\ client' = client
    BY <1>0 DEF HotkeyInv, ClientCurrent
<1>5. ClientCurrent'
    BY <1>0, <1>3, <1>4 DEF HotkeyInv, ClientCurrent, desktopVars
<1>6. \A n \in 1..Len(toPortal') : toPortal'[n].kind = "create" =>
          toPortal'[n].id <= client.awaits /\ (toPortal'[n].id = client.awaits => n = Len(toPortal'))
    <2>1. \A n \in 1..Len(toPortal') : n + 1 \in 1..Len(toPortal) /\ (n + 1 = Len(toPortal) => n = Len(toPortal'))
        BY <1>1
    <2> QED
        BY <1>1, <2>1 DEF HotkeyInv, NewestLast
<1>7. \A n \in 1..Len(toClient) : toClient[n] <= client.awaits /\ toClient[n] # client.awaits
    BY <1>0 DEF HotkeyInv, NewestLast
<1>8. BindMessage' = BindMessage /\ BindMessage.kind = "bind" /\ BindMessage.id = client.handle /\ BindMessage.accel = client.accel
    BY <1>4 DEF BindMessage
<1>9. \A o : CloseMessage(o).kind = "close" /\ CloseMessage(o).id = o
    BY DEF CloseMessage
<1> HIDE DEF message
<1>10. CASE message.kind = "create"
    <2>1. /\ sessions' = [sessions EXCEPT ![message.id] = NoAccel]
          /\ toClient' = Append(toClient, message.id) /\ asking' = asking
        BY <1>10 DEF PortalHandles, message
    <2>2. /\ toClient' \in Seq(Ids) /\ Len(toClient') = Len(toClient) + 1 /\ Len(toClient) \in Nat
          /\ toClient'[Len(toClient) + 1] = message.id
          /\ \A n \in 1..Len(toClient') : (n \in 1..Len(toClient) /\ toClient'[n] = toClient[n]) \/ n = Len(toClient) + 1
        BY <1>0, <1>2, <2>1
    <2>3. message.id <= client.awaits /\ (message.id = client.awaits => toPortal' = <<>>)
        <3>1. message.id <= client.awaits /\ (message.id = client.awaits => Len(toPortal) = 1)
            BY <1>1, <1>10 DEF HotkeyInv, NewestLast
        <3> QED
            BY <1>0, <1>1, <3>1
    <2>4. NewestLast'
        BY <1>4, <1>6, <1>7, <2>2, <2>3 DEF NewestLast
    <2>5. sessions' \in [Ids -> MaybeAccel \union {"closed"}] /\ \A i \in Ids : Grabs(i)' => Grabs(i) /\ sessions'[i] = sessions[i]
        BY <1>0, <1>2, <2>1 DEF Grabs, MaybeAccel
    <2>6. HotkeyTypeOK'
        BY <1>0, <1>1, <2>1, <2>2, <2>5 DEF HotkeyInv, HotkeyTypeOK, desktopVars
    <2>7. ~Held
        BY <1>1, <1>8, <1>10 DEF Held
    <2>8. \A o, k : ~LeftAt(o, k)
        BY <1>1, <1>9, <1>10 DEF LeftAt
    <2>9. NoneHeld /\ client.handle = 0
        BY <2>7, <2>8 DEF HotkeyInv, OneSession
    <2>10. NoneHeld'
        <3>1. CreatesFrom(1)'
            BY <1>1, <2>9 DEF NoneHeld, CreatesFrom
        <3> QED
            BY <2>1, <2>5, <2>9, <3>1 DEF NoneHeld
    <2> QED
        BY <1>3, <1>4, <1>5, <2>4, <2>6, <2>9, <2>10 DEF HotkeyInv, OneSession
<1>11. CASE message.kind = "bind"
    <2>1. asking' = asking \union {message} /\ UNCHANGED <<sessions, toClient>>
        BY <1>11 DEF PortalHandles, message
    <2>2. HotkeyTypeOK'
        BY <1>0, <1>1, <2>1 DEF HotkeyInv, HotkeyTypeOK, desktopVars
    <2>3. NewestLast'
        BY <1>4, <1>6, <1>7, <2>1 DEF NewestLast
    <2>4. OneSession'
        <3>1. CASE client.handle # 0
            <4>1. Held /\ message = BindMessage /\ Len(toPortal) = 1
                BY <1>1, <3>1 DEF HotkeyInv, OneSession, Held
            <4>2. toPortal' = <<>>
                BY <1>1, <4>1
            <4> QED
                BY <1>4, <1>8, <2>1, <3>1, <4>1, <4>2 DEF OneSession, Held, Grabs
        <3>2. CASE client.handle = 0
            <4>1. ~NoneHeld
                BY <1>1, <1>11 DEF NoneHeld, CreatesFrom
            <4>2. PICK o \in Ids, k \in 1..2 : LeftAt(o, k)
                BY <3>2, <4>1 DEF HotkeyInv, OneSession
            <4>3. k = 2 /\ message.id = o
                <5>1. k # 1
                    BY <1>1, <1>9, <1>11, <4>2 DEF LeftAt
                <5> QED
                    BY <1>1, <4>2, <5>1 DEF LeftAt
            <4>4. LeftAt(o, 1)'
                <5>1. \A n \in 2..Len(toPortal') : n + 1 \in 3..Len(toPortal)
                    BY <1>1
                <5>2. 1 \in 1..Len(toPortal') /\ toPortal'[1] = toPortal[2]
                    BY <1>1, <4>2, <4>3 DEF LeftAt
                <5> QED
                    BY <1>1, <2>1, <4>2, <4>3, <5>1, <5>2 DEF LeftAt, CreatesFrom, Grabs
            <4> QED
                BY <1>4, <3>2, <4>4 DEF OneSession, Ids
        <3> QED
            BY <3>1, <3>2
    <2> QED
        BY <1>3, <1>5, <2>2, <2>3, <2>4 DEF HotkeyInv
<1>12. CASE message.kind = "close"
    <2>1. /\ sessions' = [sessions EXCEPT ![message.id] = "closed"]
          /\ asking' = {m \in asking : m.id # message.id} /\ toClient' = toClient
        BY <1>12 DEF PortalHandles, message
    <2>2. sessions' \in [Ids -> MaybeAccel \union {"closed"}]
          /\ \A i \in Ids : Grabs(i)' => Grabs(i) /\ i # message.id
        BY <1>0, <1>2, <2>1 DEF Grabs
    <2>3. HotkeyTypeOK'
        BY <1>0, <1>1, <2>1, <2>2 DEF HotkeyInv, HotkeyTypeOK, desktopVars
    <2>4. NewestLast'
        BY <1>4, <1>6, <1>7, <2>1 DEF NewestLast
    <2>5. ~Held /\ ~NoneHeld
        BY <1>1, <1>8, <1>12 DEF Held, NoneHeld, CreatesFrom
    <2>6. PICK o \in Ids, k \in 1..2 : LeftAt(o, k)
        BY <2>5 DEF HotkeyInv, OneSession
    <2>7. k = 1 /\ message.id = o
        <3>1. k # 2
            BY <1>1, <1>12, <2>6 DEF LeftAt
        <3> QED
            BY <1>1, <1>9, <2>6, <3>1 DEF LeftAt
    <2>8. NoneHeld'
        <3>1. \A n \in 1..Len(toPortal') : n + 1 \in 2..Len(toPortal)
            BY <1>1
        <3> QED
            BY <1>1, <2>1, <2>2, <2>6, <2>7, <3>1 DEF LeftAt, NoneHeld, CreatesFrom
    <2>9. client.handle = 0
        BY <2>5 DEF HotkeyInv, OneSession
    <2> QED
        BY <1>3, <1>4, <1>5, <2>3, <2>4, <2>8, <2>9 DEF HotkeyInv, OneSession
<1> QED
    BY <1>2, <1>10, <1>11, <1>12

LEMMA AppStopped == HotkeyInv /\ StopApp => HotkeyInv'
<1> SUFFICES ASSUME HotkeyInv, StopApp PROVE HotkeyInv'
    OBVIOUS
<1>1. HotkeyTypeOK'
    BY HotkeyAssumption DEF HotkeyInv, HotkeyTypeOK, StopApp, desktopVars, Client, NoPortal, MaybeAccel, Ids
<1>2. StoreHolds'
    BY DEF HotkeyInv, StoreHolds, StopApp, desktopVars, Written
<1>3. ClientCurrent' /\ NewestLast' /\ OneSession'
    BY DEF StopApp, NoPortal, ClientCurrent, NewestLast, OneSession, NoneHeld, CreatesFrom, Grabs
<1> QED
    BY <1>1, <1>2, <1>3 DEF HotkeyInv

LEMMA Started ==
    ASSUME HotkeyInv, Start, MaxHotkeyFaults <= 1
    PROVE  HotkeyInv'
<1> DEFINE hotkey == IF chosen = NoAccel THEN Head(FallbackAccels) ELSE chosen
<1>0. /\ hotkeyProcess # "running" /\ hotkeyProcess' = "running" /\ client = NoPortal
      /\ UNCHANGED <<desk, chosen, hotkeyChanges>>
      /\ hotkeyChanges \in 0..MaxHotkeyChanges /\ hotkeyFaults \in 0..MaxHotkeyFaults
      /\ store \in Store /\ chosen \in MaybeAccel /\ NoAccel \notin Accels
      /\ MaxHotkeyChanges \in Nat /\ MaxHotkeyFaults \in Nat
    BY HotkeyAssumption DEF Start, HotkeyInv, HotkeyTypeOK, ClientCurrent
<1>1. hotkey \in Accels /\ Head(FallbackAccels) \in Accels
    BY <1>0, CurrentKnown DEF HotkeyInv, MaybeAccel
<1>2. IF hotkeyProcess = "fresh" THEN SetupDefault(hotkey) ELSE UNCHANGED <<store, hotkeyFaults>>
    BY DEF Start
<1>3. \/ desk = "PORTAL" /\ PortalStart(hotkey, hotkeyChanges + 1)
      \/ UNCHANGED <<client, portalVars>>
    BY DEF Start
<1> HIDE DEF hotkey
<1>4. /\ store' \in Store /\ hotkeyFaults' \in 0..MaxHotkeyFaults
      /\ hotkeyProcess # "fresh" \/ desk \in {"XFCE", "PORTAL"} => UNCHANGED store \/ desk = "XFCE"
      /\ hotkeyProcess = "fresh" /\ desk = "GNOME" => store'.binding \in Accels /\ store'.enabled
    <2>1. CASE hotkeyProcess # "fresh"
        BY <1>0, <1>2, <2>1
    <2>2. CASE hotkeyProcess = "fresh" /\ ~(HasStore /\ (desk = "GNOME" => store.binding = NoAccel))
        <3>1. /\ store' = IF desk = "PLASMA" /\ store.binding = NoAccel
                          THEN Written(store, Head(FallbackAccels)) ELSE store
              /\ UNCHANGED hotkeyFaults
            BY <1>2, <2>2 DEF SetupDefault
        <3>2. desk # "GNOME"
            BY <2>2 DEF HotkeyInv, StoreHolds, HasStore
        <3>3. Written(store, Head(FallbackAccels)) \in Store
            BY <1>1 DEF Written, Store, MaybeAccel
        <3> QED
            BY <1>0, <2>2, <3>1, <3>2, <3>3
    <2>3. CASE hotkeyProcess = "fresh" /\ HasStore /\ (desk = "GNOME" => store.binding = NoAccel)
        <3>1. PICK failed \in 0..Len(Attempts(hotkey)) :
                /\ hotkeyFaults + failed <= MaxHotkeyFaults /\ hotkeyFaults' = hotkeyFaults + failed
                /\ IF failed < Len(Attempts(hotkey))
                   THEN store' = Written(store, Attempts(hotkey)[failed + 1])
                   ELSE \E s \in HalfWritten(store, Last(Attempts(hotkey))) : store' = s
            BY <1>2, <2>3, Zenon DEF SetupDefault
        <3>2. Attempts(hotkey) \in Seq(Accels) /\ Len(Attempts(hotkey)) > 1 /\ Len(Attempts(hotkey)) \in Nat
            BY <1>1, AttemptsKnown
        <3>3. failed \in {0, 1}
            BY <1>0, <3>1, <3>2
        <3>4. store' = Written(store, Attempts(hotkey)[failed + 1]) /\ Attempts(hotkey)[failed + 1] \in Accels
            BY <3>1, <3>2, <3>3
        <3>5. hotkeyFaults' \in 0..MaxHotkeyFaults
            BY <1>0, <3>1, <3>3
        <3> QED
            BY <2>3, <3>4, <3>5 DEF Written, Store, MaybeAccel, HasStore
    <2> QED
        BY <2>1, <2>2, <2>3
<1>5. StoreHolds'
    BY <1>0, <1>4, <1>2 DEF HotkeyInv, StoreHolds, Written
<1>6. CASE UNCHANGED <<client, portalVars>>
    <2>1. HotkeyTypeOK'
        BY <1>0, <1>4, <1>6 DEF HotkeyInv, HotkeyTypeOK, portalVars
    <2>2. ClientCurrent' /\ NewestLast' /\ OneSession'
        BY <1>0, <1>6 DEF HotkeyInv, ClientCurrent, NewestLast, OneSession, NoneHeld, CreatesFrom, Grabs, portalVars, NoPortal
    <2> QED
        BY <1>5, <2>1, <2>2 DEF HotkeyInv
<1>7. CASE desk = "PORTAL" /\ PortalStart(hotkey, hotkeyChanges + 1)
    <2>1. hotkeyChanges + 1 \in Ids /\ hotkeyChanges + 1 > client.awaits
        BY <1>0 DEF Ids, NoPortal
    <2>2. toPortal' \in Seq(PortalMessage) /\ NewestLast' /\ OneSession' /\ client' \in Client /\ client' # NoPortal
        BY <1>1, <1>7, <2>1, Requested
    <2>3. HotkeyTypeOK'
        BY <1>0, <1>4, <1>7, <2>2 DEF HotkeyInv, HotkeyTypeOK, PortalStart
    <2>4. Current' = hotkey
        BY <1>0, <1>7 DEF Current, hotkey
    <2>5. ClientCurrent'
        BY <1>0, <1>7, <2>1, <2>2, <2>4 DEF ClientCurrent, PortalStart, Ids
    <2> QED
        BY <1>5, <2>2, <2>3, <2>5 DEF HotkeyInv
<1> QED
    BY <1>3, <1>6, <1>7

LEMMA AcceleratorApplied ==
    ASSUME HotkeyInv, NEW accel \in Accels, ApplyAccelerator(accel), MaxHotkeyFaults <= 1
    PROVE  HotkeyInv'
<1>0. /\ hotkeyProcess = "running" /\ desk # "PLASMA" /\ hotkeyChanges < MaxHotkeyChanges
      /\ hotkeyChanges' = hotkeyChanges + 1 /\ UNCHANGED <<desk, hotkeyProcess>>
      /\ hotkeyChanges \in 0..MaxHotkeyChanges /\ hotkeyFaults \in 0..MaxHotkeyFaults
      /\ store \in Store /\ chosen \in MaybeAccel /\ NoAccel \notin Accels
      /\ MaxHotkeyChanges \in Nat /\ MaxHotkeyFaults \in Nat
    BY HotkeyAssumption DEF ApplyAccelerator, HotkeyInv, HotkeyTypeOK
<1>1. CASE AccelApplied(accel)
    <2>1. /\ store' = IF HasStore THEN Written(store, accel) ELSE store
          /\ chosen' = accel /\ UNCHANGED hotkeyFaults
        BY <1>1 DEF AccelApplied
    <2>2. store' \in Store /\ chosen' \in MaybeAccel
        BY <1>0, <2>1 DEF Written, Store, MaybeAccel
    <2>3. StoreHolds'
        BY <1>0, <2>1 DEF HotkeyInv, StoreHolds, Written, HasStore
    <2>4. CASE client = NoPortal
        <3>1. UNCHANGED <<client, portalVars>>
            BY <1>1, <2>4 DEF AccelApplied
        <3>2. HotkeyTypeOK'
            BY <1>0, <2>1, <2>2, <3>1 DEF HotkeyInv, HotkeyTypeOK, portalVars
        <3>3. ClientCurrent' /\ NewestLast' /\ OneSession'
            BY <2>4, <3>1 DEF HotkeyInv, ClientCurrent, NewestLast, OneSession, NoneHeld, CreatesFrom, Grabs, portalVars, NoPortal
        <3> QED
            BY <2>3, <3>2, <3>3 DEF HotkeyInv
    <2>5. CASE client # NoPortal
        <3>1. PortalStart(accel, hotkeyChanges + 2)
            BY <1>1, <2>5 DEF AccelApplied
        <3>2. hotkeyChanges + 2 \in Ids /\ hotkeyChanges + 2 > client.awaits /\ desk = "PORTAL"
            BY <1>0, <2>5 DEF HotkeyInv, ClientCurrent, Ids
        <3>3. toPortal' \in Seq(PortalMessage) /\ NewestLast' /\ OneSession' /\ client' \in Client /\ client' # NoPortal
            BY <3>1, <3>2, Requested
        <3>4. HotkeyTypeOK'
            BY <1>0, <2>1, <2>2, <3>1, <3>3 DEF HotkeyInv, HotkeyTypeOK, PortalStart
        <3>5. Current' = accel
            BY <1>0, <2>1, <3>2 DEF Current
        <3>6. ClientCurrent'
            BY <1>0, <3>1, <3>2, <3>3, <3>5 DEF ClientCurrent, PortalStart, Ids
        <3> QED
            BY <2>3, <3>3, <3>4, <3>6 DEF HotkeyInv
    <2> QED
        BY <2>4, <2>5
<1>2. CASE ApplyFails(accel)
    <2>1. PICK half \in HalfWritten(store, accel) :
            store' = Written(half, Current) /\ hotkeyFaults' = hotkeyFaults + 1
        BY <1>0, <1>2 DEF ApplyFails
    <2>2. /\ hotkeyFaults < MaxHotkeyFaults /\ UNCHANGED <<chosen, client, portalVars>> /\ Current \in Accels
          /\ desk \in {"GNOME", "XFCE"}
        BY <1>2, <2>1, CurrentKnown DEF ApplyFails, HalfWritten, HotkeyInv
    <2>3. client = NoPortal
        BY <2>2 DEF HotkeyInv, ClientCurrent
    <2>4. store' \in Store
        BY <2>1, <2>2 DEF Written, Store, MaybeAccel
    <2>5. HotkeyTypeOK'
        BY <1>0, <2>1, <2>2, <2>4 DEF HotkeyInv, HotkeyTypeOK, portalVars
    <2>6. StoreHolds'
        BY <1>0, <2>1, <2>2 DEF HotkeyInv, StoreHolds, Written, Current
    <2>7. ClientCurrent' /\ NewestLast' /\ OneSession'
        BY <2>2, <2>3 DEF HotkeyInv, ClientCurrent, NewestLast, OneSession, NoneHeld, CreatesFrom, Grabs, portalVars, NoPortal
    <2> QED
        BY <2>5, <2>6, <2>7 DEF HotkeyInv
<1> QED
    BY <1>1, <1>2 DEF ApplyAccelerator

LEMMA NextHotkey ==
    ASSUME HotkeyInv, [HotkeyNext]_hotkeyVars, MaxHotkeyFaults <= 1
    PROVE  HotkeyInv'
<1>1. CASE UNCHANGED hotkeyVars
    <2>1. HotkeyTypeOK' /\ StoreHolds' /\ ClientCurrent' /\ NewestLast'
        BY <1>1 DEF hotkeyVars, HotkeyInv, HotkeyTypeOK, StoreHolds, Written, ClientCurrent, Current, NewestLast
    <2>2. Held' = Held /\ NoneHeld' = NoneHeld /\ \A o \in Ids, k \in 1..2 : LeftAt(o, k)' = LeftAt(o, k)
        BY <1>1 DEF hotkeyVars, Held, BindMessage, NoneHeld, LeftAt, CreatesFrom, Grabs
    <2> QED
        BY <1>1, <2>1, <2>2 DEF hotkeyVars, HotkeyInv, OneSession
<1>2. CASE Start
    BY <1>2, Started
<1>3. CASE StopApp
    BY <1>3, AppStopped
<1>4. CASE CreateSessionResponse
    BY <1>4, CreateAnswered
<1>5. CASE PortalHandles
    BY <1>5, PortalHandled
<1>6. CASE \E a \in Accels : ApplyAccelerator(a)
    BY <1>6, AcceleratorApplied
<1>7. CASE \E m \in asking, accepts \in BOOLEAN : UserAnswers(m, accepts)
    BY <1>7, UserAnswered
<1> QED
    BY <1>1, <1>2, <1>3, <1>4, <1>5, <1>6, <1>7 DEF HotkeyNext

\* Every grab is of one session, whatever its combination.
LEMMA OneGrab == HotkeyInv => \E o : \A i \in Ids : Grabs(i) => i = o
<1> SUFFICES ASSUME HotkeyInv PROVE \E o : \A i \in Ids : Grabs(i) => i = o
    OBVIOUS
<1>1. CASE Held
    BY <1>1 DEF Held
<1>2. CASE NoneHeld
    BY <1>2 DEF NoneHeld
<1>3. CASE \E o \in Ids, k \in 1..2 : LeftAt(o, k)
    BY <1>3 DEF LeftAt
<1> QED
    BY <1>1, <1>2, <1>3 DEF HotkeyInv, OneSession

LEMMA InvShows == HotkeyInv => ShownHotkeyWorks
<1> SUFFICES ASSUME HotkeyInv PROVE ShownHotkeyWorks
    OBVIOUS
<1>1. Cardinality(Grabbed) <= 1
    <2>1. PICK o : \A i \in Ids : Grabs(i) => i = o
        BY OneGrab
    <2>2. Grabbed \subseteq {sessions[o]}
        BY <2>1 DEF Grabbed, Grabs
    <2>3. IsFiniteSet({sessions[o]}) /\ Cardinality({sessions[o]}) = 1
        BY FS_Singleton
    <2>4. Cardinality(Grabbed) <= Cardinality({sessions[o]})
        BY <2>2, <2>3, FS_Subset
    <2> QED
        BY <2>3, <2>4
<1>2. ASSUME Quiet PROVE Grabbed \subseteq {Current}
    <2>1. \A o, k : ~LeftAt(o, k)
        BY <1>2 DEF Quiet, LeftAt
    <2>2. CASE client.handle = 0
        BY <2>1, <2>2 DEF HotkeyInv, OneSession, NoneHeld, Grabbed, Grabs
    <2>3. CASE client.handle # 0
        <3>1. Held /\ client # NoPortal
            BY <2>3 DEF HotkeyInv, OneSession, NoPortal
        <3> QED
            BY <3>1 DEF HotkeyInv, ClientCurrent, Held, Grabbed, Grabs
    <2> QED
        BY <2>2, <2>3
<1>3. ASSUME Quiet, HasStore, desk = "XFCE" => chosen # NoAccel PROVE store = Written(store, Current)
    <2>1. store = [binding |-> store.binding, enabled |-> store.enabled]
        BY DEF HotkeyInv, HotkeyTypeOK, Store
    <2>2. CASE desk = "GNOME"
        BY <1>3, <2>1, <2>2, HotkeyAssumption DEF HotkeyInv, StoreHolds, Written, Current, Quiet
    <2>3. CASE desk = "XFCE"
        BY <1>3, <2>3 DEF HotkeyInv, StoreHolds, Written, Current
    <2> QED
        BY <1>3, <2>2, <2>3 DEF HasStore
<1> QED
    BY <1>1, <1>2, <1>3 DEF ShownHotkeyWorks

\* For any combinations, desktops, changes, restarts and orders of the portal's
\* messages, and with at most one failing write: the combination the preferences
\* show is the one a desktop store holds; the portal never grabs two, and grabs no
\* other one once its messages are handled (HotkeyController.apply_accelerator,
\* setup_default, GlobalShortcutsPortal.start).
THEOREM ShownIsBound ==
    ASSUME MaxHotkeyFaults <= 1
    PROVE  HotkeySpec => []ShownHotkeyWorks
<1>1. HotkeyInit => HotkeyInv
    BY InitHotkey
<1>2. HotkeyInv /\ [HotkeyNext]_hotkeyVars => HotkeyInv'
    BY NextHotkey
<1>3. HotkeyInv => ShownHotkeyWorks
    BY InvShows
<1> QED
    BY <1>1, <1>2, <1>3, PTL DEF HotkeySpec
================================================================================
