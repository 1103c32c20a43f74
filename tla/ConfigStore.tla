----------------------------- MODULE ConfigStore -----------------------------
(* A JSON config file shared by the app and the command line: each process     *)
(* keeps one instance per path for its whole life, saves all of it through a   *)
(* temporary file and a rename, and leaves empty values out of the file.       *)
EXTENDS Naturals, Functions

CONSTANTS Holders,     \* the processes
          Keys, Values,
          Default,     \* the class default of each key
          Empty,       \* a value that counts as unset: "", [], {} or null
          Unloaded,
          MaxSaves     \* bound on the saves
ASSUME ConfigAssumption ==
    Empty \in Values /\ Default \in [Keys -> Values] /\ Unloaded \notin [Keys -> Values] /\ MaxSaves \in Nat

VARIABLES confFile, cached, temporary, pending, seen, asides, saves
configVars == <<confFile, cached, temporary, pending, seen, asides, saves>>

Data == UNION {[ks -> Values] : ks \in SUBSET Keys}
NoData == <<>>
\* invalid: not JSON; rejected: JSON with a key that would shadow a class member.
File == [state: {"data", "missing", "invalid", "unreadable", "rejected"}, data: Data]
NoFile == [state |-> "missing", data |-> NoData]

ConfigTypeOK ==
    /\ confFile \in File
    /\ cached \in [Holders -> [Keys -> Values] \union {Unloaded}]   \* _get_or_create_instance
    /\ temporary \in [Holders -> Data \union {Unloaded}]            \* the .pid.tmp file of a save
    /\ pending \in [Holders -> SUBSET Keys]  \* keys saved since the last save that reached the disk
    /\ seen \in [Holders -> File]      \* the file when the holder last read or wrote it
    /\ asides \in 0..1                 \* files moved aside as invalid, up to one
    /\ saves \in 0..MaxSaves

ConfigInit ==
    /\ confFile = NoFile /\ cached = [h \in Holders |-> Unloaded]
    /\ temporary = [h \in Holders |-> Unloaded] /\ pending = [h \in Holders |-> {}]
    /\ seen = [h \in Holders |-> NoFile] /\ asides = 0 /\ saves = 0

-----------------------------------------------------------------------------
\* A fresh instance holds the class defaults, then what the file holds; without
\* force, the instance is the cached one and the file is not looked at.
WithDefaults(data) == [k \in Keys |-> IF k \in DOMAIN data THEN data[k] ELSE Default[k]]
\* What a save writes: empty values are left out, at every depth.
Filtered(values) == [k \in {k \in Keys : values[k] # Empty} |-> values[k]]

\* Mutant: a file that is gone leaves the instance as it was.
PopulatedKeeping(old) ==
    IF confFile.state = "data" THEN WithDefaults(confFile.data)
    ELSE IF old = Unloaded THEN WithDefaults(NoData) ELSE old
\* _populate_from_file: what cannot be read or is rejected leaves the instance as
\* it was, what does not parse is moved aside and counts as no data.
Populated(old) ==
    CASE confFile.state = "data" -> WithDefaults(confFile.data)
      [] confFile.state \in {"missing", "invalid"} -> WithDefaults(NoData)
      [] confFile.state = "unreadable" /\ old = Unloaded -> WithDefaults(NoData)
      [] OTHER -> old
AfterReading == IF confFile.state = "invalid" THEN NoFile ELSE confFile

LoadConf(h, force) ==
    /\ temporary[h] = Unloaded /\ (force \/ cached[h] = Unloaded)
    /\ cached' = [cached EXCEPT ![h] = Populated(@)]
    /\ confFile' = AfterReading
    /\ asides' = IF confFile.state = "invalid" THEN 1 ELSE asides
    /\ IF confFile.state \in {"data", "missing", "invalid"}
       THEN seen' = [seen EXCEPT ![h] = AfterReading] /\ pending' = [pending EXCEPT ![h] = {}]
       ELSE UNCHANGED <<seen, pending>>
    /\ UNCHANGED <<temporary, saves>>

\* save: the cached instance takes the new value, and all of it is written to a
\* temporary file of this process, which then replaces the file.
SaveConf(h, k, value) ==
    /\ temporary[h] = Unloaded /\ cached[h] # Unloaded /\ saves < MaxSaves /\ saves' = saves + 1
    /\ cached' = [cached EXCEPT ![h][k] = value]
    /\ temporary' = [temporary EXCEPT ![h] = Filtered(cached'[h])]
    /\ pending' = [pending EXCEPT ![h] = @ \union {k}]
    /\ UNCHANGED <<confFile, seen, asides>>
ReplaceFile(h) ==
    /\ temporary[h] # Unloaded
    /\ confFile' = [state |-> "data", data |-> temporary[h]]
    /\ temporary' = [temporary EXCEPT ![h] = Unloaded]
    /\ pending' = [pending EXCEPT ![h] = {}]
    /\ seen' = [seen EXCEPT ![h] = confFile']
    /\ UNCHANGED <<cached, asides, saves>>
\* The temporary file cannot be written or renamed: it goes, save is False, and
\* the instance keeps the value for the next save.
SaveFails(h) ==
    /\ temporary[h] # Unloaded /\ temporary' = [temporary EXCEPT ![h] = Unloaded]
    /\ UNCHANGED <<confFile, cached, pending, seen, asides, saves>>

\* A process ends and starts again; somebody edits the file by hand.
EndHolder(h) ==
    /\ cached[h] # Unloaded /\ cached' = [cached EXCEPT ![h] = Unloaded]
    /\ temporary' = [temporary EXCEPT ![h] = Unloaded] /\ pending' = [pending EXCEPT ![h] = {}]
    /\ seen' = [seen EXCEPT ![h] = NoFile] /\ UNCHANGED <<confFile, asides, saves>>
EditFile == \E file \in File :
    /\ file.state # "data" => file.data = NoData
    /\ saves < MaxSaves /\ saves' = saves + 1
    /\ confFile' = file /\ UNCHANGED <<cached, temporary, pending, seen, asides>>

ConfigNext ==
    \/ \E h \in Holders :
          \/ \E force \in BOOLEAN : LoadConf(h, force)
          \/ \E k \in Keys, value \in Values : SaveConf(h, k, value)
          \/ ReplaceFile(h) \/ SaveFails(h) \/ EndHolder(h)
    \/ EditFile
ConfigSpec == ConfigInit /\ [][ConfigNext]_configVars

-----------------------------------------------------------------------------
OnDisk(file, k) == IF k \in DOMAIN file.data THEN file.data[k] ELSE Default[k]

\* A save changes the settings it was asked to change and no other, as a restarted
\* process reads them, whatever was loaded, rejected, moved aside or failed before
\* - unless another process or a hand changed the file since this one read it, or
\* the setting is one that was emptied by hand and has another default.
SaveChangesOneKey ==
    [][\A h \in Holders :
          ReplaceFile(h) /\ seen[h] = confFile =>
              \A k \in Keys \ pending[h] : cached[h][k] # Empty \/ Default[k] = Empty =>
                  OnDisk(confFile', k) = OnDisk(confFile, k)]_configVars
=============================================================================
