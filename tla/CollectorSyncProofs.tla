------------------------ MODULE CollectorSyncProofs ------------------------
(***************************************************************************)
(* Proofs about CollectorSync, for any runs, creators, devices and bounds, *)
(* with and without lost requests, crashes at every await and requests     *)
(* served late.  One inductive invariant says where every observation is   *)
(* at every await; the books, the evidence, the queue, termination and the *)
(* refinement of ObservationDelivery follow from it.                       *)
(***************************************************************************)
EXTENDS CollectorSync, CollectionRunProofs, FiniteSetTheorems

-----------------------------------------------------------------------------
(* The inductive invariant.                                                *)

\* The counters other than the clock are equal.
SameCounts(p, q) == \A m \in Metrics \ {"elapsedSeconds"} : q[m] = p[m]

\* A batch has a screenshot beside it exactly when it passes, and the batch is
\* of the run whose file it is in.
CheckpointOK(r, c) ==
  /\ c.pending # NoObservation => c.pending.run = r /\ c.shot = c.pending.pass

\* Memory is ahead of the file by the clock only; before the first save of a
\* run it has counted nothing.
Mirrors(file, memory) ==
  IF file = NoCheckpoint
    THEN memory.pending = NoObservation /\ SameCounts(ZeroProgress, memory.progress)
    ELSE memory.pending = file.pending /\ SameCounts(file.progress, memory.progress)

\* The files, the memory, the queue, the network and the centre's tables.
FilesOK ==
  /\ \A r \in Runs : disk[r] # NoCheckpoint => CheckpointOK(r, disk[r])
  /\ CheckpointOK(loaded, mem)
  /\ loaded = NoRun => mem.pending = NoObservation
  /\ loaded # NoRun => Mirrors(disk[loaded], mem)
  /\ \A r, s \in Runs : HasPending(disk[r]) /\ HasPending(disk[s]) => r = s
  /\ pc # "off" => \A r \in Runs : HasPending(disk[r]) => loaded = r
  /\ queue \subseteq PendingOnDisk
  /\ lateBatches \subseteq ingested \cup PendingOnDisk
  /\ \A o \in ingested : disk[o.run] # NoCheckpoint
  /\ \A o \in ingested : o.pass => o \in evidence \cup PendingOnDisk

\* What each await knows of the batch.
AwaitsOK ==
  /\ pc = "off" => loaded = NoRun
  /\ pc \in Starting \cup Collecting => loaded # NoRun
  /\ pc \in Collecting => disk[loaded] # NoCheckpoint
  /\ pc \in {"sync", "report", "discover", "recovering"} => mem.pending = NoObservation
  /\ pc \in Flushing \cup {"waitBatch", "waitEvidence"} => mem.pending # NoObservation
  /\ pc \in {"acked", "evidence", "waitEvidence", "clear"} => mem.pending \in ingested
  /\ pc \in {"evidence", "waitEvidence", "clear"} => queue = {}
  /\ pc = "clear" /\ mem.pending.pass => mem.pending \in evidence

\* What the centre stores of this device's runs, and what is on its way, is
\* not ahead of the file.
NotAhead(r, progress) ==
  \A m \in Metrics \ {"elapsedSeconds"} :
    progress[m] <= IF disk[r] = NoCheckpoint THEN 0 ELSE disk[r].progress[m]

CountersOK ==
  /\ \A r \in Runs : Exists(r) /\ runs[r].owner = Self => NotAhead(r, runs[r].progress)
  /\ \A p \in lateReports : NotAhead(p.run, p.progress)

SyncInv == IInv /\ SyncTypeOK /\ FilesOK /\ AwaitsOK /\ CountersOK
-----------------------------------------------------------------------------
(* What a step does to the files.                                          *)

\* The counters of a file never go back, and a file never goes away.
Grows ==
  \A r \in Runs : disk[r] # NoCheckpoint =>
    /\ disk'[r] # NoCheckpoint
    /\ \A m \in Metrics \ {"elapsedSeconds"} : disk[r].progress[m] <= disk'[r].progress[m]

\* The file of a run is written for the first time, or again with the same
\* batch and the same candidates.
KeepsFile(r) ==
  IF disk[r] = NoCheckpoint
    THEN disk'[r] # NoCheckpoint =>
           /\ disk'[r].pending = NoObservation
           /\ disk'[r].progress["candidatesFound"] = 0
    ELSE /\ disk'[r].pending = disk[r].pending
         /\ disk'[r].progress["candidatesFound"] = disk[r].progress["candidatesFound"]

\* No batch is made or let go; the outstanding one may reach the centre.
Kept ==
  /\ PendingOnDisk' = PendingOnDisk
  /\ \A r \in Runs : KeepsFile(r)
  /\ ingested' = ingested \/ \E o \in PendingOnDisk : ingested' = ingested \cup {o}

\* A batch is made, when none is outstanding, and counted if it passes.
Observed ==
  \E o \in Observations :
    /\ PendingOnDisk = {} /\ PendingOnDisk' = {o}
    /\ o \notin ingested /\ ingested' = ingested
    /\ disk[o.run] # NoCheckpoint
    /\ disk'[o.run].progress["candidatesFound"] =
         disk[o.run].progress["candidatesFound"] + IF o.pass THEN 1 ELSE 0
    /\ \A r \in Runs \ {o.run} : disk'[r] = disk[r]

\* The batch that the centre has is let go.
Released ==
  \E o \in Observations :
    /\ PendingOnDisk = {o} /\ PendingOnDisk' = {}
    /\ o \in ingested /\ ingested' = ingested
    /\ \A r \in Runs :
         /\ disk'[r] = NoCheckpoint <=> disk[r] = NoCheckpoint
         /\ disk[r] # NoCheckpoint =>
              disk'[r].progress["candidatesFound"] = disk[r].progress["candidatesFound"]

FileStep == Grows /\ (Kept \/ Observed \/ Released)

-----------------------------------------------------------------------------
(* Checkpoints.                                                            *)

\* What the sentinels and the typing of checkpoints say.
LEMMA CheckpointType ==
  ASSUME NEW c \in Checkpoints
  PROVE  /\ c # NoCheckpoint
         /\ c.progress \in Progress /\ c.seen \in SUBSET Creators /\ c.shot \in BOOLEAN
         /\ c.pending \in Observations \cup {NoObservation}
         /\ HasPending(c) <=> c.pending # NoObservation
BY SyncAssumption DEF Checkpoints, HasPending

\* The batches on disk, before and after a step.
LEMMA PendingMembers ==
  /\ \A o : o \in PendingOnDisk <=> \E r \in Runs : HasPending(disk[r]) /\ o = disk[r].pending
  /\ \A o : o \in PendingOnDisk' <=> \E r \in Runs : HasPending(disk'[r]) /\ o = disk'[r].pending
BY DEF PendingOnDisk

\* Who runs has at most one batch outstanding, the one in memory.
LEMMA PendingIsInMemory ==
  ASSUME SyncTypeOK, FilesOK, pc # "off"
  PROVE  PendingOnDisk = IF mem.pending = NoObservation THEN {} ELSE {mem.pending}
<1>1. ASSUME NEW r \in Runs, HasPending(disk[r])
      PROVE  mem.pending # NoObservation /\ mem.pending = disk[r].pending
  <2>1. loaded = r /\ loaded # NoRun
    BY <1>1, SyncAssumption DEF FilesOK
  <2>2. disk[r] # NoCheckpoint /\ disk[r].pending # NoObservation
    BY <1>1 DEF HasPending
  <2> QED
    BY <2>1, <2>2 DEF FilesOK, Mirrors
<1>2. ASSUME mem.pending # NoObservation
      PROVE  loaded \in Runs /\ HasPending(disk[loaded]) /\ disk[loaded].pending = mem.pending
  BY <1>2 DEF FilesOK, Mirrors, SyncTypeOK, HasPending
<1> QED
  BY <1>1, <1>2, PendingMembers

\* A save of the memory does not change what is outstanding, nor any counter
\* but the clock.
LEMMA SaveKeeps ==
  ASSUME SyncTypeOK, FilesOK, loaded # NoRun, Save
  PROVE  /\ PendingOnDisk' = PendingOnDisk
         /\ Grows
         /\ \A r \in Runs : KeepsFile(r)
         /\ disk'[loaded] = mem /\ \A r \in Runs \ {loaded} : disk'[r] = disk[r]
<1>1. loaded \in Runs /\ disk'[loaded] = mem /\ \A r \in Runs \ {loaded} : disk'[r] = disk[r]
  BY DEF SyncTypeOK, Save
<1>2. mem \in Checkpoints /\ mem # NoCheckpoint
  BY CheckpointType DEF SyncTypeOK
<1>3. Mirrors(disk[loaded], mem)
  BY DEF FilesOK
<1>4. HasPending(disk'[loaded]) <=> HasPending(disk[loaded])
  BY <1>1, <1>2, <1>3 DEF Mirrors, HasPending
<1>5. HasPending(disk[loaded]) => disk'[loaded].pending = disk[loaded].pending
  BY <1>1, <1>3 DEF Mirrors, HasPending
<1>6. PendingOnDisk' = PendingOnDisk
  BY <1>1, <1>4, <1>5, PendingMembers
<1>7. ASSUME NEW r \in Runs, disk[r] # NoCheckpoint
      PROVE  /\ disk'[r] # NoCheckpoint
             /\ \A m \in Metrics \ {"elapsedSeconds"} : disk[r].progress[m] <= disk'[r].progress[m]
  <2>1. disk[r] \in Checkpoints /\ disk[r].progress \in Progress
    BY <1>7, CheckpointType DEF SyncTypeOK
  <2>2. \A m \in Metrics : disk[r].progress[m] \in Nat
    BY <2>1 DEF Progress
  <2> QED
    BY <1>1, <1>2, <1>3, <1>7, <2>2 DEF Mirrors, SameCounts
<1>8. \A r \in Runs : KeepsFile(r)
  <2>1. "candidatesFound" \in Metrics \ {"elapsedSeconds"} /\ ZeroProgress["candidatesFound"] = 0
    BY DEF Metrics, ZeroProgress
  <2> QED
    BY <1>1, <1>3, <2>1 DEF KeepsFile, Mirrors, SameCounts
<1> QED
  BY <1>1, <1>6, <1>7, <1>8 DEF Grows

\* A step that leaves the files alone.
LEMMA UnchangedKeeps ==
  ASSUME SyncTypeOK, disk' = disk
  PROVE  /\ PendingOnDisk' = PendingOnDisk
         /\ Grows
         /\ \A r \in Runs : KeepsFile(r)
<1>1. ASSUME NEW r \in Runs, disk[r] # NoCheckpoint
      PROVE  \A m \in Metrics : disk[r].progress[m] <= disk'[r].progress[m]
  BY <1>1, CheckpointType DEF SyncTypeOK, Progress
<1> QED
  BY <1>1 DEF Grows, KeepsFile, PendingOnDisk

-----------------------------------------------------------------------------
(* What each kind of step does to FilesOK.                                 *)

\* Most steps: the memory stays, the file is saved or left alone, and the
\* outstanding batch moves through the queue, the network and the centre.
LEMMA KeepStep ==
  ASSUME SyncTypeOK, FilesOK,
         disk' = disk \/ (loaded # NoRun /\ Save),
         UNCHANGED <<loaded, mem>>,
         pc = "off" => pc' = "off",
         queue' \subseteq queue \cup PendingOnDisk,
         lateBatches' \subseteq lateBatches \cup PendingOnDisk,
         ingested \subseteq ingested', ingested' \subseteq ingested \cup PendingOnDisk,
         evidence \subseteq evidence'
  PROVE  FilesOK' /\ Grows /\ Kept
<1>1. PendingOnDisk' = PendingOnDisk /\ Grows /\ \A r \in Runs : KeepsFile(r)
  BY SaveKeeps, UnchangedKeeps
<1>2. disk' = disk \/ (disk'[loaded] = mem /\ \A r \in Runs \ {loaded} : disk'[r] = disk[r])
  BY SaveKeeps
<1>3. loaded # NoRun => loaded \in Runs
  BY DEF SyncTypeOK
<1>4. \A r, s \in Runs : HasPending(disk[r]) /\ HasPending(disk[s]) => r = s
  BY DEF FilesOK
<1>5. ingested' = ingested \/ \E o \in PendingOnDisk : ingested' = ingested \cup {o}
  <2>1. ASSUME NEW o \in PendingOnDisk, NEW x \in PendingOnDisk
        PROVE  o = x
    BY <1>4, PendingMembers
  <2>2. CASE ingested' # ingested
    <3>1. PICK o \in PendingOnDisk : o \in ingested' \ ingested
      BY <2>2
    <3> QED
      BY <2>1, <3>1
  <2> QED
    BY <2>2
<1>6. Kept
  BY <1>1, <1>5 DEF Kept
<1>7. ASSUME NEW r \in Runs
      PROVE  /\ disk'[r] # NoCheckpoint => CheckpointOK(r, disk'[r])
             /\ HasPending(disk'[r]) <=> HasPending(disk[r])
  <2>1. CASE disk' = disk
    BY <2>1 DEF FilesOK
  <2>2. CASE disk' # disk
    <3>1. mem \in Checkpoints /\ loaded \in Runs /\ disk'[loaded] = mem
      BY <1>2, <1>3, <2>2 DEF SyncTypeOK
    <3>2. HasPending(mem) <=> HasPending(disk[loaded])
      BY <2>2, <3>1, CheckpointType DEF FilesOK, Mirrors, HasPending
    <3> QED
      BY <1>2, <2>2, <3>1, <3>2 DEF FilesOK
  <2> QED
    BY <2>1, <2>2
<1>8. loaded # NoRun => Mirrors(disk'[loaded], mem)
  <2>1. CASE disk' = disk
    BY <2>1 DEF FilesOK
  <2>2. CASE disk' # disk
    BY <1>2, <2>2, CheckpointType DEF Mirrors, SameCounts, SyncTypeOK
  <2> QED
    BY <2>1, <2>2
<1>9. \A r \in Runs : disk[r] # NoCheckpoint => disk'[r] # NoCheckpoint
  BY <1>1 DEF Grows
<1>10. \A o \in ingested' : disk'[o.run] # NoCheckpoint
  <2>1. \A o \in ingested : o.run \in Runs
    BY DEF SyncTypeOK, Observations
  <2>2. \A o \in PendingOnDisk : o.run \in Runs /\ disk[o.run] # NoCheckpoint
    BY PendingMembers DEF SyncTypeOK, HasPending
  <2> QED
    BY <1>9, <2>1, <2>2 DEF FilesOK
<1>11. pc' # "off" => \A r \in Runs : HasPending(disk'[r]) => loaded = r
  BY <1>7 DEF FilesOK
<1>12. /\ queue' \subseteq PendingOnDisk'
       /\ lateBatches' \subseteq ingested' \cup PendingOnDisk'
       /\ \A o \in ingested' : o.pass => o \in evidence' \cup PendingOnDisk'
  BY <1>1 DEF FilesOK
<1>13. \A r, s \in Runs : HasPending(disk'[r]) /\ HasPending(disk'[s]) => r = s
  BY <1>4, <1>7
<1> QED
  BY <1>1, <1>6, <1>7, <1>8, <1>9, <1>10, <1>11, <1>12, <1>13 DEF FilesOK

\* A start of the process, its end, and a run that is opened: another
\* checkpoint is in memory.
LEMMA ReloadStep ==
  ASSUME SyncTypeOK, FilesOK,
         UNCHANGED <<disk, queue, lateBatches, ingested, evidence>>,
         CheckpointOK(loaded', mem'),
         loaded' = NoRun => mem'.pending = NoObservation,
         loaded' # NoRun => Mirrors(disk[loaded'], mem'),
         pc' # "off" => \A r \in Runs : HasPending(disk[r]) => loaded' = r
  PROVE  FilesOK' /\ Grows /\ Kept
<1>1. PendingOnDisk' = PendingOnDisk /\ Grows /\ \A r \in Runs : KeepsFile(r)
  BY UnchangedKeeps
<1>2. FilesOK'
  BY <1>1 DEF FilesOK
<1> QED
  BY <1>1, <1>2 DEF Kept

\* A write of a new checkpoint to the file of the run that is collected.
LEMMA SavedAs ==
  ASSUME SyncTypeOK, loaded # NoRun, disk[loaded] # NoCheckpoint, NEW c \in Checkpoints, SaveAs(c)
  PROVE  /\ loaded \in Runs /\ mem' = c
         /\ disk'[loaded] = c /\ \A r \in Runs \ {loaded} : disk'[r] = disk[r]
         /\ disk[loaded] \in Checkpoints
BY DEF SaveAs, SyncTypeOK

\* The counters of the memory are those of the file, but for the clock.
LEMMA MemoryCounts ==
  ASSUME SyncTypeOK, FilesOK, loaded # NoRun, disk[loaded] # NoCheckpoint
  PROVE  \A m \in Metrics \ {"elapsedSeconds"} :
           disk[loaded].progress[m] = mem.progress[m] /\ mem.progress[m] \in Nat
BY CheckpointType DEF SyncTypeOK, FilesOK, Mirrors, SameCounts, Progress

\* A page that becomes no observation: counted, and saved.
LEMMA CountStep ==
  ASSUME SyncTypeOK, FilesOK, pc # "off", loaded # NoRun, disk[loaded] # NoCheckpoint,
         mem.pending = NoObservation,
         NEW c \in Checkpoints, SaveAs(c), c.pending = NoObservation,
         c.progress["candidatesFound"] = mem.progress["candidatesFound"],
         \A m \in Metrics : mem.progress[m] <= c.progress[m],
         UNCHANGED <<queue, loaded, lateBatches, ingested, evidence>>
  PROVE  FilesOK' /\ Grows /\ Kept
<1>1. /\ loaded \in Runs /\ mem' = c
      /\ disk'[loaded] = c /\ \A r \in Runs \ {loaded} : disk'[r] = disk[r]
  BY SavedAs
<1>2. c # NoCheckpoint /\ ~HasPending(c) /\ ~HasPending(disk[loaded])
  BY CheckpointType DEF FilesOK, Mirrors, HasPending
<1>3. \A r \in Runs : HasPending(disk'[r]) <=> HasPending(disk[r])
  BY <1>1, <1>2
<1>4. PendingOnDisk = {} /\ PendingOnDisk' = {}
  BY <1>1, <1>2, <1>3, PendingMembers, PendingIsInMemory
<1>5. ASSUME NEW r \in Runs
      PROVE  /\ KeepsFile(r)
             /\ disk'[r] # NoCheckpoint => CheckpointOK(r, disk'[r])
             /\ disk[r] # NoCheckpoint =>
                  /\ disk'[r] # NoCheckpoint
                  /\ \A m \in Metrics \ {"elapsedSeconds"} :
                       disk[r].progress[m] <= disk'[r].progress[m]
  <2>1. CASE r = loaded
    BY <1>1, <1>2, <2>1, MemoryCounts DEF KeepsFile, CheckpointOK, Mirrors, FilesOK, Metrics
  <2>2. CASE r # loaded
    BY <1>1, <2>2, CheckpointType DEF KeepsFile, FilesOK, SyncTypeOK, Progress
  <2> QED
    BY <2>1, <2>2
<1>6. Kept /\ Grows
  BY <1>4, <1>5 DEF Kept, Grows
<1>7. CheckpointOK(loaded, c) /\ Mirrors(c, c)
  BY <1>2 DEF CheckpointOK, Mirrors, SameCounts
<1>8. \A o \in ingested : disk'[o.run] # NoCheckpoint
  BY <1>5 DEF FilesOK, SyncTypeOK, Observations
<1> QED
  BY <1>1, <1>3, <1>4, <1>5, <1>6, <1>7, <1>8 DEF FilesOK

\* An author's page becomes an observation that nothing else has seen.
LEMMA ObserveStep ==
  ASSUME SyncTypeOK, FilesOK, pc # "off", loaded # NoRun, disk[loaded] # NoCheckpoint,
         mem.pending = NoObservation,
         NEW o \in Observations, o \notin ingested, o.run = loaded,
         NEW c \in Checkpoints, SaveAs(c), c.pending = o, c.shot = o.pass,
         c.progress["candidatesFound"] =
           mem.progress["candidatesFound"] + IF o.pass THEN 1 ELSE 0,
         \A m \in Metrics : mem.progress[m] <= c.progress[m],
         UNCHANGED <<queue, loaded, lateBatches, ingested, evidence>>
  PROVE  FilesOK' /\ Grows /\ Observed
<1>1. /\ loaded \in Runs /\ mem' = c
      /\ disk'[loaded] = c /\ \A r \in Runs \ {loaded} : disk'[r] = disk[r]
  BY SavedAs
<1>2. c # NoCheckpoint /\ HasPending(c) /\ o # NoObservation
  BY CheckpointType, SyncAssumption
<1>3. PendingOnDisk = {}
  BY PendingIsInMemory
<1>4. \A r \in Runs : ~HasPending(disk[r])
  BY <1>3, PendingMembers
<1>5. \A r \in Runs : HasPending(disk'[r]) <=> r = loaded
  BY <1>1, <1>2, <1>4
<1>6. PendingOnDisk' = {o}
  BY <1>1, <1>5, PendingMembers
<1>7. ASSUME NEW r \in Runs
      PROVE  /\ disk'[r] # NoCheckpoint => CheckpointOK(r, disk'[r])
             /\ disk[r] # NoCheckpoint =>
                  /\ disk'[r] # NoCheckpoint
                  /\ \A m \in Metrics \ {"elapsedSeconds"} :
                       disk[r].progress[m] <= disk'[r].progress[m]
  <2>1. CASE r = loaded
    BY <1>1, <1>2, <2>1, MemoryCounts DEF CheckpointOK, Metrics
  <2>2. CASE r # loaded
    BY <1>1, <2>2, CheckpointType DEF FilesOK, SyncTypeOK, Progress
  <2> QED
    BY <2>1, <2>2
<1>8. Observed
  BY <1>1, <1>2, <1>3, <1>6, MemoryCounts DEF Observed, Metrics
<1>9. CheckpointOK(loaded, c) /\ Mirrors(c, c)
  BY <1>2 DEF CheckpointOK, Mirrors, SameCounts
<1>10. \A x \in ingested : disk'[x.run] # NoCheckpoint
  BY <1>7 DEF FilesOK, SyncTypeOK, Observations
<1>11. queue' \subseteq PendingOnDisk' /\ lateBatches' \subseteq ingested' \cup PendingOnDisk'
       /\ \A x \in ingested' : x.pass => x \in evidence' \cup PendingOnDisk'
  BY <1>3 DEF FilesOK
<1> QED
  BY <1>1, <1>5, <1>7, <1>8, <1>9, <1>10, <1>11 DEF FilesOK, Grows

\* A batch that the centre has, and its evidence if it needs any, is let go.
LEMMA ClearStep ==
  ASSUME SyncTypeOK, FilesOK, pc # "off", loaded # NoRun, disk[loaded] # NoCheckpoint,
         mem.pending # NoObservation, mem.pending \in ingested, queue = {},
         mem.pending.pass => mem.pending \in evidence,
         SaveAs([mem EXCEPT !.pending = NoObservation, !.shot = FALSE]),
         UNCHANGED <<queue, loaded, lateBatches, ingested, evidence>>
  PROVE  FilesOK' /\ Grows /\ Released
<1> DEFINE c == [mem EXCEPT !.pending = NoObservation, !.shot = FALSE]
<1>1. /\ c \in Checkpoints /\ c.pending = NoObservation /\ ~c.shot /\ c.progress = mem.progress
  BY DEF SyncTypeOK, Checkpoints
<1>2. SaveAs(c)
  OBVIOUS
<1> HIDE DEF c
<1>3. /\ loaded \in Runs /\ mem' = c
      /\ disk'[loaded] = c /\ \A r \in Runs \ {loaded} : disk'[r] = disk[r]
  BY <1>1, <1>2, SavedAs
<1>4. c # NoCheckpoint /\ ~HasPending(c)
  BY <1>1, CheckpointType
<1>5. PendingOnDisk = {mem.pending}
  BY PendingIsInMemory
<1>6. \A r \in Runs : ~HasPending(disk'[r])
  BY <1>3, <1>4 DEF FilesOK
<1>7. PendingOnDisk' = {}
  BY <1>6, PendingMembers
<1>8. ASSUME NEW r \in Runs
      PROVE  /\ disk'[r] # NoCheckpoint => CheckpointOK(r, disk'[r])
             /\ disk'[r] = NoCheckpoint <=> disk[r] = NoCheckpoint
             /\ disk[r] # NoCheckpoint =>
                  \A m \in Metrics \ {"elapsedSeconds"} :
                    disk[r].progress[m] = disk'[r].progress[m] /\ disk[r].progress[m] \in Nat
  <2>1. CASE r = loaded
    BY <1>1, <1>3, <1>4, <2>1, MemoryCounts DEF CheckpointOK, Metrics
  <2>2. CASE r # loaded
    BY <1>3, <2>2, CheckpointType DEF FilesOK, SyncTypeOK, Progress
  <2> QED
    BY <2>1, <2>2
<1>9. Grows
  BY <1>8 DEF Grows
<1>10. Released
  <2>1. mem.pending \in Observations
    BY CheckpointType DEF SyncTypeOK
  <2>2. "candidatesFound" \in Metrics \ {"elapsedSeconds"}
    BY DEF Metrics
  <2> QED
    BY <1>5, <1>7, <1>8, <2>1, <2>2 DEF Released
<1>11. CheckpointOK(loaded, c) /\ Mirrors(c, c)
  BY <1>1, <1>4 DEF CheckpointOK, Mirrors, SameCounts
<1>12. \A x \in ingested : disk'[x.run] # NoCheckpoint
  BY <1>8 DEF FilesOK, SyncTypeOK, Observations
<1>13. queue' \subseteq PendingOnDisk' /\ lateBatches' \subseteq ingested' \cup PendingOnDisk'
       /\ \A x \in ingested' : x.pass => x \in evidence' \cup PendingOnDisk'
  BY <1>5, <1>7 DEF FilesOK
<1> QED
  BY <1>3, <1>6, <1>8, <1>9, <1>10, <1>11, <1>12, <1>13 DEF FilesOK

-----------------------------------------------------------------------------
(* What a step does to the centre.                                         *)

\* No counter is written: a run keeps its progress, or is new and has none;
\* only a run without an owner gets one, and no run becomes completed.
QuietCentre ==
  \A r \in Runs : runs'[r] # NoRun =>
    /\ Exists(r) =>
         /\ runs'[r].progress = runs[r].progress
         /\ runs'[r].owner = runs[r].owner \/ runs[r].owner = NoDevice
         /\ runs'[r].status = "completed" => runs[r].status = "completed"
    /\ ~Exists(r) => runs'[r].owner = NoDevice /\ runs'[r].status = "ready"

\* A report of this device is stored, for a run that it collects.
Confirms(r, progress) ==
  /\ r \in Runs /\ Exists(r) /\ runs[r].owner = Self /\ runs[r].status = "running"
  /\ runs'[r].progress = progress /\ runs'[r].owner = Self
  /\ \A x \in Runs \ {r} : runs'[x] = runs[x]

\* A step that leaves the centre alone.
LEMMA QuietUnchanged ==
  ASSUME UNCHANGED runVars
  PROVE  QuietCentre
BY DEF runVars, QuietCentre, Exists

\* One existing row is written, without its progress.
LEMMA QuietRow ==
  ASSUME TypeOK, NEW r \in Runs, Exists(r), NEW row,
         runs' = [runs EXCEPT ![r] = row],
         row.progress = runs[r].progress, row.status # "completed",
         row.owner = runs[r].owner \/ runs[r].owner = NoDevice
  PROVE  QuietCentre
<1>1. runs'[r] = row /\ \A x \in Runs \ {r} : runs'[x] = runs[x]
  BY DEF TypeOK
<1> QED
  BY <1>1 DEF QuietCentre, Exists

\* A claim, a start, a pause, a resumption or a termination, a new run.
LEMMA QuietClaim ==
  ASSUME IInv, NEW r \in Runs, NEW d \in Devices, ClaimCollectionRun(r, d)
  PROVE  QuietCentre
<1> DEFINE row == [runs[r] EXCEPT !.status = "claimed", !.owner = d]
<1>1. runs[r] \in RunRow /\ RowOK(runs[r], RulesOf(r))
  BY ExistingRow DEF ClaimCollectionRun
<1>2. runs[r].status = "ready"
  BY <1>1 DEF ClaimCollectionRun, CanTransition, allowedRunTransitions, RunRow, Statuses
<1>3. runs[r].owner = NoDevice
  BY <1>1, <1>2 DEF RowOK
<1>4. row.progress = runs[r].progress /\ row.status = "claimed"
  BY <1>1 DEF RunRow
<1>5. TypeOK /\ Exists(r) /\ runs' = [runs EXCEPT ![r] = row]
  BY DEF ClaimCollectionRun, IInv
<1> HIDE DEF row
<1> QED
  BY <1>3, <1>4, <1>5, QuietRow

\* A change of status by hand counts nothing and completes nothing.
LEMMA QuietMove ==
  ASSUME IInv, NEW r \in Runs, NEW target \in ManualTargets, Exists(r),
         runs' = [runs EXCEPT ![r] = Moved(@, target)]
  PROVE  QuietCentre
<1>1. runs[r] \in RunRow
  BY ExistingRow
<1>2. /\ Moved(runs[r], target).progress = runs[r].progress
      /\ Moved(runs[r], target).status # "completed"
      /\ Moved(runs[r], target).owner = runs[r].owner
  BY <1>1 DEF Moved, RunRow, ManualTargets
<1> QED
  BY <1>2, QuietRow DEF IInv

\* A claimed run that starts counts nothing.
LEMMA QuietStart ==
  ASSUME IInv, NEW r \in Runs, StartClaimedCollectionRun(r, Self)
  PROVE  QuietCentre
BY QuietMove DEF StartClaimedCollectionRun, Moved, ManualTargets

\* A run that is created has counted nothing and has no device.
LEMMA QuietCreate ==
  ASSUME IInv, NEW r \in Runs, NEW c \in Campaigns, CreateCollectionRun(r, c)
  PROVE  QuietCentre
<1>1. runs'[r].owner = NoDevice /\ runs'[r].status = "ready"
        /\ \A x \in Runs \ {r} : runs'[x] = runs[x]
  BY DEF CreateCollectionRun, IInv, TypeOK
<1> QED
  BY <1>1 DEF QuietCentre, Exists, CreateCollectionRun

\* A request to pause a run that may have no effect.
LEMMA BestEffortStep ==
  ASSUME IInv, NEW r \in Runs, BestEffort(r, "paused")
  PROVE  IInv' /\ StepsOK /\ QuietCentre
<1>1. CASE ChangeRunStatusByDevice(r, Self, "paused")
  BY <1>1, DeviceStep, QuietMove, SyncAssumption DEF ChangeRunStatusByDevice, ManualTargets
<1>2. CASE UNCHANGED runVars
  BY <1>2, CentreUnchanged, QuietUnchanged
<1> QED
  BY <1>1, <1>2 DEF BestEffort

\* A report of a checkpoint's counters.
LEMMA ConfirmStep ==
  ASSUME IInv, NEW r \in Runs, NEW p \in Progress, ReportCollectionRunProgress(r, Self, p)
  PROVE  IInv' /\ StepsOK /\ Confirms(r, p)
<1>1. IInv' /\ StepsOK
  BY ReportStep, SyncAssumption
<1>2. Exists(r) /\ runs[r].owner = Self /\ runs[r].status = "running"
  BY DEF ReportCollectionRunProgress, AcceptsReport
<1>3. runs[r] \in RunRow
  BY <1>2, ExistingRow
<1>4. /\ runs'[r] = Reported(runs[r], RulesOf(r), p)
      /\ \A x \in Runs \ {r} : runs'[x] = runs[x]
  BY DEF ReportCollectionRunProgress, IInv, TypeOK
<1>5. Reported(runs[r], RulesOf(r), p).progress = p
        /\ Reported(runs[r], RulesOf(r), p).owner = runs[r].owner
  BY <1>3 DEF Reported, RunRow
<1> QED
  BY <1>1, <1>2, <1>4, <1>5 DEF Confirms

CentreStep ==
  /\ IInv' /\ StepsOK
  /\ \/ QuietCentre
     \/ pc = "report" /\ Confirms(loaded, mem.progress)
     \/ \E p \in lateReports : Confirms(p.run, p.progress)

\* Every step of the collector and its surroundings is a step of the centre.
LEMMA CentreSteps ==
  ASSUME SyncInv, [SyncNext]_vars
  PROVE  CentreStep
<1>1. IInv /\ (pc \in Starting \cup Collecting => loaded \in Runs)
  BY DEF SyncInv, AwaitsOK, SyncTypeOK
<1>2. mem.progress \in Progress
  BY CheckpointType DEF SyncInv, SyncTypeOK
<1>3. ASSUME UNCHANGED runVars
      PROVE  CentreStep
  BY <1>1, <1>3, CentreUnchanged, QuietUnchanged DEF CentreStep
<1>4. CASE StartClaim
  BY <1>1, <1>4, ClaimStep, QuietClaim, SyncAssumption DEF StartClaim, CentreStep, Starting
<1>5. CASE StartRun
  BY <1>1, <1>5, StartStep, QuietStart, SyncAssumption DEF StartRun, CentreStep, Starting
<1>6. CASE StartResume
  BY <1>1, <1>6, DeviceStep, QuietMove, SyncAssumption
     DEF StartResume, ChangeRunStatusByDevice, CentreStep, Starting, ManualTargets
<1>7. CASE StartFailed \/ Stopping \/ Failing
  BY <1>1, <1>7, BestEffortStep DEF StartFailed, Stopping, Failing, CentreStep, Starting, Collecting
<1>8. CASE ReportAnswered \/ ReportLost
  BY <1>1, <1>2, <1>3, <1>8, ConfirmStep DEF ReportAnswered, ReportLost, CentreStep, Collecting
<1>9. CASE ControlApplied
  <2>1. control.run \in Runs /\ TargetOf[control.action] \in ManualTargets
    BY <1>9 DEF ControlApplied, SyncInv, SyncTypeOK, Actions, TargetOf, ManualTargets
  <2> QED
    BY <1>1, <1>9, <2>1, DeviceStep, QuietMove, SyncAssumption
       DEF ControlApplied, ChangeRunStatusByDevice, CentreStep
<1>10. CASE LateReport
  <2>1. PICK p \in lateReports :
          IF AcceptsReport(p.run, Self, p.progress)
            THEN ReportCollectionRunProgress(p.run, Self, p.progress)
            ELSE UNCHANGED runVars
    BY <1>10 DEF LateReport
  <2>2. p.run \in Runs /\ p.progress \in Progress
    BY DEF SyncInv, SyncTypeOK, Reports
  <2> QED
    BY <1>1, <1>3, <2>1, <2>2, ConfirmStep DEF CentreStep
<1>11. CASE Elsewhere
  <2>1. ASSUME NEW r \in Runs, NEW c \in Campaigns, CreateCollectionRun(r, c)
        PROVE  CentreStep
    BY <1>1, <2>1, CreateStep, QuietCreate DEF CentreStep
  <2>2. ASSUME NEW r \in Runs, NEW target \in ManualTargets, ChangeRunStatusByUser(r, target)
        PROVE  CentreStep
    BY <1>1, <2>2, UserStep, QuietMove DEF CentreStep, ChangeRunStatusByUser
  <2>3. ASSUME NEW r \in Runs, NEW d \in Devices, ClaimCollectionRun(r, d)
        PROVE  CentreStep
    BY <1>1, <2>3, ClaimStep, QuietClaim DEF CentreStep
  <2> QED
    BY <1>11, <2>1, <2>2, <2>3 DEF Elsewhere
<1>12. CASE \/ StartAborted \/ StartAlreadyRunning \/ StartCollecting
            \/ LoopTop \/ LoopStopped \/ SyncCheck \/ LoopFails
            \/ NoNewItem \/ SeenCreator \/ (\E c \in Creators : SkipCreator(c))
            \/ (\E c \in Creators, pass \in BOOLEAN : ObservationInvalid(c, pass))
            \/ (\E c \in Creators, pass \in BOOLEAN : Observe(c, pass)) \/ InspectionStopped
            \/ TransientFault \/ RecoveryCancelled
  BY <1>3, <1>12
     DEF StartAborted, StartAlreadyRunning, StartCollecting, LoopTop, LoopStopped, SyncCheck,
         LoopFails, NoNewItem, SeenCreator, SkipCreator, Observe, ObservationInvalid, Discovered, InspectionStopped,
         TransientFault, RecoveryCancelled
<1>13. CASE \/ Enqueue \/ SendAnswered \/ SendLost \/ SendRefused \/ Acknowledged
            \/ EvidenceAnswered \/ EvidenceLost \/ WaitInterrupted \/ WaitFails \/ WaitOver \/ Clear
            \/ Ending \/ ControlEnds \/ ControlServer \/ Crash \/ BrowserClosed \/ LateBatch
            \/ UNCHANGED vars
  BY <1>3, <1>13
     DEF Enqueue, SendAnswered, SendLost, SendRefused, Acknowledged, EvidenceAnswered,
         EvidenceLost, WaitInterrupted, WaitFails, WaitOver, Clear, Ending, ControlEnds,
         ControlServer, Boot, StartRequest, ControlRequest, Crash, BrowserClosed, LateBatch, vars
<1> QED
  BY <1>4, <1>5, <1>6, <1>7, <1>8, <1>9, <1>10, <1>11, <1>12, <1>13
     DEF SyncNext, Collector, Environment

-----------------------------------------------------------------------------
(* The checkpoints that the loop writes.                                   *)

\* Counting raises the counters that are named and leaves the others.
LEMMA AdvanceType ==
  ASSUME NEW p \in Progress, NEW metrics
  PROVE  /\ Advance(p, metrics) \in Progress
         /\ \A m \in Metrics : Advance(p, metrics)[m] = IF m \in metrics THEN p[m] + 1 ELSE p[m]
         /\ \A m \in Metrics : p[m] <= Advance(p, metrics)[m]
BY DEF Advance, Progress

\* An author's page that yields no observation.
LEMMA CountedCheckpoint ==
  ASSUME NEW c \in Checkpoints, c.pending = NoObservation,
         NEW metrics, "candidatesFound" \notin metrics, NEW seen \in SUBSET Creators,
         NEW d, d = [c EXCEPT !.progress = Advance(@, metrics), !.seen = seen]
  PROVE  /\ d \in Checkpoints /\ d.pending = NoObservation
         /\ d.progress["candidatesFound"] = c.progress["candidatesFound"]
         /\ \A m \in Metrics : c.progress[m] <= d.progress[m]
<1>1. c.progress \in Progress
  BY CheckpointType
<1>2. d = [progress |-> Advance(c.progress, metrics), seen |-> seen,
           pending |-> c.pending, shot |-> c.shot]
  BY DEF Checkpoints
<1> QED
  BY <1>1, <1>2, AdvanceType DEF Checkpoints, Metrics

\* A new identity is that of no observation there is or was.
LEMMA FreshObservation ==
  ASSUME SyncTypeOK, NEW id \in FreshId, NEW o, o.id = id
  PROVE  id \in 1..MaxObservations /\ o \notin ingested
BY DEF FreshId

\* A page that yields one.
LEMMA ObservedCheckpoint ==
  ASSUME SyncTypeOK, loaded \in Runs, NEW creator \in Creators, NEW pass \in BOOLEAN,
         NEW id \in FreshId
  PROVE  LET o == [id |-> id, run |-> loaded, creator |-> creator, pass |-> pass]
             c == [progress |-> Advance(mem.progress, {"feedItemsSeen", "creatorProfilesSeen"}
                                    \cup IF pass THEN {"candidatesFound"} ELSE {}),
                   seen     |-> mem.seen \cup {creator},
                   pending  |-> o,
                   shot     |-> pass]
         IN  /\ o \in Observations /\ o \notin ingested /\ o.run = loaded
             /\ c \in Checkpoints /\ c.pending = o /\ c.shot = o.pass
             /\ c.progress["candidatesFound"] =
                  mem.progress["candidatesFound"] + IF o.pass THEN 1 ELSE 0
             /\ \A m \in Metrics : mem.progress[m] <= c.progress[m]
<1> DEFINE o == [id |-> id, run |-> loaded, creator |-> creator, pass |-> pass]
           metrics == {"feedItemsSeen", "creatorProfilesSeen"}
                        \cup IF pass THEN {"candidatesFound"} ELSE {}
           c == [progress |-> Advance(mem.progress, metrics), seen |-> mem.seen \cup {creator},
                 pending |-> o, shot |-> pass]
<1>1. id \in 1..MaxObservations /\ o \notin ingested
  BY FreshObservation
<1>2. o \in Observations /\ o.run = loaded /\ o.pass = pass
  BY <1>1 DEF Observations
<1>3. mem.progress \in Progress /\ mem.seen \in SUBSET Creators
  BY CheckpointType DEF SyncTypeOK
<1>4. "candidatesFound" \in metrics <=> pass
  OBVIOUS
<1> HIDE DEF metrics
<1>5. /\ Advance(mem.progress, metrics) \in Progress
      /\ Advance(mem.progress, metrics)["candidatesFound"] =
           mem.progress["candidatesFound"] + IF pass THEN 1 ELSE 0
      /\ \A m \in Metrics : mem.progress[m] <= Advance(mem.progress, metrics)[m]
  BY <1>3, <1>4, AdvanceType DEF Metrics, Progress
<1>6. /\ c.progress = Advance(mem.progress, metrics) /\ c.seen = mem.seen \cup {creator}
      /\ c.pending = o /\ c.shot = pass
  OBVIOUS
<1>7. c \in Checkpoints
  BY <1>2, <1>3, <1>5 DEF Checkpoints
<1> HIDE DEF c, o
<1> QED
  BY <1>1, <1>2, <1>5, <1>6, <1>7 DEF c, o, metrics

\* The clock goes on in memory only.
LEMMA TickedProgress ==
  ASSUME NEW p \in Progress, NEW tick \in Nat,
         NEW q, q = [m \in Metrics |-> IF m = "elapsedSeconds" THEN p[m] + tick ELSE p[m]]
  PROVE  q \in Progress /\ SameCounts(p, q)
BY DEF Progress, SameCounts

\* Time that is added to a checkpoint changes nothing that is counted.
LEMMA TickedCheckpoint ==
  ASSUME NEW c \in Checkpoints, NEW tick \in {0, 1}
  PROVE  LET d == [c EXCEPT !.progress["elapsedSeconds"] = @ + tick]
         IN  /\ d \in Checkpoints /\ d.pending = c.pending /\ d.shot = c.shot
             /\ SameCounts(c.progress, d.progress)
<1> DEFINE p == [m \in Metrics |->
                   IF m = "elapsedSeconds" THEN c.progress[m] + tick ELSE c.progress[m]]
           d == [c EXCEPT !.progress["elapsedSeconds"] = @ + tick]
<1>1. c.progress \in Progress
  BY CheckpointType
<1>2. /\ d.seen = c.seen /\ d.pending = c.pending /\ d.shot = c.shot
      /\ d = [progress |-> d.progress, seen |-> d.seen, pending |-> d.pending, shot |-> d.shot]
  BY DEF Checkpoints
<1>3. d.progress = p
  BY <1>1 DEF Checkpoints, Progress, Metrics
<1>4. tick \in Nat
  OBVIOUS
<1>5. p \in Progress /\ SameCounts(c.progress, p)
  BY <1>1, <1>4, TickedProgress
<1> HIDE DEF p, d
<1>6. d \in Checkpoints
  BY <1>2, <1>3, <1>5 DEF Checkpoints
<1> QED
  BY <1>2, <1>3, <1>5, <1>6 DEF d

\* A run without a checkpoint starts with what the centre has counted for it:
\* nothing, but perhaps for the clock.
LEMMA FirstCheckpoint ==
  ASSUME SyncInv, NEW r \in Runs, Visible(r), disk[r] = NoCheckpoint
  PROVE  /\ EmptyCheckpoint(runs[r].progress) \in Checkpoints
         /\ CheckpointOK(r, EmptyCheckpoint(runs[r].progress))
         /\ Mirrors(disk[r], EmptyCheckpoint(runs[r].progress))
<1>1. Exists(r) /\ (runs[r].status = "ready" \/ runs[r].owner = Self)
  BY DEF Visible
<1>2. runs[r] \in RunRow /\ RowOK(runs[r], RulesOf(r))
  BY <1>1, ExistingRow DEF SyncInv
<1>3. runs[r].progress \in Progress
  BY <1>2 DEF RunRow
<1>4. SameCounts(ZeroProgress, runs[r].progress)
  <2>1. CASE runs[r].status = "ready"
    BY <1>2, <2>1 DEF RowOK, SameCounts
  <2>2. CASE runs[r].owner = Self
    <3>1. \A m \in Metrics \ {"elapsedSeconds"} : runs[r].progress[m] <= 0
      BY <1>1, <2>2 DEF SyncInv, CountersOK, NotAhead
    <3> QED
      BY <1>3, <3>1 DEF SameCounts, ZeroProgress, Progress
  <2> QED
    BY <1>1, <2>1, <2>2
<1>5. EmptyCheckpoint(runs[r].progress) \in Checkpoints
  BY <1>3 DEF EmptyCheckpoint, Checkpoints
<1> QED
  BY <1>4, <1>5, SyncAssumption DEF EmptyCheckpoint, CheckpointOK, Mirrors

-----------------------------------------------------------------------------
(* Every step and the files.                                               *)

\* Every step keeps files, memory, queue and centre in agreement, and makes a batch,
\* lets the delivered one go, or does neither.
LEMMA FileSteps ==
  ASSUME SyncInv, [SyncNext]_vars
  PROVE  FilesOK' /\ FileStep
<1>1. /\ SyncTypeOK /\ FilesOK
      /\ pc \in Starting \cup Collecting => loaded # NoRun
      /\ pc \in Collecting => disk[loaded] # NoCheckpoint
      /\ loaded # NoRun => loaded \in Runs
      /\ mem \in Checkpoints /\ CheckpointOK(loaded, mem)
  BY DEF SyncInv, AwaitsOK, SyncTypeOK, FilesOK
<1>2. ASSUME disk' = disk \/ (loaded # NoRun /\ Save), UNCHANGED <<loaded, mem>>,
             pc = "off" => pc' = "off",
             UNCHANGED <<queue, lateBatches, ingested, evidence>>
      PROVE  FilesOK' /\ FileStep
  BY <1>1, <1>2, KeepStep DEF FileStep
<1>3. CASE \/ StartAborted \/ StartClaim \/ StartRun \/ StartResume \/ StartAlreadyRunning
           \/ StartFailed \/ LoopStopped \/ SyncCheck \/ LoopFails \/ ReportLost
           \/ InspectionStopped \/ SendRefused \/ WaitInterrupted \/ WaitFails \/ WaitOver
           \/ Stopping \/ ControlEnds
  BY <1>2, <1>3
     DEF StartAborted, StartClaim, StartRun, StartResume, StartMoves, StartAlreadyRunning,
         StartFailed, LoopStopped, SyncCheck, LoopFails, ReportLost, InspectionStopped,
         SendRefused, WaitInterrupted, WaitFails, WaitOver, Stopping, ControlEnds,
         netVars, dataVars, Waiting
<1>4. CASE \/ BrowserClosed \/ LateReport \/ Elsewhere \/ UNCHANGED vars
           \/ \E r \in Runs, action \in Actions : ControlRequest(r, action)
  BY <1>2, <1>4
     DEF BrowserClosed, LateReport, Elsewhere, ControlRequest, vars, localVars, netVars, dataVars
<1>5. CASE \/ StartCollecting \/ ReportAnswered \/ NoNewItem \/ TransientFault
           \/ RecoveryCancelled \/ Ending \/ Failing \/ ControlApplied
  <2>1. CASE ControlApplied
    <3>1. control.run \in Runs
      BY <1>1, <2>1 DEF ControlApplied, SyncTypeOK
    <3> QED
      BY <1>2, <2>1, <3>1, SyncAssumption DEF ControlApplied, netVars, dataVars
  <2>2. CASE NoNewItem
    BY <1>1, <1>2, <2>2 DEF NoNewItem, Discovered, SaveAs, Save, netVars, dataVars, Collecting
  <2>3. CASE StartCollecting \/ ReportAnswered
    BY <1>1, <1>2, <2>3
       DEF StartCollecting, ReportAnswered, netVars, dataVars, Starting, Collecting
  <2>4. CASE TransientFault \/ RecoveryCancelled \/ Ending \/ Failing
    BY <1>1, <1>2, <2>4
       DEF TransientFault, RecoveryCancelled, Ending, Failing, netVars, dataVars, Collecting, Waiting
  <2> QED
    BY <1>5, <2>1, <2>2, <2>3, <2>4
<1>6. CASE Enqueue
  <2>1. PendingOnDisk = {mem.pending}
    BY <1>1, <1>6, PendingIsInMemory DEF Enqueue, SyncInv, AwaitsOK, Flushing
  <2> QED
    BY <1>1, <1>6, <2>1, KeepStep DEF Enqueue, netVars, dataVars, FileStep
<1>7. CASE SendAnswered \/ SendLost
  <2>1. queue \subseteq PendingOnDisk
    BY <1>1 DEF FilesOK
  <2>2. pc = "send" /\ loaded # NoRun /\ UNCHANGED <<queue, loaded, mem, evidence>>
    BY <1>1, <1>7 DEF SendAnswered, SendLost, Collecting, Flushing
  <2>3. disk' = disk \/ (loaded # NoRun /\ Save)
    BY <1>7, <2>2 DEF SendAnswered, SendLost
  <2>4. lateBatches' \subseteq lateBatches \cup PendingOnDisk
    BY <1>7, <2>1 DEF SendAnswered, SendLost, netVars
  <2>5. ingested \subseteq ingested' /\ ingested' \subseteq ingested \cup PendingOnDisk
    BY <1>7, <2>1 DEF SendAnswered, SendLost, IngestCollectorBatch, IngestCreatorObservation
  <2> QED
    BY <1>1, <2>2, <2>3, <2>4, <2>5, KeepStep DEF FileStep
<1>8. CASE Acknowledged
  BY <1>1, <1>8, KeepStep DEF Acknowledged, netVars, dataVars, FileStep
<1>9. CASE EvidenceAnswered \/ EvidenceLost
  <2>1. pc = "evidence" /\ loaded # NoRun
    BY <1>1, <1>9 DEF EvidenceAnswered, EvidenceLost, Collecting, Flushing
  <2> QED
    BY <1>1, <1>9, <2>1, KeepStep
       DEF EvidenceAnswered, EvidenceLost, UploadEvidence, netVars, FileStep
<1>10. CASE LateBatch
  <2>1. /\ UNCHANGED <<disk, queue, loaded, mem, pc, evidence>>
        /\ lateBatches' \subseteq lateBatches /\ ingested \subseteq ingested'
        /\ ingested' \subseteq ingested \cup lateBatches
    BY <1>10
       DEF LateBatch, localVars, IngestCollectorBatch, IngestCreatorObservation
  <2>2. lateBatches \subseteq ingested \cup PendingOnDisk
    BY <1>1 DEF FilesOK
  <2> QED
    BY <1>1, <2>1, <2>2, KeepStep DEF FileStep
<1>11. CASE Boot
  <2>1. UNCHANGED <<disk, queue, lateBatches, ingested, evidence>>
    BY <1>11 DEF Boot, netVars, dataVars
  <2>2. CASE \E r \in Runs : HasPending(disk[r])
    <3>1. PICK r \in Runs : HasPending(disk[r]) /\ loaded' = r /\ mem' = disk[r]
      BY <1>11, <2>2 DEF Boot
    <3>2. disk[r] # NoCheckpoint /\ r # NoRun
      BY <3>1, SyncAssumption DEF HasPending
    <3>3. \A s \in Runs : HasPending(disk[s]) => s = r
      BY <1>1, <3>1 DEF FilesOK
    <3>4. CheckpointOK(loaded', mem') /\ Mirrors(disk[loaded'], mem')
      BY <1>1, <3>1, <3>2 DEF FilesOK, Mirrors, SameCounts
    <3> QED
      BY <1>1, <2>1, <3>1, <3>2, <3>3, <3>4, ReloadStep DEF FileStep
  <2>3. CASE ~ \E r \in Runs : HasPending(disk[r])
    <3>1. UNCHANGED <<loaded, mem>>
      BY <1>11, <2>3 DEF Boot
    <3>2. FilesOK' /\ Grows /\ Kept
      BY <1>1, <2>1, <2>3, <3>1, ReloadStep DEF FilesOK
    <3> QED
      BY <3>2 DEF FileStep
  <2> QED
    BY <2>2, <2>3
<1>12. CASE Crash
  <2>1. /\ loaded' = NoRun /\ pc' = "off" /\ mem'.pending = NoObservation
        /\ UNCHANGED <<disk, queue, lateBatches, ingested, evidence>>
    BY <1>12 DEF Crash, EmptyCheckpoint, netVars, dataVars
  <2>2. CheckpointOK(loaded', mem')
    BY <2>1 DEF CheckpointOK
  <2> QED
    BY <1>1, <2>1, <2>2, ReloadStep DEF FileStep
<1>13. ASSUME NEW r \in Runs, StartRequest(r)
       PROVE  FilesOK' /\ FileStep
  <2>1. /\ UNCHANGED <<disk, queue, lateBatches, ingested, evidence>>
        /\ loaded' = r /\ r # NoRun /\ pc = "idle" /\ Visible(r)
        /\ mem' = IF disk[r] = NoCheckpoint THEN EmptyCheckpoint(runs[r].progress) ELSE disk[r]
    BY <1>13, SyncAssumption DEF StartRequest, netVars, dataVars
  <2>2. CheckpointOK(r, mem') /\ Mirrors(disk[r], mem')
    <3>1. CASE disk[r] = NoCheckpoint
      BY <2>1, <3>1, FirstCheckpoint
    <3>2. CASE disk[r] # NoCheckpoint
      BY <1>1, <2>1, <3>2 DEF FilesOK, Mirrors, SameCounts
    <3> QED
      BY <3>1, <3>2
  <2>3. \A s \in Runs : HasPending(disk[s]) => s = r
    <3>1. ASSUME NEW s \in Runs, HasPending(disk[s])
          PROVE  s = r
      <4>1. loaded = s /\ disk[s] # NoCheckpoint /\ disk[s].pending # NoObservation
        BY <1>1, <2>1, <3>1 DEF FilesOK, HasPending
      <4>2. mem.pending # NoObservation
        BY <1>1, <4>1, SyncAssumption DEF FilesOK, Mirrors
      <4> QED
        BY <1>1, <1>13, <4>1, <4>2, CheckpointType DEF StartRequest
    <3> QED
      BY <3>1
  <2> QED
    BY <1>1, <2>1, <2>2, <2>3, ReloadStep DEF FileStep
<1>14. CASE LoopTop
  <2>1. PICK tick \in {0, 1} : mem' = [mem EXCEPT !.progress["elapsedSeconds"] = @ + tick]
    BY <1>14 DEF LoopTop
  <2>2. mem'.pending = mem.pending /\ mem'.shot = mem.shot /\ SameCounts(mem.progress, mem'.progress)
    BY <1>1, <2>1, TickedCheckpoint
  <2>3. /\ UNCHANGED <<disk, queue, loaded, lateBatches, ingested, evidence>> /\ pc = "loop"
    BY <1>14 DEF LoopTop, netVars, dataVars
  <2>4. loaded # NoRun /\ disk[loaded] # NoCheckpoint
    BY <1>1, <2>3 DEF Collecting
  <2>5. CheckpointOK(loaded, mem') /\ Mirrors(disk[loaded], mem')
    BY <1>1, <2>2, <2>4 DEF FilesOK, CheckpointOK, Mirrors, SameCounts
  <2>6. \A r \in Runs : HasPending(disk[r]) => loaded = r
    BY <1>1, <2>3 DEF FilesOK
  <2> QED
    BY <1>1, <2>3, <2>4, <2>5, <2>6, ReloadStep DEF FileStep
<1>15. ASSUME pc = "discover"
       PROVE  /\ loaded \in Runs /\ loaded # NoRun /\ disk[loaded] # NoCheckpoint
              /\ mem.pending = NoObservation
  BY <1>1, <1>15, SyncAssumption DEF Collecting, SyncInv, AwaitsOK, CheckpointOK
<1>16. CASE SeenCreator
  <2> DEFINE c == [mem EXCEPT !.progress = Advance(@, {"feedItemsSeen"}), !.seen = mem.seen]
  <2>1. /\ pc = "discover" /\ UNCHANGED <<queue, loaded, lateBatches, ingested, evidence>>
        /\ SaveAs([mem EXCEPT !.progress = Advance(@, {"feedItemsSeen"})])
    BY <1>16 DEF SeenCreator, NewItem, Discovered, netVars, dataVars
  <2>2. [mem EXCEPT !.progress = Advance(@, {"feedItemsSeen"})] = c
    BY <1>1 DEF Checkpoints
  <2>3. /\ c \in Checkpoints /\ c.pending = NoObservation
        /\ c.progress["candidatesFound"] = mem.progress["candidatesFound"]
        /\ \A m \in Metrics : mem.progress[m] <= c.progress[m]
    BY <1>1, <1>15, <2>1, CountedCheckpoint, CheckpointType
  <2> HIDE DEF c
  <2> QED
    BY <1>1, <1>15, <2>1, <2>2, <2>3, CountStep DEF FileStep
<1>17. ASSUME NEW creator \in Creators, SkipCreator(creator)
       PROVE  FilesOK' /\ FileStep
  <2> DEFINE c == [mem EXCEPT !.progress = Advance(@, {"feedItemsSeen", "creatorProfilesSeen"}),
                              !.seen = mem.seen \cup {creator}]
  <2>1. /\ pc = "discover" /\ UNCHANGED <<queue, loaded, lateBatches, ingested, evidence>>
        /\ SaveAs(c)
    BY <1>17 DEF SkipCreator, NewItem, Discovered, netVars, dataVars
  <2>2. mem.seen \cup {creator} \in SUBSET Creators
    BY <1>1, CheckpointType
  <2>3. /\ c \in Checkpoints /\ c.pending = NoObservation
        /\ c.progress["candidatesFound"] = mem.progress["candidatesFound"]
        /\ \A m \in Metrics : mem.progress[m] <= c.progress[m]
    BY <1>1, <1>15, <2>1, <2>2, CountedCheckpoint
  <2> HIDE DEF c
  <2> QED
    BY <1>1, <1>15, <2>1, <2>3, CountStep DEF FileStep
<1>18. ASSUME NEW creator \in Creators, NEW pass \in BOOLEAN, Observe(creator, pass)
       PROVE  FilesOK' /\ FileStep
  <2>1. /\ pc = "discover" /\ UNCHANGED <<queue, loaded, lateBatches, ingested, evidence>>
    BY <1>18 DEF Observe, NewItem, Discovered, netVars, dataVars
  <2>2. PICK id \in FreshId :
          SaveAs([progress |-> Advance(mem.progress, {"feedItemsSeen", "creatorProfilesSeen"}
                                 \cup IF pass THEN {"candidatesFound"} ELSE {}),
                  seen     |-> mem.seen \cup {creator},
                  pending  |-> [id |-> id, run |-> loaded, creator |-> creator, pass |-> pass],
                  shot     |-> pass])
    BY <1>18 DEF Observe, Discovered
  <2> DEFINE o == [id |-> id, run |-> loaded, creator |-> creator, pass |-> pass]
             c == [progress |-> Advance(mem.progress, {"feedItemsSeen", "creatorProfilesSeen"}
                                  \cup IF pass THEN {"candidatesFound"} ELSE {}),
                   seen     |-> mem.seen \cup {creator},
                   pending  |-> o,
                   shot     |-> pass]
  <2>3. /\ o \in Observations /\ o \notin ingested /\ o.run = loaded
        /\ c \in Checkpoints /\ c.pending = o /\ c.shot = o.pass
        /\ c.progress["candidatesFound"] =
             mem.progress["candidatesFound"] + IF o.pass THEN 1 ELSE 0
        /\ \A m \in Metrics : mem.progress[m] <= c.progress[m]
    BY <1>1, <1>15, <2>1, ObservedCheckpoint
  <2>4. SaveAs(c)
    BY <2>2
  <2> HIDE DEF c, o
  <2> QED
    BY <1>1, <1>15, <2>1, <2>3, <2>4, ObserveStep DEF FileStep
<1>19. CASE Clear
  <2>1. /\ pc = "clear" /\ UNCHANGED <<queue, loaded, lateBatches, ingested, evidence>>
        /\ SaveAs([mem EXCEPT !.pending = NoObservation, !.shot = FALSE])
    BY <1>19 DEF Clear, netVars, dataVars
  <2>2. /\ loaded # NoRun /\ disk[loaded] # NoCheckpoint
        /\ mem.pending # NoObservation /\ mem.pending \in ingested /\ queue = {}
        /\ mem.pending.pass => mem.pending \in evidence
    BY <2>1 DEF SyncInv, AwaitsOK, Collecting, Flushing
  <2> QED
    BY <1>1, <2>1, <2>2, ClearStep DEF FileStep
<1>20. ASSUME NEW creator \in Creators, NEW pass \in BOOLEAN, ObservationInvalid(creator, pass)
       PROVE  FilesOK' /\ FileStep
  <2>1. /\ UNCHANGED <<disk, queue, loaded, lateBatches, ingested, evidence>>
        /\ pc = "discover" /\ mem' = [mem EXCEPT !.shot = pass]
    BY <1>20 DEF ObservationInvalid, NewItem, netVars, dataVars
  <2>2. mem'.pending = NoObservation /\ mem'.progress = mem.progress
    BY <1>1, <1>15, <2>1 DEF Checkpoints
  <2>3. CheckpointOK(loaded, mem') /\ Mirrors(disk[loaded], mem')
    BY <1>1, <1>15, <2>1, <2>2 DEF FilesOK, CheckpointOK, Mirrors, SameCounts
  <2>4. \A r \in Runs : HasPending(disk[r]) => loaded = r
    BY <1>1, <2>1 DEF FilesOK
  <2> QED
    BY <1>1, <1>15, <2>1, <2>3, <2>4, ReloadStep DEF FileStep
<1> QED
  BY <1>3, <1>4, <1>5, <1>6, <1>7, <1>8, <1>9, <1>10, <1>11, <1>12, <1>13, <1>14, <1>16, <1>17,
     <1>18, <1>19, <1>20
     DEF SyncNext, Collector, Environment, ControlServer

-----------------------------------------------------------------------------
(* Every step and the awaits.                                              *)

\* A step that changes neither the memory nor the tables nor the queue can go
\* to an await that knows no more than the one before.
LEMMA AwaitsSteps ==
  ASSUME SyncInv, [SyncNext]_vars
  PROVE  AwaitsOK'
<1>1. SyncTypeOK /\ FilesOK /\ AwaitsOK /\ mem \in Checkpoints /\ (HasPending(mem) <=> mem.pending # NoObservation)
  BY CheckpointType DEF SyncInv, SyncTypeOK
<1>2. loaded # NoRun => loaded \in Runs
  BY DEF SyncInv, SyncTypeOK
<1>3. \A r \in Runs : disk[r] # NoCheckpoint => disk'[r] # NoCheckpoint
  BY FileSteps DEF FileStep, Grows
<1> USE DEF Starting, Collecting, Flushing, Waiting
<1>4. CASE StartAborted \/ StartClaim \/ StartRun \/ StartResume \/ StartAlreadyRunning \/ StartFailed
  BY <1>1, <1>4
     DEF StartAborted, StartClaim, StartRun, StartResume, StartMoves, StartAlreadyRunning,
         StartFailed, AwaitsOK, dataVars
<1>5. CASE StartCollecting
  BY <1>1, <1>2, <1>5, CheckpointType DEF StartCollecting, Save, AwaitsOK, SyncTypeOK, dataVars
<1>6. CASE LoopTop
  <2>1. PICK tick \in {0, 1} : mem' = [mem EXCEPT !.progress["elapsedSeconds"] = @ + tick]
    BY <1>6 DEF LoopTop
  <2>2. mem'.pending = mem.pending
    BY <1>1, <2>1, TickedCheckpoint
  <2> QED
    BY <1>1, <1>6, <2>2 DEF LoopTop, AwaitsOK, dataVars
<1>7. CASE \/ LoopStopped \/ SyncCheck \/ LoopFails \/ ReportLost \/ InspectionStopped
           \/ SendRefused \/ WaitInterrupted \/ WaitFails \/ Stopping
  BY <1>1, <1>7
     DEF LoopStopped, SyncCheck, LoopFails, ReportLost, InspectionStopped, SendRefused,
         WaitInterrupted, WaitFails, Stopping, AfterLoop, AwaitsOK, dataVars
<1>8. CASE WaitOver
  BY <1>1, <1>8 DEF WaitOver, AfterWait, AwaitsOK, dataVars
<1>9. CASE ReportAnswered \/ TransientFault \/ RecoveryCancelled \/ Ending \/ Failing
  BY <1>1, <1>2, <1>3, <1>9
     DEF ReportAnswered, TransientFault, RecoveryCancelled, Ending, Failing, AfterLoop, AwaitsOK,
         dataVars
<1>10. CASE NoNewItem \/ SeenCreator \/ (\E c \in Creators : SkipCreator(c))
  <2>1. pc = "discover" /\ pc' \in {"loop", "failing"} /\ UNCHANGED loaded
    BY <1>10 DEF NoNewItem, SeenCreator, SkipCreator, NewItem, Discovered
  <2> QED
    BY <1>1, <1>2, <1>3, <2>1 DEF AwaitsOK
<1>11. ASSUME NEW c \in Creators, NEW pass \in BOOLEAN, Observe(c, pass)
       PROVE  AwaitsOK'
  <2>1. pc = "discover" /\ pc' = "enqueue" /\ UNCHANGED loaded
    BY <1>11 DEF Observe, NewItem, Discovered
  <2>2. PICK id \in FreshId :
          mem' = [progress |-> Advance(mem.progress, {"feedItemsSeen", "creatorProfilesSeen"}
                                 \cup IF pass THEN {"candidatesFound"} ELSE {}),
                  seen     |-> mem.seen \cup {c},
                  pending  |-> [id |-> id, run |-> loaded, creator |-> c, pass |-> pass],
                  shot     |-> pass]
    BY <1>11 DEF Observe, Discovered, SaveAs
  <2>3. mem'.pending \in Observations
    BY <1>1, <1>2, <2>1, <2>2, FreshObservation DEF AwaitsOK, Observations
  <2> QED
    BY <1>1, <1>2, <1>3, <2>1, <2>3, SyncAssumption DEF AwaitsOK
<1>12. CASE Enqueue
  BY <1>1, <1>12 DEF Enqueue, AwaitsOK, dataVars
<1>13. CASE SendAnswered \/ SendLost
  <2>1. pc = "send" /\ UNCHANGED <<queue, loaded, mem, evidence>> /\ pc' \in {"acked", "waitBatch"}
    BY <1>13 DEF SendAnswered, SendLost
  <2>2. pc' = "acked" => mem.pending \in ingested'
    <3>1. PendingOnDisk = {mem.pending} /\ queue \subseteq PendingOnDisk
      BY <1>1, <2>1, PendingIsInMemory DEF AwaitsOK, FilesOK
    <3> QED
      BY <1>13, <3>1 DEF SendAnswered, SendLost, IngestCollectorBatch, IngestCreatorObservation
  <2> QED
    BY <1>1, <1>2, <1>3, <2>1, <2>2 DEF AwaitsOK
<1>14. CASE Acknowledged
  <2>1. PendingOnDisk = {mem.pending} /\ queue \subseteq PendingOnDisk
    BY <1>1, <1>14, PendingIsInMemory DEF Acknowledged, AwaitsOK, FilesOK
  <2>2. mem.shot = mem.pending.pass
    BY <1>1, <1>14 DEF Acknowledged, AwaitsOK, FilesOK, CheckpointOK
  <2> QED
    BY <1>1, <1>14, <2>1, <2>2 DEF Acknowledged, AwaitsOK, dataVars
<1>15. CASE EvidenceAnswered \/ EvidenceLost
  BY <1>1, <1>2, <1>3, <1>15 DEF EvidenceAnswered, EvidenceLost, UploadEvidence, AwaitsOK
<1>16. CASE Clear
  <2>1. /\ pc = "clear" /\ UNCHANGED loaded /\ pc' \in {"loop", "stopping", "sync"}
        /\ mem' = [mem EXCEPT !.pending = NoObservation, !.shot = FALSE]
    BY <1>16 DEF Clear, SaveAs
  <2>2. mem'.pending = NoObservation
    BY <1>1, <2>1 DEF Checkpoints
  <2> QED
    BY <1>1, <1>2, <1>3, <2>1, <2>2 DEF AwaitsOK
<1>17. CASE ControlApplied \/ ControlEnds \/ BrowserClosed
             \/ \E r \in Runs, action \in Actions : ControlRequest(r, action)
  BY <1>1, <1>2, <1>3, <1>17
     DEF ControlApplied, ControlEnds, BrowserClosed, ControlRequest, AwaitsOK, dataVars
<1>18. CASE Boot \/ Crash \/ \E r \in Runs : StartRequest(r)
  BY <1>1, <1>18, SyncAssumption DEF Boot, Crash, StartRequest, AwaitsOK, dataVars
<1>19. CASE LateBatch
  BY <1>1, <1>19
     DEF LateBatch, IngestCollectorBatch, IngestCreatorObservation, AwaitsOK, localVars
<1>20. CASE LateReport \/ Elsewhere \/ UNCHANGED vars
  BY <1>1, <1>20 DEF LateReport, Elsewhere, AwaitsOK, vars, localVars, dataVars
<1>21. ASSUME NEW c \in Creators, NEW pass \in BOOLEAN, ObservationInvalid(c, pass)
       PROVE  AwaitsOK'
  BY <1>1, <1>2, <1>3, <1>21 DEF ObservationInvalid, NewItem, AwaitsOK
<1> QED
  BY <1>4, <1>5, <1>6, <1>7, <1>8, <1>9, <1>10, <1>11, <1>12, <1>13, <1>14, <1>15, <1>16, <1>17,
     <1>18, <1>19, <1>20, <1>21
     DEF SyncNext, Collector, Environment, ControlServer

-----------------------------------------------------------------------------
(* Every step and the types.                                               *)

\* The memory and the files hold checkpoints, of a run of the centre's.
CheckpointsTyped ==
  /\ disk \in [Runs -> Checkpoints \cup {NoCheckpoint}]
  /\ loaded \in Runs \cup {NoRun} /\ mem \in Checkpoints

\* What is on the disk and in memory remains a checkpoint.
LEMMA CheckpointSteps ==
  ASSUME SyncInv, [SyncNext]_vars
  PROVE  CheckpointsTyped'
<1>1. /\ disk \in [Runs -> Checkpoints \cup {NoCheckpoint}]
      /\ loaded \in Runs \cup {NoRun} /\ mem \in Checkpoints /\ SyncTypeOK
      /\ pc \in Starting \cup Collecting => loaded \in Runs
      /\ pc = "discover" => mem.pending = NoObservation
  BY DEF SyncInv, SyncTypeOK, AwaitsOK, FilesOK, CheckpointOK
<1>2. ASSUME disk' = disk \/ Save, UNCHANGED <<loaded, mem>>
      PROVE  CheckpointsTyped'
  BY <1>1, <1>2 DEF Save, CheckpointsTyped
<1>3. ASSUME NEW c \in Checkpoints, SaveAs(c), UNCHANGED loaded
      PROVE  CheckpointsTyped'
  BY <1>1, <1>3 DEF SaveAs, CheckpointsTyped
<1>4. CASE \/ StartAborted \/ StartClaim \/ StartRun \/ StartResume \/ StartAlreadyRunning
           \/ StartCollecting \/ StartFailed \/ LoopStopped \/ SyncCheck \/ LoopFails
           \/ ReportAnswered \/ ReportLost \/ InspectionStopped \/ TransientFault
           \/ RecoveryCancelled
  BY <1>2, <1>4
     DEF StartAborted, StartClaim, StartRun, StartResume, StartMoves, StartAlreadyRunning,
         StartCollecting, StartFailed, LoopStopped, SyncCheck, LoopFails, ReportAnswered,
         ReportLost, InspectionStopped, TransientFault, RecoveryCancelled
<1>5. CASE \/ Enqueue \/ SendAnswered \/ SendLost \/ SendRefused \/ Acknowledged
           \/ EvidenceAnswered \/ EvidenceLost \/ WaitInterrupted \/ WaitFails \/ WaitOver
           \/ Stopping \/ Ending \/ Failing \/ ControlApplied \/ ControlEnds
  BY <1>2, <1>5
     DEF Enqueue, SendAnswered, SendLost, SendRefused, Acknowledged, EvidenceAnswered,
         EvidenceLost, WaitInterrupted, WaitFails, WaitOver, Stopping, Ending, Failing,
         ControlApplied, ControlEnds
<1>6. CASE \/ BrowserClosed \/ LateBatch \/ LateReport \/ Elsewhere \/ UNCHANGED vars
           \/ \E r \in Runs, action \in Actions : ControlRequest(r, action)
  BY <1>2, <1>6
     DEF BrowserClosed, LateBatch, LateReport, Elsewhere, ControlRequest, vars, localVars
<1>7. CASE NoNewItem
  BY <1>1, <1>3, <1>7 DEF NoNewItem, Discovered
<1>8. CASE SeenCreator
  <2> DEFINE c == [mem EXCEPT !.progress = Advance(@, {"feedItemsSeen"}), !.seen = mem.seen]
  <2>1. /\ pc = "discover" /\ UNCHANGED loaded
        /\ SaveAs([mem EXCEPT !.progress = Advance(@, {"feedItemsSeen"})])
    BY <1>8 DEF SeenCreator, NewItem, Discovered
  <2>2. [mem EXCEPT !.progress = Advance(@, {"feedItemsSeen"})] = c
    BY <1>1 DEF Checkpoints
  <2>3. c \in Checkpoints
    BY <1>1, <2>1, CountedCheckpoint, CheckpointType
  <2> HIDE DEF c
  <2> QED
    BY <1>3, <2>1, <2>2, <2>3
<1>9. ASSUME NEW creator \in Creators, SkipCreator(creator)
      PROVE  CheckpointsTyped'
  <2> DEFINE c == [mem EXCEPT !.progress = Advance(@, {"feedItemsSeen", "creatorProfilesSeen"}),
                              !.seen = mem.seen \cup {creator}]
  <2>1. pc = "discover" /\ UNCHANGED loaded /\ SaveAs(c)
    BY <1>9 DEF SkipCreator, NewItem, Discovered
  <2>2. mem.seen \cup {creator} \in SUBSET Creators
    BY <1>1, CheckpointType
  <2>3. c \in Checkpoints
    BY <1>1, <2>1, <2>2, CountedCheckpoint
  <2> HIDE DEF c
  <2> QED
    BY <1>3, <2>1, <2>3
<1>10. ASSUME NEW creator \in Creators, NEW pass \in BOOLEAN, Observe(creator, pass)
       PROVE  CheckpointsTyped'
  <2>1. pc = "discover" /\ UNCHANGED loaded
    BY <1>10 DEF Observe, NewItem, Discovered
  <2>2. PICK id \in FreshId :
          SaveAs([progress |-> Advance(mem.progress, {"feedItemsSeen", "creatorProfilesSeen"}
                                 \cup IF pass THEN {"candidatesFound"} ELSE {}),
                  seen     |-> mem.seen \cup {creator},
                  pending  |-> [id |-> id, run |-> loaded, creator |-> creator, pass |-> pass],
                  shot     |-> pass])
    BY <1>10 DEF Observe, Discovered
  <2> DEFINE o == [id |-> id, run |-> loaded, creator |-> creator, pass |-> pass]
             c == [progress |-> Advance(mem.progress, {"feedItemsSeen", "creatorProfilesSeen"}
                                  \cup IF pass THEN {"candidatesFound"} ELSE {}),
                   seen     |-> mem.seen \cup {creator},
                   pending  |-> o,
                   shot     |-> pass]
  <2>3. c \in Checkpoints
    BY <1>1, <2>1, ObservedCheckpoint DEF Collecting
  <2>4. SaveAs(c)
    BY <2>2
  <2> HIDE DEF c, o
  <2> QED
    BY <1>3, <2>1, <2>3, <2>4
<1>11. CASE Clear
  <2>1. [mem EXCEPT !.pending = NoObservation, !.shot = FALSE] \in Checkpoints
    BY <1>1 DEF Checkpoints
  <2> QED
    BY <1>3, <1>11, <2>1 DEF Clear
<1>12. CASE LoopTop
  <2>1. PICK tick \in {0, 1} : mem' = [mem EXCEPT !.progress["elapsedSeconds"] = @ + tick]
    BY <1>12 DEF LoopTop
  <2>2. mem' \in Checkpoints
    BY <1>1, <2>1, TickedCheckpoint
  <2> QED
    BY <1>1, <1>12, <2>2 DEF LoopTop, CheckpointsTyped
<1>13. CASE Boot \/ Crash
  <2>1. EmptyCheckpoint(ZeroProgress) \in Checkpoints
    BY DEF EmptyCheckpoint, Checkpoints, ZeroProgress, Progress
  <2>2. \A r \in Runs : HasPending(disk[r]) => disk[r] \in Checkpoints
    BY <1>1 DEF HasPending
  <2> QED
    BY <1>1, <1>13, <2>1, <2>2 DEF Boot, Crash, CheckpointsTyped
<1>14. ASSUME NEW r \in Runs, StartRequest(r)
       PROVE  CheckpointsTyped'
  BY <1>1, <1>14, FirstCheckpoint DEF StartRequest, CheckpointsTyped
<1>15. ASSUME NEW creator \in Creators, NEW pass \in BOOLEAN, ObservationInvalid(creator, pass)
       PROVE  CheckpointsTyped'
  <2>1. [mem EXCEPT !.shot = pass] \in Checkpoints
    BY <1>1 DEF Checkpoints
  <2> QED
    BY <1>1, <1>15, <2>1 DEF ObservationInvalid, CheckpointsTyped
<1> QED
  BY <1>4, <1>5, <1>6, <1>7, <1>8, <1>9, <1>10, <1>11, <1>12, <1>13, <1>14, <1>15
     DEF SyncNext, Collector, Environment, ControlServer

\* A late report is one that the loop was about to make.
LEMMA LateReportSteps ==
  ASSUME [SyncNext]_vars
  PROVE  \/ lateReports' \subseteq lateReports
         \/ /\ pc = "report"
            /\ lateReports' = lateReports \cup {[run |-> loaded, progress |-> mem.progress]}
BY DEF SyncNext, Collector, Environment, ControlServer, vars, netVars,
       StartAborted, StartClaim, StartRun, StartResume, StartMoves, StartAlreadyRunning,
       StartCollecting, StartFailed, LoopTop, LoopStopped, SyncCheck, LoopFails, ReportAnswered,
       ReportLost, NoNewItem, SeenCreator, SkipCreator, Observe, ObservationInvalid, Discovered, InspectionStopped,
       TransientFault, RecoveryCancelled, Enqueue, SendAnswered, SendLost, SendRefused,
       Acknowledged, EvidenceAnswered, EvidenceLost, WaitInterrupted, WaitFails, WaitOver, Clear,
       Stopping, Ending, Failing, ControlApplied, ControlEnds, Boot, StartRequest, ControlRequest,
       Crash, BrowserClosed, LateBatch, LateReport, Elsewhere

\* Only an upload that the centre confirms adds to the evidence.
LEMMA EvidenceSteps ==
  ASSUME [SyncNext]_vars
  PROVE  \/ evidence' = evidence
         \/ mem.pending \in ingested /\ evidence' = evidence \cup {mem.pending}
<1>1. CASE EvidenceAnswered \/ EvidenceLost
  BY <1>1 DEF EvidenceAnswered, EvidenceLost, UploadEvidence, AssertUploadScope
<1>2. CASE SyncNext /\ ~EvidenceAnswered /\ ~EvidenceLost
  BY <1>2
     DEF SyncNext, Collector, Environment, ControlServer, netVars, dataVars,
         StartAborted, StartClaim, StartRun, StartResume, StartMoves, StartAlreadyRunning,
         StartCollecting, StartFailed, LoopTop, LoopStopped, SyncCheck, LoopFails, ReportAnswered,
         ReportLost, NoNewItem, SeenCreator, SkipCreator, Observe, ObservationInvalid, Discovered, InspectionStopped,
         TransientFault, RecoveryCancelled, Enqueue, SendAnswered, SendLost, SendRefused,
         Acknowledged, WaitInterrupted, WaitFails, WaitOver, Clear, Stopping, Ending, Failing,
         ControlApplied, ControlEnds, Boot, StartRequest, ControlRequest, Crash, BrowserClosed,
         LateBatch, LateReport, Elsewhere
<1>3. CASE UNCHANGED vars
  BY <1>3 DEF vars, dataVars
<1> QED
  BY <1>1, <1>2, <1>3

\* The loop's own variables.
LEMMA ScalarSteps ==
  ASSUME SyncInv, [SyncNext]_vars
  PROVE  /\ pc' \in Steps /\ view' \in Statuses
         /\ firstPass' \in BOOLEAN /\ stopped' \in BOOLEAN
         /\ control' \in [run : Runs, action : Actions] \cup {NoControl}
<1>1. /\ pc \in Steps /\ view \in Statuses
      /\ firstPass \in BOOLEAN /\ stopped \in BOOLEAN
      /\ control \in [run : Runs, action : Actions] \cup {NoControl}
  BY DEF SyncInv, SyncTypeOK
<1> USE DEF Steps, Starting, Collecting, Flushing, Waiting
<1>2. CASE \/ StartAborted \/ StartClaim \/ StartRun \/ StartResume \/ StartAlreadyRunning
           \/ StartCollecting \/ StartFailed \/ LoopTop \/ LoopStopped \/ SyncCheck \/ LoopFails
           \/ ReportAnswered \/ ReportLost
  BY <1>1, <1>2
     DEF StartAborted, StartClaim, StartRun, StartResume, StartMoves, StartAlreadyRunning,
         StartCollecting, StartFailed, LoopTop, LoopStopped, SyncCheck, LoopFails, ReportAnswered,
         ReportLost, AfterLoop
<1>3. CASE \/ NoNewItem \/ SeenCreator \/ (\E c \in Creators : SkipCreator(c))
           \/ (\E c \in Creators, pass \in BOOLEAN : ObservationInvalid(c, pass))
           \/ (\E c \in Creators, pass \in BOOLEAN : Observe(c, pass)) \/ InspectionStopped
           \/ TransientFault \/ RecoveryCancelled
  BY <1>1, <1>3
     DEF NoNewItem, SeenCreator, SkipCreator, Observe, ObservationInvalid, Discovered, InspectionStopped,
         TransientFault, RecoveryCancelled
<1>4. CASE \/ Enqueue \/ SendAnswered \/ SendLost \/ SendRefused \/ Acknowledged
           \/ EvidenceAnswered \/ EvidenceLost \/ WaitInterrupted \/ WaitFails \/ WaitOver \/ Clear
           \/ Stopping \/ Ending \/ Failing \/ ControlApplied \/ ControlEnds
  BY <1>1, <1>4
     DEF Enqueue, SendAnswered, SendLost, SendRefused, Acknowledged, EvidenceAnswered,
         EvidenceLost, WaitInterrupted, WaitFails, WaitOver, AfterWait, Clear, Stopping, Ending,
         Failing, ControlApplied, ControlEnds
<1>5. CASE \/ Boot \/ Crash \/ BrowserClosed \/ LateBatch \/ LateReport \/ Elsewhere
           \/ UNCHANGED vars
  BY <1>1, <1>5
     DEF Boot, Crash, BrowserClosed, LateBatch, LateReport, Elsewhere, vars, localVars, Statuses
<1>7. CASE \E r \in Runs, action \in Actions : ControlRequest(r, action)
  BY <1>1, <1>7 DEF ControlRequest
<1>6. CASE \E r \in Runs : StartRequest(r)
  BY <1>1, <1>6 DEF StartRequest
<1> QED
  BY <1>2, <1>3, <1>4, <1>5, <1>6, <1>7 DEF SyncNext, Collector, Environment, ControlServer

\* The type invariant.
LEMMA TypeSteps ==
  ASSUME SyncInv, [SyncNext]_vars
  PROVE  SyncTypeOK'
<1>1. TypeOK'
  BY CentreSteps DEF CentreStep, IInv
<1>2. /\ disk' \in [Runs -> Checkpoints \cup {NoCheckpoint}]
      /\ loaded' \in Runs \cup {NoRun} /\ mem' \in Checkpoints
  BY CheckpointSteps DEF CheckpointsTyped
<1>3. FilesOK' /\ FileStep
  BY FileSteps
<1>4. PendingOnDisk \subseteq Observations /\ PendingOnDisk' \subseteq Observations
  <2>1. \A r \in Runs : HasPending(disk[r]) => disk[r].pending \in Observations
    BY CheckpointType DEF SyncInv, SyncTypeOK, HasPending
  <2>2. \A r \in Runs : HasPending(disk'[r]) => disk'[r].pending \in Observations
    BY <1>2, CheckpointType DEF HasPending
  <2> QED
    BY <2>1, <2>2, PendingMembers
<1>5. ingested \subseteq ingested' /\ ingested' \subseteq Observations
  BY <1>3, <1>4 DEF FileStep, Kept, Observed, Released, SyncInv, SyncTypeOK
<1>6. queue' \subseteq Observations /\ lateBatches' \subseteq Observations
  BY <1>3, <1>4, <1>5 DEF FilesOK
<1>7. lateReports' \subseteq Reports
  <2>1. pc = "report" => loaded \in Runs
    BY DEF SyncInv, AwaitsOK, SyncTypeOK, Collecting
  <2>2. mem.progress \in Progress /\ lateReports \subseteq Reports
    BY CheckpointType DEF SyncInv, SyncTypeOK
  <2> QED
    BY <2>1, <2>2, LateReportSteps DEF Reports
<1>8. evidence' \subseteq ingested'
  BY <1>5, EvidenceSteps DEF SyncInv, SyncTypeOK
<1>9. \A r \in Runs : HasPending(disk'[r]) =>
        disk'[r].pending.run = r /\ disk'[r].shot = disk'[r].pending.pass
  BY <1>3 DEF FilesOK, CheckpointOK, HasPending
<1> QED
  BY <1>1, <1>2, <1>5, <1>6, <1>7, <1>8, <1>9, ScalarSteps DEF SyncTypeOK

-----------------------------------------------------------------------------
(* Every step and the counters.                                            *)

\* The files only grow, so what was not ahead of them is not ahead of them.
LEMMA NotAheadKept ==
  ASSUME SyncTypeOK, SyncTypeOK', Grows, NEW r \in Runs, NEW p \in Progress, NotAhead(r, p)
  PROVE  NotAhead(r, p)'
<1>1. ASSUME NEW m \in Metrics \ {"elapsedSeconds"}
      PROVE  p[m] <= IF disk'[r] = NoCheckpoint THEN 0 ELSE disk'[r].progress[m]
  <2>1. p[m] \in Nat
    BY <1>1 DEF Progress
  <2>2. disk'[r] # NoCheckpoint => disk'[r].progress[m] \in Nat
    BY <1>1, CheckpointType DEF SyncTypeOK, Progress
  <2>3. disk[r] # NoCheckpoint => disk[r].progress[m] \in Nat
    BY <1>1, CheckpointType DEF SyncTypeOK, Progress
  <2>4. CASE disk[r] = NoCheckpoint
    BY <1>1, <2>1, <2>2, <2>4 DEF NotAhead
  <2>5. CASE disk[r] # NoCheckpoint
    BY <1>1, <2>1, <2>2, <2>3, <2>5 DEF NotAhead, Grows
  <2> QED
    BY <2>4, <2>5
<1> QED
  BY <1>1 DEF NotAhead

\* No counter at all is ahead of no file.
LEMMA ZeroNotAhead ==
  ASSUME SyncTypeOK, NEW r \in Runs
  PROVE  NotAhead(r, ZeroProgress)
BY CheckpointType DEF SyncTypeOK, Progress, NotAhead, ZeroProgress

\* What the loop is about to report is not ahead of the file.
LEMMA ReportNotAhead ==
  ASSUME SyncInv, pc = "report"
  PROVE  loaded \in Runs /\ mem.progress \in Progress /\ NotAhead(loaded, mem.progress)
<1>1. /\ loaded \in Runs /\ loaded # NoRun /\ disk[loaded] # NoCheckpoint
      /\ SyncTypeOK /\ FilesOK
  BY DEF SyncInv, AwaitsOK, SyncTypeOK, Collecting
<1>2. mem.progress \in Progress
  BY <1>1, CheckpointType DEF SyncTypeOK
<1> QED
  BY <1>1, <1>2, MemoryCounts DEF NotAhead

\* A report, in time or late, stores what the file has counted already; no
\* other step stores a counter.
LEMMA CounterSteps ==
  ASSUME SyncInv, [SyncNext]_vars
  PROVE  CountersOK'
<1>1. SyncTypeOK /\ SyncTypeOK' /\ Grows /\ IInv /\ CountersOK
  BY FileSteps, TypeSteps DEF FileStep, SyncInv
<1>2. /\ \A p \in lateReports : p.run \in Runs /\ p.progress \in Progress /\ NotAhead(p.run, p.progress)
      /\ pc = "report" =>
           loaded \in Runs /\ mem.progress \in Progress /\ NotAhead(loaded, mem.progress)
  BY <1>1, ReportNotAhead DEF SyncTypeOK, Reports, CountersOK
<1>3. ASSUME NEW p \in lateReports'
      PROVE  NotAhead(p.run, p.progress)'
  <2>1. p.run \in Runs /\ p.progress \in Progress /\ NotAhead(p.run, p.progress)
    BY <1>2, <1>3, LateReportSteps
  <2> QED
    BY <1>1, <2>1, NotAheadKept
<1>4. \A r \in Runs : Exists(r) =>
        /\ runs[r].progress \in Progress
        /\ runs[r].owner = NoDevice => runs[r].progress = ZeroProgress
  BY <1>1, ExistingRow DEF RunRow, RowOK
<1>5. ASSUME NEW r \in Runs, Exists(r), runs[r].owner = Self
      PROVE  NotAhead(r, runs[r].progress)'
             \/ runs'[r].progress # runs[r].progress
  <2>1. NotAhead(r, runs[r].progress) /\ runs[r].progress \in Progress
    BY <1>1, <1>4, <1>5 DEF CountersOK
  <2> DEFINE p == runs[r].progress
  <2> HIDE DEF p
  <2>2. NotAhead(r, p) /\ p \in Progress
    BY <2>1 DEF p
  <2>3. runs'[r].progress = p => NotAhead(r, runs[r].progress)'
    BY <1>1, <2>2, NotAheadKept DEF NotAhead
  <2> QED
    BY <2>3 DEF p
<1>6. ASSUME NEW p \in Progress, NEW x \in Runs, NotAhead(x, p), Confirms(x, p),
             NEW r \in Runs, runs'[r] # NoRun, runs'[r].owner = Self
      PROVE  NotAhead(r, runs[r].progress)'
  <2>1. CASE r = x
    BY <1>1, <1>6, <2>1, NotAheadKept DEF Confirms, NotAhead
  <2>2. CASE r # x
    BY <1>5, <1>6, <2>2 DEF Confirms, Exists
  <2> QED
    BY <2>1, <2>2
<1>7. ASSUME QuietCentre, NEW r \in Runs, runs'[r] # NoRun, runs'[r].owner = Self
      PROVE  NotAhead(r, runs[r].progress)'
  <2>1. Exists(r)
    BY <1>7, SyncAssumption, ConstantsAssumption DEF QuietCentre
  <2>2. runs'[r].progress = runs[r].progress
    BY <1>7, <2>1 DEF QuietCentre
  <2>3. CASE runs[r].owner = Self
    BY <1>5, <2>1, <2>2, <2>3
  <2>4. CASE runs[r].owner = NoDevice
    <3>1. runs'[r].progress = ZeroProgress
      BY <1>4, <2>1, <2>2, <2>4
    <3>2. NotAhead(r, ZeroProgress)' /\ ZeroProgress' = ZeroProgress
      BY <1>1, ZeroNotAhead, NotAheadKept DEF Progress, ZeroProgress
    <3> QED
      BY <3>1, <3>2 DEF NotAhead
  <2> QED
    BY <1>7, <2>1, <2>3, <2>4 DEF QuietCentre
<1>8. ASSUME NEW r \in Runs, runs'[r] # NoRun, runs'[r].owner = Self
      PROVE  NotAhead(r, runs[r].progress)'
  BY <1>2, <1>6, <1>7, <1>8, CentreSteps DEF CentreStep
<1> QED
  BY <1>3, <1>8 DEF CountersOK, Exists

-----------------------------------------------------------------------------
(* The invariant.                                                          *)

\* Nothing has been collected yet.
LEMMA SyncInitInvariant == SyncInit => SyncInv
<1> SUFFICES ASSUME SyncInit
             PROVE  SyncInv
  OBVIOUS
<1>1. IInv /\ TypeOK
  BY InitInvariant DEF SyncInit, IInv
<1>2. /\ \A r \in Runs : disk[r] = NoCheckpoint /\ ~HasPending(disk[r])
      /\ \A r \in Runs : ~Exists(r)
  BY DEF SyncInit, Init, HasPending, Exists
<1>3. mem \in Checkpoints /\ mem.pending = NoObservation
  BY DEF SyncInit, EmptyCheckpoint, Checkpoints, ZeroProgress, Progress
<1>4. SyncTypeOK
  BY <1>1, <1>2, <1>3 DEF SyncInit, SyncTypeOK, Steps, Statuses
<1>5. FilesOK
  BY <1>2, <1>3 DEF SyncInit, FilesOK, CheckpointOK
<1>6. AwaitsOK
  BY DEF SyncInit, AwaitsOK, Starting, Collecting, Flushing, Waiting
<1>7. CountersOK
  BY <1>2 DEF SyncInit, CountersOK
<1> QED
  BY <1>1, <1>4, <1>5, <1>6, <1>7 DEF SyncInv

\* Every step keeps it.
LEMMA SyncNextInvariant == SyncInv /\ [SyncNext]_vars => SyncInv'
BY CentreSteps, TypeSteps, FileSteps, AwaitsSteps, CounterSteps DEF CentreStep, SyncInv

\* The inductive invariant holds in every reachable state.
THEOREM SyncInvariance == SyncSpec => []SyncInv
BY SyncInitInvariant, SyncNextInvariant, PTL DEF SyncSpec

-----------------------------------------------------------------------------
(* The safety properties that follow from it.                              *)

\* Every variable has its shape, a pending batch is in the file of its own
\* run and has a screenshot beside it exactly when it passes.
THEOREM SyncTypeCorrect == SyncSpec => []SyncTypeOK
<1>1. SyncInv => SyncTypeOK
  BY DEF SyncInv
<1> QED
  BY <1>1, SyncInvariance, PTL

\* A batch file never outlives the checkpoint's own copy of the batch.
THEOREM QueueNeverOrphaned == SyncSpec => []QueueMatchesCheckpoint
<1>1. SyncInv => QueueMatchesCheckpoint
  BY DEF SyncInv, FilesOK, QueueMatchesCheckpoint
<1> QED
  BY <1>1, SyncInvariance, PTL

\* An outstanding batch is the one in memory whenever the process runs.
LEMMA LoadedPending == SyncInv => PendingCheckpointIsLoaded
<1> SUFFICES ASSUME SyncInv, pc # "off", NEW r \in Runs, HasPending(disk[r])
             PROVE  loaded = r /\ HasPending(mem)
  BY DEF PendingCheckpointIsLoaded
<1>1. loaded = r /\ loaded # NoRun
  BY SyncAssumption DEF SyncInv, FilesOK
<1>2. mem.pending # NoObservation
  BY <1>1 DEF SyncInv, FilesOK, Mirrors, HasPending
<1> QED
  BY <1>1, <1>2, CheckpointType DEF SyncInv, SyncTypeOK

\* A batch on the machine belongs to the checkpoint that is loaded
\* (collector/runtime.ts:334): no other run begins over it.
THEOREM PendingIsLoaded == SyncSpec => []PendingCheckpointIsLoaded
BY LoadedPending, SyncInvariance, PTL

\* A candidate that has left the machine has its screenshot at the centre.
THEOREM EvidenceComesFirst == SyncSpec => []EvidenceBeforeRelease
<1>1. SyncInv => EvidenceBeforeRelease
  BY DEF SyncInv, FilesOK, EvidenceBeforeRelease
<1> QED
  BY <1>1, SyncInvariance, PTL

\* The counters the centre stores are never ahead of the checkpoint file.
THEOREM ServerNeverAhead == SyncSpec => []ServerCountsBehindCheckpoint
<1>1. SyncInv => ServerCountsBehindCheckpoint
  BY DEF SyncInv, CountersOK, NotAhead, ServerCountsBehindCheckpoint
<1> QED
  BY <1>1, SyncInvariance, PTL

-----------------------------------------------------------------------------
(* The refinement.                                                         *)

\* A step of the collector and its surroundings makes an observation, has the
\* centre take it, lets go of it, or leaves both as they are.
LEMMA DeliveryStep ==
  ASSUME SyncInv, [SyncNext]_vars
  PROVE  [Delivery!Next]_<<PendingOnDisk, ingested>>
<1>1. Kept \/ Observed \/ Released
  BY FileSteps DEF FileStep
<1>2. CASE Kept
  <2>1. PendingOnDisk \subseteq Observations
    BY PendingMembers, CheckpointType DEF SyncInv, SyncTypeOK, HasPending
  <2>2. PendingOnDisk' = PendingOnDisk
    BY <1>2 DEF Kept
  <2>3. CASE ingested' = ingested
    BY <2>2, <2>3
  <2>4. CASE ingested' # ingested
    <3>1. PICK o \in PendingOnDisk : ingested' = ingested \cup {o}
      BY <1>2, <2>4 DEF Kept
    <3>2. o \in Observations /\ o \notin ingested
      BY <2>1, <2>4, <3>1
    <3>3. Delivery!Accept(o)
      BY <2>2, <3>1, <3>2 DEF Delivery!Accept
    <3> QED
      BY <3>2, <3>3 DEF Delivery!Next
  <2> QED
    BY <2>3, <2>4
<1>3. CASE Observed
  <2>1. PICK o \in Observations : /\ PendingOnDisk = {} /\ PendingOnDisk' = {o}
                                  /\ o \notin ingested /\ ingested' = ingested
    BY <1>3 DEF Observed
  <2>2. Delivery!Observe(o)
    BY <2>1 DEF Delivery!Observe
  <2> QED
    BY <2>2 DEF Delivery!Next
<1>4. CASE Released
  <2>1. PICK o \in Observations : /\ PendingOnDisk = {o} /\ PendingOnDisk' = {}
                                  /\ o \in ingested /\ ingested' = ingested
    BY <1>4 DEF Released
  <2>2. Delivery!Release(o)
    BY <2>1 DEF Delivery!Release
  <2> QED
    BY <2>2 DEF Delivery!Next
<1> QED
  BY <1>1, <1>2, <1>3, <1>4

\* The collector implements ObservationDelivery: observations are made one at
\* a time, stay on the machine until the centre has them, and are taken once.
THEOREM ObservationsAreDeliveredOnce == SyncSpec => DeliversOnce
<1>1. SyncInit => Delivery!Init
  <2>1. SyncInit => PendingOnDisk = {}
    BY DEF SyncInit, PendingOnDisk, HasPending
  <2> QED
    BY <2>1 DEF SyncInit, Delivery!Init
<1>2. SyncInv /\ [SyncNext]_vars => [Delivery!Next]_<<PendingOnDisk, ingested>>
  BY DeliveryStep
<1> QED
  BY <1>1, <1>2, SyncInvariance, PTL DEF SyncSpec, DeliversOnce, Delivery!Spec

-----------------------------------------------------------------------------
(* The books.                                                              *)

\* The candidates of a run, whether the centre has them or not.
CandidatesOf(r) == {o \in ingested \cup PendingOnDisk : o.run = r /\ o.pass}

BooksInv == IsFiniteSet(ingested) /\ CheckpointConservation

\* What the property counts, before and after a step.
LEMMA BooksCount ==
  /\ CheckpointConservation <=>
       \A r \in Runs : disk[r] # NoCheckpoint =>
         disk[r].progress["candidatesFound"] = Cardinality(CandidatesOf(r))
  /\ CheckpointConservation' <=>
       \A r \in Runs : disk'[r] # NoCheckpoint =>
         disk'[r].progress["candidatesFound"] = Cardinality(CandidatesOf(r)')
<1>1. ASSUME NEW r \in Runs
      PROVE  CandidatesOf(r) = PassingOf(r) \cup {o \in PendingOnDisk : o.run = r /\ o.pass}
  BY DEF CandidatesOf, PassingOf
<1>2. ASSUME NEW r \in Runs
      PROVE  CandidatesOf(r)' = PassingOf(r)' \cup {o \in PendingOnDisk' : o.run = r /\ o.pass}
  BY DEF CandidatesOf, PassingOf
<1> QED
  BY <1>1, <1>2 DEF CheckpointConservation

\* A run that has no file has no candidates.
LEMMA NoCandidatesYet ==
  ASSUME SyncInv, NEW r \in Runs, disk[r] = NoCheckpoint
  PROVE  CandidatesOf(r) = {}
<1>1. \A o \in ingested : o.run # r
  BY DEF SyncInv, FilesOK
<1>2. \A o \in PendingOnDisk : o.run # r
  BY PendingMembers DEF SyncInv, FilesOK, CheckpointOK, HasPending
<1> QED
  BY <1>1, <1>2 DEF CandidatesOf

\* Each kind of step keeps the books balanced.
LEMMA BooksStep ==
  ASSUME SyncInv, BooksInv, [SyncNext]_vars
  PROVE  BooksInv'
<1>1. Kept \/ Observed \/ Released
  BY FileSteps DEF FileStep
<1>2. /\ IsFiniteSet(ingested)
      /\ \A r \in Runs : disk[r] # NoCheckpoint =>
           disk[r].progress["candidatesFound"] = Cardinality(CandidatesOf(r))
  BY BooksCount DEF BooksInv
<1>3. SUFFICES /\ IsFiniteSet(ingested')
               /\ \A r \in Runs : disk'[r] # NoCheckpoint =>
                    disk'[r].progress["candidatesFound"] = Cardinality(CandidatesOf(r)')
  BY BooksCount DEF BooksInv
<1>4. CASE Kept
  <2>1. IsFiniteSet(ingested')
    BY <1>2, <1>4, FS_AddElement DEF Kept
  <2>2. ASSUME NEW r \in Runs
        PROVE  CandidatesOf(r)' = CandidatesOf(r)
    BY <1>4 DEF Kept, CandidatesOf
  <2>3. ASSUME NEW r \in Runs, disk'[r] # NoCheckpoint
        PROVE  disk'[r].progress["candidatesFound"] = Cardinality(CandidatesOf(r))
    <3>1. CASE disk[r] = NoCheckpoint
      BY <1>4, <2>3, <3>1, NoCandidatesYet, FS_EmptySet DEF Kept, KeepsFile
    <3>2. CASE disk[r] # NoCheckpoint
      BY <1>2, <1>4, <2>3, <3>2 DEF Kept, KeepsFile
    <3> QED
      BY <3>1, <3>2
  <2> QED
    BY <2>1, <2>2, <2>3
<1>5. CASE Observed
  <2>1. PICK o \in Observations :
          /\ PendingOnDisk = {} /\ PendingOnDisk' = {o}
          /\ o \notin ingested /\ ingested' = ingested
          /\ disk[o.run] # NoCheckpoint
          /\ disk'[o.run].progress["candidatesFound"] =
               disk[o.run].progress["candidatesFound"] + IF o.pass THEN 1 ELSE 0
          /\ \A r \in Runs \ {o.run} : disk'[r] = disk[r]
    BY <1>5 DEF Observed
  <2>2. ASSUME NEW r \in Runs
        PROVE  /\ IsFiniteSet(CandidatesOf(r)) /\ o \notin CandidatesOf(r)
               /\ CandidatesOf(r)' =
                    IF o.run = r /\ o.pass THEN CandidatesOf(r) \cup {o} ELSE CandidatesOf(r)
    <3>1. CandidatesOf(r) \subseteq ingested
      BY <2>1 DEF CandidatesOf
    <3>2. IsFiniteSet(CandidatesOf(r)) /\ o \notin CandidatesOf(r)
      BY <1>2, <2>1, <3>1, FS_Subset
    <3> QED
      BY <2>1, <3>2 DEF CandidatesOf
  <2>3. ASSUME NEW r \in Runs, disk'[r] # NoCheckpoint
        PROVE  disk'[r].progress["candidatesFound"] = Cardinality(CandidatesOf(r)')
    <3>1. CASE r = o.run /\ o.pass
      <4>1. Cardinality(CandidatesOf(r) \cup {o}) = Cardinality(CandidatesOf(r)) + 1
        BY <2>2, FS_AddElement
      <4> QED
        BY <1>2, <2>1, <2>2, <3>1, <4>1
    <3>2. CASE r = o.run /\ ~o.pass
      <4>1. Cardinality(CandidatesOf(r)) \in Nat
        BY <2>2, FS_CardinalityType
      <4> QED
        BY <1>2, <2>1, <2>2, <3>2, <4>1
    <3>3. CASE r # o.run
      BY <1>2, <2>1, <2>2, <2>3, <3>3
    <3> QED
      BY <3>1, <3>2, <3>3
  <2> QED
    BY <1>2, <2>1, <2>3
<1>6. CASE Released
  <2>1. ASSUME NEW r \in Runs
        PROVE  CandidatesOf(r)' = CandidatesOf(r)
    BY <1>6 DEF Released, CandidatesOf
  <2> QED
    BY <1>2, <1>6, <2>1 DEF Released
<1> QED
  BY <1>1, <1>4, <1>5, <1>6

\* The candidates a checkpoint counts are the passing observations the centre
\* has of that run and the outstanding one, through every crash and retry.
THEOREM BooksBalance == SyncSpec => []CheckpointConservation
<1>1. SyncInit => BooksInv
  <2>1. SyncInit => IsFiniteSet(ingested) /\ \A r \in Runs : disk[r] = NoCheckpoint
    BY FS_EmptySet DEF SyncInit
  <2> QED
    BY <2>1 DEF BooksInv, CheckpointConservation
<1>2. SyncInv /\ BooksInv /\ [SyncNext]_vars => BooksInv'
  BY BooksStep
<1>3. BooksInv => CheckpointConservation
  BY DEF BooksInv
<1> QED
  BY <1>1, <1>2, <1>3, SyncInvariance, PTL DEF SyncSpec

-----------------------------------------------------------------------------
(* A termination at the machine.                                           *)

\* Only a request that is carried out, or ends, or a crash takes the request
\* away, and only the first of them changes a run.
LEMMA ControlSteps ==
  ASSUME [SyncNext]_vars, control # NoControl, control' = NoControl, pc' # "off"
  PROVE  ControlApplied \/ UNCHANGED runVars
<1>1. CASE ControlApplied \/ ControlEnds
  BY <1>1 DEF ControlEnds
<1>2. CASE Crash \/ UNCHANGED vars
  BY <1>2 DEF Crash, vars
<1>3. CASE SyncNext /\ ~ControlApplied /\ ~ControlEnds /\ ~Crash
  BY <1>3
     DEF SyncNext, Collector, Environment, ControlServer, localVars,
         StartAborted, StartClaim, StartRun, StartResume, StartMoves, StartAlreadyRunning,
         StartCollecting, StartFailed, LoopTop, LoopStopped, SyncCheck, LoopFails, ReportAnswered,
         ReportLost, NoNewItem, SeenCreator, SkipCreator, Observe, ObservationInvalid, Discovered, InspectionStopped,
         TransientFault, RecoveryCancelled, Enqueue, SendAnswered, SendLost, SendRefused,
         Acknowledged, EvidenceAnswered, EvidenceLost, WaitInterrupted, WaitFails, WaitOver,
         Clear, Stopping, Ending, Failing, Boot, StartRequest, ControlRequest, BrowserClosed,
         LateBatch, LateReport, Elsewhere
<1> QED
  BY <1>1, <1>2, <1>3

\* A termination asked for at the machine is carried out only when the run has
\* no batch left on the machine.
THEOREM TerminationKeepsEvidence == SyncSpec => TerminateKeepsEvidence
<1>1. ASSUME SyncInv, [SyncNext]_vars, NEW r \in Runs,
             control # NoControl, control' = NoControl, pc' # "off",
             Exists(r), runs[r].status # "terminated", runs'[r].status = "terminated"
      PROVE  ~HasPending(disk[r])
  <2>1. ControlApplied
    BY <1>1, ControlSteps DEF runVars
  <2>2. /\ pc = "idle" /\ control.run \in Runs /\ control.action \in Actions
        /\ ~KeepsEvidence(control.run, control.action)
        /\ runs' = [runs EXCEPT ![control.run] = Moved(@, TargetOf[control.action])]
    BY <1>1, <2>1 DEF ControlApplied, ChangeRunStatusByDevice, SyncInv, SyncTypeOK
  <2>3. runs[r] \in RunRow /\ runs \in [Runs -> RunRow \cup {NoRun}]
    BY <1>1, ExistingRow DEF SyncInv, IInv, TypeOK
  <2>4. r = control.run
    BY <1>1, <2>2, <2>3
  <2>5. Moved(runs[r], TargetOf[control.action]).status = TargetOf[control.action]
    BY <2>3 DEF Moved, RunRow
  <2>6. control.action = "terminate"
    BY <1>1, <2>2, <2>3, <2>4, <2>5 DEF Actions, TargetOf
  <2>7. ~(loaded = r /\ HasPending(mem))
    BY <2>2, <2>4, <2>6 DEF KeepsEvidence
  <2> QED
    BY <1>1, <2>2, <2>7, LoadedPending DEF PendingCheckpointIsLoaded
<1>2. SyncInv /\ [SyncNext]_vars =>
        [\A r \in Runs :
           (control # NoControl /\ control' = NoControl /\ pc' # "off"
            /\ Exists(r) /\ runs[r].status # "terminated" /\ runs'[r].status = "terminated")
             => ~HasPending(disk[r])]_vars
  BY <1>1
<1> QED
  BY <1>2, SyncInvariance, PTL DEF SyncSpec, TerminateKeepsEvidence

-----------------------------------------------------------------------------
(* The centre inside the composition.                                      *)

\* However the collector's requests and those of members and other devices
\* interleave, are lost or come late, a run completes by its own rules only.
THEOREM SyncRunsCompleteByTheirRules == SyncSpec => []CompletionMatchesRules
<1>1. SyncInv => CompletionMatchesRules
  BY DEF SyncInv, IInv, RowOK, CompletionMatchesRules
<1> QED
  BY <1>1, SyncInvariance, PTL

\* A run that ended is not touched again, by a late report or by a collector
\* that has not noticed.
THEOREM SyncEndedRunsStay == SyncSpec => TerminalRunsAreFrozen
<1>1. SyncInv /\ [SyncNext]_vars =>
        [\A r \in Runs : (Exists(r) /\ runs[r].status \in TerminalStatuses) =>
           runs'[r] = runs[r]]_runVars
  BY CentreSteps DEF CentreStep, StepsOK, StepOK
<1> QED
  BY <1>1, SyncInvariance, PTL DEF SyncSpec, TerminalRunsAreFrozen

\* Reports that are repeated, reordered or served late never take a counter
\* of the centre back.
THEOREM SyncProgressGrows == SyncSpec => ProgressNeverRegresses
<1>1. SyncInv /\ [SyncNext]_vars =>
        [\A r \in Runs : Exists(r) =>
           \A m \in Metrics : runs'[r].progress[m] >= runs[r].progress[m]]_runVars
  BY CentreSteps DEF CentreStep, StepsOK, StepOK
<1> QED
  BY <1>1, SyncInvariance, PTL DEF SyncSpec, ProgressNeverRegresses

-----------------------------------------------------------------------------
(* Completion, when no report is served late.                              *)

\* The loop looks for creators only while the run is not completed.
DiscoversRunning ==
  pc \in {"discover", "recovering"} => ~(Exists(loaded) /\ runs[loaded].status = "completed")

DrainInv == CompletionDrainsPending /\ DiscoversRunning

\* The file of a run gets a batch only while the loop looks for creators.
LEMMA BatchComesFromDiscovery ==
  ASSUME SyncInv, [SyncNext]_vars, NEW r \in Runs, ~HasPending(disk[r]), HasPending(disk'[r])
  PROVE  pc = "discover" /\ r = loaded
<1>1. CASE disk' = disk
  BY <1>1
<1>2. CASE Save
  <2>1. SyncTypeOK /\ FilesOK
    BY DEF SyncInv
  <2>2. disk'[r] # disk[r]
    OBVIOUS
  <2>3. r = loaded /\ disk'[r] = mem
    BY <1>2, <2>1, <2>2 DEF Save, SyncTypeOK
  <2>4. loaded # NoRun /\ HasPending(mem)
    BY <2>3, SyncAssumption
  <2> QED
    BY <2>1, <2>3, <2>4 DEF FilesOK, Mirrors, HasPending
<1>3. CASE pc = "discover" /\ \E c : SaveAs(c)
  <2>1. disk \in [Runs -> Checkpoints \cup {NoCheckpoint}]
    BY DEF SyncInv, SyncTypeOK
  <2> QED
    BY <1>3, <2>1 DEF SaveAs
<1>4. CASE Clear
  <2>1. disk' = [disk EXCEPT ![loaded] = [mem EXCEPT !.pending = NoObservation, !.shot = FALSE]]
    BY <1>4 DEF Clear, SaveAs
  <2>2. disk \in [Runs -> Checkpoints \cup {NoCheckpoint}] /\ mem \in Checkpoints
    BY DEF SyncInv, SyncTypeOK
  <2>3. [mem EXCEPT !.pending = NoObservation, !.shot = FALSE].pending = NoObservation
    BY <2>2 DEF Checkpoints
  <2> QED
    BY <2>1, <2>2, <2>3 DEF HasPending
<1>5. disk' = disk \/ Save \/ (pc = "discover" /\ \E c : SaveAs(c)) \/ Clear
  <2>1. CASE \/ StartAborted \/ StartClaim \/ StartRun \/ StartResume \/ StartAlreadyRunning
             \/ StartCollecting \/ StartFailed \/ LoopTop \/ LoopStopped \/ SyncCheck \/ LoopFails
             \/ ReportAnswered \/ ReportLost \/ InspectionStopped \/ TransientFault
             \/ RecoveryCancelled
    BY <2>1
       DEF StartAborted, StartClaim, StartRun, StartResume, StartMoves, StartAlreadyRunning,
           StartCollecting, StartFailed, LoopTop, LoopStopped, SyncCheck, LoopFails,
           ReportAnswered, ReportLost, InspectionStopped, TransientFault, RecoveryCancelled
  <2>2. CASE NoNewItem \/ SeenCreator \/ (\E c \in Creators : SkipCreator(c))
             \/ (\E c \in Creators, pass \in BOOLEAN : ObservationInvalid(c, pass))
             \/ (\E c \in Creators, pass \in BOOLEAN : Observe(c, pass))
    BY <2>2
       DEF NoNewItem, SeenCreator, SkipCreator, Observe, ObservationInvalid, NewItem, Discovered
  <2>3. CASE \/ Enqueue \/ SendAnswered \/ SendLost \/ SendRefused \/ Acknowledged
             \/ EvidenceAnswered \/ EvidenceLost \/ WaitInterrupted \/ WaitFails \/ WaitOver
             \/ Clear \/ Stopping \/ Ending \/ Failing \/ ControlApplied \/ ControlEnds
    BY <2>3
       DEF Enqueue, SendAnswered, SendLost, SendRefused, Acknowledged, EvidenceAnswered,
           EvidenceLost, WaitInterrupted, WaitFails, WaitOver, Stopping, Ending, Failing,
           ControlApplied, ControlEnds
  <2>4. CASE Environment \/ UNCHANGED vars
    BY <2>4
       DEF Environment, ControlServer, Boot, StartRequest, ControlRequest, Crash, BrowserClosed,
           LateBatch, LateReport, Elsewhere, vars, localVars
  <2> QED
    BY <2>1, <2>2, <2>3, <2>4 DEF SyncNext, Collector
<1> QED
  BY <1>1, <1>2, <1>3, <1>4, <1>5

\* The loop comes to look for creators from a report that did not complete
\* the run, or goes on doing so.
LEMMA DiscoveryEntry ==
  ASSUME [SyncNext]_vars, pc' \in {"discover", "recovering"}
  PROVE  /\ loaded' = loaded
         /\ \/ pc \in {"discover", "recovering"}
            \/ pc = "report" /\ runs'[loaded].status # "completed"
<1>1. CASE \/ StartAborted \/ StartClaim \/ StartRun \/ StartResume \/ StartAlreadyRunning
           \/ StartCollecting \/ StartFailed \/ LoopTop \/ LoopStopped \/ SyncCheck \/ LoopFails
           \/ ReportAnswered \/ ReportLost \/ InspectionStopped \/ TransientFault
           \/ RecoveryCancelled
  BY <1>1
     DEF StartAborted, StartClaim, StartRun, StartResume, StartMoves, StartAlreadyRunning,
         StartCollecting, StartFailed, LoopTop, LoopStopped, SyncCheck, AfterLoop, LoopFails,
         ReportAnswered, ReportLost, InspectionStopped, TransientFault, RecoveryCancelled
<1>2. CASE NoNewItem \/ SeenCreator \/ (\E c \in Creators : SkipCreator(c))
           \/ (\E c \in Creators, pass \in BOOLEAN : ObservationInvalid(c, pass))
           \/ (\E c \in Creators, pass \in BOOLEAN : Observe(c, pass))
  BY <1>2
     DEF NoNewItem, SeenCreator, SkipCreator, Observe, ObservationInvalid, NewItem, Discovered
<1>3. CASE \/ Enqueue \/ SendAnswered \/ SendLost \/ SendRefused \/ Acknowledged
           \/ EvidenceAnswered \/ EvidenceLost \/ WaitInterrupted \/ WaitFails
           \/ Clear \/ Stopping \/ Ending \/ Failing \/ ControlApplied \/ ControlEnds
  BY <1>3
     DEF Enqueue, SendAnswered, SendLost, SendRefused, Acknowledged, EvidenceAnswered,
         EvidenceLost, WaitInterrupted, WaitFails, Clear, Stopping, Ending, Failing,
         ControlApplied, ControlEnds
<1>4. CASE WaitOver
  BY <1>4 DEF WaitOver, AfterWait, Waiting
<1>5. CASE Environment \/ UNCHANGED vars
  BY <1>5
     DEF Environment, ControlServer, Boot, StartRequest, ControlRequest, Crash, BrowserClosed,
         LateBatch, LateReport, Elsewhere, vars, localVars
<1> QED
  BY <1>1, <1>2, <1>3, <1>4, <1>5 DEF SyncNext, Collector

\* Only a report completes a run, and the loop makes one with no batch left.
LEMMA DrainStep ==
  ASSUME SyncInv, DrainInv, lateReports = {}, [SyncNext]_vars
  PROVE  DrainInv'
<1>1. QuietCentre \/ (pc = "report" /\ Confirms(loaded, mem.progress))
  BY CentreSteps DEF CentreStep
<1>2. ASSUME NEW r \in Runs, runs'[r] # NoRun, runs'[r].status = "completed"
      PROVE  \/ Exists(r) /\ runs[r].status = "completed"
             \/ pc = "report" /\ r = loaded
  BY <1>1, <1>2 DEF QuietCentre, Confirms, Exists
<1>3. pc = "report" => ~HasPending(disk[loaded])
  <2>1. pc = "report" => loaded # NoRun /\ mem.pending = NoObservation
    BY DEF SyncInv, AwaitsOK, Collecting
  <2> QED
    BY <2>1 DEF SyncInv, FilesOK, Mirrors, HasPending
<1>4. CompletionDrainsPending'
  <2>1. ASSUME NEW r \in Runs, runs'[r] # NoRun, runs'[r].status = "completed"
        PROVE  ~HasPending(disk'[r])
    <3>1. ~HasPending(disk[r])
      BY <1>2, <1>3, <2>1 DEF DrainInv, CompletionDrainsPending
    <3>2. ~(pc = "discover" /\ r = loaded)
      BY <1>2, <2>1 DEF DrainInv, DiscoversRunning
    <3> QED
      BY <3>1, <3>2, BatchComesFromDiscovery
  <2> QED
    BY <2>1 DEF CompletionDrainsPending, Exists
<1>5. DiscoversRunning'
  <2>1. SUFFICES ASSUME pc' \in {"discover", "recovering"}, runs'[loaded] # NoRun,
                        runs'[loaded].status = "completed"
                 PROVE  FALSE
    BY DiscoveryEntry DEF DiscoversRunning, Exists
  <2>2. pc \in {"discover", "recovering"}
    BY <2>1, DiscoveryEntry
  <2>3. loaded \in Runs
    BY <2>2 DEF SyncInv, AwaitsOK, SyncTypeOK, Collecting, Waiting
  <2> QED
    BY <1>2, <2>1, <2>2, <2>3 DEF DrainInv, DiscoversRunning
<1> QED
  BY <1>4, <1>5 DEF DrainInv

\* As long as no report is served after the collector gave it up, a run that
\* completes has nothing left on the machine, whatever else is lost or late.
THEOREM CompletionFollowsDelivery ==
  SyncSpec /\ [](lateReports = {}) => []CompletionDrainsPending
<1>1. SyncInit => DrainInv
  BY DEF SyncInit, Init, DrainInv, CompletionDrainsPending, DiscoversRunning, Exists
<1>2. SyncInv /\ DrainInv /\ lateReports = {} /\ [SyncNext]_vars => DrainInv'
  BY DrainStep
<1>3. DrainInv => CompletionDrainsPending
  BY DEF DrainInv
<1> QED
  BY <1>1, <1>2, <1>3, SyncInvariance, PTL DEF SyncSpec

=============================================================================
