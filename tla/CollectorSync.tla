--------------------------- MODULE CollectorSync ---------------------------
(***************************************************************************)
(* One collector and the centre.  The collector (apps/collector/src,       *)
(* CollectorRuntime) walks the recommendation feed for one run at a time,  *)
(* keeps a checkpoint file per run, sends each observation through a       *)
(* persistent queue and uploads its screenshot; the centre is the          *)
(* CollectionRun module, driven at the same time by members on the web and *)
(* by another device.                                                      *)
(*                                                                         *)
(* `pc' is the await at which the collector's single asynchronous loop     *)
(* stands; everything between two awaits is one action.  A request and its *)
(* answer are one action, because the collector does nothing of the run in *)
(* between; a request whose answer is lost (network error, 5xx, the 15     *)
(* second timeout) was applied, was not, or - batches and reports - is     *)
(* kept in lateBatches or lateReports to be served at any later time.      *)
(***************************************************************************)
EXTENDS CollectionRun, FiniteSets

CONSTANTS
  Self,            \* this device
  Creators,        \* the authors the feed can show
  MaxFeedItems,    \* bound on the feed items of a checkpoint
  MaxElapsed,      \* bound on the elapsed time of a checkpoint
  MaxObservations, \* bound on the observations ever made
  MaxLate,         \* bound on the requests that are under way unanswered
  MayLose,         \* whether requests can be lost and services fail
  NoCheckpoint, NoObservation, NoControl

VARIABLES
  disk,        \* disk[r]: the checkpoint file of run r
  queue,       \* the batch files under pending-ingestion/
  loaded,      \* this.checkpoint.runId, or NoRun
  mem,         \* this.checkpoint
  pc,          \* where start() or collect() stands
  view,        \* run.status as start() read it
  firstPass,   \* collect() has not finished its first iteration
  stopped,     \* this.stopped
  control,     \* the pause or terminate request being served, or NoControl
  lateBatches, \* batches sent, given up by the collector, not yet served
  lateReports, \* the same for progress reports
  ingested,    \* the observations in the centre's database
  evidence     \* the observations with a confirmed screenshot

localVars == <<disk, queue, loaded, mem, pc, view, firstPass, stopped, control>>
netVars == <<lateBatches, lateReports>>
dataVars == <<ingested, evidence>>
vars == <<runVars, localVars, netVars, dataVars>>

-----------------------------------------------------------------------------
(* Data.                                                                   *)

Observations == [id : 1..MaxObservations, run : Runs, creator : Creators, pass : BOOLEAN]

Checkpoints == [progress : Progress,
                seen     : SUBSET Creators,
                pending  : Observations \cup {NoObservation},
                shot     : BOOLEAN]

Reports == [run : Runs, progress : Progress]

EmptyCheckpoint(progress) ==
  [progress |-> progress, seen |-> {}, pending |-> NoObservation, shot |-> FALSE]

Actions == {"pause", "terminate"}
TargetOf == [pause |-> "paused", terminate |-> "terminated"]

Starting == {"starting", "claimed", "started"}
Waiting == {"waitBatch", "waitEvidence", "recovering"}
Flushing == {"enqueue", "send", "acked", "evidence", "clear"}
Collecting ==
  {"loop", "sync", "report", "discover", "stopping", "ending", "failing"} \cup Flushing \cup Waiting
Steps == {"off", "idle"} \cup Starting \cup Collecting

ASSUME SyncAssumption ==
  /\ Self \in Devices
  /\ MaxFeedItems \in Nat /\ MaxElapsed \in Nat /\ MaxObservations \in Nat
  /\ MaxLate \in Nat
  /\ MayLose \in BOOLEAN
  /\ NoCheckpoint \notin Checkpoints
  /\ NoObservation \notin Observations
  /\ NoRun \notin Runs
  /\ NoControl \notin [run : Runs, action : Actions]

HasPending(checkpoint) == checkpoint # NoCheckpoint /\ checkpoint.pending # NoObservation

\* The batches that some checkpoint file still keeps.
PendingOnDisk == {disk[r].pending : r \in {x \in Runs : HasPending(disk[x])}}

Advance(progress, metrics) ==
  [m \in Metrics |-> IF m \in metrics THEN progress[m] + 1 ELSE progress[m]]

FreshId ==
  LET used == {o.id : o \in ingested \cup queue \cup lateBatches \cup PendingOnDisk}
  IN  {i \in 1..MaxObservations : i \notin used /\ \A j \in 1..MaxObservations : j < i => j \in used}

-----------------------------------------------------------------------------
(* The centre, as the collector's requests see it.                         *)

\* listCollectorRuns: what this device is shown.
Visible(r) == Exists(r) /\ (runs[r].status = "ready" \/ runs[r].owner = Self)

RemotelyRunning(r) == Visible(r) /\ runs[r].status = "running"

\* Ingestion and evidence are both for the owner of a run that is running.
AcceptsFrom(r) == Exists(r) /\ runs[r].owner = Self /\ runs[r].status = "running"

CanMove(r, target) == Visible(r) /\ runs[r].owner = Self /\ CanTransition(runs[r].status, target)

\* Room for one more request that nobody waits for.
MoreLate == Cardinality(lateBatches) + Cardinality(lateReports) < MaxLate

\* `.catch(() => undefined)': the change happens if it may and if it gets through.
BestEffort(r, target) ==
  \/ CanMove(r, target) /\ ChangeRunStatusByDevice(r, Self, target)
  \/ (MayLose \/ ~CanMove(r, target)) /\ UNCHANGED runVars

Save == disk' = [disk EXCEPT ![loaded] = mem]
SaveAs(checkpoint) == mem' = checkpoint /\ disk' = [disk EXCEPT ![loaded] = checkpoint]

\* What runs after the loop is left by a break.
AfterLoop == IF stopped THEN "stopping" ELSE "ending"

-----------------------------------------------------------------------------
SyncInit ==
  /\ Init
  /\ disk = [r \in Runs |-> NoCheckpoint]
  /\ queue = {} /\ lateBatches = {} /\ lateReports = {} /\ ingested = {} /\ evidence = {}
  /\ loaded = NoRun
  /\ mem = EmptyCheckpoint(ZeroProgress)
  /\ pc = "off" /\ view = "ready" /\ firstPass = FALSE /\ stopped = FALSE
  /\ control = NoControl

(* The process: it starts by restoring a checkpoint that has a pending     *)
(* batch, if there is one, and it can be killed at any await.              *)

\* (mutant) The process starts without restoring anything.
BootWithoutRestore ==
  /\ pc = "off"
  /\ pc' = "idle"
  /\ UNCHANGED <<runVars, netVars, dataVars, disk, queue, loaded, mem, view, firstPass, stopped,
                 control>>

Boot ==
  /\ pc = "off"
  /\ pc' = "idle"
  /\ IF \E r \in Runs : HasPending(disk[r])
       THEN \E r \in Runs : HasPending(disk[r]) /\ loaded' = r /\ mem' = disk[r]
       ELSE UNCHANGED <<loaded, mem>>
  /\ UNCHANGED <<runVars, netVars, dataVars, disk, queue, view, firstPass, stopped, control>>

Crash ==
  /\ pc # "off"
  /\ pc' = "off"
  /\ loaded' = NoRun
  /\ mem' = EmptyCheckpoint(ZeroProgress)
  /\ view' = "ready" /\ firstPass' = FALSE /\ stopped' = FALSE /\ control' = NoControl
  /\ UNCHANGED <<runVars, netVars, dataVars, disk, queue>>

-----------------------------------------------------------------------------
(* start(runId).                                                           *)

\* (mutant) The centre's counters replace those of the checkpoint file.
StartRequestWithServerProgress(r) ==
  /\ pc = "idle" /\ control = NoControl
  /\ Visible(r)
  /\ runs[r].status \in Statuses \ TerminalStatuses
  /\ \A o \in queue : o.run = r
  /\ HasPending(mem) => loaded = r
  /\ loaded' = r
  /\ mem' = IF disk[r] = NoCheckpoint
              THEN EmptyCheckpoint(runs[r].progress)
              ELSE [disk[r] EXCEPT !.progress = runs[r].progress]
  /\ view' = runs[r].status
  /\ pc' = "starting"
  /\ UNCHANGED <<runVars, netVars, dataVars, disk, queue, firstPass, stopped, control>>

\* Everything up to the checkpoint being loaded; the run's status is read
\* here and acted upon later.  Any error before the load changes nothing.
StartRequest(r) ==
  /\ pc = "idle" /\ control = NoControl
  /\ Visible(r)
  /\ runs[r].status \in Statuses \ TerminalStatuses
  /\ \A o \in queue : o.run = r
  /\ HasPending(mem) => loaded = r
  /\ loaded' = r
  /\ mem' = IF disk[r] = NoCheckpoint THEN EmptyCheckpoint(runs[r].progress) ELSE disk[r]
  /\ view' = runs[r].status
  /\ pc' = "starting"
  /\ UNCHANGED <<runVars, netVars, dataVars, disk, queue, firstPass, stopped, control>>

\* The browser does not open, the page is unsafe, or the centre is unreachable.
StartAborted ==
  /\ pc \in {"starting", "claimed"}
  /\ pc' = "idle"
  /\ UNCHANGED <<runVars, netVars, dataVars, disk, queue, loaded, mem, view, firstPass, stopped,
                 control>>

\* A request of start() that the centre may have served: its answer arrives
\* and start() goes on, or is lost and start() fails.  A refusal is StartAborted.
StartMoves(next) ==
  /\ pc' \in {next} \cup (IF MayLose THEN {"idle"} ELSE {})
  /\ UNCHANGED <<netVars, dataVars, disk, queue, loaded, mem, view, firstPass, stopped, control>>

StartClaim ==
  /\ pc = "starting" /\ view = "ready"
  /\ ClaimCollectionRun(loaded, Self)
  /\ StartMoves("claimed")

StartRun ==
  /\ pc = "claimed" \/ (pc = "starting" /\ view = "claimed")
  /\ StartClaimedCollectionRun(loaded, Self)
  /\ StartMoves("started")

StartResume ==
  /\ pc = "starting" /\ view = "paused"
  /\ ChangeRunStatusByDevice(loaded, Self, "running")
  /\ StartMoves("started")

StartAlreadyRunning ==
  /\ pc = "starting" /\ view = "running"
  /\ pc' = "started"
  /\ UNCHANGED <<runVars, netVars, dataVars, disk, queue, loaded, mem, view, firstPass, stopped,
                 control>>

StartCollecting ==
  /\ pc = "started"
  /\ Save
  /\ pc' = "loop" /\ firstPass' = TRUE /\ stopped' = FALSE
  /\ UNCHANGED <<runVars, netVars, dataVars, queue, loaded, mem, view, control>>

\* start() fails after the remote run was started: it tries to pause it.
StartFailed ==
  /\ pc = "started"
  /\ BestEffort(loaded, "paused")
  /\ pc' = "idle"
  /\ UNCHANGED <<netVars, dataVars, disk, queue, loaded, mem, view, firstPass, stopped, control>>

-----------------------------------------------------------------------------
(* collect(run): the loop.                                                 *)

\* (mutant) A resumed run does not flush what its checkpoint kept.
LoopTopWithoutFlush ==
  /\ pc = "loop" /\ ~stopped
  /\ \E tick \in {0, 1} :
       /\ firstPass => tick = 0
       /\ mem.progress["elapsedSeconds"] + tick <= MaxElapsed
       /\ mem' = [mem EXCEPT !.progress["elapsedSeconds"] = @ + tick]
  /\ pc' = "sync"
  /\ UNCHANGED <<runVars, netVars, dataVars, disk, queue, loaded, view, firstPass, stopped, control>>

\* The clock counts from the start of collect(), so the first pass adds nothing.
LoopTop ==
  /\ pc = "loop" /\ ~stopped
  /\ \E tick \in {0, 1} :
       /\ firstPass => tick = 0
       /\ mem.progress["elapsedSeconds"] + tick <= MaxElapsed
       /\ mem' = [mem EXCEPT !.progress["elapsedSeconds"] = @ + tick]
  /\ pc' = IF HasPending(mem) THEN "enqueue" ELSE "sync"
  /\ UNCHANGED <<runVars, netVars, dataVars, disk, queue, loaded, view, firstPass, stopped, control>>

LoopStopped ==
  /\ pc = "loop" /\ stopped
  /\ pc' = "stopping"
  /\ UNCHANGED <<runVars, netVars, dataVars, disk, queue, loaded, mem, view, firstPass, stopped,
                 control>>

\* Server state is authoritative: the loop ends when the run is not running.
SyncCheck ==
  /\ pc = "sync"
  /\ pc' = IF RemotelyRunning(loaded) THEN "report" ELSE AfterLoop
  /\ UNCHANGED <<runVars, netVars, dataVars, disk, queue, loaded, mem, view, firstPass, stopped,
                 control>>

\* An await of the loop throws: no answer to the list of runs, a refused
\* report, a closed or unsafe page, a parser that stays unsure.
LoopFails ==
  /\ \/ pc = "discover"
     \/ MayLose /\ (pc = "sync" \/ (pc = "loop" /\ firstPass))
     \/ pc = "report" /\ ~AcceptsReport(loaded, Self, mem.progress)
  /\ pc' = "failing"
  /\ UNCHANGED <<runVars, netVars, dataVars, disk, queue, loaded, mem, view, firstPass, stopped,
                 control>>

\* The report is accepted; a completed run ends the loop, with a save.
ReportAnswered ==
  /\ pc = "report"
  /\ ReportCollectionRunProgress(loaded, Self, mem.progress)
  /\ IF runs'[loaded].status = "completed"
       THEN Save /\ pc' = AfterLoop
       ELSE UNCHANGED disk /\ pc' = "discover"
  /\ UNCHANGED <<netVars, dataVars, queue, loaded, mem, view, firstPass, stopped, control>>

\* No answer: the report was applied, is still under way, or never left.
ReportLost ==
  /\ pc = "report" /\ MayLose
  /\ \/ /\ ReportCollectionRunProgress(loaded, Self, mem.progress)
        /\ UNCHANGED lateReports
     \/ /\ UNCHANGED runVars
        /\ \/ MoreLate /\ lateReports' = lateReports \cup {[run |-> loaded, progress |-> mem.progress]}
           \/ UNCHANGED lateReports
  /\ pc' = "failing"
  /\ UNCHANGED <<dataVars, lateBatches, disk, queue, loaded, mem, view, firstPass, stopped, control>>

\* What a pass of the loop that inspects one feed item, or none, saves.
Discovered(checkpoint, next) ==
  /\ SaveAs(checkpoint)
  /\ pc' \in next
  /\ firstPass' = FALSE
  /\ UNCHANGED <<runVars, netVars, dataVars, queue, loaded, view, stopped, control>>

NoNewItem == pc = "discover" /\ Discovered(mem, {"loop"})

NewItem == pc = "discover" /\ mem.progress["feedItemsSeen"] < MaxFeedItems

\* (mutant) A known author's item is counted without a save.
SeenCreatorUnsaved ==
  /\ NewItem
  /\ mem.seen # {}
  /\ mem' = [mem EXCEPT !.progress = Advance(@, {"feedItemsSeen"})]
  /\ pc' = "loop"
  /\ firstPass' = FALSE
  /\ UNCHANGED <<runVars, netVars, dataVars, disk, queue, loaded, view, stopped, control>>

SeenCreator ==
  /\ NewItem
  /\ mem.seen # {}
  /\ Discovered([mem EXCEPT !.progress = Advance(@, {"feedItemsSeen"})], {"loop"})

\* A page that stays faulty or unreadable: counted, skipped, and for an
\* unreadable one perhaps the last that the low-confidence policy tolerates.
SkipCreator(c) ==
  /\ NewItem
  /\ c \notin mem.seen
  /\ Discovered([mem EXCEPT !.progress = Advance(@, {"feedItemsSeen", "creatorProfilesSeen"}),
                            !.seen = @ \cup {c}],
                {"loop", "failing"})

\* (mutant) A page that does not pass leaves the screenshot as it was.
ObserveKeepingScreenshot(c, pass) ==
  /\ NewItem
  /\ c \notin mem.seen
  /\ ~stopped
  /\ \E id \in FreshId :
       Discovered([progress |-> Advance(mem.progress, {"feedItemsSeen", "creatorProfilesSeen"}
                                    \cup IF pass THEN {"candidatesFound"} ELSE {}),
                   seen     |-> mem.seen \cup {c},
                   pending  |-> [id |-> id, run |-> loaded, creator |-> c, pass |-> pass],
                   shot     |-> pass \/ mem.shot],
                  {"enqueue"})

\* A trusted page becomes an observation, with a screenshot when it passes
\* the hard rules; all of it is one write of the checkpoint.
Observe(c, pass) ==
  /\ NewItem
  /\ c \notin mem.seen
  /\ ~stopped
  /\ \E id \in FreshId :
       Discovered([progress |-> Advance(mem.progress, {"feedItemsSeen", "creatorProfilesSeen"}
                                    \cup IF pass THEN {"candidatesFound"} ELSE {}),
                   seen     |-> mem.seen \cup {c},
                   pending  |-> [id |-> id, run |-> loaded, creator |-> c, pass |-> pass],
                   shot     |-> pass],
                  {"enqueue"})

\* The collector's own schema refuses the batch: the page's screenshot is in
\* memory by then, and the catch saves it without a batch.
ObservationInvalid(c, pass) ==
  /\ NewItem
  /\ c \notin mem.seen
  /\ ~stopped
  /\ mem' = [mem EXCEPT !.shot = pass]
  /\ pc' = "failing"
  /\ UNCHANGED <<runVars, netVars, dataVars, disk, queue, loaded, view, firstPass, stopped,
                 control>>

\* A stop that came while the creator was inspected is noticed before the
\* observation is made.
InspectionStopped ==
  /\ pc = "discover" /\ stopped
  /\ pc' = "stopping"
  /\ UNCHANGED <<runVars, netVars, dataVars, disk, queue, loaded, mem, view, firstPass, stopped,
                 control>>

\* The feed or a creator page is temporarily faulty: the recovery steps save
\* what they are about to do and wait, many times or until the next attempt.
TransientFault ==
  /\ pc = "discover"
  /\ Save
  /\ pc' = "recovering"
  /\ UNCHANGED <<runVars, netVars, dataVars, queue, loaded, mem, view, firstPass, stopped, control>>

\* A recovery that is interrupted leaves collect() by an error of its own,
\* which is caught without a request to pause the run.
RecoveryCancelled ==
  /\ pc = "recovering"
  /\ stopped \/ ~RemotelyRunning(loaded)
  /\ stopped' = TRUE
  /\ Save
  /\ pc' = "idle"
  /\ UNCHANGED <<runVars, netVars, dataVars, queue, loaded, mem, view, firstPass, control>>

-----------------------------------------------------------------------------
(* flushPending().                                                         *)

\* A record that is already there, with the same idempotency key, is kept.
Enqueue ==
  /\ pc = "enqueue"
  /\ queue' = queue \cup {mem.pending}
  /\ pc' = IF stopped THEN "stopping" ELSE "send"
  /\ UNCHANGED <<runVars, netVars, dataVars, disk, loaded, mem, view, firstPass, stopped, control>>

\* A repeated observation is found by its id and skipped.
IngestCreatorObservation(o) == ingested' = ingested \cup {o}

\* One transaction; the run's status comes first, even for a repeated batch.
IngestCollectorBatch(o) == AcceptsFrom(o.run) /\ IngestCreatorObservation(o)

SendAnswered ==
  /\ pc = "send"
  /\ \E o \in queue : IngestCollectorBatch(o)
  /\ pc' = "acked"
  /\ UNCHANGED <<runVars, netVars, evidence, disk, queue, loaded, mem, view, firstPass, stopped,
                 control>>

\* (mutant) A lost answer is taken for an acknowledgement.
SendLostAsAcknowledged ==
  /\ pc = "send" /\ MayLose
  /\ \/ (\E o \in queue : IngestCollectorBatch(o)) /\ UNCHANGED lateBatches
     \/ MoreLate /\ lateBatches' = lateBatches \cup queue /\ UNCHANGED ingested
     \/ UNCHANGED <<lateBatches, ingested>>
  /\ Save
  /\ pc' = "acked"
  /\ UNCHANGED <<runVars, lateReports, evidence, queue, loaded, mem, view, firstPass, stopped,
                 control>>

\* Network error or 5xx, or a record whose next attempt is not due: the
\* checkpoint is saved and the loop waits.  The batch may have been served.
SendLost ==
  /\ pc = "send" /\ MayLose
  /\ \/ (\E o \in queue : IngestCollectorBatch(o)) /\ UNCHANGED lateBatches
     \/ MoreLate /\ lateBatches' = lateBatches \cup queue /\ UNCHANGED ingested
     \/ UNCHANGED <<lateBatches, ingested>>
  /\ Save
  /\ pc' = "waitBatch"
  /\ UNCHANGED <<runVars, lateReports, evidence, queue, loaded, mem, view, firstPass, stopped,
                 control>>

\* A run that is no longer running refuses both the batch and the evidence;
\* so does a service that answers with any other error of the 4xx kind.
SendRefused ==
  /\ pc \in {"send", "evidence"}
  /\ MayLose \/ ~AcceptsFrom(loaded)
  /\ pc' = "failing"
  /\ UNCHANGED <<runVars, netVars, dataVars, disk, queue, loaded, mem, view, firstPass, stopped,
                 control>>

\* (mutant) The acknowledged record is left in the queue.
AcknowledgedWithoutUnlink ==
  /\ pc = "acked"
  /\ pc' = IF stopped THEN "stopping" ELSE IF mem.shot THEN "evidence" ELSE "clear"
  /\ UNCHANGED <<runVars, netVars, dataVars, disk, queue, loaded, mem, view, firstPass, stopped,
                 control>>

\* The acknowledged record is unlinked; a stop leaves the evidence for later.
Acknowledged ==
  /\ pc = "acked"
  /\ queue' = queue \ {mem.pending}
  /\ pc' = IF stopped THEN "stopping" ELSE IF mem.shot THEN "evidence" ELSE "clear"
  /\ UNCHANGED <<runVars, netVars, dataVars, disk, loaded, mem, view, firstPass, stopped, control>>

\* A grant is for the owner of a running run and one of its observations.
AssertUploadScope(r, o) == AcceptsFrom(r) /\ o \in ingested /\ o.run = r

\* Grant, PUT and confirmation of the screenshot's upload.
UploadEvidence ==
  /\ AssertUploadScope(loaded, mem.pending)
  /\ evidence' = evidence \cup {mem.pending}

EvidenceAnswered ==
  /\ pc = "evidence"
  /\ UploadEvidence
  /\ pc' = "clear"
  /\ UNCHANGED <<runVars, netVars, ingested, disk, queue, loaded, mem, view, firstPass, stopped,
                 control>>

\* (mutant) A failed upload is given up.
EvidenceLostForGood ==
  /\ pc = "evidence" /\ MayLose
  /\ UploadEvidence \/ UNCHANGED evidence
  /\ Save
  /\ pc' = "clear"
  /\ UNCHANGED <<runVars, netVars, ingested, queue, loaded, mem, view, firstPass, stopped, control>>

EvidenceLost ==
  /\ pc = "evidence" /\ MayLose
  /\ UploadEvidence \/ UNCHANGED evidence
  /\ Save
  /\ pc' = "waitEvidence"
  /\ UNCHANGED <<runVars, netVars, ingested, queue, loaded, mem, view, firstPass, stopped, control>>

\* waitForRecovery(): ends early on a stop, on a run that is not running and
\* on an error of its own poll of the centre.
WaitInterrupted ==
  /\ pc \in {"waitBatch", "waitEvidence"}
  /\ stopped \/ ~RemotelyRunning(loaded)
  /\ stopped' = TRUE
  /\ pc' = "stopping"
  /\ UNCHANGED <<runVars, netVars, dataVars, disk, queue, loaded, mem, view, firstPass, control>>

WaitFails ==
  /\ pc \in Waiting /\ ~stopped /\ MayLose
  /\ pc' = "failing"
  /\ UNCHANGED <<runVars, netVars, dataVars, disk, queue, loaded, mem, view, firstPass, stopped,
                 control>>

\* (mutant) A failed upload starts over with the batch, which is gone.
AfterWaitFromTheBatch == IF pc = "recovering" THEN "discover" ELSE "send"

\* What the wait was for, once it is over.
AfterWait == CASE pc = "waitBatch"    -> "send"
               [] pc = "waitEvidence" -> "evidence"
               [] pc = "recovering"   -> "discover"

\* (mutant) The wait does not look at the stop flag.
WaitOverThoughStopped ==
  /\ pc \in Waiting
  /\ RemotelyRunning(loaded)
  /\ pc' = AfterWait
  /\ UNCHANGED <<runVars, netVars, dataVars, disk, queue, loaded, mem, view, firstPass, stopped,
                 control>>

\* (mutant) The wait does not look at the run's status.
WaitOverThoughEnded ==
  /\ pc \in Waiting /\ ~stopped
  /\ pc' = AfterWait
  /\ UNCHANGED <<runVars, netVars, dataVars, disk, queue, loaded, mem, view, firstPass, stopped,
                 control>>

WaitOver ==
  /\ pc \in Waiting /\ ~stopped
  /\ RemotelyRunning(loaded)
  /\ pc' = AfterWait
  /\ UNCHANGED <<runVars, netVars, dataVars, disk, queue, loaded, mem, view, firstPass, stopped,
                 control>>

\* The batch and its screenshot leave the checkpoint.  Only a first pass
\* flushes at the top of the loop; it goes on with the same pass.
Clear ==
  /\ pc = "clear"
  /\ SaveAs([mem EXCEPT !.pending = NoObservation, !.shot = FALSE])
  /\ pc' = IF ~firstPass THEN "loop" ELSE IF stopped THEN "stopping" ELSE "sync"
  /\ UNCHANGED <<runVars, netVars, dataVars, queue, loaded, view, firstPass, stopped, control>>

-----------------------------------------------------------------------------
(* The end of collect().                                                   *)

Stopping ==
  /\ pc = "stopping"
  /\ BestEffort(loaded, "paused")
  /\ pc' = "ending"
  /\ UNCHANGED <<netVars, dataVars, disk, queue, loaded, mem, view, firstPass, stopped, control>>

Ending ==
  /\ pc = "ending"
  /\ Save
  /\ pc' = "idle"
  /\ UNCHANGED <<runVars, netVars, dataVars, queue, loaded, mem, view, firstPass, stopped, control>>

\* The catch of collect(): save, then try to pause the run.
Failing ==
  /\ pc = "failing"
  /\ Save
  /\ BestEffort(loaded, "paused")
  /\ pc' = "idle"
  /\ UNCHANGED <<netVars, dataVars, queue, loaded, mem, view, firstPass, stopped, control>>

-----------------------------------------------------------------------------
(* The operator at the machine: control(runId, action), a closed browser.  *)

ControlRequest(r, action) ==
  /\ pc \in Collecting \cup {"idle"}
  /\ control = NoControl
  /\ pc = "idle" \/ loaded = r
  /\ control' = [run |-> r, action |-> action]
  /\ stopped' = TRUE
  /\ UNCHANGED <<runVars, netVars, dataVars, disk, queue, loaded, mem, pc, view, firstPass>>

\* (mutant) A termination does not look at what is outstanding.
KeepsNothing(r, action) == FALSE

KeepsEvidence(r, action) == action = "terminate" /\ loaded = r /\ HasPending(mem)

\* The loop has ended and the centre was asked: the change is made, with a
\* save of the checkpoint when it is the run's.
ControlApplied ==
  /\ pc = "idle" /\ control # NoControl
  /\ ~KeepsEvidence(control.run, control.action)
  /\ Visible(control.run)
  /\ ChangeRunStatusByDevice(control.run, Self, TargetOf[control.action])
  /\ \/ loaded = control.run /\ Save
     \/ (loaded # control.run \/ MayLose) /\ UNCHANGED disk
  /\ control' = NoControl
  /\ UNCHANGED <<netVars, dataVars, queue, loaded, mem, pc, view, firstPass, stopped>>

\* Nothing to do, refused - here for the evidence's sake, or by the centre -
\* or out of reach.
ControlEnds ==
  /\ pc = "idle" /\ control # NoControl
  /\ \/ MayLose
     \/ KeepsEvidence(control.run, control.action)
     \/ ~CanMove(control.run, TargetOf[control.action])
  /\ control' = NoControl
  /\ UNCHANGED <<runVars, netVars, dataVars, disk, queue, loaded, mem, pc, view, firstPass, stopped>>

BrowserClosed ==
  /\ pc \in Collecting /\ ~stopped
  /\ stopped' = TRUE
  /\ UNCHANGED <<runVars, netVars, dataVars, disk, queue, loaded, mem, pc, view, firstPass, control>>

-----------------------------------------------------------------------------
(* Requests served after the collector gave them up.                       *)

LateBatch ==
  /\ \E o \in lateBatches :
       /\ lateBatches' = lateBatches \ {o}
       /\ IF AcceptsFrom(o.run) THEN IngestCollectorBatch(o) ELSE UNCHANGED ingested
  /\ UNCHANGED <<runVars, localVars, lateReports, evidence>>

LateReport ==
  /\ \E p \in lateReports :
       /\ lateReports' = lateReports \ {p}
       /\ IF AcceptsReport(p.run, Self, p.progress)
            THEN ReportCollectionRunProgress(p.run, Self, p.progress)
            ELSE UNCHANGED runVars
  /\ UNCHANGED <<localVars, lateBatches, dataVars>>

\* Members on the web and the other devices of the workspace.
Elsewhere ==
  /\ \/ \E r \in Runs, c \in Campaigns : CreateCollectionRun(r, c)
     \/ \E r \in Runs, target \in ManualTargets : ChangeRunStatusByUser(r, target)
     \/ \E r \in Runs, d \in Devices \ {Self} : ClaimCollectionRun(r, d)
  /\ UNCHANGED <<localVars, netVars, dataVars>>

\* The steps the process takes of its own accord once it has something to do.
Collector ==
  \/ StartAborted \/ StartClaim \/ StartRun \/ StartResume \/ StartAlreadyRunning
  \/ StartCollecting \/ StartFailed
  \/ LoopTop \/ LoopStopped \/ SyncCheck \/ LoopFails \/ ReportAnswered \/ ReportLost
  \/ NoNewItem \/ SeenCreator \/ (\E c \in Creators : SkipCreator(c))
  \/ (\E c \in Creators, pass \in BOOLEAN : Observe(c, pass)) \/ InspectionStopped
  \/ (\E c \in Creators, pass \in BOOLEAN : ObservationInvalid(c, pass))
  \/ TransientFault \/ RecoveryCancelled
  \/ Enqueue \/ SendAnswered \/ SendLost \/ SendRefused \/ Acknowledged
  \/ EvidenceAnswered \/ EvidenceLost \/ WaitInterrupted \/ WaitFails \/ WaitOver \/ Clear
  \/ Stopping \/ Ending \/ Failing \/ ControlApplied \/ ControlEnds

\* The operator's requests at the machine: each restores the checkpoint first, and one
\* mutating request is served at a time.
ControlServer ==
  \/ Boot
  \/ \E r \in Runs : StartRequest(r)
  \/ \E r \in Runs, action \in Actions : ControlRequest(r, action)

\* The operator, the machine, the network, the members and the other devices.
Environment == ControlServer \/ Crash \/ BrowserClosed \/ LateBatch \/ LateReport \/ Elsewhere

SyncNext == Collector \/ Environment

SyncSpec == SyncInit /\ [][SyncNext]_vars
-----------------------------------------------------------------------------
(* Properties.                                                             *)

\* Every variable has its shape, a checkpoint's pending batch belongs to the
\* run of the file, and it waits with a screenshot exactly when it passes, even
\* where an earlier screenshot had been left behind without a batch.
SyncTypeOK ==
  /\ TypeOK
  /\ disk \in [Runs -> Checkpoints \cup {NoCheckpoint}]
  /\ queue \subseteq Observations /\ lateBatches \subseteq Observations
  /\ lateReports \subseteq Reports
  /\ ingested \subseteq Observations /\ evidence \subseteq ingested
  /\ loaded \in Runs \cup {NoRun} /\ mem \in Checkpoints
  /\ pc \in Steps /\ view \in Statuses
  /\ firstPass \in BOOLEAN /\ stopped \in BOOLEAN
  /\ control \in [run : Runs, action : Actions] \cup {NoControl}
  /\ \A r \in Runs : HasPending(disk[r]) =>
       disk[r].pending.run = r /\ disk[r].shot = disk[r].pending.pass

PassingOf(r) == {o \in ingested : o.run = r /\ o.pass}

\* The books balance through crashes, retries and repeated batches: the
\* candidates a checkpoint counts are the passing observations the centre
\* has of that run and the one that is still to be taken, if any.
CheckpointConservation ==
  \A r \in Runs : disk[r] # NoCheckpoint =>
    disk[r].progress["candidatesFound"] =
      Cardinality(PassingOf(r)
                  \cup {o \in PendingOnDisk : o.run = r /\ o.pass})

\* A batch file never outlives the checkpoint's own copy of the batch: a run
\* can always be resumed to drain the queue, and no other run is blocked by it.
QueueMatchesCheckpoint == queue \subseteq PendingOnDisk

\* A candidate the machine let go of has its screenshot: a pause, a crash or a
\* retry between acknowledgement and upload never drops it.
EvidenceBeforeRelease ==
  \A o \in ingested : o.pass => o \in evidence \cup PendingOnDisk

\* An outstanding batch is always the one in memory, which is where start()
\* and control() look for it before they switch or terminate.
PendingCheckpointIsLoaded ==
  pc # "off" => \A r \in Runs : HasPending(disk[r]) => loaded = r /\ HasPending(mem)

\* The three counters the centre stores are never ahead of the checkpoint
\* file, so a restart resumes with counters the centre will take.
ServerCountsBehindCheckpoint ==
  \A r \in Runs : (Exists(r) /\ runs[r].owner = Self) =>
    \A m \in Metrics \ {"elapsedSeconds"} :
      runs[r].progress[m] <= IF disk[r] = NoCheckpoint THEN 0 ELSE disk[r].progress[m]

\* A termination asked for at the machine never strands an observation that
\* the centre has not taken, or a screenshot it lacks.
TerminateKeepsEvidence ==
  [][\A r \in Runs :
       (control # NoControl /\ control' = NoControl /\ pc' # "off"
        /\ Exists(r) /\ runs[r].status # "terminated" /\ runs'[r].status = "terminated")
         => ~HasPending(disk[r])]_vars

\* Observations are made one at a time and delivered exactly once.
Delivery == INSTANCE ObservationDelivery WITH pending <- PendingOnDisk, delivered <- ingested
DeliversOnce == Delivery!Spec

\* A run that completes has nothing left on the machine: the report that ends
\* it follows the delivery of everything it counts.  This is so as long as no
\* report is served after the collector gave it up (MaxLate = 0): a late one may
\* complete a run whose next batch is on the machine, and what holds of every
\* report is CompletionFollowsDelivery in CollectorSyncProofs.
CompletionDrainsPending ==
  \A r \in Runs : Exists(r) /\ runs[r].status = "completed" => ~HasPending(disk[r])

-----------------------------------------------------------------------------
(* Liveness.  The event loop runs the continuation of every await, so the  *)
(* collector takes a step as long as it has one; and a centre that can     *)
(* serve a request again and again serves it at last.  Nothing is assumed  *)
(* of the operator, of members, of crashes or of lost requests.            *)

FairSyncSpec ==
  SyncSpec /\ WF_vars(Collector) /\ SF_vars(SendAnswered) /\ SF_vars(EvidenceAnswered)

\* A pause or a termination asked for at the machine is always carried to its
\* end: no retry, no recovery wait and no page keeps the loop from stopping.
ControlIsServed == (control # NoControl) ~> (control = NoControl)

\* A run that a member terminates on the web is left by the collector,
\* wherever its loop stands and however long the centre stays out of reach.
TerminationStopsCollector ==
  (pc \in Collecting /\ runs[loaded].status = "terminated") ~> (pc \in {"idle", "off"})

\* Sending a batch and uploading its evidence are not retried for ever when
\* the centre answers now and then.
RetriesEnd ==
  (pc \in {"send", "evidence"}) ~> (pc \notin {"send", "evidence", "waitBatch", "waitEvidence"})

-----------------------------------------------------------------------------
(* What messages, documents and tests of the repository say and the code   *)
(* does not do.                                                            *)

\* The error "progress must not be less than what was confirmed" never meets
\* the collector's own report: what it is about to report covers the record.
ReportsNeverRegress ==
  pc = "report" /\ Exists(loaded) =>
    ~HasProgressRegression(runs[loaded].progress, mem.progress)

\* "Continue the original run and finish its synchronisation" can be done for
\* every batch the centre has not taken: its run has not ended.
PendingRunCanContinue ==
  \A r \in Runs : HasPending(disk[r]) /\ disk[r].pending \notin ingested =>
    runs[r].status \notin TerminalStatuses

\* Temporary failures of the centre keep a run with a saved batch waiting; they
\* never take the collector out of the wait into its failure path.
OutageKeepsWaiting ==
  [][(pc \in {"waitBatch", "waitEvidence"}) => pc' # "failing"]_vars

\* Closing the browser while the collector works pauses the run.
BrowserClosePausesRun ==
  (pc \in Collecting \ {"ending"} /\ stopped /\ control = NoControl)
    ~> (~(loaded \in Runs /\ RemotelyRunning(loaded)) \/ control # NoControl \/ pc = "off")
=============================================================================
