----------------------------- MODULE SyncWorker -----------------------------
(***************************************************************************)
(* What SyncWorker does with a run it has claimed: a first pass that reads *)
(* the source page by page and upserts every record, a second pass that    *)
(* only compares, the publication, the cleanup of what was not seen, and   *)
(* all the ways out: cancellation, a changed source, a failed call, a lost *)
(* lease, a shutdown.  Each call to the control database, to the source or *)
(* to the graph is a step; environment steps come in between.              *)
(*                                                                         *)
(* The runs are those of one source and one entity, numbered in the order  *)
(* in which they are enqueued; each is executed by a process of its own.   *)
(* Of a row only what guards the executor's writes is kept, and a lease is *)
(* current or lapsed: SyncRuns has the clocks, and shows that the stored   *)
(* cursor is the executor's own.  An upsert is one step: TopologyGraph has *)
(* its statements.                                                         *)
(***************************************************************************)
EXTENDS Integers, Sequences, FiniteSets, SequencesExt

CONSTANTS
  Runs,         \* 1..n, in the order of creation
  Records,      \* instance ids that the source may list
  PageSize,
  FullSource,   \* CoversFullSource: runs whose collection is not filtered
  MayFault,     \* calls may fail for reasons of their own
  MayLapse      \* a lease may run out although its executor goes on

ASSUME WorkerAssumption ==
  /\ IsFiniteSet(Runs) /\ Runs = 1..Cardinality(Runs)
  /\ IsFiniteSet(Records) /\ Records \subseteq Nat \ {0}
  /\ PageSize \in Nat \ {0}
  /\ FullSource \subseteq Runs /\ MayFault \in BOOLEAN /\ MayLapse \in BOOLEAN

VARIABLES
  row,      \* per run: status, cancellation mark, whether the lease lapsed
  exec,     \* per run: the state of its executor
  source,   \* the records that the source lists now
  graph     \* synced_at of each record's vertex, Absent if there is none

vars == <<row, exec, source, graph>>

Absent == 0
Snapshot(e) == e + 1    \* 1 is the snapshot of a synchronization long ago

Ended == {"succeeded", "failed", "canceled"}
InFlight == {"running", "validating", "publishing"}

(* ctx is the context of the executor: "lost" when the heartbeat has given *)
(* up the lease, "shutdown" when the process has been told to stop.        *)
(* status is the executor's own idea of its row, seen and again are what   *)
(* the two digests have been fed, todo are the records of the page or of   *)
(* the batch in hand.  listed and quiet are observations, not state of the *)
(* program: the source when the second pass began, and whether it has been *)
(* as it was since.                                                        *)
NotExecuting ==
  [pc |-> "idle", ctx |-> "live", status |-> "running", total |-> 0,
   seen |-> <<>>, again |-> <<>>, todo |-> {}, listed |-> {}, quiet |-> FALSE]

Steps == {"idle", "begin", "read", "write", "advance", "closing", "validate",
          "recheck", "agreed", "publish", "clean", "delete", "complete",
          "failing", "canceling", "done"}

TypeOK ==
  /\ row \in [Runs -> [status : {"absent", "queued"} \cup InFlight \cup Ended,
                       cancel : BOOLEAN, lapsed : BOOLEAN]]
  /\ \A e \in Runs :
       /\ exec[e].pc \in Steps
       /\ exec[e].ctx \in {"live", "lost", "shutdown"}
       /\ exec[e].status \in InFlight
       /\ exec[e].total \in 0..Cardinality(Records)
       /\ Range(exec[e].seen) \cup Range(exec[e].again) \subseteq Records
       /\ exec[e].todo \subseteq Records
       /\ Len(exec[e].again) <= exec[e].total
       /\ row[e].status \in {"absent", "queued"} => exec[e] = NotExecuting
       /\ row[e].status = "succeeded" => exec[e].pc \in {"failing", "done"}
  /\ source \subseteq Records
  /\ graph \in [Records -> {Absent, 1} \cup {Snapshot(e) : e \in Runs}]

-----------------------------------------------------------------------------
(* The control database, as far as it decides about an executor's writes.  *)
Current(e) == ~row[e].lapsed

(* RunCancellationRequested, or a context that a shutdown has ended.       *)
CancelSeen(e) ==
  \/ exec[e].ctx = "shutdown"
  \/ row[e].status = "canceled"
  \/ row[e].cancel

(* cancellationRequested found nothing: the executor may go on.            *)
MayGoOn(e) == exec[e].ctx = "live" /\ ~CancelSeen(e)

Goto(e, pc) == exec' = [exec EXCEPT ![e].pc = pc]
Return(e) ==
  exec' = [exec EXCEPT ![e] = [NotExecuting EXCEPT !.pc = "done",
                                                   !.ctx = exec[e].ctx]]

RowUnmarked(e, to) ==           \* mutant of RowPermits: the mark is not read
  row[e].status = exec[e].status /\ Current(e)

(* TransitionRun to the next phase would find its row.                     *)
RowPermits(e, to) ==
  /\ row[e].status = exec[e].status
  /\ Current(e)
  /\ to = "publishing" => ~row[e].cancel

(* failOrCancel, after a call that failed: a lost lease touches nothing,   *)
(* the row is asked once more whether the run was canceled.                *)
FailOrCancel(e) ==
  \/ exec[e].ctx = "lost" /\ Return(e)
  \/ exec[e].ctx # "lost" /\ CancelSeen(e) /\ Goto(e, "canceling")
  \/ /\ exec[e].ctx = "live"
     /\ CancelSeen(e) => MayFault
     /\ Goto(e, "failing")

-----------------------------------------------------------------------------
(* The service and the database: a request creates a run when no other is  *)
(* active; a worker claims it.                                             *)
Enqueue(e) ==
  /\ row[e].status = "absent"
  /\ \A d \in Runs : d < e => row[d].status \in Ended
  /\ row' = [row EXCEPT ![e].status = "queued"]
  /\ UNCHANGED <<exec, source, graph>>

Claim(e) ==
  /\ row[e].status = "queued"
  /\ row' = [row EXCEPT ![e].status = "running"]
  /\ Goto(e, "begin")
  /\ UNCHANGED <<source, graph>>

(* The first check, then Validate, SelectedEntity and BeginCheckpoint.     *)
Begin(e) ==
  /\ exec[e].pc = "begin"
  /\ MayGoOn(e)
  /\ IF row[e].status = "running" /\ Current(e)
     THEN Goto(e, "read") ELSE FailOrCancel(e)
  /\ UNCHANGED <<row, source, graph>>

(* A check that stops the run: lost leases return at once, cancellations   *)
(* and shutdowns go through cancelRun.                                     *)
Checked == {"begin", "read", "advance", "closing", "recheck", "agreed"}

ReturnAtCheck(e) ==             \* mutant of StopAtCheck: no cancelRun
  /\ exec[e].pc \in Checked
  /\ exec[e].ctx = "lost" \/ CancelSeen(e)
  /\ Return(e)
  /\ UNCHANGED <<row, source, graph>>

StopAtCheck(e) ==
  /\ exec[e].pc \in Checked
  /\ \/ exec[e].ctx = "lost" /\ Return(e)
     \/ exec[e].ctx # "lost" /\ CancelSeen(e) /\ Goto(e, "canceling")
  /\ UNCHANGED <<row, source, graph>>

(* The page of the source behind an offset, as of the moment it is read:   *)
(* the source lists its records in the order of their ids.                 *)
Listing ==
  [n \in 1..Cardinality(source) |->
     CHOOSE r \in source : Cardinality({x \in source : x <= r}) = n]

PageAt(offset) ==
  LET end == offset + PageSize IN
  SubSeq(Listing, offset + 1, IF end < Len(Listing) THEN end ELSE Len(Listing))

(* validateEntityPage: totals agree, and instance ids go on increasing.    *)
PageFits(read, total, page) ==
  /\ Len(read) + Len(page) <= Len(Listing)
  /\ total > 0 => Len(Listing) = total
  /\ read # <<>> /\ page # <<>> => Last(read) < Head(page)

(* A page of the first pass: checked, digested, and handed to the writers. *)
Read(e) ==
  LET page == PageAt(Len(exec[e].seen)) IN
  /\ exec[e].pc = "read"
  /\ MayGoOn(e)
  /\ IF PageFits(exec[e].seen, exec[e].total, page)
     THEN exec' = [exec EXCEPT ![e].pc = "write", ![e].todo = Range(page),
                               ![e].seen = @ \o page, ![e].total = Len(Listing)]
     ELSE Goto(e, "failing")
  /\ UNCHANGED <<row, source, graph>>

(* writeEntityPage: the goroutines upsert the records of a page in any     *)
(* order; a vertex that is newer than the snapshot stays as it is.         *)
Write(e) ==
  /\ exec[e].pc = "write"
  /\ exec[e].ctx = "live"
  /\ \E r \in exec[e].todo :
       /\ graph' = [graph EXCEPT ![r] =
                      IF @ < Snapshot(e) THEN Snapshot(e) ELSE @]
       /\ exec' = [exec EXCEPT ![e].todo = @ \ {r}]
  /\ UNCHANGED <<row, source>>

(* Every writer has returned.  The first error ends the page; what was     *)
(* still to be written stays unwritten.                                    *)
Written(e) ==
  /\ exec[e].pc = "write"
  /\ \/ exec[e].todo = {} /\ exec[e].ctx = "live" /\ Goto(e, "advance")
     \/ exec[e].ctx = "lost" /\ Return(e)
     \/ exec[e].ctx = "shutdown" /\ Goto(e, "canceling")
     \/ exec[e].ctx = "live" /\ MayFault /\ Goto(e, "failing")
  /\ UNCHANGED <<row, source, graph>>

(* AdvanceCheckpoint, unless the page was empty; then the next page or the *)
(* end of the first pass.                                                  *)
Advance(e) ==
  /\ exec[e].pc = "advance"
  /\ MayGoOn(e)
  /\ IF exec[e].seen = <<>> \/ (row[e].status = "running" /\ Current(e))
     THEN Goto(e, IF Len(exec[e].seen) < exec[e].total
                  THEN "read" ELSE "closing")
     ELSE FailOrCancel(e)
  /\ UNCHANGED <<row, source, graph>>

(* The checks before the two transitions: a cancellation that is accepted  *)
(* after them meets the transition itself.                                 *)
PassCheck(e) ==
  /\ MayGoOn(e)
  /\ \/ exec[e].pc = "closing" /\ Goto(e, "validate")
     \/ exec[e].pc = "agreed" /\ Goto(e, "publish")
  /\ UNCHANGED <<row, source, graph>>

(* TransitionRun.  Its update may commit and the call still fail, in the   *)
(* read that follows: then the row is a phase ahead of the executor.       *)
Transition(e, to, pc) ==
  \/ /\ exec[e].ctx = "live"
     /\ IF RowPermits(e, to)
        THEN /\ row' = [row EXCEPT ![e].status = to]
             /\ exec' = [exec EXCEPT
                  ![e].status = to, ![e].pc = pc,
                  ![e].quiet = @ \/ to = "validating",
                  ![e].listed = IF to = "validating" THEN source ELSE @]
        ELSE FailOrCancel(e) /\ UNCHANGED row
  \/ /\ MayFault \/ exec[e].ctx # "live"
     /\ RowPermits(e, to)
     /\ row' = [row EXCEPT ![e].status = to]
     /\ FailOrCancel(e)

ToValidating(e) ==
  /\ exec[e].pc = "validate"
  /\ Transition(e, "validating", "recheck")
  /\ UNCHANGED <<source, graph>>

SameCount(again, seen) == Len(again) = Len(seen)   \* mutant of SameIdentities

SameIdentities(again, seen) == again = seen

TotalKept(total) == Len(Listing) = total

(* A page of the second pass, validateEntitySnapshot.                      *)
Recheck(e) ==
  LET page == PageAt(Len(exec[e].again))
      again == exec[e].again \o page
      total == exec[e].total IN
  /\ exec[e].pc = "recheck"
  /\ MayGoOn(e)
  /\ IF /\ TotalKept(total)
        /\ PageFits(exec[e].again, total, page)
        /\ Len(again) = total => SameIdentities(again, exec[e].seen)
     THEN exec' = [exec EXCEPT
            ![e].again = again,
            ![e].pc = IF Len(again) = total THEN "agreed" ELSE @]
     ELSE FailOrCancel(e)
  /\ UNCHANGED <<row, source, graph>>

ToPublishing(e) ==
  /\ exec[e].pc = "publish"
  /\ Transition(e, "publishing", IF e \in FullSource THEN "clean" ELSE "complete")
  /\ UNCHANGED <<source, graph>>

UnseenOrOwn(e) ==               \* mutant of Unseen: off by one
  {r \in Records : graph[r] # Absent /\ graph[r] <= Snapshot(e)}

Unseen(e) == {r \in Records : graph[r] # Absent /\ graph[r] < Snapshot(e)}

(* DeleteOrphanVerticesNotSeen: a match and a delete until nothing is found*)
Match(e) ==
  /\ exec[e].pc = "clean"
  /\ exec[e].ctx = "live"
  /\ exec' = [exec EXCEPT
       ![e].todo = Unseen(e),
       ![e].pc = IF Unseen(e) = {} THEN "complete" ELSE "delete"]
  /\ UNCHANGED <<row, source, graph>>

Delete(e) ==
  /\ exec[e].pc = "delete"
  /\ exec[e].ctx = "live"
  /\ graph' = [r \in Records |-> IF r \in exec[e].todo THEN Absent ELSE graph[r]]
  /\ exec' = [exec EXCEPT ![e].pc = "clean", ![e].todo = {}]
  /\ UNCHANGED <<row, source>>

CleanupFails(e) ==
  /\ exec[e].pc \in {"clean", "delete"}
  /\ \/ exec[e].ctx = "lost" /\ Return(e)
     \/ exec[e].ctx = "shutdown" /\ Goto(e, "failing")
     \/ exec[e].ctx = "live" /\ MayFault /\ Goto(e, "failing")
  /\ UNCHANGED <<row, source, graph>>

CompletesAny(e) == ~row[e].cancel         \* mutant of Completes: no phase, no lease

Completes(e) == row[e].status = "publishing" /\ ~row[e].cancel /\ Current(e)

(* CompleteCheckpointAndRun; its commit may succeed and its answer be lost.*)
Complete(e) ==
  /\ exec[e].pc = "complete"
  /\ \/ exec[e].ctx = "lost" /\ Return(e) /\ UNCHANGED row
     \/ /\ Completes(e)
        /\ row' = [row EXCEPT ![e].status = "succeeded"]
        /\ \/ Return(e)
           \/ (MayFault \/ exec[e].ctx # "live") /\ Goto(e, "failing")
     \/ /\ ~Completes(e) \/ MayFault \/ exec[e].ctx # "live"
        /\ Goto(e, "failing")
        /\ UNCHANGED row
  /\ UNCHANGED <<source, graph>>

-----------------------------------------------------------------------------
(* A check or the call after it fails: the check's own error goes straight *)
(* to failRun, that of the call asks for a cancellation first.             *)
Trouble(e) ==
  /\ MayFault \/ exec[e].ctx # "live"
  /\ \/ exec[e].pc \in Checked \cup {"validate", "publish"} /\ FailOrCancel(e)
     \/ exec[e].pc \in Checked \ {"recheck"} /\ Goto(e, "failing")
  /\ UNCHANGED <<row, source, graph>>

RowEnds(e, to) ==
  /\ row[e].status = exec[e].status
  /\ Current(e)
  /\ to = "canceled" => exec[e].status # "publishing"

(* failRun and cancelRun have a context of their own and try once.         *)
End(e, pc, to) ==
  /\ exec[e].pc = pc
  /\ \/ RowEnds(e, to) /\ row' = [row EXCEPT ![e].status = to]
     \/ (~RowEnds(e, to) \/ MayFault) /\ UNCHANGED row
  /\ Return(e)
  /\ UNCHANGED <<source, graph>>

-----------------------------------------------------------------------------
(* The environment.  The source may be edited at any time.                 *)
SourceChanges(r) ==
  /\ source' = IF r \in source THEN source \ {r} ELSE source \cup {r}
  /\ exec' = [e \in Runs |-> IF exec[e].pc = "recheck"
                              THEN [exec[e] EXCEPT !.quiet = FALSE]
                              ELSE exec[e]]
  /\ UNCHANGED <<row, graph>>

Cancel(e) ==
  /\ row[e].status \in {"queued", "running", "validating"}
  /\ row' = [row EXCEPT ![e].cancel = TRUE,
                        ![e].status = IF @ = "queued" THEN "canceled" ELSE @]
  /\ UNCHANGED <<exec, source, graph>>

(* Nobody renews for the time of a lease: the executor is gone or, with    *)
(* MayLapse, it is stalled or cut off from the database and comes back.    *)
Lapse(e) ==
  /\ row[e].status \in InFlight
  /\ MayLapse \/ exec[e].pc = "done"
  /\ row' = [row EXCEPT ![e].lapsed = TRUE]
  /\ UNCHANGED <<exec, source, graph>>

(* expireStaleSyncRuns, in a later enqueue or claim.                       *)
Expire(e) ==
  /\ row[e].status \in InFlight
  /\ row[e].lapsed
  /\ row' = [row EXCEPT ![e].status =
               IF row[e].cancel THEN "canceled" ELSE "failed"]
  /\ UNCHANGED <<exec, source, graph>>

(* The heartbeat's renewal finds no current lease, or cannot be written.   *)
HeartbeatFails(e) ==
  /\ exec[e].pc \notin {"idle", "done"}
  /\ exec[e].ctx = "live"
  /\ MayFault \/ row[e].status \notin InFlight \/ ~Current(e)
  /\ exec' = [exec EXCEPT ![e].ctx = "lost"]
  /\ UNCHANGED <<row, source, graph>>

Shutdown(e) ==
  /\ exec[e].pc \notin {"idle", "done"}
  /\ exec[e].ctx = "live"
  /\ exec' = [exec EXCEPT ![e].ctx = "shutdown"]
  /\ UNCHANGED <<row, source, graph>>

-----------------------------------------------------------------------------
Init ==
  /\ row = [e \in Runs |-> [status |-> "absent", cancel |-> FALSE,
                            lapsed |-> FALSE]]
  /\ exec = [e \in Runs |-> NotExecuting]
  /\ source \in SUBSET Records
  /\ graph \in [Records -> {Absent, 1}]

Step(e) ==
  \/ Begin(e) \/ StopAtCheck(e) \/ Trouble(e)
  \/ Read(e) \/ Write(e) \/ Written(e) \/ Advance(e)
  \/ PassCheck(e) \/ ToValidating(e) \/ Recheck(e) \/ ToPublishing(e)
  \/ Match(e) \/ Delete(e) \/ CleanupFails(e) \/ Complete(e)
  \/ End(e, "failing", "failed") \/ End(e, "canceling", "canceled")

Environment(e) ==
  \/ Enqueue(e) \/ Claim(e) \/ Cancel(e)
  \/ Lapse(e) \/ Expire(e) \/ HeartbeatFails(e) \/ Shutdown(e)

Next ==
  \/ \E e \in Runs : Step(e) \/ Environment(e)
  \/ \E r \in Records : SourceChanges(r)

Spec == Init /\ [][Next]_vars

(* An executor that has claimed a run goes on: every call of it returns,   *)
(* by its own timeout at the latest.  Nothing else is owed by anybody.     *)
Fairness == \A e \in Runs : WF_vars(Step(e))

FairSpec == Spec /\ Fairness

-----------------------------------------------------------------------------
(* Cleanup deletes nothing that the source lists: if the source was left   *)
(* alone during the second pass, then whatever happened during the first   *)
(* one, the records that it listed stay.  An executor that has outlived    *)
(* its lease may go on writing meanwhile, but then only one run may clean  *)
(* up: of two such executors one could delete what was just written, and   *)
(* the other write it again as of its own, older snapshot.                 *)
CleanupSparesListed ==
  [][\A e \in Runs, r \in Records :
       /\ exec[e].pc = "delete"
       /\ exec'[e] # exec[e]
       /\ graph[r] # Absent
       /\ graph'[r] = Absent
       /\ exec[e].quiet
       => r \notin exec[e].listed]_vars

(* A run that succeeds has published what it read: every record of its     *)
(* passes is in the graph, and a full collection has left nothing older.   *)
(* As long as no executor outlives its lease.                              *)
PublishedIsExact ==
  [][\A e \in Runs :
       row[e].status # "succeeded" /\ row'[e].status = "succeeded" =>
         \A r \in Records :
           \/ graph[r] >= Snapshot(e)
           \/ /\ r \notin Range(exec[e].seen)
              /\ e \in FullSource => graph[r] = Absent]_vars

(* A run with an accepted cancellation never gets to the cleanup.          *)
CanceledRunNeverCleans ==
  \A e \in Runs : row[e].cancel => exec[e].pc \notin {"clean", "delete", "complete"}

(* What holds of the worker in every state (executeClaimed).               *)
WorkerInvariant == TypeOK /\ CanceledRunNeverCleans

(* An accepted cancellation is answered by an end of the run, unless the   *)
(* lease lapses, the heartbeat fails or the process has to stop before.    *)
CancelAnswered ==
  \A e \in Runs :
    (/\ row[e].cancel
     /\ row[e].status \in InFlight)
    ~> (row[e].status \in Ended \/ row[e].lapsed \/ exec[e].ctx # "live")

(* What the executors, the requests and the expiries make of the rows is   *)
(* the life cycle that the control plane promises.                         *)
Life == INSTANCE RunLifecycle WITH
  RunIds <- Runs,
  Sources <- {"source"},
  None <- "none",
  life <- [e \in Runs |->
    [status |-> row[e].status,
     source |-> IF row[e].status = "absent" THEN "none" ELSE "source",
     cancel |-> row[e].cancel,
     started |-> IF exec[e].pc = "idle" THEN -1 ELSE Snapshot(e)]]

RunsFollowLifecycle == Life!Spec

(* Writes and cleanups of one source are serial: no executor writes a page *)
(* while another one is cleaning up.                                       *)
CleanupExcludesWrites ==
  \A d, e \in Runs :
    ~(d # e /\ exec[d].pc = "write" /\ exec[e].pc = "delete")
=============================================================================
