------------------------------ MODULE SyncRuns ------------------------------
(***************************************************************************)
(* The control plane of the topology service: the rows of sync_runs and    *)
(* sync_checkpoints and every transaction of internal/repository that      *)
(* writes them.  API servers, polling workers and the one-shot commands of *)
(* cmd/worker are all sessions of the one MySQL database.                  *)
(*                                                                         *)
(* A transaction that decides on what it read and writes later (Enqueue,   *)
(* ClaimNext) is two steps, Begin and an ending; between them it holds the *)
(* locks that InnoDB gives it: the source row read FOR UPDATE and the run  *)
(* rows its expiry has updated.  A statement or transaction that reads its *)
(* row FOR UPDATE and writes it at once is one step.                       *)
(*                                                                         *)
(* Abstracted: finished_at and error_code (written with the status), the   *)
(* part of a cursor that orders records inside a page (last_instance_id,   *)
(* last_partition), snapshot_at (always the run's started_at: a run is     *)
(* claimed once), and mode and requested_by, which no operation reads.     *)
(***************************************************************************)
EXTENDS Integers

CONSTANTS
  Sources,         \* rows of sources
  EnabledSources,  \* those with enabled = true
  RunIds,          \* identifiers a new run may get
  Keys,            \* idempotency keys of API callers
  Hashes,          \* request hashes
  Resources,       \* checkpoint resources: devices, interfaces, ...
  Sessions,        \* database sessions: API servers, workers, commands
  Workers,         \* the sessions of the polling workers
  None,            \* SQL NULL, and the fresh key of a command
  Lease,           \* inventoryRunLeaseDuration, in clock ticks
  MaxLag,          \* bound: ticks between a call's timestamp and its effect
  MaxTime,         \* bound: the clock stops here
  MaxTotal         \* bound: records a source may hold

ASSUME ParametersAssumption ==
  /\ EnabledSources \subseteq Sources
  /\ Workers \subseteq Sessions
  /\ None \notin Sources \cup RunIds \cup Keys \cup Hashes
  /\ Lease \in Nat \ {0}
  /\ MaxLag \in Nat
  /\ MaxTime \in Nat
  /\ MaxTotal \in Nat

VARIABLES
  runs,         \* sync_runs, one row for each identifier in use
  checkpoints,  \* sync_checkpoints, keyed by source and resource
  txn,          \* the open transaction of each session
  now           \* the clock

vars == <<runs, checkpoints, txn, now>>

-----------------------------------------------------------------------------
NoTime == -1
Time == Nat \cup {NoTime}

InFlight == {"running", "validating", "publishing"}
Active == InFlight \cup {"queued"}
Terminal == {"succeeded", "failed", "canceled"}
Status == Active \cup Terminal \cup {"absent"}

Row == [status : Status, source : Sources \cup {None}, key : Keys \cup {None},
        hash : Hashes \cup {None}, cancel : BOOLEAN,
        created : Time, started : Time, lease : Time]

NoRow == [status |-> "absent", source |-> None, key |-> None, hash |-> None,
          cancel |-> FALSE, created |-> NoTime, started |-> NoTime,
          lease |-> NoTime]

Cursor == [run : RunIds \cup {None}, offset : Nat, total : Nat,
           complete : BOOLEAN]

NoCursor == [run |-> None, offset |-> 0, total |-> 0, complete |-> FALSE]

(* "cleared" is a command that has counted the active runs of its source   *)
(* and not yet opened its transaction.                                     *)
Txn == [op : {"idle", "cleared", "enqueue", "launch", "claim"},
        source : Sources \cup {None}, key : Keys \cup {None},
        hash : Hashes \cup {None}, at : Nat, expired : SUBSET RunIds,
        run : RunIds \cup {None}, verdict : {"none", "create", "replay", "reject"}]

Idle == [op |-> "idle", source |-> None, key |-> None, hash |-> None, at |-> 0,
         expired |-> {}, run |-> None, verdict |-> "none"]

(* Columns that go together: only a run being executed has a lease, and    *)
(* every run that was ever claimed keeps its start.                        *)
RowShape(row) ==
  /\ row.status = "absent" => row = NoRow
  /\ row.status # "absent" => row.source \in Sources
  /\ row.status = "queued" => row.started = NoTime /\ ~row.cancel
  /\ row.status \in InFlight \cup {"succeeded"} => row.started \in Nat
  /\ row.status \notin InFlight => row.lease = NoTime

(* A finished run keeps no lease: expiry, transition and completion clear  *)
(* the column together with the status they write.                         *)
TypeOK ==
  /\ runs \in [RunIds -> Row]
  /\ \A r \in RunIds : RowShape(runs[r])
  /\ checkpoints \in [Sources -> [Resources -> Cursor]]
  /\ txn \in [Sessions -> Txn]
  /\ now \in Nat

-----------------------------------------------------------------------------
(* syncRunLeaseCurrentCondition.  A row claimed before the lease column    *)
(* existed has none and is judged by its start.                            *)
LeaseCurrent(r, at) ==
  IF runs[r].lease # NoTime THEN runs[r].lease > at
  ELSE runs[r].started # NoTime /\ runs[r].started > at - Lease

StaleByStart(r, at) ==          \* mutant of Stale: renewals are overlooked
  /\ runs[r].status \in InFlight
  /\ runs[r].started <= at - Lease

(* The rows that expireStaleSyncRuns selects, and what it makes of each.   *)
Stale(r, at) ==
  /\ runs[r].status \in InFlight
  /\ IF runs[r].lease # NoTime THEN runs[r].lease <= at
     ELSE runs[r].started # NoTime /\ runs[r].started <= at - Lease

ExpiredKeepsLease(row) ==       \* mutant of ExpiredRow
  [row EXCEPT !.status = IF row.cancel THEN "canceled" ELSE "failed"]

ExpiredRow(row) ==
  [row EXCEPT !.status = IF row.cancel THEN "canceled" ELSE "failed",
              !.lease = NoTime]

AfterExpiry(expired) ==
  [r \in RunIds |-> IF r \in expired THEN ExpiredRow(runs[r]) ELSE runs[r]]

RunsOf(s) == {r \in RunIds : runs[r].source = s}
ActiveRunsOf(s) == {r \in RunsOf(s) : runs[r].status \in Active}

(* Locks of open transactions: the source row that Enqueue reads FOR       *)
(* UPDATE, and the rows an expiry has updated and not yet committed.       *)
SourceNotLocked(s) == TRUE      \* mutant of SourceFree: no FOR UPDATE

SourceFree(s) ==
  \A c \in Sessions : txn[c].op \in {"enqueue", "launch"} => txn[c].source # s
RowFree(r) == \A c \in Sessions : r \notin txn[c].expired

(* The timestamp a caller took some time before its statement runs.        *)
Stamps == {at \in 0..now : at >= now - MaxLag}

-----------------------------------------------------------------------------
RefusedUnlessClaimed(s, stale) ==   \* mutant of Refused: forgets "queued"
  \/ s \notin EnabledSources
  \/ \E r \in ActiveRunsOf(s) \ stale : runs[r].status \in InFlight

(* A disabled source, or one that has another active run.                  *)
Refused(s, stale) ==
  \/ s \notin EnabledSources
  \/ ActiveRunsOf(s) \ stale # {}

(* inventoryRepository.Enqueue, up to its insert: the source row is locked,*)
(* its stale runs are expired, and the verdict is read.                    *)
BeginEnqueue(c, op, s, k, h) ==
  LET stale    == {r \in RunsOf(s) : Stale(r, now)}
      existing == {r \in RunsOf(s) : k # None /\ runs[r].key = k}
  IN /\ SourceFree(s)
     /\ \A r \in stale : RowFree(r)
     /\ txn' = [txn EXCEPT ![c] =
          [op |-> op, source |-> s, key |-> k, hash |-> h, at |-> now,
           expired |-> stale, run |-> None,
           verdict |-> IF existing # {}
                       THEN IF \E r \in existing : runs[r].hash = h
                            THEN "replay" ELSE "reject"
                       ELSE IF Refused(s, stale) THEN "reject" ELSE "create"]]
     /\ UNCHANGED <<runs, checkpoints, now>>

(* POST of a sync run through the API.                                     *)
EnqueueBegin(c, s, k, h) ==
  /\ txn[c].op = "idle"
  /\ BeginEnqueue(c, "enqueue", s, k, h)

(* sync-filtered and sync-server-uplinks: the active runs of the source are*)
(* counted first, in a statement of its own that expires nothing; then one *)
(* transaction enqueues the run and claims it.                             *)
CommandInspect(c, s) ==
  /\ txn[c].op = "idle"
  /\ s \in EnabledSources
  /\ ActiveRunsOf(s) = {}
  /\ txn' = [txn EXCEPT ![c] = [Idle EXCEPT !.op = "cleared", !.source = s]]
  /\ UNCHANGED <<runs, checkpoints, now>>

LaunchBegin(c) ==
  /\ txn[c].op = "cleared"
  /\ BeginEnqueue(c, "launch", txn[c].source, None, None)

QueuedRow(t) ==
  [NoRow EXCEPT !.status = "queued", !.source = t.source, !.key = t.key,
                !.hash = t.hash, !.created = t.at]

ClaimedRow(row, at) ==
  [row EXCEPT !.status = "running", !.started = at, !.lease = at + Lease]

(* The unique index over (source_id, idempotency_key).                     *)
KeyUnused(s, k) == k # None => \A r \in RunsOf(s) : runs[r].key # k

Insert(t, r, row) ==
  /\ runs[r].status = "absent"
  /\ KeyUnused(t.source, t.key)
  /\ runs' = [AfterExpiry(t.expired) EXCEPT ![r] = row]

EnqueueCreate(c) ==
  /\ txn[c].op = "enqueue"
  /\ txn[c].verdict = "create"
  /\ \E r \in RunIds : Insert(txn[c], r, QueuedRow(txn[c]))
  /\ txn' = [txn EXCEPT ![c] = Idle]
  /\ UNCHANGED <<checkpoints, now>>

(* A command's targeted ClaimNext takes the row before it is committed.    *)
LaunchCommit(c) ==
  /\ txn[c].op = "launch"
  /\ txn[c].verdict = "create"
  /\ \E r \in RunIds, at \in txn[c].at..now :
       Insert(txn[c], r, ClaimedRow(QueuedRow(txn[c]), at))
  /\ txn' = [txn EXCEPT ![c] = Idle]
  /\ UNCHANGED <<checkpoints, now>>

(* The key is known: the stored run is the answer and the expiry commits.  *)
EnqueueReplay(c) ==
  /\ txn[c].op = "enqueue"
  /\ txn[c].verdict = "replay"
  /\ runs' = AfterExpiry(txn[c].expired)
  /\ txn' = [txn EXCEPT ![c] = Idle]
  /\ UNCHANGED <<checkpoints, now>>

(* Every error return, ErrInventoryNoRun included, and a lost connection:  *)
(* the whole transaction is rolled back, its expiry too.                   *)
Rollback(c) ==
  /\ txn[c].op # "idle"
  /\ txn' = [txn EXCEPT ![c] = Idle]
  /\ UNCHANGED <<runs, checkpoints, now>>

-----------------------------------------------------------------------------
(* claim with no target: stale runs of every source are expired, then the  *)
(* oldest queued run is read.  An empty queue is ErrInventoryNoRun, a      *)
(* rollback that leaves no trace.                                          *)
Claimable == {r \in RunIds : runs[r].status = "queued" /\ ~runs[r].cancel}

ClaimBegin(c) ==
  LET stale == {r \in RunIds : Stale(r, now)} IN
  /\ txn[c].op = "idle"
  /\ \A r \in stale : RowFree(r)
  /\ \E r \in Claimable :
       /\ \A q \in Claimable : runs[r].created <= runs[q].created
       /\ txn' = [txn EXCEPT ![c] = [Idle EXCEPT !.op = "claim", !.at = now,
                                       !.expired = stale, !.run = r]]
  /\ UNCHANGED <<runs, checkpoints, now>>

AnyStatus(r) == TRUE            \* mutant of StillQueued

StillQueued(r) == runs[r].status = "queued" /\ ~runs[r].cancel

(* The conditional update takes the row only if it is still queued.        *)
ClaimCommit(c) ==
  LET t == txn[c] IN
  /\ t.op = "claim"
  /\ StillQueued(t.run)
  /\ runs' = [AfterExpiry(t.expired) EXCEPT ![t.run] =
                ClaimedRow(runs[t.run], t.at)]
  /\ txn' = [txn EXCEPT ![c] = Idle]
  /\ UNCHANGED <<checkpoints, now>>

-----------------------------------------------------------------------------
MarkedRow(row) == [row EXCEPT !.cancel = TRUE]   \* mutant of CanceledRow

CanceledRow(row) == [row EXCEPT !.status = "canceled", !.cancel = TRUE]

(* inventoryRepository.Cancel: a queued run ends at once, a run being      *)
(* executed is marked; publishing and finished runs are a conflict.        *)
Cancel(r) ==
  /\ RowFree(r)
  /\ \/ /\ runs[r].status = "queued"
        /\ runs' = [runs EXCEPT ![r] = CanceledRow(runs[r])]
     \/ /\ runs[r].status \in {"running", "validating"}
        /\ ~runs[r].cancel
        /\ runs' = [runs EXCEPT ![r].cancel = TRUE]
  /\ UNCHANGED <<checkpoints, txn, now>>

(* SyncRunTransitionAllowed.                                               *)
TransitionAllowed(from, to) ==
  \/ from = "running"    /\ to \in {"validating", "failed", "canceled"}
  \/ from = "validating" /\ to \in {"publishing", "failed", "canceled"}
  \/ from = "publishing" /\ to \in {"succeeded", "failed"}

IgnoresCancel(r, to) == TRUE    \* mutant of CancelPermits

(* Only publishing looks at the mark: it is the point of no return.        *)
CancelPermits(r, to) == to = "publishing" => ~runs[r].cancel

TransitionRun(r, from, to, at) ==
  /\ TransitionAllowed(from, to)
  /\ RowFree(r)
  /\ runs[r].status = from
  /\ LeaseCurrent(r, at)
  /\ CancelPermits(r, to)
  /\ runs' = [runs EXCEPT ![r].status = to,
                          ![r].lease = IF to \in Terminal THEN NoTime
                                       ELSE at + Lease]
  /\ UNCHANGED <<checkpoints, txn, now>>

(* What executors ask for: the next phase, or an end.  Cancellation checks *)
(* end a run with the time of its claim as timestamp.                      *)
Proceed(r) ==
  \E at \in Stamps : \E step \in {<<"running", "validating">>,
                                  <<"validating", "publishing">>} :
    /\ at >= runs[r].started
    /\ TransitionRun(r, step[1], step[2], at)

Abandon(r) ==
  \E at \in Stamps \cup {runs[r].started}, to \in {"failed", "canceled"} :
    /\ at >= runs[r].started
    /\ TransitionRun(r, runs[r].status, to, at)

RenewRunLease(r, at) ==
  /\ RowFree(r)
  /\ at >= runs[r].started
  /\ runs[r].status \in InFlight
  /\ LeaseCurrent(r, at)
  /\ runs' = [runs EXCEPT ![r].lease = at + Lease]
  /\ UNCHANGED <<checkpoints, txn, now>>

-----------------------------------------------------------------------------
ExecutingOnce(r, at) ==         \* mutant of Executing: status not read
  /\ RowFree(r)
  /\ at >= runs[r].started
  /\ ~runs[r].cancel
  /\ LeaseCurrent(r, at)

(* The guard that BeginCheckpoint and AdvanceCheckpoint read FOR UPDATE.   *)
Executing(r, at) ==
  /\ RowFree(r)
  /\ at >= runs[r].started
  /\ runs[r].status = "running"
  /\ ~runs[r].cancel
  /\ LeaseCurrent(r, at)

(* A cursor of another run, or of a finished pass, is reset; one of this   *)
(* run is resumed.  An executor works on one resource.                     *)
BeginCheckpoint(r, resource, at) ==
  LET s == runs[r].source
      stored == checkpoints[s][resource] IN
  /\ Executing(r, at)
  /\ \A other \in Resources \ {resource} : checkpoints[s][other].run # r
  /\ checkpoints' = [checkpoints EXCEPT ![s][resource] =
       IF stored.complete \/ stored.run # r THEN [NoCursor EXCEPT !.run = r]
       ELSE stored]
  /\ UNCHANGED <<runs, txn, now>>

SamePass(stored, r, offset, total) ==   \* mutant of Continues
  /\ ~stored.complete
  /\ stored.run = r
  /\ stored.total # 0 => total = stored.total

Continues(stored, r, offset, total) ==
  /\ ~stored.complete
  /\ stored.run = r
  /\ offset > stored.offset
  /\ stored.total # 0 => total = stored.total

AdvanceCheckpoint(r, resource, offset, total, at) ==
  LET s == runs[r].source
      stored == checkpoints[s][resource] IN
  /\ Executing(r, at)
  /\ offset <= total
  /\ Continues(stored, r, offset, total)
  /\ checkpoints' = [checkpoints EXCEPT ![s][resource] =
       [run |-> r, offset |-> offset, total |-> total, complete |-> FALSE]]
  /\ runs' = [runs EXCEPT ![r].lease = at + Lease]
  /\ UNCHANGED <<txn, now>>

OpenPass(stored, r) == ~stored.complete /\ stored.run = r   \* mutant of PassFinished

PassFinished(stored, r) ==
  /\ ~stored.complete
  /\ stored.run = r
  /\ stored.offset = stored.total

(* The only way to success: checkpoint and run are closed together.        *)
CompleteCheckpointAndRun(r, resource, at) ==
  LET s == runs[r].source
      stored == checkpoints[s][resource] IN
  /\ RowFree(r)
  /\ at >= runs[r].started
  /\ runs[r].status = "publishing"
  /\ ~runs[r].cancel
  /\ LeaseCurrent(r, at)
  /\ PassFinished(stored, r)
  /\ checkpoints' = [checkpoints EXCEPT ![s][resource].complete = TRUE]
  /\ runs' = [runs EXCEPT ![r].status = "succeeded", ![r].cancel = FALSE,
                          ![r].lease = NoTime]
  /\ UNCHANGED <<txn, now>>

Tick ==
  /\ now < MaxTime
  /\ now' = now + 1
  /\ UNCHANGED <<runs, checkpoints, txn>>

-----------------------------------------------------------------------------
(* The table may hold one run that was being executed when migration 0002  *)
(* added the lease column.                                                 *)
LegacyRow(s, k, h) ==
  [NoRow EXCEPT !.status = "running", !.source = s, !.key = k, !.hash = h,
                !.created = 0, !.started = 0]

Init ==
  /\ \/ runs = [r \in RunIds |-> NoRow]
     \/ \E legacy \in RunIds, s \in Sources, k \in Keys, h \in Hashes :
          runs = [r \in RunIds |-> IF r = legacy THEN LegacyRow(s, k, h)
                                   ELSE NoRow]
  /\ checkpoints = [s \in Sources |-> [resource \in Resources |-> NoCursor]]
  /\ txn = [c \in Sessions |-> Idle]
  /\ now = 0

ClientNext(c) ==
  \/ \E s \in Sources, k \in Keys, h \in Hashes : EnqueueBegin(c, s, k, h)
  \/ \E s \in Sources : CommandInspect(c, s)
  \/ LaunchBegin(c)
  \/ EnqueueCreate(c)
  \/ LaunchCommit(c)
  \/ EnqueueReplay(c)
  \/ Rollback(c)

WorkerNext(c) ==
  \/ ClaimBegin(c)
  \/ ClaimCommit(c)
  \/ Rollback(c)

RunNext(r) ==
  \/ Cancel(r)
  \/ Proceed(r)
  \/ Abandon(r)
  \/ \E at \in Stamps :
       \/ RenewRunLease(r, at)
       \/ \E resource \in Resources :
            \/ BeginCheckpoint(r, resource, at)
            \/ \E offset \in 1..MaxTotal, total \in 1..MaxTotal :
                 AdvanceCheckpoint(r, resource, offset, total, at)
            \/ CompleteCheckpointAndRun(r, resource, at)

Next ==
  \/ \E c \in Sessions \ Workers : ClientNext(c)
  \/ \E c \in Workers : WorkerNext(c)
  \/ \E r \in RunIds : RunNext(r)
  \/ Tick

Spec == Init /\ [][Next]_vars

(* Workers poll for ever and the database ends every transaction; nobody   *)
(* has to enqueue, cancel or go on executing a run.  A claim may meet lock *)
(* waits and lost connections, but not every time.                         *)
Fairness ==
  /\ WF_vars(Tick)
  /\ \A c \in Sessions : WF_vars(Rollback(c))
  /\ \A c \in Workers : SF_vars(ClaimBegin(c)) /\ SF_vars(ClaimCommit(c))

FairSpec == Spec /\ Fairness

-----------------------------------------------------------------------------
(* The locks of open transactions.  No two sessions are between Begin and  *)
(* commit of an Enqueue for one source, or hold the same expired row, and  *)
(* an expired row cannot leave the statuses it was selected by.            *)
LocksHeld ==
  /\ \A c \in Sessions :
       /\ txn[c].op \in {"enqueue", "launch"} => txn[c].source \in Sources
       /\ txn[c].op = "cleared" => txn[c].source \in Sources
       /\ txn[c].op = "claim" => txn[c].run \in RunIds
       /\ txn[c].verdict # "none" => txn[c].op \in {"enqueue", "launch"}
       /\ \A r \in txn[c].expired : runs[r].status \in InFlight
  /\ \A c, d \in Sessions : c # d =>
       /\ txn[c].expired \cap txn[d].expired = {}
       /\ /\ txn[c].op \in {"enqueue", "launch"}
          /\ txn[d].op \in {"enqueue", "launch"}
          => txn[c].source # txn[d].source

(* A source never has two active runs, whatever requests, commands, claims *)
(* and expiries of several processes overlap: the count in Enqueue is only *)
(* right because the source row stays locked until the insert commits.     *)
OneActivePerSource ==
  \A q, r \in RunIds :
    /\ runs[q].status \in Active
    /\ runs[r].status \in Active
    /\ runs[q].source = runs[r].source
    => q = r

(* Enqueue writes on a verdict it read earlier in its transaction: when it *)
(* comes to the insert the key is still unused, so that a concurrent       *)
(* repetition of a request waits and is answered with the stored run and   *)
(* never with a duplicate-key error, and no other run has become active.   *)
CreateVerdictStillHolds ==
  \A c \in Sessions : txn[c].verdict = "create" =>
    /\ KeyUnused(txn[c].source, txn[c].key)
    /\ ActiveRunsOf(txn[c].source) \subseteq txn[c].expired

(* The checkpoint and the run agree: a checkpoint is complete exactly when *)
(* the run it names has succeeded, it is then at its total, and it belongs *)
(* to a run of its own source.                                             *)
CompletionAgrees ==
  \A s \in Sources, resource \in Resources :
    LET ck == checkpoints[s][resource] IN ck.run # None =>
      /\ runs[ck.run].source = s
      /\ ck.complete <=> runs[ck.run].status = "succeeded"
      /\ ck.complete => ck.offset = ck.total

(* A run is claimed at most once: started_at, the snapshot time of all it   *)
(* writes, never changes.                                                  *)
ClaimedOnce ==
  [][\A r \in RunIds :
       runs[r].started # NoTime => runs'[r].started = runs[r].started]_vars

(* No late claim, transition, renewal, cancel or expiry changes a row that *)
(* has reached succeeded, failed or canceled.                              *)
FinishedRunsAreFinal ==
  [][\A r \in RunIds :
       runs[r].status \in Terminal => runs'[r] = runs[r]]_vars

(* An accepted cancellation wins against every phase change that races it: *)
(* the run is never published and never succeeds.                          *)
AcceptedCancelHolds ==
  [][\A r \in RunIds :
       runs[r].cancel => runs'[r].status \notin {"publishing", "succeeded"}]_vars

(* The expiry inside Enqueue and ClaimNext, decided when the transaction   *)
(* began and committed later, never touches a run whose lease is current.  *)
ExpirySparesLiveRuns ==
  [][\A r \in RunIds :
       /\ txn' # txn
       /\ runs[r].status \in InFlight
       /\ LeaseCurrent(r, now)
       => runs'[r] = runs[r]]_vars

(* BeginCheckpoint overwrites the cursor of another run without looking at *)
(* that run: it must have finished.                                        *)
CursorTakenFromFinishedRun ==
  [][\A s \in Sources, resource \in Resources :
       LET ck == checkpoints[s][resource] IN
       ck.run # None /\ checkpoints'[s][resource].run # ck.run
         => runs[ck.run].status \in Terminal]_vars

(* As long as a run owns the cursor, its offset never goes back and its    *)
(* total, once known, never changes.                                       *)
CursorNeverRegresses ==
  [][\A s \in Sources, resource \in Resources :
       LET ck == checkpoints[s][resource]
           next == checkpoints'[s][resource]
       IN ck.run # None /\ next.run = ck.run =>
            /\ next.offset >= ck.offset
            /\ ck.total # 0 => next.total = ck.total]_vars

(* A queued run does not stay queued: some worker takes it or it is        *)
(* canceled, however many claims lose their row or roll back.              *)
QueuedRunIsTaken ==
  \A r \in RunIds : runs[r].status = "queued" ~> runs[r].status # "queued"

(* The comment over NewInventoryRunRepository sets targeted claims apart   *)
(* from the ordinary one, which deals with expired runs: a run whose lease *)
(* has lapsed is eventually closed by the polling workers.                 *)
LapsedRunIsClosed ==
  \A r \in RunIds : Stale(r, now) ~> ~Stale(r, now)

-----------------------------------------------------------------------------
(* The abstract view of the table: phase, source, cancellation and start.  *)
Life(row) == [status |-> row.status, source |-> row.source,
              cancel |-> row.cancel, started |-> row.started]

Lifecycle == INSTANCE RunLifecycle WITH life <- [r \in RunIds |-> Life(runs[r])]

(* Transactions, leases and clocks implement the life cycle: whatever      *)
(* overlaps, each run only makes the moves of RunLifecycle, publishing is  *)
(* never canceled, and no source has two live runs.                        *)
RunsFollowLifecycle == Lifecycle!Spec
=============================================================================
