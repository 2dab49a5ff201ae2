--------------------------- MODULE SyncRunsProofs ---------------------------
(***************************************************************************)
(* Theorems about SyncRuns, for any number of sources, runs and sessions.  *)
(***************************************************************************)
EXTENDS SyncRuns, TLAPS

(* The part of the invariant that every other proof rests on: types, and   *)
(* the exclusion that the locks of open transactions give.                 *)
LockInv == TypeOK /\ LocksHeld

-----------------------------------------------------------------------------
(* Expiry maps a table of rows to a table of rows: the locked rows are in  *)
(* flight and become finished ones, the others stay.                       *)
LEMMA AfterExpiryType ==
  ASSUME LockInv, NEW c \in Sessions
  PROVE  /\ AfterExpiry(txn[c].expired) \in [RunIds -> Row]
         /\ \A r \in RunIds : RowShape(AfterExpiry(txn[c].expired)[r])
         /\ \A r \in RunIds \ txn[c].expired :
              AfterExpiry(txn[c].expired)[r] = runs[r]
         /\ \A r \in txn[c].expired :
              /\ AfterExpiry(txn[c].expired)[r].status \in {"failed", "canceled"}
              /\ AfterExpiry(txn[c].expired)[r].source = runs[r].source
              /\ AfterExpiry(txn[c].expired)[r].key = runs[r].key
<1> USE DEF LockInv
<1> DEFINE after == AfterExpiry(txn[c].expired)
<1>1. txn[c].expired \subseteq RunIds
  BY DEF TypeOK, Txn
<1>2. ASSUME NEW r \in RunIds
      PROVE  /\ after[r] \in Row
             /\ RowShape(after[r])
  <2>1. runs[r] \in Row /\ RowShape(runs[r])
    BY DEF TypeOK
  <2>2. CASE r \in txn[c].expired
    <3>1. runs[r].status \in InFlight
      BY <2>2 DEF LocksHeld
    <3>2. after[r] = ExpiredRow(runs[r])
      BY <2>2 DEF AfterExpiry
    <3> QED
      BY <2>1, <3>1, <3>2 DEF ExpiredRow, Row, RowShape, InFlight, Status,
         Active, Terminal, Time, NoTime, NoRow
  <2>3. CASE r \notin txn[c].expired
    BY <2>1, <2>3 DEF AfterExpiry
  <2> QED
    BY <2>2, <2>3
<1>3. ASSUME NEW r \in txn[c].expired
      PROVE  /\ after[r].status \in {"failed", "canceled"}
             /\ after[r].source = runs[r].source
             /\ after[r].key = runs[r].key
  BY <1>1, <1>3 DEF AfterExpiry, ExpiredRow, TypeOK, Row
<1>4. after \in [RunIds -> Row]
  BY <1>2 DEF AfterExpiry
<1> QED
  BY <1>2, <1>3, <1>4 DEF AfterExpiry

(* A single-row statement whose row no transaction has locked keeps the    *)
(* invariant if the row it writes is a well-formed row.                    *)
LEMMA RowWriteType ==
  ASSUME LockInv, NEW r \in RunIds, RowFree(r),
         runs' \in [RunIds -> Row],
         RowShape(runs'[r]),
         \A q \in RunIds \ {r} : runs'[q] = runs[q],
         UNCHANGED <<txn, now>>,
         checkpoints' \in [Sources -> [Resources -> Cursor]]
  PROVE  LockInv'
<1> USE DEF LockInv
<1>1. TypeOK'
  BY DEF TypeOK
<1>2. ASSUME NEW c \in Sessions, NEW q \in txn[c].expired
      PROVE  runs'[q].status \in InFlight
  <2>1. q \in RunIds /\ q # r
    BY DEF TypeOK, Txn, RowFree
  <2> QED
    BY <2>1 DEF LocksHeld
<1>3. LocksHeld'
  BY <1>2 DEF LocksHeld
<1> QED
  BY <1>1, <1>3

(* Ending a transaction releases its locks.                                *)
LEMMA EndTxnType ==
  ASSUME LockInv, NEW c \in Sessions,
         txn' = [txn EXCEPT ![c] = Idle],
         runs' \in [RunIds -> Row],
         \A r \in RunIds : RowShape(runs'[r]),
         \A d \in Sessions \ {c} : \A r \in txn[d].expired :
           runs'[r].status = runs[r].status,
         UNCHANGED <<checkpoints, now>>
  PROVE  LockInv'
<1> USE DEF LockInv
<1>1. /\ txn' \in [Sessions -> Txn]
      /\ txn'[c] = Idle
      /\ \A d \in Sessions \ {c} : txn'[d] = txn[d]
  BY DEF TypeOK, Txn, Idle
<1>2. TypeOK'
  BY <1>1 DEF TypeOK
<1>3. ASSUME NEW d \in Sessions
      PROVE  /\ txn'[d].op \in {"enqueue", "launch", "cleared"} => txn'[d].source \in Sources
             /\ txn'[d].op = "claim" => txn'[d].run \in RunIds
             /\ txn'[d].verdict # "none" => txn'[d].op \in {"enqueue", "launch"}
             /\ \A r \in txn'[d].expired : runs'[r].status \in InFlight
  BY <1>1 DEF LocksHeld, Idle
<1>4. ASSUME NEW d \in Sessions, NEW e \in Sessions, d # e
      PROVE  /\ txn'[d].expired \cap txn'[e].expired = {}
             /\ /\ txn'[d].op \in {"enqueue", "launch"}
                /\ txn'[e].op \in {"enqueue", "launch"}
                => txn'[d].source # txn'[e].source
  BY <1>1, <1>4 DEF LocksHeld, Idle
<1>5. LocksHeld'
  BY <1>3, <1>4 DEF LocksHeld
<1> QED
  BY <1>2, <1>5

(* Opening one takes locks that were free.                                 *)
LEMMA BeginTxnType ==
  ASSUME LockInv, NEW c \in Sessions, NEW t \in Txn,
         txn' = [txn EXCEPT ![c] = t],
         t.op \in {"enqueue", "launch"} =>
           t.source \in Sources /\ SourceFree(t.source),
         t.op = "cleared" => t.source \in Sources,
         t.op = "claim" => t.run \in RunIds,
         t.verdict # "none" => t.op \in {"enqueue", "launch"},
         \A r \in t.expired : runs[r].status \in InFlight /\ RowFree(r),
         UNCHANGED <<runs, checkpoints, now>>
  PROVE  LockInv'
<1> USE DEF LockInv
<1>1. /\ txn' \in [Sessions -> Txn]
      /\ txn'[c] = t
      /\ \A d \in Sessions \ {c} : txn'[d] = txn[d]
  BY DEF TypeOK
<1>2. TypeOK'
  BY <1>1 DEF TypeOK
<1>3. ASSUME NEW d \in Sessions
      PROVE  /\ txn'[d].op \in {"enqueue", "launch", "cleared"} => txn'[d].source \in Sources
             /\ txn'[d].op = "claim" => txn'[d].run \in RunIds
             /\ txn'[d].verdict # "none" => txn'[d].op \in {"enqueue", "launch"}
             /\ \A r \in txn'[d].expired : runs'[r].status \in InFlight
  BY <1>1 DEF LocksHeld
<1>4. ASSUME NEW d \in Sessions \ {c}
      PROVE  /\ t.expired \cap txn[d].expired = {}
             /\ /\ t.op \in {"enqueue", "launch"}
                /\ txn[d].op \in {"enqueue", "launch"}
                => t.source # txn[d].source
  BY <1>4 DEF SourceFree, RowFree
<1>5. ASSUME NEW d \in Sessions, NEW e \in Sessions, d # e
      PROVE  /\ txn'[d].expired \cap txn'[e].expired = {}
             /\ /\ txn'[d].op \in {"enqueue", "launch"}
                /\ txn'[e].op \in {"enqueue", "launch"}
                => txn'[d].source # txn'[e].source
  BY <1>1, <1>4, <1>5 DEF LocksHeld
<1>6. LocksHeld'
  BY <1>3, <1>5 DEF LocksHeld
<1> QED
  BY <1>2, <1>6

-----------------------------------------------------------------------------
LEMMA InitLock ==
  Init => LockInv
<1> SUFFICES ASSUME Init PROVE LockInv
  OBVIOUS
<1> USE ParametersAssumption
<1>1. NoRow \in Row /\ RowShape(NoRow)
  BY DEF NoRow, Row, RowShape, Status, Active, InFlight, Terminal, Time, NoTime
<1>2. ASSUME NEW s \in Sources, NEW k \in Keys, NEW h \in Hashes
      PROVE  LegacyRow(s, k, h) \in Row /\ RowShape(LegacyRow(s, k, h))
  BY DEF LegacyRow, NoRow, Row, RowShape, Status, Active, InFlight, Terminal,
     Time, NoTime
<1>3. runs \in [RunIds -> Row] /\ \A r \in RunIds : RowShape(runs[r])
  <2>1. CASE runs = [r \in RunIds |-> NoRow]
    BY <1>1, <2>1
  <2>2. CASE \E legacy \in RunIds, s \in Sources, k \in Keys, h \in Hashes :
               runs = [r \in RunIds |-> IF r = legacy THEN LegacyRow(s, k, h)
                                        ELSE NoRow]
    BY <1>1, <1>2, <2>2
  <2> QED
    BY <2>1, <2>2 DEF Init
<1>4. checkpoints \in [Sources -> [Resources -> Cursor]]
  BY DEF Init, NoCursor, Cursor
<1>5. Idle \in Txn
  BY DEF Idle, Txn
<1>6. TypeOK
  BY <1>3, <1>4, <1>5 DEF Init, TypeOK
<1>7. LocksHeld
  BY DEF Init, LocksHeld, Idle
<1> QED
  BY <1>6, <1>7 DEF LockInv

(* Opening the transaction of an Enqueue, for the API or for a command.    *)
LEMMA BeginEnqueueLock ==
  ASSUME LockInv, NEW c \in Sessions, NEW op \in {"enqueue", "launch"},
         NEW s \in Sources, NEW k \in Keys \cup {None},
         NEW h \in Hashes \cup {None}, BeginEnqueue(c, op, s, k, h)
  PROVE  LockInv'
<1> DEFINE t == txn'[c]
<1>1. /\ t \in Txn
      /\ t.op \in {"enqueue", "launch"} /\ t.source = s
      /\ t.expired = {r \in RunsOf(s) : Stale(r, now)}
      /\ txn' = [txn EXCEPT ![c] = t]
  BY DEF BeginEnqueue, LockInv, TypeOK, Txn, RunsOf
<1>2. \A r \in t.expired : runs[r].status \in InFlight /\ RowFree(r)
  BY <1>1 DEF BeginEnqueue, Stale
<1>3. SourceFree(s) /\ UNCHANGED <<runs, checkpoints, now>>
  BY DEF BeginEnqueue
<1> HIDE DEF t
<1> QED
  BY <1>1, <1>2, <1>3, BeginTxnType

(* Committing one: the rows of its expiry, and perhaps one row r that no   *)
(* transaction has expired.                                                *)
LEMMA CommitLock ==
  ASSUME LockInv, NEW c \in Sessions, NEW r \in RunIds,
         runs[r].status \notin InFlight, NEW row \in Row, RowShape(row),
         runs' = [AfterExpiry(txn[c].expired) EXCEPT ![r] = row],
         txn' = [txn EXCEPT ![c] = Idle], UNCHANGED <<checkpoints, now>>
  PROVE  LockInv'
<1> DEFINE after == AfterExpiry(txn[c].expired)
<1>1. /\ after \in [RunIds -> Row]
      /\ \A q \in RunIds : RowShape(after[q])
      /\ \A q \in RunIds \ txn[c].expired : after[q] = runs[q]
  BY AfterExpiryType
<1>2. /\ runs' \in [RunIds -> Row]
      /\ runs'[r] = row
      /\ \A q \in RunIds \ {r} : runs'[q] = after[q]
  BY <1>1
<1>3. \A q \in RunIds : RowShape(runs'[q])
  BY <1>1, <1>2 DEF RowShape
<1>4. ASSUME NEW d \in Sessions \ {c}, NEW q \in txn[d].expired
      PROVE  runs'[q].status = runs[q].status
  <2>1. q \in RunIds /\ q # r /\ q \notin txn[c].expired
    BY DEF LockInv, TypeOK, Txn, LocksHeld
  <2> QED
    BY <1>1, <1>2, <2>1
<1> QED
  BY <1>2, <1>3, <1>4, EndTxnType

(* Replaying and rolling back: only the expiry, or nothing.                *)
LEMMA ReplayLock ==
  ASSUME LockInv, NEW c \in Sessions,
         runs' = AfterExpiry(txn[c].expired) \/ runs' = runs,
         txn' = [txn EXCEPT ![c] = Idle], UNCHANGED <<checkpoints, now>>
  PROVE  LockInv'
<1>1. /\ runs' \in [RunIds -> Row]
      /\ \A q \in RunIds : RowShape(runs'[q])
      /\ \A q \in RunIds \ txn[c].expired : runs'[q] = runs[q]
  BY AfterExpiryType DEF LockInv, TypeOK, RowShape
<1>2. ASSUME NEW d \in Sessions \ {c}, NEW q \in txn[d].expired
      PROVE  runs'[q].status = runs[q].status
  <2>1. q \in RunIds /\ q \notin txn[c].expired
    BY DEF LockInv, TypeOK, Txn, LocksHeld
  <2> QED
    BY <1>1, <2>1
<1> QED
  BY <1>1, <1>2, EndTxnType

(* Single-row statements on a run that is being executed.                  *)
LEMMA ClaimedRowType ==
  ASSUME NEW row \in Row, NEW at \in Nat, row.status # "absent", RowShape(row)
  PROVE  ClaimedRow(row, at) \in Row /\ RowShape(ClaimedRow(row, at))
<1> DEFINE claimed == ClaimedRow(row, at)
<1>1. at + Lease \in Nat
  BY ParametersAssumption
<1>2. /\ claimed.status = "running"
      /\ claimed.source = row.source
      /\ claimed.started = at
  BY DEF ClaimedRow, Row
<1>3. claimed \in Row
  BY <1>1 DEF ClaimedRow, Row, Status, Active, InFlight, Time
<1>4. row.source \in Sources
  BY DEF RowShape
<1>5. RowShape(claimed)
  <2> HIDE DEF claimed
  <2> QED
    BY <1>2, <1>4 DEF RowShape, InFlight
<1> QED
  BY <1>3, <1>5

LEMMA QueuedRowType ==
  ASSUME NEW t \in Txn, t.source \in Sources
  PROVE  /\ QueuedRow(t) \in Row
         /\ RowShape(QueuedRow(t))
         /\ QueuedRow(t).status = "queued"
BY DEF QueuedRow, Txn, Row, RowShape, Status, Active, InFlight, Terminal, Time,
   NoTime, NoRow

LEMMA LeaseWriteLock ==
  ASSUME LockInv, NEW r \in RunIds, RowFree(r), runs[r].status \in InFlight,
         NEW at \in Nat, runs' = [runs EXCEPT ![r].lease = at + Lease],
         UNCHANGED <<txn, now>>,
         checkpoints' \in [Sources -> [Resources -> Cursor]]
  PROVE  LockInv'
<1>1. at + Lease \in Nat
  BY ParametersAssumption
<1>2. runs[r] \in Row /\ RowShape(runs[r])
  BY DEF LockInv, TypeOK
<1>3. /\ runs' \in [RunIds -> Row]
      /\ RowShape(runs'[r])
      /\ \A q \in RunIds \ {r} : runs'[q] = runs[q]
  BY <1>1, <1>2 DEF LockInv, TypeOK, Row, RowShape, InFlight, Time, NoRow
<1> QED
  BY <1>3, RowWriteType

LEMMA TransitionLock ==
  ASSUME LockInv, NEW r \in RunIds, NEW from, NEW to, NEW at \in Nat \cup {NoTime},
         at >= runs[r].started, TransitionRun(r, from, to, at)
  PROVE  LockInv'
<1>1. runs[r] \in Row /\ RowShape(runs[r])
  BY DEF LockInv, TypeOK
<1>2. /\ from \in InFlight
      /\ to \in {"validating", "publishing", "succeeded", "failed", "canceled"}
      /\ runs[r].status = from
  BY DEF TransitionRun, TransitionAllowed, InFlight
<1>3. at \in Nat /\ at + Lease \in Nat
  BY <1>1, <1>2, ParametersAssumption DEF RowShape, NoTime
<1>4. /\ runs' \in [RunIds -> Row]
      /\ RowShape(runs'[r])
      /\ \A q \in RunIds \ {r} : runs'[q] = runs[q]
  BY <1>1, <1>2, <1>3 DEF TransitionRun, LockInv, TypeOK, Row, RowShape, Status,
     Active, InFlight, Terminal, Time, NoTime, NoRow
<1>5. RowFree(r) /\ UNCHANGED <<checkpoints, txn, now>>
  BY DEF TransitionRun
<1> QED
  BY <1>4, <1>5, RowWriteType DEF LockInv, TypeOK

-----------------------------------------------------------------------------
(* Every step of Next keeps the invariant: the steps of sessions, ...      *)
LEMMA SessionLock ==
  ASSUME LockInv, NEW c \in Sessions, ClientNext(c) \/ WorkerNext(c)
  PROVE  LockInv'
<1>1. txn[c] \in Txn
  BY DEF LockInv, TypeOK
<1>2. ASSUME NEW s \in Sources, NEW k \in Keys, NEW h \in Hashes,
             EnqueueBegin(c, s, k, h)
      PROVE  LockInv'
  BY <1>2, BeginEnqueueLock DEF EnqueueBegin
<1>3. ASSUME NEW s \in Sources, CommandInspect(c, s)
      PROVE  LockInv'
  <2> DEFINE t == [Idle EXCEPT !.op = "cleared", !.source = s]
  <2>1. /\ t \in Txn /\ t.op = "cleared" /\ t.source = s
        /\ t.expired = {} /\ t.verdict = "none"
    BY DEF Idle, Txn
  <2>2. txn' = [txn EXCEPT ![c] = t] /\ UNCHANGED <<runs, checkpoints, now>>
    BY <1>3 DEF CommandInspect
  <2> HIDE DEF t
  <2> QED
    BY <2>1, <2>2, BeginTxnType
<1>4. ASSUME LaunchBegin(c)
      PROVE  LockInv'
  <2>1. txn[c].source \in Sources
    BY <1>4 DEF LaunchBegin, LockInv, LocksHeld
  <2> QED
    BY <1>4, <2>1, BeginEnqueueLock DEF LaunchBegin
<1>5. ASSUME EnqueueCreate(c)
      PROVE  LockInv'
  <2>1. txn[c].source \in Sources
    BY <1>5 DEF EnqueueCreate, LockInv, LocksHeld
  <2>2. PICK r \in RunIds : Insert(txn[c], r, QueuedRow(txn[c]))
    BY <1>5 DEF EnqueueCreate
  <2>3. QueuedRow(txn[c]) \in Row /\ RowShape(QueuedRow(txn[c]))
    BY <1>1, <2>1, QueuedRowType
  <2>4. /\ runs[r].status \notin InFlight
        /\ runs' = [AfterExpiry(txn[c].expired) EXCEPT ![r] = QueuedRow(txn[c])]
    BY <2>2 DEF Insert, InFlight
  <2>5. txn' = [txn EXCEPT ![c] = Idle] /\ UNCHANGED <<checkpoints, now>>
    BY <1>5 DEF EnqueueCreate
  <2> QED
    BY <2>3, <2>4, <2>5, CommitLock
<1>6. ASSUME LaunchCommit(c)
      PROVE  LockInv'
  <2>1. txn[c].source \in Sources
    BY <1>6 DEF LaunchCommit, LockInv, LocksHeld
  <2>2. PICK r \in RunIds, at \in txn[c].at..now :
          Insert(txn[c], r, ClaimedRow(QueuedRow(txn[c]), at))
    BY <1>6 DEF LaunchCommit
  <2> DEFINE row == ClaimedRow(QueuedRow(txn[c]), at)
  <2>3. at \in Nat
    BY <1>1 DEF Txn, LockInv, TypeOK
  <2>4. row \in Row /\ RowShape(row)
    BY <1>1, <2>1, <2>3, QueuedRowType, ClaimedRowType
  <2>5. /\ runs[r].status \notin InFlight
        /\ runs' = [AfterExpiry(txn[c].expired) EXCEPT ![r] = row]
    BY <2>2 DEF Insert, InFlight
  <2>6. txn' = [txn EXCEPT ![c] = Idle] /\ UNCHANGED <<checkpoints, now>>
    BY <1>6 DEF LaunchCommit
  <2> HIDE DEF row
  <2> QED
    BY <2>4, <2>5, <2>6, CommitLock
<1>7. ASSUME EnqueueReplay(c) \/ Rollback(c)
      PROVE  LockInv'
  BY <1>7, ReplayLock DEF EnqueueReplay, Rollback
<1>8. ASSUME ClaimBegin(c)
      PROVE  LockInv'
  <2> DEFINE stale == {r \in RunIds : Stale(r, now)}
  <2>1. PICK r \in Claimable :
          txn' = [txn EXCEPT ![c] = [Idle EXCEPT !.op = "claim", !.at = now,
                                       !.expired = stale, !.run = r]]
    BY <1>8 DEF ClaimBegin
  <2> DEFINE t == [Idle EXCEPT !.op = "claim", !.at = now, !.expired = stale,
                               !.run = r]
  <2>2. r \in RunIds /\ now \in Nat
    BY DEF Claimable, LockInv, TypeOK
  <2>3. /\ t \in Txn /\ t.op = "claim" /\ t.run = r
        /\ t.expired = stale /\ t.verdict = "none"
    BY <2>2 DEF Idle, Txn
  <2>4. \A q \in stale : runs[q].status \in InFlight /\ RowFree(q)
    BY <1>8 DEF ClaimBegin, Stale
  <2>5. txn' = [txn EXCEPT ![c] = t] /\ UNCHANGED <<runs, checkpoints, now>>
    BY <1>8, <2>1 DEF ClaimBegin
  <2> HIDE DEF t, stale
  <2> QED
    BY <2>2, <2>3, <2>4, <2>5, BeginTxnType
<1>9. ASSUME ClaimCommit(c)
      PROVE  LockInv'
  <2> DEFINE r == txn[c].run
             row == ClaimedRow(runs[r], txn[c].at)
  <2>1. r \in RunIds /\ runs[r].status = "queued"
    BY <1>9 DEF ClaimCommit, StillQueued, LockInv, LocksHeld
  <2>2. row \in Row /\ RowShape(row)
    BY <1>1, <2>1, ClaimedRowType DEF Txn, LockInv, TypeOK
  <2>3. /\ runs[r].status \notin InFlight
        /\ runs' = [AfterExpiry(txn[c].expired) EXCEPT ![r] = row]
        /\ txn' = [txn EXCEPT ![c] = Idle]
        /\ UNCHANGED <<checkpoints, now>>
    BY <1>9, <2>1 DEF ClaimCommit, InFlight
  <2> HIDE DEF r, row
  <2> QED
    BY <2>1, <2>2, <2>3, CommitLock
<1> QED
  BY <1>2, <1>3, <1>4, <1>5, <1>6, <1>7, <1>8, <1>9 DEF ClientNext, WorkerNext

(* ... and those of requests and executors on one run.                     *)
LEMMA RunLock ==
  ASSUME LockInv, NEW r \in RunIds, RunNext(r)
  PROVE  LockInv'
<1>1. runs[r] \in Row /\ RowShape(runs[r])
  BY DEF LockInv, TypeOK
<1>2. Stamps \subseteq Nat
  BY DEF Stamps, LockInv, TypeOK
<1>3. ASSUME runs[r].status \in InFlight
      PROVE  runs[r].source \in Sources /\ runs[r].started \in Nat
  BY <1>1, <1>3 DEF RowShape, InFlight
<1>4. CASE Cancel(r)
  <2>1. /\ runs' \in [RunIds -> Row]
        /\ RowShape(runs'[r])
        /\ \A q \in RunIds \ {r} : runs'[q] = runs[q]
    <3>1. CASE runs[r].status = "queued" /\ runs' = [runs EXCEPT ![r] = CanceledRow(runs[r])]
      BY <1>1, <3>1 DEF CanceledRow, LockInv, TypeOK, Row, RowShape, Status,
         Active, InFlight, Terminal, NoRow
    <3>2. CASE /\ runs[r].status \in {"running", "validating"}
               /\ runs' = [runs EXCEPT ![r].cancel = TRUE]
      BY <1>1, <3>2 DEF LockInv, TypeOK, Row, RowShape, Status,
         Active, InFlight, Terminal, NoRow
    <3> QED
      BY <1>4, <3>1, <3>2 DEF Cancel
  <2>2. RowFree(r) /\ UNCHANGED <<checkpoints, txn, now>>
    BY <1>4 DEF Cancel
  <2> QED
    BY <2>1, <2>2, RowWriteType DEF LockInv, TypeOK
<1>5. CASE Proceed(r)
  <2> PICK at \in Stamps, step \in {<<"running", "validating">>,
                                     <<"validating", "publishing">>} :
        at >= runs[r].started /\ TransitionRun(r, step[1], step[2], at)
    BY <1>5 DEF Proceed
  <2> QED
    BY <1>2, TransitionLock
<1>6. CASE Abandon(r)
  <2>1. PICK at \in Stamps \cup {runs[r].started}, to \in {"failed", "canceled"} :
          at >= runs[r].started /\ TransitionRun(r, runs[r].status, to, at)
    BY <1>6 DEF Abandon
  <2>2. at \in Nat \cup {NoTime}
    BY <1>1, <1>2 DEF Row, Time
  <2> QED
    BY <2>1, <2>2, TransitionLock
<1>7. ASSUME NEW at \in Stamps, RenewRunLease(r, at)
      PROVE  LockInv'
  BY <1>2, <1>7, LeaseWriteLock DEF RenewRunLease, LockInv, TypeOK
<1>8. ASSUME NEW at \in Stamps, NEW resource \in Resources,
             BeginCheckpoint(r, resource, at)
      PROVE  LockInv'
  <2>1. runs[r].source \in Sources
    BY <1>3, <1>8 DEF BeginCheckpoint, Executing, InFlight
  <2>2. [NoCursor EXCEPT !.run = r] \in Cursor
    BY DEF NoCursor, Cursor
  <2>3. checkpoints' \in [Sources -> [Resources -> Cursor]]
    BY <1>8, <2>1, <2>2 DEF BeginCheckpoint, LockInv, TypeOK
  <2>4. RowFree(r) /\ UNCHANGED <<runs, txn, now>>
    BY <1>8 DEF BeginCheckpoint, Executing
  <2> QED
    BY <1>1, <2>3, <2>4, RowWriteType DEF LockInv, TypeOK, RowShape
<1>9. ASSUME NEW at \in Stamps, NEW resource \in Resources,
             NEW offset \in 1..MaxTotal, NEW total \in 1..MaxTotal,
             AdvanceCheckpoint(r, resource, offset, total, at)
      PROVE  LockInv'
  <2>1. RowFree(r) /\ runs[r].status \in InFlight
    BY <1>9 DEF AdvanceCheckpoint, Executing, InFlight
  <2>2. [run |-> r, offset |-> offset, total |-> total, complete |-> FALSE] \in Cursor
    BY ParametersAssumption DEF Cursor
  <2>3. checkpoints' \in [Sources -> [Resources -> Cursor]]
    BY <1>3, <1>9, <2>1, <2>2 DEF AdvanceCheckpoint, LockInv, TypeOK
  <2>4. runs' = [runs EXCEPT ![r].lease = at + Lease] /\ UNCHANGED <<txn, now>>
    BY <1>9 DEF AdvanceCheckpoint
  <2> QED
    BY <1>2, <2>1, <2>3, <2>4, LeaseWriteLock
<1>10. ASSUME NEW at \in Stamps, NEW resource \in Resources,
              CompleteCheckpointAndRun(r, resource, at)
       PROVE  LockInv'
  <2>1. RowFree(r) /\ runs[r].status = "publishing" /\ UNCHANGED <<txn, now>>
    BY <1>10 DEF CompleteCheckpointAndRun
  <2>2. checkpoints' \in [Sources -> [Resources -> Cursor]]
    <3> DEFINE s == runs[r].source
               closed == [checkpoints[s][resource] EXCEPT !.complete = TRUE]
    <3>1. s \in Sources
      BY <1>3, <2>1 DEF InFlight
    <3>2. checkpoints \in [Sources -> [Resources -> Cursor]]
      BY DEF LockInv, TypeOK
    <3>3. closed \in Cursor
      <4>1. checkpoints[s][resource] \in Cursor
        BY <3>1, <3>2
      <4>2. \A ck \in Cursor : [ck EXCEPT !.complete = TRUE] \in Cursor
        BY DEF Cursor
      <4> QED
        BY <4>1, <4>2
    <3>4. checkpoints' = [checkpoints EXCEPT ![s] =
                            [checkpoints[s] EXCEPT ![resource] = closed]]
      BY <1>10, <3>1, <3>2 DEF CompleteCheckpointAndRun
    <3> HIDE DEF closed
    <3> QED
      BY <3>1, <3>2, <3>3, <3>4
  <2>3. /\ runs' \in [RunIds -> Row]
        /\ RowShape(runs'[r])
        /\ \A q \in RunIds \ {r} : runs'[q] = runs[q]
    BY <1>1, <1>10, <2>1 DEF CompleteCheckpointAndRun, LockInv, TypeOK, Row,
       RowShape, Status, Active, InFlight, Terminal, Time, NoRow
  <2> QED
    BY <2>1, <2>2, <2>3, RowWriteType
<1> QED
  BY <1>4, <1>5, <1>6, <1>7, <1>8, <1>9, <1>10 DEF RunNext

LEMMA NextLock ==
  LockInv /\ [Next]_vars => LockInv'
<1> SUFFICES ASSUME LockInv, [Next]_vars PROVE LockInv'
  OBVIOUS
<1>1. CASE \E c \in Sessions \ Workers : ClientNext(c)
  BY <1>1, SessionLock
<1>2. CASE \E c \in Workers : WorkerNext(c)
  BY <1>2, SessionLock, ParametersAssumption
<1>3. CASE \E r \in RunIds : RunNext(r)
  BY <1>3, RunLock
<1>4. CASE Tick
  BY <1>4 DEF Tick, LockInv, TypeOK, LocksHeld
<1>5. CASE UNCHANGED vars
  BY <1>5 DEF vars, LockInv, TypeOK, LocksHeld
<1> QED
  BY <1>1, <1>2, <1>3, <1>4, <1>5 DEF Next

(* Rows, checkpoints and transactions keep their types: in particular every *)
(* writer of a final status clears the lease with it, and only runs that   *)
(* were claimed have a start.                                              *)
THEOREM TypeCorrect ==
  Spec => []TypeOK
<1>1. LockInv => TypeOK
  BY DEF LockInv
<1> QED
  BY <1>1, InitLock, NextLock, PTL DEF Spec

-----------------------------------------------------------------------------
(* The count of active runs and the verdict taken on it.  The two halves   *)
(* need each other: an insert is harmless because its verdict still holds, *)
(* and a verdict lasts because only a holder of the source lock inserts.   *)
VerdictInv == LockInv /\ OneActivePerSource /\ CreateVerdictStillHolds

LEMMA NoneActivated ==
  ASSUME OneActivePerSource, CreateVerdictStillHolds,
         \A q \in RunIds :
           /\ runs'[q].source = runs[q].source
           /\ runs'[q].key = runs[q].key
           /\ runs'[q].status \in Active => runs[q].status \in Active,
         \A c \in Sessions :
           txn'[c].verdict = "create" => txn'[c] = txn[c]
  PROVE  OneActivePerSource' /\ CreateVerdictStillHolds'
<1>1. OneActivePerSource'
  BY DEF OneActivePerSource
<1>2. ASSUME NEW c \in Sessions, txn'[c].verdict = "create"
      PROVE  /\ KeyUnused(txn[c].source, txn[c].key)'
             /\ ActiveRunsOf(txn[c].source)' \subseteq txn'[c].expired
  <2>1. /\ KeyUnused(txn[c].source, txn[c].key)
        /\ ActiveRunsOf(txn[c].source) \subseteq txn[c].expired
        /\ txn'[c] = txn[c]
    BY <1>2 DEF CreateVerdictStillHolds
  <2>2. KeyUnused(txn[c].source, txn[c].key)'
    BY <2>1 DEF KeyUnused, RunsOf
  <2>3. ActiveRunsOf(txn[c].source)' \subseteq txn'[c].expired
    BY <2>1 DEF ActiveRunsOf, RunsOf
  <2> QED
    BY <2>2, <2>3
<1>3. CreateVerdictStillHolds'
  BY <1>2 DEF CreateVerdictStillHolds
<1> QED
  BY <1>1, <1>3

(* The insert of an Enqueue or a launch.                                   *)
LEMMA InsertVerdict ==
  ASSUME VerdictInv, NEW c \in Sessions, txn[c].op \in {"enqueue", "launch"},
         txn[c].verdict = "create",
         NEW r \in RunIds, NEW row, row.source = txn[c].source,
         row.key = txn[c].key,
         Insert(txn[c], r, row), txn' = [txn EXCEPT ![c] = Idle]
  PROVE  OneActivePerSource' /\ CreateVerdictStillHolds'
<1> DEFINE s == txn[c].source
           after == AfterExpiry(txn[c].expired)
<1>1. /\ after \in [RunIds -> Row]
      /\ \A q \in RunIds : after[q].source = runs[q].source
      /\ \A q \in RunIds : after[q].key = runs[q].key
      /\ \A q \in RunIds \ txn[c].expired : after[q] = runs[q]
      /\ \A q \in txn[c].expired : after[q].status \notin Active
  BY AfterExpiryType DEF VerdictInv, Active, InFlight
<1>2. /\ runs' = [after EXCEPT ![r] = row]
      /\ runs[r].status = "absent"
  BY DEF Insert
<1>3. /\ runs'[r] = row
      /\ \A q \in RunIds \ {r} : runs'[q] = after[q]
  BY <1>1, <1>2
<1>4. /\ txn'[c] = Idle
      /\ \A d \in Sessions \ {c} : txn'[d] = txn[d]
  BY DEF VerdictInv, LockInv, TypeOK
<1> HIDE DEF after
<1>5. \A q \in RunIds \ {r} : runs'[q].status \in Active =>
        runs'[q].source # s /\ runs[q].status \in Active
  BY <1>1, <1>3 DEF VerdictInv, CreateVerdictStillHolds, ActiveRunsOf, RunsOf
<1>6. OneActivePerSource'
  BY <1>1, <1>3, <1>5 DEF VerdictInv, OneActivePerSource
<1>7. ASSUME NEW d \in Sessions, txn'[d].verdict = "create"
      PROVE  /\ KeyUnused(txn[d].source, txn[d].key)'
             /\ ActiveRunsOf(txn[d].source)' \subseteq txn'[d].expired
  <2>1. d # c /\ txn'[d] = txn[d]
    BY <1>4, <1>7 DEF Idle
  <2>2. txn[d].source # s
    BY <1>7, <2>1 DEF VerdictInv, LockInv, LocksHeld
  <2>3. /\ KeyUnused(txn[d].source, txn[d].key)
        /\ ActiveRunsOf(txn[d].source) \subseteq txn[d].expired
    BY <1>7, <2>1 DEF VerdictInv, CreateVerdictStillHolds
  <2>4. KeyUnused(txn[d].source, txn[d].key)'
    BY <1>1, <1>3, <2>1, <2>2, <2>3 DEF KeyUnused, RunsOf
  <2>5. ActiveRunsOf(txn[d].source)' \subseteq txn'[d].expired
    BY <1>1, <1>3, <1>5, <2>1, <2>2, <2>3 DEF ActiveRunsOf, RunsOf
  <2> QED
    BY <2>4, <2>5
<1>8. CreateVerdictStillHolds'
  BY <1>7 DEF CreateVerdictStillHolds
<1> QED
  BY <1>6, <1>8

(* The verdict of a BeginEnqueue holds when it is taken.                   *)
LEMMA BeginEnqueueVerdict ==
  ASSUME VerdictInv, NEW c \in Sessions, NEW op \in {"enqueue", "launch"},
         NEW s \in Sources, NEW k \in Keys \cup {None},
         NEW h \in Hashes \cup {None}, BeginEnqueue(c, op, s, k, h)
  PROVE  OneActivePerSource' /\ CreateVerdictStillHolds'
<1> DEFINE t == txn'[c]
           stale == {r \in RunsOf(s) : Stale(r, now)}
<1>1. /\ t.source = s /\ t.key = k /\ t.expired = stale
      /\ t.verdict = "create" =>
           /\ {r \in RunsOf(s) : k # None /\ runs[r].key = k} = {}
           /\ ~Refused(s, stale)
      /\ \A d \in Sessions \ {c} : txn'[d] = txn[d]
  BY DEF BeginEnqueue, VerdictInv, LockInv, TypeOK
<1>2. runs' = runs
  BY DEF BeginEnqueue
<1>3. t.verdict = "create" => KeyUnused(s, k) /\ ActiveRunsOf(s) \subseteq stale
  BY <1>1 DEF KeyUnused, Refused, RunsOf
<1> HIDE DEF t, stale
<1>4. OneActivePerSource'
  BY <1>2 DEF VerdictInv, OneActivePerSource
<1>5. ASSUME NEW d \in Sessions, txn'[d].verdict = "create"
      PROVE  /\ KeyUnused(txn'[d].source, txn'[d].key)
             /\ ActiveRunsOf(txn'[d].source) \subseteq txn'[d].expired
  <2>1. CASE d = c
    BY <1>1, <1>3, <1>5, <2>1 DEF t
  <2>2. CASE d # c
    BY <1>1, <1>5, <2>2 DEF VerdictInv, CreateVerdictStillHolds
  <2> QED
    BY <2>1, <2>2
<1>6. CreateVerdictStillHolds'
  BY <1>2, <1>5 DEF CreateVerdictStillHolds, KeyUnused, ActiveRunsOf, RunsOf
<1> QED
  BY <1>4, <1>6

LEMMA SessionVerdict ==
  ASSUME VerdictInv, NEW c \in Sessions, ClientNext(c) \/ WorkerNext(c)
  PROVE  OneActivePerSource' /\ CreateVerdictStillHolds'
<1>1. txn[c] \in Txn /\ txn \in [Sessions -> Txn] /\ runs \in [RunIds -> Row]
  BY DEF VerdictInv, LockInv, TypeOK
<1>2. OneActivePerSource /\ CreateVerdictStillHolds /\ LockInv
  BY DEF VerdictInv
<1>3. ASSUME NEW t, t.verdict # "create", txn' = [txn EXCEPT ![c] = t]
      PROVE  \A d \in Sessions : txn'[d].verdict = "create" => txn'[d] = txn[d]
  BY <1>1, <1>3
<1>4. Idle.verdict # "create"
  BY DEF Idle
<1>5. ASSUME NEW s \in Sources, NEW k \in Keys, NEW h \in Hashes,
             EnqueueBegin(c, s, k, h)
      PROVE  OneActivePerSource' /\ CreateVerdictStillHolds'
  BY <1>5, BeginEnqueueVerdict DEF EnqueueBegin
<1>6. ASSUME NEW s \in Sources, CommandInspect(c, s)
      PROVE  OneActivePerSource' /\ CreateVerdictStillHolds'
  <2> DEFINE t == [Idle EXCEPT !.op = "cleared", !.source = s]
  <2>1. t.verdict # "create" /\ txn' = [txn EXCEPT ![c] = t] /\ runs' = runs
    BY <1>6 DEF CommandInspect, Idle
  <2> HIDE DEF t
  <2> QED
    BY <1>2, <1>3, <2>1, NoneActivated
<1>7. ASSUME LaunchBegin(c)
      PROVE  OneActivePerSource' /\ CreateVerdictStillHolds'
  <2>1. txn[c].source \in Sources
    BY <1>2, <1>7 DEF LaunchBegin, LocksHeld, LockInv
  <2> QED
    BY <1>7, <2>1, BeginEnqueueVerdict DEF LaunchBegin
<1>8. ASSUME EnqueueCreate(c)
      PROVE  OneActivePerSource' /\ CreateVerdictStillHolds'
  <2>1. PICK r \in RunIds : Insert(txn[c], r, QueuedRow(txn[c]))
    BY <1>8 DEF EnqueueCreate
  <2>2. /\ QueuedRow(txn[c]).source = txn[c].source
        /\ QueuedRow(txn[c]).key = txn[c].key
    BY DEF QueuedRow, NoRow
  <2>3. /\ txn[c].op = "enqueue" /\ txn[c].verdict = "create"
        /\ txn' = [txn EXCEPT ![c] = Idle]
    BY <1>8 DEF EnqueueCreate
  <2> QED
    BY <2>1, <2>2, <2>3, InsertVerdict
<1>9. ASSUME LaunchCommit(c)
      PROVE  OneActivePerSource' /\ CreateVerdictStillHolds'
  <2>1. PICK r \in RunIds, at \in txn[c].at..now :
          Insert(txn[c], r, ClaimedRow(QueuedRow(txn[c]), at))
    BY <1>9 DEF LaunchCommit
  <2> DEFINE row == ClaimedRow(QueuedRow(txn[c]), at)
  <2>2. row.source = txn[c].source /\ row.key = txn[c].key
    BY DEF ClaimedRow, QueuedRow, NoRow
  <2>3. /\ txn[c].op = "launch" /\ txn[c].verdict = "create"
        /\ txn' = [txn EXCEPT ![c] = Idle]
    BY <1>9 DEF LaunchCommit
  <2> HIDE DEF row
  <2> QED
    BY <2>1, <2>2, <2>3, InsertVerdict DEF row
<1>10. ASSUME EnqueueReplay(c) \/ Rollback(c)
       PROVE  OneActivePerSource' /\ CreateVerdictStillHolds'
  <2>1. txn' = [txn EXCEPT ![c] = Idle]
    BY <1>10 DEF EnqueueReplay, Rollback
  <2>2. runs' = AfterExpiry(txn[c].expired) \/ runs' = runs
    BY <1>10 DEF EnqueueReplay, Rollback
  <2>3. \A q \in RunIds :
          /\ runs'[q].source = runs[q].source
          /\ runs'[q].key = runs[q].key
          /\ runs'[q].status \in Active => runs[q].status \in Active
    BY <1>2, <2>2, AfterExpiryType DEF Active, InFlight
  <2> QED
    BY <1>2, <1>3, <1>4, <2>1, <2>3, NoneActivated
<1>11. ASSUME ClaimBegin(c)
       PROVE  OneActivePerSource' /\ CreateVerdictStillHolds'
  <2>1. PICK t : t.verdict # "create" /\ txn' = [txn EXCEPT ![c] = t]
    BY <1>11 DEF ClaimBegin, Idle
  <2>2. runs' = runs
    BY <1>11 DEF ClaimBegin
  <2> QED
    BY <1>2, <1>3, <2>1, <2>2, NoneActivated
<1>12. ASSUME ClaimCommit(c)
       PROVE  OneActivePerSource' /\ CreateVerdictStillHolds'
  <2> DEFINE r == txn[c].run
             row == ClaimedRow(runs[r], txn[c].at)
             after == AfterExpiry(txn[c].expired)
  <2>1. /\ runs' = [after EXCEPT ![r] = row]
        /\ txn' = [txn EXCEPT ![c] = Idle]
        /\ r \in RunIds /\ runs[r].status = "queued"
    BY <1>2, <1>12 DEF ClaimCommit, StillQueued, LocksHeld, LockInv
  <2>2. row.source = runs[r].source /\ row.key = runs[r].key
    BY <1>1, <2>1 DEF ClaimedRow, Row
  <2>3. after \in [RunIds -> Row] /\ \A q \in RunIds :
          /\ after[q].source = runs[q].source
          /\ after[q].key = runs[q].key
          /\ after[q].status \in Active => runs[q].status \in Active
    BY <1>2, AfterExpiryType DEF Active, InFlight
  <2> HIDE DEF r, row, after
  <2>4. \A q \in RunIds :
          /\ runs'[q].source = runs[q].source
          /\ runs'[q].key = runs[q].key
          /\ runs'[q].status \in Active => runs[q].status \in Active
    BY <2>1, <2>2, <2>3 DEF Active
  <2> QED
    BY <1>2, <1>3, <1>4, <2>1, <2>4, NoneActivated
<1> QED
  BY <1>5, <1>6, <1>7, <1>8, <1>9, <1>10, <1>11, <1>12 DEF ClientNext, WorkerNext

LEMMA RunVerdict ==
  ASSUME VerdictInv, NEW r \in RunIds, RunNext(r)
  PROVE  OneActivePerSource' /\ CreateVerdictStillHolds'
<1>1. runs \in [RunIds -> Row]
  BY DEF VerdictInv, LockInv, TypeOK
<1>2. /\ \A q \in RunIds :
           /\ runs'[q].source = runs[q].source
           /\ runs'[q].key = runs[q].key
           /\ runs'[q].status \in Active => runs[q].status \in Active
      /\ txn' = txn
  <2>1. CASE Cancel(r)
    <3>1. /\ runs[r].status \in Active /\ txn' = txn
          /\ \/ runs' = [runs EXCEPT ![r] = CanceledRow(runs[r])]
             \/ runs' = [runs EXCEPT ![r].cancel = TRUE]
      BY <2>1 DEF Cancel, Active, InFlight
    <3>2. /\ CanceledRow(runs[r]).source = runs[r].source
          /\ CanceledRow(runs[r]).key = runs[r].key
      BY <1>1 DEF CanceledRow, Row
    <3> QED
      BY <1>1, <3>1, <3>2 DEF Row
  <2>2. ASSUME NEW from, NEW to, NEW at, TransitionRun(r, from, to, at)
        PROVE  <1>2!1 /\ <1>2!2
    <3>1. /\ runs[r].status \in Active /\ txn' = txn
          /\ \A q \in RunIds : /\ runs'[q].source = runs[q].source
                               /\ runs'[q].key = runs[q].key
          /\ \A q \in RunIds \ {r} : runs'[q] = runs[q]
      BY <1>1, <2>2 DEF TransitionRun, TransitionAllowed, Row, Active, InFlight
    <3> QED
      BY <3>1
  <2>3. CASE Proceed(r) \/ Abandon(r)
    <3>1. PICK from, to, at : TransitionRun(r, from, to, at)
      BY <2>3 DEF Proceed, Abandon
    <3> QED
      BY <2>2, <3>1
  <2>4. ASSUME NEW at \in Stamps, RenewRunLease(r, at)
        PROVE  <1>2!1 /\ <1>2!2
    BY <1>1, <2>4 DEF RenewRunLease, Row
  <2>5. ASSUME NEW at \in Stamps, NEW resource \in Resources,
               BeginCheckpoint(r, resource, at)
        PROVE  <1>2!1 /\ <1>2!2
    BY <2>5 DEF BeginCheckpoint
  <2>6. ASSUME NEW at \in Stamps, NEW resource \in Resources,
               NEW offset \in 1..MaxTotal, NEW total \in 1..MaxTotal,
               AdvanceCheckpoint(r, resource, offset, total, at)
        PROVE  <1>2!1 /\ <1>2!2
    BY <1>1, <2>6 DEF AdvanceCheckpoint, Row
  <2>7. ASSUME NEW at \in Stamps, NEW resource \in Resources,
               CompleteCheckpointAndRun(r, resource, at)
        PROVE  <1>2!1 /\ <1>2!2
    BY <1>1, <2>7 DEF CompleteCheckpointAndRun, Row, Active, InFlight
  <2> QED
    BY <2>1, <2>3, <2>4, <2>5, <2>6, <2>7 DEF RunNext
<1> QED
  BY <1>2, NoneActivated DEF VerdictInv

LEMMA InitVerdict ==
  Init => VerdictInv
<1> SUFFICES ASSUME Init PROVE VerdictInv
  OBVIOUS
<1>1. LockInv
  BY InitLock
<1>2. OneActivePerSource
  <2>1. \A r \in RunIds : runs[r].status \in Active =>
          \A q \in RunIds \ {r} : runs[q].status = "absent"
    BY DEF Init, NoRow, Active, InFlight
  <2> QED
    BY <2>1 DEF OneActivePerSource, Active, InFlight
<1>3. CreateVerdictStillHolds
  BY DEF Init, Idle, CreateVerdictStillHolds
<1> QED
  BY <1>1, <1>2, <1>3 DEF VerdictInv

LEMMA NextVerdict ==
  VerdictInv /\ [Next]_vars => VerdictInv'
<1> SUFFICES ASSUME VerdictInv, [Next]_vars PROVE VerdictInv'
  OBVIOUS
<1>1. LockInv'
  BY NextLock DEF VerdictInv
<1>2. OneActivePerSource' /\ CreateVerdictStillHolds'
  <2>1. CASE \E c \in Sessions \ Workers : ClientNext(c)
    BY <2>1, SessionVerdict
  <2>2. CASE \E c \in Workers : WorkerNext(c)
    BY <2>2, SessionVerdict, ParametersAssumption
  <2>3. CASE \E r \in RunIds : RunNext(r)
    BY <2>3, RunVerdict
  <2>4. CASE Tick \/ UNCHANGED vars
    BY <2>4, NoneActivated DEF Tick, vars, VerdictInv
  <2> QED
    BY <2>1, <2>2, <2>3, <2>4 DEF Next
<1> QED
  BY <1>1, <1>2 DEF VerdictInv

(* A source never has two active runs: the answer of the unlocked-looking   *)
(* count in inventoryRepository.Enqueue is protected by the source row.    *)
THEOREM OneActive ==
  Spec => []OneActivePerSource
<1>1. VerdictInv => OneActivePerSource
  BY DEF VerdictInv
<1> QED
  BY <1>1, InitVerdict, NextVerdict, PTL DEF Spec

(* The insert of an Enqueue never meets a used key or another active run:  *)
(* a concurrent repetition of a request is replayed, never refused by the  *)
(* unique index.                                                           *)
THEOREM VerdictHolds ==
  Spec => []CreateVerdictStillHolds
<1>1. VerdictInv => CreateVerdictStillHolds
  BY DEF VerdictInv
<1> QED
  BY <1>1, InitVerdict, NextVerdict, PTL DEF Spec

-----------------------------------------------------------------------------
(* The moves of one run.  A marked run is never publishing: the mark is    *)
(* refused from then on, and publishing is refused to a marked run.        *)
CancelInv ==
  \A r \in RunIds :
    runs[r].cancel => runs[r].status \notin {"publishing", "succeeded"}

LifeInv == VerdictInv /\ CancelInv

Moves(r) ==
  \/ Life(runs'[r]) = Life(runs[r])
  \/ Lifecycle!Step(Life(runs[r]), Life(runs'[r]))

LEMMA ExpiryMoves ==
  ASSUME LifeInv, NEW c \in Sessions, NEW r \in RunIds,
         runs'[r] = AfterExpiry(txn[c].expired)[r]
  PROVE  Moves(r)
<1>1. runs[r] \in Row
  BY DEF LifeInv, VerdictInv, LockInv, TypeOK
<1>2. CASE r \in txn[c].expired
  <2>1. runs[r].status \in InFlight /\ runs'[r] = ExpiredRow(runs[r])
    BY <1>2 DEF AfterExpiry, LifeInv, VerdictInv, LockInv, LocksHeld
  <2>2. CASE runs[r].cancel
    <3>1. runs[r].status \in {"running", "validating"}
      BY <2>1, <2>2 DEF LifeInv, CancelInv, InFlight
    <3>2. Lifecycle!Stop(Life(runs[r]), Life(runs'[r]))
      <4>1. runs'[r] = [runs[r] EXCEPT !.status = "canceled", !.lease = NoTime]
        BY <2>1, <2>2 DEF ExpiredRow
      <4> QED
        BY <1>1, <3>1, <4>1 DEF Lifecycle!Stop, Life, Row
    <3> QED
      BY <3>2 DEF Moves, Lifecycle!Step
  <2>3. CASE ~runs[r].cancel
    <3>1. Lifecycle!Fail(Life(runs[r]), Life(runs'[r]))
      BY <1>1, <2>1, <2>3 DEF Lifecycle!Fail, Lifecycle!Executed, InFlight,
         Life, ExpiredRow, Row
    <3> QED
      BY <3>1 DEF Moves, Lifecycle!Step
  <2> QED
    BY <2>2, <2>3
<1>3. CASE r \notin txn[c].expired
  BY <1>3 DEF AfterExpiry, Moves
<1> QED
  BY <1>2, <1>3

LEMMA ClaimLife ==
  ASSUME NEW row \in Row, NEW at \in Nat, row.status = "queued"
  PROVE  Lifecycle!Claim(Life(row), Life(ClaimedRow(row, at)))
<1> DEFINE claimed == ClaimedRow(row, at)
<1>1. /\ claimed.status = "running" /\ claimed.source = row.source
      /\ claimed.cancel = row.cancel /\ claimed.started = at
  BY DEF ClaimedRow, Row
<1> HIDE DEF claimed
<1>2. Lifecycle!Claim(Life(row), Life(claimed))
  BY <1>1 DEF Lifecycle!Claim, Life
<1> QED
  BY <1>2 DEF claimed

LEMMA CreateMoves ==
  ASSUME LifeInv, NEW c \in Sessions, NEW r \in RunIds, NEW row \in Row,
         row.source \in Sources, ~row.cancel,
         \/ row.status = "queued" /\ row.started = NoTime
         \/ row.status = "running" /\ row.started \in Nat,
         Insert(txn[c], r, row)
  PROVE  \A q \in RunIds : Moves(q)
<1> DEFINE after == AfterExpiry(txn[c].expired)
<1>1. /\ after \in [RunIds -> Row]
      /\ runs' = [after EXCEPT ![r] = row]
      /\ runs[r].status = "absent"
  BY AfterExpiryType DEF Insert, LifeInv, VerdictInv
<1>2. \A q \in RunIds \ {r} : runs'[q] = after[q]
  BY <1>1
<1> HIDE DEF after
<1>3. \A q \in RunIds \ {r} : Moves(q)
  BY <1>2, ExpiryMoves DEF after
<1>4. Moves(r)
  <2>1. runs[r] = NoRow /\ runs'[r] = row
    BY <1>1 DEF LifeInv, VerdictInv, LockInv, TypeOK, RowShape
  <2>2. Lifecycle!Create(Life(runs[r]), Life(runs'[r]))
    BY <2>1 DEF Lifecycle!Create, Lifecycle!Unborn, Life, NoRow, NoTime
  <2> QED
    BY <2>2 DEF Moves, Lifecycle!Step
<1> QED
  BY <1>3, <1>4

LEMMA SessionMoves ==
  ASSUME LifeInv, NEW c \in Sessions, ClientNext(c) \/ WorkerNext(c)
  PROVE  \A q \in RunIds : Moves(q)
<1>1. txn[c] \in Txn /\ LockInv
  BY DEF LifeInv, VerdictInv, LockInv, TypeOK
<1>2. CASE runs' = runs
  BY <1>2 DEF Moves
<1>3. CASE EnqueueCreate(c)
  <2>1. txn[c].source \in Sources
    BY <1>1, <1>3 DEF EnqueueCreate, LockInv, LocksHeld
  <2>2. PICK r \in RunIds : Insert(txn[c], r, QueuedRow(txn[c]))
    BY <1>3 DEF EnqueueCreate
  <2> DEFINE row == QueuedRow(txn[c])
  <2>3. row \in Row
    BY <1>1, <2>1, QueuedRowType
  <2>4. /\ row.source \in Sources /\ ~row.cancel
        /\ row.status = "queued" /\ row.started = NoTime
    BY <2>1 DEF QueuedRow, NoRow
  <2> HIDE DEF row
  <2> QED
    BY <2>2, <2>3, <2>4, CreateMoves DEF row
<1>4. CASE LaunchCommit(c)
  <2>1. txn[c].source \in Sources
    BY <1>1, <1>4 DEF LaunchCommit, LockInv, LocksHeld
  <2>2. PICK r \in RunIds, at \in txn[c].at..now :
          Insert(txn[c], r, ClaimedRow(QueuedRow(txn[c]), at))
    BY <1>4 DEF LaunchCommit
  <2> DEFINE row == ClaimedRow(QueuedRow(txn[c]), at)
  <2>3. at \in Nat
    BY <1>1 DEF Txn, LockInv, TypeOK
  <2>4. row \in Row
    BY <1>1, <2>1, <2>3, QueuedRowType, ClaimedRowType
  <2>5. /\ row.source \in Sources /\ ~row.cancel
        /\ row.status = "running" /\ row.started \in Nat
    BY <2>1, <2>3 DEF ClaimedRow, QueuedRow, NoRow
  <2> HIDE DEF row
  <2> QED
    BY <2>2, <2>4, <2>5, CreateMoves DEF row
<1>5. CASE runs' = AfterExpiry(txn[c].expired)
  BY <1>5, ExpiryMoves
<1>6. CASE ClaimCommit(c)
  <2> DEFINE r == txn[c].run
             row == ClaimedRow(runs[r], txn[c].at)
             after == AfterExpiry(txn[c].expired)
  <2>1. /\ r \in RunIds /\ runs[r].status = "queued"
        /\ runs' = [after EXCEPT ![r] = row]
        /\ after \in [RunIds -> Row]
    BY <1>1, <1>6, AfterExpiryType DEF ClaimCommit, StillQueued, LocksHeld, LockInv
  <2>2. Lifecycle!Claim(Life(runs[r]), Life(row))
    <3>1. runs[r] \in Row /\ txn[c].at \in Nat
      BY <1>1, <2>1 DEF LockInv, TypeOK, Txn
    <3> HIDE DEF r
    <3> QED
      BY <2>1, <3>1, ClaimLife
  <2> HIDE DEF r, row, after
  <2>3. runs'[r] = row /\ \A q \in RunIds \ {r} : runs'[q] = after[q]
    BY <2>1
  <2>4. \A q \in RunIds \ {r} : Moves(q)
    BY <2>3, ExpiryMoves DEF after
  <2>5. Moves(r)
    BY <2>2, <2>3 DEF Moves, Lifecycle!Step
  <2> QED
    BY <2>4, <2>5
<1>7. \/ runs' = runs
      \/ EnqueueCreate(c)
      \/ LaunchCommit(c)
      \/ runs' = AfterExpiry(txn[c].expired)
      \/ ClaimCommit(c)
  BY DEF ClientNext, WorkerNext, EnqueueBegin, LaunchBegin, BeginEnqueue,
     CommandInspect, EnqueueReplay, Rollback, ClaimBegin
<1> QED
  BY <1>2, <1>3, <1>4, <1>5, <1>6, <1>7

LEMMA RunMoves ==
  ASSUME LifeInv, NEW r \in RunIds, RunNext(r)
  PROVE  \A q \in RunIds : Moves(q)
<1>1. runs \in [RunIds -> Row] /\ runs[r] \in Row
  BY DEF LifeInv, VerdictInv, LockInv, TypeOK
<1>2. ASSUME NEW row, runs' = [runs EXCEPT ![r] = row],
             \/ Life(row) = Life(runs[r])
             \/ Lifecycle!Step(Life(runs[r]), Life(row))
      PROVE  \A q \in RunIds : Moves(q)
  BY <1>1, <1>2 DEF Moves
<1>3. CASE Cancel(r)
  <2>1. CASE /\ runs[r].status = "queued"
             /\ runs' = [runs EXCEPT ![r] = CanceledRow(runs[r])]
    <3> DEFINE row == CanceledRow(runs[r])
    <3>1. /\ row.status = "canceled" /\ row.cancel = TRUE
          /\ row.source = runs[r].source /\ row.started = runs[r].started
      BY <1>1 DEF CanceledRow, Row
    <3> HIDE DEF row
    <3>2. Lifecycle!Withdraw(Life(runs[r]), Life(row))
      BY <2>1, <3>1 DEF Lifecycle!Withdraw, Life
    <3> QED
      BY <1>2, <2>1, <3>2 DEF Lifecycle!Step, row
  <2>2. CASE /\ runs[r].status \in {"running", "validating"}
             /\ runs' = [runs EXCEPT ![r].cancel = TRUE]
    <3> DEFINE row == [runs[r] EXCEPT !.cancel = TRUE]
    <3>1. runs' = [runs EXCEPT ![r] = row]
      BY <1>1, <2>2
    <3>2. /\ row.status = runs[r].status /\ row.cancel = TRUE
          /\ row.source = runs[r].source /\ row.started = runs[r].started
      BY <1>1 DEF Row
    <3> HIDE DEF row
    <3>3. Lifecycle!RequestCancel(Life(runs[r]), Life(row))
      BY <2>2, <3>2 DEF Lifecycle!RequestCancel, Life
    <3> QED
      BY <1>2, <3>1, <3>3 DEF Lifecycle!Step
  <2> QED
    BY <1>3, <2>1, <2>2 DEF Cancel
<1>4. ASSUME NEW to, NEW at, NEW from, TransitionRun(r, from, to, at),
             to = "canceled" => from # "publishing",
             to # "succeeded"
      PROVE  \A q \in RunIds : Moves(q)
  <2> DEFINE lease == IF to \in Terminal THEN NoTime ELSE at + Lease
             row == [runs[r] EXCEPT !.status = to, !.lease = lease]
  <2>1. runs' = [runs EXCEPT ![r] = row]
    BY <1>1, <1>4 DEF TransitionRun
  <2>2. /\ row.status = to /\ row.cancel = runs[r].cancel
        /\ row.source = runs[r].source /\ row.started = runs[r].started
    BY <1>1 DEF Row
  <2>3. /\ TransitionAllowed(from, to) /\ runs[r].status = from
        /\ CancelPermits(r, to)
    BY <1>4 DEF TransitionRun
  <2> HIDE DEF row
  <2>4. Lifecycle!Step(Life(runs[r]), Life(row))
    <3>1. CASE to \in {"validating", "publishing"}
      <4>1. Lifecycle!Advance(Life(runs[r]), Life(row))
        BY <2>2, <2>3, <3>1 DEF Lifecycle!Advance, Life, TransitionAllowed,
           CancelPermits
      <4> QED
        BY <4>1 DEF Lifecycle!Step
    <3>2. CASE to = "failed"
      <4>1. Lifecycle!Fail(Life(runs[r]), Life(row))
        BY <2>2, <2>3, <3>2 DEF Lifecycle!Fail, Lifecycle!Executed, Life,
           TransitionAllowed
      <4> QED
        BY <4>1 DEF Lifecycle!Step
    <3>3. CASE to = "canceled"
      <4>1. Lifecycle!Stop(Life(runs[r]), Life(row))
        BY <1>4, <2>2, <2>3, <3>3 DEF Lifecycle!Stop, Life, TransitionAllowed
      <4> QED
        BY <4>1 DEF Lifecycle!Step
    <3> QED
      BY <1>4, <2>3, <3>1, <3>2, <3>3 DEF TransitionAllowed
  <2> QED
    BY <1>2, <2>1, <2>4
<1>5. CASE Proceed(r)
  <2> PICK at \in Stamps, step \in {<<"running", "validating">>,
                                     <<"validating", "publishing">>} :
        TransitionRun(r, step[1], step[2], at)
    BY <1>5 DEF Proceed
  <2> QED
    BY <1>4
<1>6. CASE Abandon(r)
  <2>1. PICK at \in Stamps \cup {runs[r].started}, to \in {"failed", "canceled"} :
          TransitionRun(r, runs[r].status, to, at)
    BY <1>6 DEF Abandon
  <2>2. to = "canceled" => runs[r].status # "publishing"
    BY <2>1 DEF TransitionRun, TransitionAllowed
  <2> QED
    BY <1>4, <2>1, <2>2
<1>7. ASSUME NEW at, \/ RenewRunLease(r, at)
                     \/ \E resource \in Resources :
                          \/ BeginCheckpoint(r, resource, at)
                          \/ \E offset \in 1..MaxTotal, total \in 1..MaxTotal :
                               AdvanceCheckpoint(r, resource, offset, total, at)
      PROVE  \A q \in RunIds : Moves(q)
  <2>1. runs' = runs \/ runs' = [runs EXCEPT ![r].lease = at + Lease]
    BY <1>7 DEF RenewRunLease, BeginCheckpoint, AdvanceCheckpoint
  <2> QED
    BY <1>1, <2>1 DEF Moves, Life, Row
<1>8. ASSUME NEW at, NEW resource \in Resources,
             CompleteCheckpointAndRun(r, resource, at)
      PROVE  \A q \in RunIds : Moves(q)
  <2> DEFINE row == [runs[r] EXCEPT !.status = "succeeded", !.cancel = FALSE,
                                    !.lease = NoTime]
  <2>1. /\ runs' = [runs EXCEPT ![r] = row]
        /\ runs[r].status = "publishing" /\ ~runs[r].cancel
    BY <1>1, <1>8 DEF CompleteCheckpointAndRun
  <2>2. /\ row.status = "succeeded" /\ row.cancel = FALSE
        /\ row.source = runs[r].source /\ row.started = runs[r].started
    BY <1>1 DEF Row
  <2> HIDE DEF row
  <2>3. row.cancel = runs[r].cancel
    <3>1. runs[r].cancel \in BOOLEAN
      BY <1>1 DEF Row
    <3> QED
      BY <2>1, <2>2, <3>1
  <2>4. Lifecycle!Succeed(Life(runs[r]), Life(row))
    BY <2>1, <2>2, <2>3 DEF Lifecycle!Succeed, Life
  <2> QED
    BY <1>2, <2>1, <2>4 DEF Lifecycle!Step
<1> QED
  BY <1>3, <1>5, <1>6, <1>7, <1>8 DEF RunNext

LEMMA NextMoves ==
  ASSUME LifeInv, [Next]_vars
  PROVE  \A q \in RunIds : Moves(q)
<1>1. CASE \E c \in Sessions \ Workers : ClientNext(c)
  BY <1>1, SessionMoves
<1>2. CASE \E c \in Workers : WorkerNext(c)
  BY <1>2, SessionMoves, ParametersAssumption
<1>3. CASE \E r \in RunIds : RunNext(r)
  BY <1>3, RunMoves
<1>4. CASE Tick \/ UNCHANGED vars
  BY <1>4 DEF Tick, vars, Moves
<1> QED
  BY <1>1, <1>2, <1>3, <1>4 DEF Next

(* What a move does to the columns of the row.                             *)
LEMMA MoveFacts ==
  ASSUME NEW r \in RunIds, Moves(r)
  PROVE  /\ \/ runs'[r].started = runs[r].started
            \/ runs[r].status = "queued"
            \/ Life(runs[r]) = Lifecycle!Unborn
         /\ runs[r].cancel /\ runs[r].status \notin {"publishing", "succeeded"}
              => runs'[r].status \notin {"publishing", "succeeded"}
         /\ runs'[r].cancel /\ ~runs[r].cancel =>
              runs'[r].status \notin {"publishing", "succeeded"}
<1> DEFINE old == Life(runs[r])
           new == Life(runs'[r])
<1>1. /\ old.status = runs[r].status /\ old.source = runs[r].source
      /\ old.cancel = runs[r].cancel /\ old.started = runs[r].started
      /\ new.status = runs'[r].status /\ new.source = runs'[r].source
      /\ new.cancel = runs'[r].cancel /\ new.started = runs'[r].started
  BY DEF Life
<1>2. new = old \/ Lifecycle!Step(old, new)
  BY DEF Moves
<1>3. old = [status |-> old.status, source |-> old.source,
             cancel |-> old.cancel, started |-> old.started]
  BY DEF Life
<1> HIDE DEF old, new
<1>4. CASE new = old
  BY <1>1, <1>4
<1>5. CASE Lifecycle!Create(old, new)
  BY <1>1, <1>5 DEF Lifecycle!Create, old
<1>6. CASE Lifecycle!Claim(old, new)
  BY <1>1, <1>6 DEF Lifecycle!Claim
<1>7. CASE Lifecycle!Withdraw(old, new)
  BY <1>1, <1>7 DEF Lifecycle!Withdraw
<1>8. CASE Lifecycle!RequestCancel(old, new)
  BY <1>1, <1>8 DEF Lifecycle!RequestCancel
<1>9. ASSUME NEW status, new = [old EXCEPT !.status = status]
      PROVE  /\ new.status = status /\ new.cancel = old.cancel
             /\ new.started = old.started
  BY <1>3, <1>9
<1>10. CASE Lifecycle!Advance(old, new)
  BY <1>1, <1>9, <1>10 DEF Lifecycle!Advance
<1>11. CASE Lifecycle!Succeed(old, new)
  BY <1>1, <1>9, <1>11 DEF Lifecycle!Succeed
<1>12. CASE Lifecycle!Fail(old, new) \/ Lifecycle!Stop(old, new)
  BY <1>1, <1>9, <1>12 DEF Lifecycle!Fail, Lifecycle!Stop
<1> QED
  BY <1>2, <1>4, <1>5, <1>6, <1>7, <1>8, <1>10, <1>11, <1>12
     DEF Lifecycle!Step

LEMMA InitRows ==
  ASSUME Init, NEW r \in RunIds
  PROVE  \/ runs[r] = NoRow
         \/ /\ runs[r].status = "running" /\ runs[r].source \in Sources
            /\ runs[r].cancel = FALSE /\ runs[r].started = 0
<1>1. ASSUME NEW s \in Sources, NEW k \in Keys, NEW h \in Hashes,
             runs[r] = LegacyRow(s, k, h)
      PROVE  /\ runs[r].status = "running" /\ runs[r].source = s
             /\ runs[r].cancel = FALSE /\ runs[r].started = 0
  BY <1>1 DEF LegacyRow, NoRow
<1>2. \/ runs[r] = NoRow
      \/ \E s \in Sources, k \in Keys, h \in Hashes : runs[r] = LegacyRow(s, k, h)
  BY DEF Init
<1> QED
  BY <1>1, <1>2

LEMMA InitLife ==
  Init => LifeInv
<1> SUFFICES ASSUME Init PROVE LifeInv
  OBVIOUS
<1>1. CancelInv
  <2>1. NoRow.cancel = FALSE
    BY DEF NoRow
  <2> QED
    BY <2>1, InitRows DEF CancelInv
<1> QED
  BY <1>1, InitVerdict DEF LifeInv

LEMMA NextLife ==
  LifeInv /\ [Next]_vars => LifeInv'
<1> SUFFICES ASSUME LifeInv, [Next]_vars PROVE LifeInv'
  OBVIOUS
<1>1. CancelInv'
  <2>1. SUFFICES ASSUME NEW r \in RunIds, runs'[r].cancel
                 PROVE  runs'[r].status \notin {"publishing", "succeeded"}
    BY DEF CancelInv
  <2>2. Moves(r) /\ (runs[r].cancel =>
                       runs[r].status \notin {"publishing", "succeeded"})
    BY NextMoves DEF LifeInv, CancelInv
  <2> QED
    BY <2>1, <2>2, MoveFacts
<1> QED
  BY <1>1, NextVerdict DEF LifeInv

(* Transactions, leases and expiries implement the life cycle.             *)
THEOREM Refinement ==
  Spec => RunsFollowLifecycle
<1> DEFINE life == [r \in RunIds |-> Life(runs[r])]
<1>1. LifeInv => Lifecycle!OneAlive
  BY DEF LifeInv, VerdictInv, OneActivePerSource, Lifecycle!OneAlive,
     Lifecycle!Alive, Lifecycle!Executed, Active, InFlight, Life
<1>2. Init => Lifecycle!Init
  <2>1. SUFFICES ASSUME Init, NEW r \in RunIds
                 PROVE  \/ life[r] = Lifecycle!Unborn
                        \/ Lifecycle!Create(Lifecycle!Unborn, life[r])
    BY <1>1, InitLife DEF Lifecycle!Init
  <2>2. CASE runs[r] = NoRow
    <3>1. /\ runs[r].status = "absent" /\ runs[r].source = None
          /\ runs[r].cancel = FALSE /\ runs[r].started = -1
      BY <2>2 DEF NoRow, NoTime
    <3> QED
      BY <2>1, <3>1 DEF Life, Lifecycle!Unborn
  <2>3. CASE /\ runs[r].status = "running" /\ runs[r].source \in Sources
             /\ runs[r].cancel = FALSE /\ runs[r].started = 0
    BY <2>3 DEF Life, Lifecycle!Create
  <2>4. \/ runs[r] = NoRow
        \/ /\ runs[r].status = "running" /\ runs[r].source \in Sources
           /\ runs[r].cancel = FALSE /\ runs[r].started = 0
    BY <2>1, InitRows
  <2> HIDE DEF life
  <2> QED
    BY <2>2, <2>3, <2>4
<1>3. LifeInv /\ LifeInv' /\ [Next]_vars => [Lifecycle!Next]_life
  <2>1. SUFFICES ASSUME LifeInv, LifeInv', [Next]_vars
                 PROVE  Lifecycle!Next
    OBVIOUS
  <2>2. Lifecycle!OneAlive'
    <3>1. OneActivePerSource'
      BY <2>1 DEF LifeInv, VerdictInv
    <3> QED
      BY <3>1 DEF OneActivePerSource, Lifecycle!OneAlive,
         Lifecycle!Alive, Lifecycle!Executed, Active, InFlight, Life
  <2>3. \A r \in RunIds : life'[r] = life[r] \/ Lifecycle!Step(life[r], life'[r])
    BY <2>1, NextMoves DEF Moves
  <2> QED
    BY <2>2, <2>3 DEF Lifecycle!Next
<1> QED
  BY <1>2, <1>3, InitLife, NextLife, PTL DEF Spec, RunsFollowLifecycle, Lifecycle!Spec

(* A run is claimed at most once.                                          *)
THEOREM OneClaim ==
  Spec => ClaimedOnce
<1>1. ASSUME LifeInv, [Next]_vars, NEW r \in RunIds, runs[r].started # NoTime
      PROVE  runs'[r].started = runs[r].started
  <2>1. runs[r].status # "queued"
    BY <1>1 DEF LifeInv, VerdictInv, LockInv, TypeOK, RowShape
  <2>2. Life(runs[r]) # Lifecycle!Unborn
    BY <1>1 DEF Life, Lifecycle!Unborn, NoTime
  <2>3. Moves(r)
    BY <1>1, NextMoves
  <2> QED
    BY <2>1, <2>2, <2>3, MoveFacts
<1>2. LifeInv /\ [Next]_vars =>
        [\A r \in RunIds : runs[r].started # NoTime =>
                             runs'[r].started = runs[r].started]_vars
  BY <1>1
<1> QED
  BY <1>2, InitLife, NextLife, PTL DEF Spec, ClaimedOnce

(* An accepted cancellation wins: the run is never published.              *)
THEOREM CancelHolds ==
  Spec => AcceptedCancelHolds
<1>1. ASSUME LifeInv, [Next]_vars, NEW r \in RunIds, runs[r].cancel
      PROVE  runs'[r].status \notin {"publishing", "succeeded"}
  BY <1>1, NextMoves, MoveFacts DEF LifeInv, CancelInv
<1>2. LifeInv /\ [Next]_vars =>
        [\A r \in RunIds : runs[r].cancel =>
           runs'[r].status \notin {"publishing", "succeeded"}]_vars
  BY <1>1
<1> QED
  BY <1>2, InitLife, NextLife, PTL DEF Spec, AcceptedCancelHolds

-----------------------------------------------------------------------------
(* Which rows a step may touch, and in which status.                       *)
LEMMA SessionRows ==
  ASSUME LockInv, NEW c \in Sessions, ClientNext(c) \/ WorkerNext(c),
         NEW q \in RunIds
  PROVE  \/ runs'[q] = runs[q]
         \/ /\ runs[q].status = "absent"
            /\ runs'[q].status \in {"queued", "running"}
         \/ /\ runs'[q].source = runs[q].source
            /\ \/ /\ runs[q].status = "queued"
                  /\ runs'[q].status = "running"
               \/ /\ q \in txn[c].expired
                  /\ runs[q].status \in InFlight
                  /\ runs'[q].status \in {"failed", "canceled"}
<1> DEFINE after == AfterExpiry(txn[c].expired)
<1>1. after \in [RunIds -> Row] /\ runs \in [RunIds -> Row] /\ txn[c] \in Txn
  BY AfterExpiryType DEF LockInv, TypeOK
<1>2. \/ after[q] = runs[q]
      \/ /\ q \in txn[c].expired
         /\ runs[q].status \in InFlight
         /\ after[q].status \in {"failed", "canceled"}
         /\ after[q].source = runs[q].source
  BY AfterExpiryType DEF LockInv, LocksHeld
<1> HIDE DEF after
<1>3. CASE runs' = runs \/ runs' = after
  BY <1>2, <1>3
<1>4. ASSUME NEW r \in RunIds, NEW row, runs' = [after EXCEPT ![r] = row],
             \/ runs[r].status = "absent" /\ row.status \in {"queued", "running"}
             \/ /\ runs[r].status = "queued" /\ row.status = "running"
                /\ row.source = runs[r].source
      PROVE  \/ runs'[q] = runs[q]
             \/ /\ runs[q].status = "absent"
                /\ runs'[q].status \in {"queued", "running"}
             \/ /\ runs'[q].source = runs[q].source
                /\ \/ /\ runs[q].status = "queued"
                      /\ runs'[q].status = "running"
                   \/ /\ q \in txn[c].expired
                      /\ runs[q].status \in InFlight
                      /\ runs'[q].status \in {"failed", "canceled"}
  BY <1>1, <1>2, <1>4
<1>5. CASE EnqueueCreate(c)
  <2>1. PICK r \in RunIds : Insert(txn[c], r, QueuedRow(txn[c]))
    BY <1>5 DEF EnqueueCreate
  <2>2. QueuedRow(txn[c]).status = "queued"
    BY DEF QueuedRow, NoRow
  <2> QED
    BY <1>4, <2>1, <2>2 DEF Insert, after
<1>6. CASE LaunchCommit(c)
  <2>1. PICK r \in RunIds, at \in txn[c].at..now :
          Insert(txn[c], r, ClaimedRow(QueuedRow(txn[c]), at))
    BY <1>6 DEF LaunchCommit
  <2> DEFINE row == ClaimedRow(QueuedRow(txn[c]), at)
  <2>2. row.status = "running"
    BY DEF ClaimedRow, QueuedRow, NoRow
  <2> HIDE DEF row
  <2>3. runs' = [after EXCEPT ![r] = row] /\ runs[r].status = "absent"
    BY <2>1 DEF Insert, after, row
  <2> QED
    BY <1>4, <2>2, <2>3
<1>7. CASE ClaimCommit(c)
  <2> DEFINE r == txn[c].run
             row == ClaimedRow(runs[r], txn[c].at)
  <2>1. /\ r \in RunIds /\ runs[r].status = "queued"
        /\ runs' = [after EXCEPT ![r] = row]
    BY <1>7 DEF ClaimCommit, StillQueued, LockInv, LocksHeld, after
  <2>2. row.status = "running" /\ row.source = runs[r].source
    BY <1>1, <2>1 DEF ClaimedRow, Row
  <2> HIDE DEF row, r
  <2> QED
    BY <1>4, <2>1, <2>2
<1>8. \/ runs' = runs \/ runs' = after
      \/ EnqueueCreate(c) \/ LaunchCommit(c) \/ ClaimCommit(c)
  BY DEF ClientNext, WorkerNext, EnqueueBegin, LaunchBegin, BeginEnqueue,
     CommandInspect, EnqueueReplay, Rollback, ClaimBegin, after
<1> QED
  BY <1>3, <1>5, <1>6, <1>7, <1>8

LEMMA RunRows ==
  ASSUME LockInv, NEW r \in RunIds, RunNext(r)
  PROVE  /\ txn' = txn
         /\ \A q \in RunIds \ {r} : runs'[q] = runs[q]
         /\ runs'[r].source = runs[r].source
         /\ runs'[r] # runs[r] => runs[r].status \in Active /\ RowFree(r)
         /\ runs'[r].status = "succeeded" =>
              \/ runs[r].status = "succeeded"
              \/ \E at \in Stamps, resource \in Resources :
                   CompleteCheckpointAndRun(r, resource, at)
<1>1. runs \in [RunIds -> Row] /\ runs[r] \in Row
  BY DEF LockInv, TypeOK
<1>2. CASE Cancel(r)
  <2>1. /\ CanceledRow(runs[r]).source = runs[r].source
        /\ CanceledRow(runs[r]).status = "canceled"
    BY <1>1 DEF CanceledRow, Row
  <2>2. /\ txn' = txn /\ runs[r].status \in Active /\ RowFree(r)
        /\ \/ runs' = [runs EXCEPT ![r] = CanceledRow(runs[r])]
           \/ runs' = [runs EXCEPT ![r].cancel = TRUE]
    BY <1>2 DEF Cancel, Active, InFlight
  <2>3. /\ \A q \in RunIds \ {r} : runs'[q] = runs[q]
        /\ runs'[r].source = runs[r].source
        /\ runs'[r].status = "succeeded" => runs[r].status = "succeeded"
    BY <1>1, <2>1, <2>2 DEF Row
  <2> QED
    BY <2>2, <2>3
<1>3. ASSUME NEW from, NEW to, NEW at, TransitionRun(r, from, to, at),
             to # "succeeded"
      PROVE  /\ txn' = txn
             /\ \A q \in RunIds \ {r} : runs'[q] = runs[q]
             /\ runs'[r].source = runs[r].source
             /\ runs[r].status \in Active /\ RowFree(r)
             /\ runs'[r].status # "succeeded"
  BY <1>1, <1>3 DEF TransitionRun, TransitionAllowed, Row, Active, InFlight
<1>4. CASE Proceed(r)
  <2> PICK at \in Stamps, step \in {<<"running", "validating">>,
                                     <<"validating", "publishing">>} :
        TransitionRun(r, step[1], step[2], at)
    BY <1>4 DEF Proceed
  <2> QED
    BY <1>3
<1>5. CASE Abandon(r)
  <2> PICK at \in Stamps \cup {runs[r].started}, to \in {"failed", "canceled"} :
        TransitionRun(r, runs[r].status, to, at)
    BY <1>5 DEF Abandon
  <2> QED
    BY <1>3
<1>6. ASSUME NEW at \in Stamps,
             \/ RenewRunLease(r, at)
             \/ \E resource \in Resources :
                  \/ BeginCheckpoint(r, resource, at)
                  \/ \E offset \in 1..MaxTotal, total \in 1..MaxTotal :
                       AdvanceCheckpoint(r, resource, offset, total, at)
      PROVE  /\ txn' = txn
             /\ \A q \in RunIds \ {r} : runs'[q] = runs[q]
             /\ runs'[r].source = runs[r].source
             /\ runs[r].status \in Active /\ RowFree(r)
             /\ runs'[r].status = runs[r].status
  <2>1. /\ txn' = txn /\ runs[r].status \in Active /\ RowFree(r)
        /\ runs' = runs \/ runs' = [runs EXCEPT ![r].lease = at + Lease]
    BY <1>6 DEF RenewRunLease, BeginCheckpoint, AdvanceCheckpoint, Executing,
       Active, InFlight
  <2> QED
    BY <1>1, <2>1 DEF Row
<1>7. ASSUME NEW at \in Stamps, NEW resource \in Resources,
             CompleteCheckpointAndRun(r, resource, at)
      PROVE  /\ txn' = txn
             /\ \A q \in RunIds \ {r} : runs'[q] = runs[q]
             /\ runs'[r].source = runs[r].source
             /\ runs[r].status \in Active /\ RowFree(r)
  BY <1>1, <1>7 DEF CompleteCheckpointAndRun, Row, Active, InFlight
<1> QED
  BY <1>2, <1>4, <1>5, <1>6, <1>7 DEF RunNext, Cancel, Active, InFlight

(* Succeeded, failed and canceled rows never change again.                 *)
THEOREM FinalRows ==
  Spec => FinishedRunsAreFinal
<1>1. ASSUME LockInv, [Next]_vars, NEW q \in RunIds, runs[q].status \in Terminal
      PROVE  runs'[q] = runs[q]
  <2>1. runs[q].status \notin Active \cup {"absent"}
    BY <1>1 DEF Terminal, Active, InFlight
  <2>2. CASE \E c \in Sessions : ClientNext(c) \/ WorkerNext(c)
    BY <1>1, <2>1, <2>2, SessionRows DEF Active
  <2>3. CASE \E r \in RunIds : RunNext(r)
    BY <1>1, <2>1, <2>3, RunRows
  <2>4. CASE Tick \/ UNCHANGED vars
    BY <2>4 DEF Tick, vars
  <2> QED
    BY <1>1, <2>2, <2>3, <2>4, ParametersAssumption DEF Next
<1>2. LockInv /\ [Next]_vars =>
        [\A r \in RunIds : runs[r].status \in Terminal => runs'[r] = runs[r]]_vars
  BY <1>1
<1> QED
  BY <1>2, InitLock, NextLock, PTL DEF Spec, FinishedRunsAreFinal

(* The rows an open transaction has expired stay stale until it ends: they *)
(* are locked, and the clock only moves their leases further into the past.*)
ExpiryInv ==
  \A c \in Sessions : \A r \in txn[c].expired : Stale(r, now)

LEMMA NextExpiry ==
  ASSUME LockInv, ExpiryInv, [Next]_vars
  PROVE  ExpiryInv'
<1>1. /\ now \in Nat /\ now' \in Nat /\ txn \in [Sessions -> Txn]
      /\ runs \in [RunIds -> Row]
  BY NextLock DEF LockInv, TypeOK
<1>2. ASSUME NEW c \in Sessions, NEW r \in txn[c].expired, runs'[r] = runs[r],
             now' >= now
      PROVE  Stale(r, now)'
  <2>1. Stale(r, now) /\ r \in RunIds
    BY <1>1, <1>2 DEF ExpiryInv, Txn
  <2>2. runs[r].lease \in Int /\ runs[r].started \in Int
    BY <1>1, <2>1 DEF Row, Time, NoTime
  <2> QED
    BY <1>1, <1>2, <2>1, <2>2, ParametersAssumption DEF Stale, NoTime
<1>3. ASSUME NEW c \in Sessions, ClientNext(c) \/ WorkerNext(c)
      PROVE  ExpiryInv'
  <2>1. \A d \in Sessions \ {c} : txn'[d] = txn[d]
    BY <1>1, <1>3 DEF ClientNext, WorkerNext, EnqueueBegin, LaunchBegin,
       BeginEnqueue, CommandInspect, EnqueueCreate, LaunchCommit, EnqueueReplay,
       Rollback, ClaimBegin, ClaimCommit
  <2>2. now' = now
    BY <1>3 DEF ClientNext, WorkerNext, EnqueueBegin, LaunchBegin,
       BeginEnqueue, CommandInspect, EnqueueCreate, LaunchCommit, EnqueueReplay,
       Rollback, ClaimBegin, ClaimCommit
  <2>3. ASSUME NEW d \in Sessions \ {c}, NEW r \in txn'[d].expired
        PROVE  Stale(r, now)'
    <3>1. /\ r \in txn[d].expired /\ r \in RunIds
          /\ r \notin txn[c].expired /\ runs[r].status \in InFlight
      BY <1>1, <2>1, <2>3 DEF Txn, LockInv, LocksHeld
    <3>2. runs'[r] = runs[r]
      BY <1>3, <3>1, SessionRows DEF InFlight
    <3> QED
      BY <1>1, <1>2, <2>2, <3>1, <3>2
  <2>4. ASSUME NEW r \in txn'[c].expired
        PROVE  Stale(r, now)'
    <3>1. \/ txn'[c].expired = {}
          \/ runs' = runs /\ \A q \in txn'[c].expired : Stale(q, now)
      <4>1. CASE txn' = [txn EXCEPT ![c] = Idle] \/ \E s \in Sources : CommandInspect(c, s)
        <5>1. PICK t : t.expired = {} /\ txn' = [txn EXCEPT ![c] = t]
          <6>1. \A s : [Idle EXCEPT !.op = "cleared", !.source = s].expired = {}
            BY DEF Idle
          <6>2. Idle.expired = {}
            BY DEF Idle
          <6> QED
            BY <4>1, <6>1, <6>2 DEF CommandInspect
        <5> QED
          BY <1>1, <5>1
      <4>2. ASSUME NEW op, NEW s, NEW k, NEW h, BeginEnqueue(c, op, s, k, h)
            PROVE  runs' = runs /\ \A q \in txn'[c].expired : Stale(q, now)
        BY <1>1, <4>2 DEF BeginEnqueue
      <4>3. ASSUME ClaimBegin(c)
            PROVE  runs' = runs /\ \A q \in txn'[c].expired : Stale(q, now)
        BY <1>1, <4>3 DEF ClaimBegin, Idle
      <4>4. \/ txn' = [txn EXCEPT ![c] = Idle]
            \/ \E s \in Sources : CommandInspect(c, s)
            \/ \E op, s, k, h : BeginEnqueue(c, op, s, k, h)
            \/ ClaimBegin(c)
        BY <1>3 DEF ClientNext, WorkerNext, EnqueueBegin, LaunchBegin,
           EnqueueCreate, LaunchCommit, EnqueueReplay, Rollback, ClaimCommit
      <4> QED
        BY <4>1, <4>2, <4>3, <4>4
    <3> QED
      BY <2>2, <2>4, <3>1 DEF Stale
  <2> QED
    BY <2>3, <2>4 DEF ExpiryInv
<1>4. ASSUME NEW q \in RunIds, RunNext(q)
      PROVE  ExpiryInv'
  <2>1. ASSUME NEW c \in Sessions, NEW r \in txn'[c].expired
        PROVE  Stale(r, now)'
    <3>1. r \in txn[c].expired /\ r \in RunIds /\ txn' = txn
      BY <1>1, <1>4, <2>1, RunRows DEF Txn
    <3>2. runs'[r] = runs[r]
      BY <1>4, <3>1, RunRows DEF RowFree
    <3>3. now' = now
      BY <1>4 DEF RunNext, Cancel, Proceed, Abandon, TransitionRun,
         RenewRunLease, BeginCheckpoint, AdvanceCheckpoint,
         CompleteCheckpointAndRun
    <3> QED
      BY <1>1, <1>2, <3>1, <3>2, <3>3
  <2> QED
    BY <2>1 DEF ExpiryInv
<1>5. CASE Tick \/ UNCHANGED vars
  <2>1. runs' = runs /\ txn' = txn /\ now' >= now
    BY <1>1, <1>5 DEF Tick, vars
  <2> QED
    BY <1>2, <2>1 DEF ExpiryInv
<1> QED
  BY <1>3, <1>4, <1>5, ParametersAssumption DEF Next

(* Expiry never closes a run whose lease is current.                       *)
THEOREM ExpirySpares ==
  Spec => ExpirySparesLiveRuns
<1>1. Init => ExpiryInv
  BY DEF Init, ExpiryInv, Idle
<1>2. ASSUME LockInv, ExpiryInv, [Next]_vars, NEW r \in RunIds, txn' # txn,
             runs[r].status \in InFlight, LeaseCurrent(r, now)
      PROVE  runs'[r] = runs[r]
  <2>1. PICK c \in Sessions : ClientNext(c) \/ WorkerNext(c)
    BY <1>2, RunRows, ParametersAssumption DEF Next, Tick, vars
  <2>2. r \notin txn[c].expired
    <3>1. now \in Nat /\ runs[r].lease \in Int /\ runs[r].started \in Int
      BY <1>2 DEF LockInv, TypeOK, Row, Time, NoTime
    <3>2. ~Stale(r, now)
      BY <1>2, <3>1, ParametersAssumption DEF Stale, LeaseCurrent, NoTime
    <3> QED
      BY <1>2, <3>2 DEF ExpiryInv
  <2> QED
    BY <1>2, <2>1, <2>2, SessionRows DEF InFlight
<1>3. LockInv /\ ExpiryInv /\ [Next]_vars =>
        [\A r \in RunIds :
           /\ txn' # txn
           /\ runs[r].status \in InFlight
           /\ LeaseCurrent(r, now)
           => runs'[r] = runs[r]]_vars
  BY <1>2
<1>4. LockInv /\ ExpiryInv /\ [Next]_vars => ExpiryInv'
  BY NextExpiry
<1> QED
  BY <1>1, <1>3, <1>4, InitLock, NextLock, PTL DEF Spec, ExpirySparesLiveRuns

-----------------------------------------------------------------------------
(* Checkpoints.  CompletionAgrees is not inductive alone: a run must not   *)
(* own a second cursor, which completing it would leave open.              *)
OneCursorPerRun ==
  \A s \in Sources : \A p, q \in Resources :
    /\ checkpoints[s][p].run # None
    /\ checkpoints[s][p].run = checkpoints[s][q].run
    => p = q

CursorInv == LifeInv /\ CompletionAgrees /\ OneCursorPerRun

(* The cursors and the outcome of the runs they name are left alone.       *)
LEMMA CursorsKept ==
  ASSUME CursorInv, checkpoints' = checkpoints,
         \A q \in RunIds : runs[q].status # "absent" =>
           /\ runs'[q].source = runs[q].source
           /\ runs'[q].status = "succeeded" <=> runs[q].status = "succeeded"
  PROVE  CompletionAgrees' /\ OneCursorPerRun'
<1>1. OneCursorPerRun'
  BY DEF CursorInv, OneCursorPerRun
<1>2. ASSUME NEW s \in Sources, NEW resource \in Resources,
             checkpoints[s][resource].run # None
      PROVE  LET ck == checkpoints[s][resource] IN
             /\ runs'[ck.run].source = s
             /\ ck.complete <=> runs'[ck.run].status = "succeeded"
             /\ ck.complete => ck.offset = ck.total
  <2> DEFINE ck == checkpoints[s][resource]
  <2>1. ck \in Cursor
    BY DEF CursorInv, LifeInv, VerdictInv, LockInv, TypeOK
  <2>2. ck.run \in RunIds
    BY <1>2, <2>1 DEF Cursor
  <2>3. /\ runs[ck.run].source = s
        /\ ck.complete <=> runs[ck.run].status = "succeeded"
        /\ ck.complete => ck.offset = ck.total
    BY <1>2 DEF CursorInv, CompletionAgrees
  <2>4. runs[ck.run].status # "absent"
    BY <2>2, <2>3, ParametersAssumption DEF CursorInv, LifeInv, VerdictInv,
       LockInv, TypeOK, RowShape, NoRow
  <2> QED
    BY <2>2, <2>3, <2>4
<1>3. CompletionAgrees'
  BY <1>2 DEF CompletionAgrees
<1> QED
  BY <1>1, <1>3

(* One cursor is written, by a run of its source that has no other.        *)
LEMMA CursorWritten ==
  ASSUME CursorInv, NEW r \in RunIds, NEW resource \in Resources, NEW ck \in Cursor,
         runs[r].source \in Sources, ck.run = r,
         runs[r].status \in InFlight, ~ck.complete,
         \A other \in Resources \ {resource} :
           checkpoints[runs[r].source][other].run # r,
         checkpoints' = [checkpoints EXCEPT ![runs[r].source][resource] = ck],
         \A q \in RunIds : /\ runs'[q].source = runs[q].source
                           /\ runs'[q].status = runs[q].status
  PROVE  CompletionAgrees' /\ OneCursorPerRun'
<1> DEFINE s == runs[r].source
<1>1. /\ checkpoints'[s][resource] = ck
      /\ \A t \in Sources, p \in Resources :
           t # s \/ p # resource => checkpoints'[t][p] = checkpoints[t][p]
  BY DEF CursorInv, LifeInv, VerdictInv, LockInv, TypeOK
<1>2. OneCursorPerRun'
  <2>1. ASSUME NEW t \in Sources, NEW p \in Resources, NEW q \in Resources,
               checkpoints'[t][p].run # None,
               checkpoints'[t][p].run = checkpoints'[t][q].run
        PROVE  p = q
    BY <1>1, <2>1 DEF CursorInv, OneCursorPerRun
  <2> QED
    BY <2>1 DEF OneCursorPerRun
<1>3. CompletionAgrees'
  <2>1. ASSUME NEW t \in Sources, NEW p \in Resources,
               checkpoints'[t][p].run # None
        PROVE  LET c == checkpoints'[t][p] IN
               /\ runs'[c.run].source = t
               /\ c.complete <=> runs'[c.run].status = "succeeded"
               /\ c.complete => c.offset = c.total
    <3>1. CASE t = s /\ p = resource
      BY <1>1, <3>1 DEF InFlight
    <3>2. CASE t # s \/ p # resource
      <4>1. checkpoints'[t][p] = checkpoints[t][p] /\ checkpoints[t][p] \in Cursor
        BY <1>1, <3>2 DEF CursorInv, LifeInv, VerdictInv, LockInv, TypeOK
      <4>2. checkpoints[t][p].run \in RunIds
        BY <2>1, <4>1 DEF Cursor
      <4> QED
        BY <2>1, <4>1, <4>2 DEF CursorInv, CompletionAgrees
    <3> QED
      BY <3>1, <3>2
  <2> QED
    BY <2>1 DEF CompletionAgrees
<1> QED
  BY <1>2, <1>3

(* Completion closes the only cursor of the run together with the run.     *)
LEMMA CursorClosed ==
  ASSUME CursorInv, NEW r \in RunIds, NEW resource \in Resources, NEW at,
         runs[r].source \in Sources,
         CompleteCheckpointAndRun(r, resource, at)
  PROVE  CompletionAgrees' /\ OneCursorPerRun'
<1> DEFINE s == runs[r].source
           stored == checkpoints[s][resource]
           closed == [stored EXCEPT !.complete = TRUE]
<1>1. stored \in Cursor /\ PassFinished(stored, r)
  BY DEF CompleteCheckpointAndRun, CursorInv, LifeInv, VerdictInv, LockInv, TypeOK
<1>2. /\ closed.run = r /\ closed.complete = TRUE
      /\ closed.offset = stored.offset /\ closed.total = stored.total
  BY <1>1 DEF Cursor, PassFinished
<1>3. /\ checkpoints'[s][resource] = closed
      /\ \A t \in Sources, p \in Resources :
           t # s \/ p # resource => checkpoints'[t][p] = checkpoints[t][p]
  BY DEF CompleteCheckpointAndRun, CursorInv, LifeInv, VerdictInv, LockInv, TypeOK
<1>4. /\ runs[r].status = "publishing"
      /\ runs'[r].status = "succeeded" /\ runs'[r].source = s
      /\ \A q \in RunIds \ {r} : runs'[q] = runs[q]
  <2> runs \in [RunIds -> Row]
    BY DEF CursorInv, LifeInv, VerdictInv, LockInv, TypeOK
  <2> QED
    BY DEF CompleteCheckpointAndRun, Row
<1>5. r # None
  BY ParametersAssumption
<1> HIDE DEF closed
<1>6. OneCursorPerRun'
  <2>1. \A t \in Sources, p \in Resources :
          checkpoints'[t][p].run = checkpoints[t][p].run
    BY <1>1, <1>2, <1>3 DEF PassFinished
  <2> QED
    BY <2>1 DEF CursorInv, OneCursorPerRun
<1>7. CompletionAgrees'
  <2>1. ASSUME NEW t \in Sources, NEW p \in Resources,
               checkpoints'[t][p].run # None
        PROVE  LET c == checkpoints'[t][p] IN
               /\ runs'[c.run].source = t
               /\ c.complete <=> runs'[c.run].status = "succeeded"
               /\ c.complete => c.offset = c.total
    <3>1. CASE t = s /\ p = resource
      BY <1>1, <1>2, <1>3, <1>4, <3>1 DEF PassFinished
    <3>2. CASE t # s \/ p # resource
      <4>1. checkpoints'[t][p] = checkpoints[t][p] /\ checkpoints[t][p] \in Cursor
        BY <1>3, <3>2 DEF CursorInv, LifeInv, VerdictInv, LockInv, TypeOK
      <4>2. checkpoints[t][p].run \in RunIds
        BY <2>1, <4>1 DEF Cursor
      <4>3. checkpoints[t][p].run # r
        BY <1>1, <1>5, <2>1, <3>2, <4>1 DEF CursorInv, CompletionAgrees,
           OneCursorPerRun, PassFinished
      <4> QED
        BY <1>4, <2>1, <4>1, <4>2, <4>3 DEF CursorInv, CompletionAgrees
    <3> QED
      BY <3>1, <3>2
  <2> QED
    BY <2>1 DEF CompletionAgrees
<1> QED
  BY <1>6, <1>7

LEMMA InitCursor ==
  Init => CursorInv
BY InitLife DEF Init, CursorInv, CompletionAgrees, OneCursorPerRun, NoCursor

LEMMA NextCursor ==
  CursorInv /\ [Next]_vars => CursorInv'
<1> SUFFICES ASSUME CursorInv, [Next]_vars PROVE CursorInv'
  OBVIOUS
<1>1. LockInv /\ LifeInv' /\ runs \in [RunIds -> Row]
  BY NextLife DEF CursorInv, LifeInv, VerdictInv, LockInv, TypeOK
<1>2. ASSUME NEW c \in Sessions, ClientNext(c) \/ WorkerNext(c)
      PROVE  CompletionAgrees' /\ OneCursorPerRun'
  <2>1. checkpoints' = checkpoints
    BY <1>2 DEF ClientNext, WorkerNext, EnqueueBegin, LaunchBegin,
       BeginEnqueue, CommandInspect, EnqueueCreate, LaunchCommit, EnqueueReplay,
       Rollback, ClaimBegin, ClaimCommit
  <2>2. \A q \in RunIds : runs[q].status # "absent" =>
          /\ runs'[q].source = runs[q].source
          /\ runs'[q].status = "succeeded" <=> runs[q].status = "succeeded"
    BY <1>1, <1>2, SessionRows DEF InFlight
  <2> QED
    BY <2>1, <2>2, CursorsKept
<1>3. ASSUME NEW r \in RunIds, RunNext(r)
      PROVE  CompletionAgrees' /\ OneCursorPerRun'
  <2>1. /\ \A q \in RunIds : runs'[q].source = runs[q].source
        /\ \A q \in RunIds \ {r} : runs'[q] = runs[q]
        /\ runs[r].status = "succeeded" => runs'[r] = runs[r]
        /\ runs[r].status \in InFlight => runs[r].source \in Sources
    BY <1>1, <1>3, RunRows DEF Active, InFlight, LockInv, TypeOK, RowShape
  <2>2. ASSUME NEW at, NEW resource \in Resources,
               CompleteCheckpointAndRun(r, resource, at)
        PROVE  CompletionAgrees' /\ OneCursorPerRun'
    BY <2>1, <2>2, CursorClosed DEF CompleteCheckpointAndRun, InFlight
  <2>3. ASSUME NEW at \in Stamps, NEW resource \in Resources,
               BeginCheckpoint(r, resource, at)
        PROVE  CompletionAgrees' /\ OneCursorPerRun'
    <3> DEFINE s == runs[r].source
               stored == checkpoints[s][resource]
               ck == IF stored.complete \/ stored.run # r
                     THEN [NoCursor EXCEPT !.run = r] ELSE stored
    <3>1. runs[r].status \in InFlight /\ s \in Sources
      BY <2>1, <2>3 DEF BeginCheckpoint, Executing, InFlight
    <3>2. stored \in Cursor
      BY <3>1 DEF LockInv, TypeOK, CursorInv, LifeInv, VerdictInv
    <3>3. ck \in Cursor /\ ck.run = r /\ ~ck.complete
      BY <3>2 DEF NoCursor, Cursor
    <3>4. checkpoints' = [checkpoints EXCEPT ![s][resource] = ck]
      BY <2>3 DEF BeginCheckpoint
    <3>5. \A q \in RunIds : runs'[q].status = runs[q].status
      BY <2>3 DEF BeginCheckpoint
    <3>6. \A other \in Resources \ {resource} : checkpoints[s][other].run # r
      BY <2>3 DEF BeginCheckpoint
    <3> HIDE DEF ck
    <3> QED
      BY <2>1, <3>1, <3>3, <3>4, <3>5, <3>6, CursorWritten
  <2>4. ASSUME NEW at \in Stamps, NEW resource \in Resources,
               NEW offset \in 1..MaxTotal, NEW total \in 1..MaxTotal,
               AdvanceCheckpoint(r, resource, offset, total, at)
        PROVE  CompletionAgrees' /\ OneCursorPerRun'
    <3> DEFINE s == runs[r].source
               ck == [run |-> r, offset |-> offset, total |-> total,
                      complete |-> FALSE]
    <3>1. runs[r].status \in InFlight /\ s \in Sources
      BY <2>1, <2>4 DEF AdvanceCheckpoint, Executing, InFlight
    <3>2. ck \in Cursor /\ ck.run = r /\ ~ck.complete
      BY ParametersAssumption DEF Cursor
    <3>3. checkpoints' = [checkpoints EXCEPT ![s][resource] = ck]
      BY <2>4 DEF AdvanceCheckpoint
    <3>4. \A q \in RunIds : runs'[q].status = runs[q].status
      BY <1>1, <2>4 DEF AdvanceCheckpoint, Row
    <3>5. \A other \in Resources \ {resource} : checkpoints[s][other].run # r
      <4>1. checkpoints[s][resource].run = r /\ r # None
        BY <2>4, ParametersAssumption DEF AdvanceCheckpoint, Continues
      <4> QED
        BY <3>1, <4>1 DEF CursorInv, OneCursorPerRun
    <3> HIDE DEF ck
    <3> QED
      BY <2>1, <3>1, <3>2, <3>3, <3>4, <3>5, CursorWritten
  <2>5. CASE checkpoints' = checkpoints /\ (runs'[r].status = "succeeded" =>
                                              runs[r].status = "succeeded")
    BY <2>1, <2>5, CursorsKept
  <2>6. CASE Cancel(r) \/ Proceed(r) \/ Abandon(r)
               \/ \E at \in Stamps : RenewRunLease(r, at)
    <3>1. checkpoints' = checkpoints
      BY <2>6 DEF Cancel, Proceed, Abandon, TransitionRun, RenewRunLease
    <3> QED
      BY <1>1, <1>3, <2>2, <2>5, <3>1, RunRows
  <2> QED
    BY <1>3, <2>2, <2>3, <2>4, <2>6 DEF RunNext
<1>4. ASSUME Tick \/ UNCHANGED vars
      PROVE  CompletionAgrees' /\ OneCursorPerRun'
  BY <1>4, CursorsKept DEF Tick, vars
<1>5. CompletionAgrees' /\ OneCursorPerRun'
  BY <1>2, <1>3, <1>4, ParametersAssumption DEF Next
<1> QED
  BY <1>1, <1>5 DEF CursorInv

(* A checkpoint is complete exactly when the run it names has succeeded.   *)
THEOREM CompletionHolds ==
  Spec => []CompletionAgrees
<1>1. CursorInv => CompletionAgrees
  BY DEF CursorInv
<1> QED
  BY <1>1, InitCursor, NextCursor, PTL DEF Spec

(* What a step writes into a cursor, and what was there before.            *)
CursorWrite(r, resource, ck) ==
  LET s == runs[r].source
      stored == checkpoints[s][resource]
  IN /\ s \in Sources
     /\ runs[r].status \in InFlight
     /\ checkpoints' = [checkpoints EXCEPT ![s][resource] = ck]
     /\ ck.run = r
     /\ \/ stored.run # r
        \/ stored.complete
        \/ /\ ck.offset >= stored.offset
           /\ stored.total # 0 => ck.total = stored.total

LEMMA CursorSteps ==
  ASSUME CursorInv, [Next]_vars, checkpoints' # checkpoints
  PROVE  \E r \in RunIds, resource \in Resources, ck \in Cursor :
           CursorWrite(r, resource, ck)
<1>1. /\ runs \in [RunIds -> Row] /\ \A q \in RunIds : RowShape(runs[q])
      /\ checkpoints \in [Sources -> [Resources -> Cursor]]
  BY DEF CursorInv, LifeInv, VerdictInv, LockInv, TypeOK
<1>2. \A c \in Sessions : ~(ClientNext(c) \/ WorkerNext(c))
  BY DEF ClientNext, WorkerNext, EnqueueBegin, LaunchBegin,
     BeginEnqueue, CommandInspect, EnqueueCreate, LaunchCommit, EnqueueReplay,
     Rollback, ClaimBegin, ClaimCommit
<1>3. PICK r \in RunIds : RunNext(r)
  BY <1>2, ParametersAssumption DEF Next, Tick, vars
<1> DEFINE s == runs[r].source
<1>4. runs[r].status \in InFlight => s \in Sources
  BY <1>1 DEF RowShape, InFlight
<1>5. ASSUME NEW at, NEW resource \in Resources, BeginCheckpoint(r, resource, at)
      PROVE  \E ck \in Cursor : CursorWrite(r, resource, ck)
  <2> DEFINE stored == checkpoints[s][resource]
             ck == IF stored.complete \/ stored.run # r
                   THEN [NoCursor EXCEPT !.run = r] ELSE stored
  <2>1. runs[r].status \in InFlight /\ s \in Sources
    BY <1>4, <1>5 DEF BeginCheckpoint, Executing, InFlight
  <2>2. stored \in Cursor /\ stored.offset \in Nat
    BY <1>1, <2>1 DEF Cursor
  <2>3. /\ ck \in Cursor /\ ck.run = r
        /\ stored.run # r \/ stored.complete \/ ck = stored
    BY <2>2 DEF NoCursor, Cursor
  <2>4. checkpoints' = [checkpoints EXCEPT ![s][resource] = ck]
    BY <1>5 DEF BeginCheckpoint
  <2> HIDE DEF ck
  <2>5. CursorWrite(r, resource, ck)
    BY <2>1, <2>2, <2>3, <2>4 DEF CursorWrite
  <2> QED
    BY <2>3, <2>5
<1>6. ASSUME NEW at, NEW resource \in Resources,
             NEW offset \in 1..MaxTotal, NEW total \in 1..MaxTotal,
             AdvanceCheckpoint(r, resource, offset, total, at)
      PROVE  \E ck \in Cursor : CursorWrite(r, resource, ck)
  <2> DEFINE stored == checkpoints[s][resource]
             ck == [run |-> r, offset |-> offset, total |-> total,
                    complete |-> FALSE]
  <2>1. /\ ck \in Cursor /\ ck.run = r
        /\ ck.offset = offset /\ ck.total = total
    BY ParametersAssumption DEF Cursor
  <2>2. runs[r].status \in InFlight /\ s \in Sources
    BY <1>4, <1>6 DEF AdvanceCheckpoint, Executing, InFlight
  <2>3. stored.offset \in Nat
    BY <1>1, <2>2 DEF Cursor
  <2>4. /\ checkpoints' = [checkpoints EXCEPT ![s][resource] = ck]
        /\ offset > stored.offset
        /\ stored.total # 0 => total = stored.total
    BY <1>6 DEF AdvanceCheckpoint, Continues
  <2> HIDE DEF ck
  <2>5. CursorWrite(r, resource, ck)
    BY <2>1, <2>2, <2>3, <2>4, ParametersAssumption DEF CursorWrite
  <2> QED
    BY <2>1, <2>5
<1>7. ASSUME NEW at, NEW resource \in Resources,
             CompleteCheckpointAndRun(r, resource, at)
      PROVE  \E ck \in Cursor : CursorWrite(r, resource, ck)
  <2> DEFINE stored == checkpoints[s][resource]
             ck == [stored EXCEPT !.complete = TRUE]
  <2>1. runs[r].status \in InFlight /\ stored.run = r /\ s \in Sources
    BY <1>4, <1>7 DEF CompleteCheckpointAndRun, PassFinished, InFlight
  <2>2. stored \in Cursor /\ stored.offset \in Nat
    BY <1>1, <2>1 DEF Cursor
  <2>3. /\ ck \in Cursor /\ ck.run = r
        /\ ck.offset = stored.offset /\ ck.total = stored.total
    BY <2>1, <2>2 DEF Cursor
  <2>4. checkpoints' = [checkpoints EXCEPT ![s][resource] = ck]
    BY <1>1, <1>7, <2>1 DEF CompleteCheckpointAndRun
  <2> HIDE DEF ck
  <2>5. CursorWrite(r, resource, ck)
    BY <2>1, <2>2, <2>3, <2>4 DEF CursorWrite
  <2> QED
    BY <2>3, <2>5
<1>8. \E at \in Stamps, resource \in Resources :
        \/ BeginCheckpoint(r, resource, at)
        \/ \E offset \in 1..MaxTotal, total \in 1..MaxTotal :
             AdvanceCheckpoint(r, resource, offset, total, at)
        \/ CompleteCheckpointAndRun(r, resource, at)
  BY <1>3 DEF RunNext, Cancel, Proceed, Abandon, TransitionRun, RenewRunLease
<1> QED
  BY <1>5, <1>6, <1>7, <1>8

(* A run never takes the cursor of a run that is still being executed:     *)
(* BeginCheckpoint need not look, because the source has no second one.    *)
THEOREM CursorTaken ==
  Spec => CursorTakenFromFinishedRun
<1>1. ASSUME CursorInv, [Next]_vars, NEW s \in Sources, NEW resource \in Resources,
             checkpoints[s][resource].run # None,
             checkpoints'[s][resource].run # checkpoints[s][resource].run
      PROVE  runs[checkpoints[s][resource].run].status \in Terminal
  <2> DEFINE p == checkpoints[s][resource].run
  <2>1. /\ runs \in [RunIds -> Row] /\ p \in RunIds
        /\ checkpoints \in [Sources -> [Resources -> Cursor]]
        /\ \A q \in RunIds : RowShape(runs[q])
    BY <1>1 DEF CursorInv, LifeInv, VerdictInv, LockInv, TypeOK, Cursor
  <2>2. runs[p].source = s
    BY <1>1 DEF CursorInv, CompletionAgrees
  <2>3. PICK r \in RunIds, used \in Resources, ck \in Cursor :
          CursorWrite(r, used, ck)
    BY <1>1, CursorSteps
  <2>4. runs[r].source = s /\ r # p /\ runs[r].status \in InFlight
    BY <1>1, <2>1, <2>3 DEF CursorWrite
  <2>5. runs[p].status \notin Active
    BY <1>1, <2>1, <2>2, <2>4 DEF CursorInv, LifeInv, VerdictInv,
       OneActivePerSource, Active
  <2>6. runs[p].status # "absent"
    BY <2>1, <2>2, ParametersAssumption DEF RowShape, NoRow
  <2> QED
    BY <2>1, <2>5, <2>6 DEF Row, Status
<1>2. CursorInv /\ [Next]_vars =>
        [\A s \in Sources, resource \in Resources :
           LET ck == checkpoints[s][resource] IN
           ck.run # None /\ checkpoints'[s][resource].run # ck.run
             => runs[ck.run].status \in Terminal]_vars
  BY <1>1
<1> QED
  BY <1>2, InitCursor, NextCursor, PTL DEF Spec, CursorTakenFromFinishedRun

(* A cursor only moves forward while one run owns it.                      *)
THEOREM CursorForward ==
  Spec => CursorNeverRegresses
<1>1. ASSUME CursorInv, [Next]_vars, NEW s \in Sources, NEW resource \in Resources,
             checkpoints[s][resource].run # None,
             checkpoints'[s][resource].run = checkpoints[s][resource].run
      PROVE  LET ck == checkpoints[s][resource]
                 next == checkpoints'[s][resource]
             IN /\ next.offset >= ck.offset
                /\ ck.total # 0 => next.total = ck.total
  <2> DEFINE ck == checkpoints[s][resource]
             next == checkpoints'[s][resource]
  <2>1. /\ ck \in Cursor /\ ck.offset \in Nat
        /\ checkpoints \in [Sources -> [Resources -> Cursor]]
    BY <1>1 DEF CursorInv, LifeInv, VerdictInv, LockInv, TypeOK, Cursor
  <2>2. CASE next = ck
    BY <2>1, <2>2
  <2>3. CASE next # ck
    <3>1. PICK r \in RunIds, used \in Resources, new \in Cursor :
            CursorWrite(r, used, new)
      BY <1>1, <2>3, CursorSteps
    <3>2. runs[r].source = s /\ used = resource /\ next = new
      BY <2>1, <2>3, <3>1 DEF CursorWrite
    <3>3. ck.run = r
      BY <1>1, <3>1, <3>2 DEF CursorWrite
    <3>4. ~ck.complete
      BY <1>1, <3>1, <3>3 DEF CursorInv, CompletionAgrees, CursorWrite, InFlight
    <3> QED
      BY <3>1, <3>2, <3>3, <3>4 DEF CursorWrite
  <2> QED
    BY <2>2, <2>3
<1>2. CursorInv /\ [Next]_vars =>
        [\A s \in Sources, resource \in Resources :
           LET ck == checkpoints[s][resource]
               next == checkpoints'[s][resource]
           IN ck.run # None /\ next.run = ck.run =>
                /\ next.offset >= ck.offset
                /\ ck.total # 0 => next.total = ck.total]_vars
  BY <1>1
<1> QED
  BY <1>2, InitCursor, NextCursor, PTL DEF Spec, CursorNeverRegresses
=============================================================================
