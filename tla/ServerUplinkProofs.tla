------------------------- MODULE ServerUplinkProofs -------------------------
(***************************************************************************)
(* Theorems about ServerUplink, for any servers, ports, names and views of *)
(* the CMDB, any page size and any owners in the graph: the types, the     *)
(* success that keeps its lease, the life cycle of the row, and what a     *)
(* succeeded run has left in the graph.                                    *)
(***************************************************************************)
EXTENDS ServerUplink, FiniteSetTheorems, TLAPS

PCs == Calls \cup Checks \cup {"stopping", "failing", "ending", "done"}

Rows == [status : InFlight \cup Ended, cancel : BOOLEAN,
         lapsed : BOOLEAN, total : Nat]

Execs == [pc : PCs, ctx : {"live", "canceled", "shutdown"}, status : InFlight,
          terminal : {"failed", "canceled"}, second : BOOLEAN,
          pages : Seq(Page), first : Seq(Page), page : Page,
          todo : SUBSET Edge, count : Nat, listed : SUBSET Views]

Beats == {"waiting", "asking", "renewing", "ended", "lost"}

Types ==
  /\ row \in Rows
  /\ exec \in Execs
  /\ beat \in Beats
  /\ cmdb \in Views
  /\ current \subseteq Edge

(* From the second stopHeartbeat on the executor knows that the run is     *)
(* published and that the heartbeat has ended with its lease; a lost lease *)
(* has ended the executor's context.                                       *)
LeaseInv ==
  /\ exec.pc \in {"stopping", "stopped", "complete"} => exec.status = "publishing"
  /\ exec.pc \in {"stopped", "complete"} => beat = "ended"
  /\ row.status = "succeeded" => beat = "ended" /\ exec.status = "publishing"
  /\ beat = "lost" => exec.ctx # "live"

UplinkInv == Types /\ LeaseInv

-----------------------------------------------------------------------------
LEMMA EdgesFinite ==
  ASSUME NEW S, S \subseteq Edge
  PROVE  IsFiniteSet(S) /\ Cardinality(S) \in Nat
<1> DEFINE f == [x \in Servers \X Ports |-> [server |-> x[1], port |-> x[2]]]
<1>1. IsFiniteSet(Servers \X Ports)
  BY UplinkAssumption, FS_Product DEF UplinkAssumption
<1>2. f \in Surjection(Servers \X Ports, Edge)
  <2>1. f \in [Servers \X Ports -> Edge]
    BY DEF Edge
  <2>2. ASSUME NEW x \in Edge
        PROVE  \E y \in Servers \X Ports : f[y] = x
    <3>1. <<x.server, x.port>> \in Servers \X Ports
      BY DEF Edge
    <3>2. f[<<x.server, x.port>>] = x
      BY <3>1 DEF Edge
    <3> QED
      BY <3>1, <3>2
  <2> QED
    BY <2>1, <2>2 DEF Surjection
<1>3. IsFiniteSet(Edge)
  BY <1>1, <1>2, FS_Surjection
<1> QED
  BY <1>3, FS_Subset, FS_CardinalityType

LEMMA ViewFacts ==
  ASSUME NEW view \in Views
  PROVE  /\ view.servers \subseteq Servers
         /\ view.entries \subseteq Entry
         /\ Cardinality(view.servers) \in Nat
<1>1. view.servers \subseteq Servers /\ view.entries \subseteq Entry
  BY UplinkAssumption DEF UplinkAssumption
<1>2. IsFiniteSet(view.servers)
  BY <1>1, UplinkAssumption, FS_Subset DEF UplinkAssumption
<1> QED
  BY <1>1, <1>2, FS_CardinalityType

LEMMA NoPageType == NoPage \in Page
BY DEF NoPage, Page

-----------------------------------------------------------------------------
(* Every step keeps the types.                                             *)
LEMMA GotoType ==
  ASSUME Types, NEW pc \in PCs, Goto(pc)
  PROVE  exec' \in Execs /\ exec'.pc = pc /\ exec'.ctx = exec.ctx
         /\ exec'.status = exec.status
BY DEF Types, Execs, Goto

LEMMA InitTypes == Init => Types
<1>1. SUFFICES ASSUME Init PROVE Types
  OBVIOUS
<1>2. exec \in Execs
  BY <1>1, NoPageType DEF Init, Execs, PCs, Checks, InFlight
<1>3. row \in Rows
  BY <1>1 DEF Init, Rows, InFlight
<1> QED
  BY <1>1, <1>2, <1>3 DEF Init, Types, Beats

LEMMA CollectTypes ==
  ASSUME Types, ReadServers \/ ReadToR \/ EndPage
  PROVE  exec' \in Execs
<1>1. CASE ReadServers
  <2> DEFINE total == Cardinality(cmdb.servers)
             batch == Batch(cmdb, Cardinality(ServersOf(exec.pages)))
             page == [NoPage EXCEPT !.total = total, !.servers = batch,
                        !.entries = {x \in cmdb.entries : x.server \in batch}]
  <2>1. total \in Nat /\ batch \subseteq Servers /\ cmdb.entries \subseteq Entry
    BY ViewFacts DEF Types, Batch
  <2>2. page \in Page
    BY <2>1 DEF NoPage, Page
  <2>3. \/ exec' = [exec EXCEPT !.pc = "tors", !.page = page]
        \/ Goto("failing")
    BY <1>1 DEF ReadServers
  <2>4. CASE Goto("failing")
    BY <2>4, GotoType DEF PCs
  <2>5. CASE exec' = [exec EXCEPT !.pc = "tors", !.page = page]
    <3> HIDE DEF page
    <3> QED
      BY <2>2, <2>5 DEF Types, Execs, PCs, Calls
  <2> QED
    BY <2>3, <2>4, <2>5
<1>2. CASE ReadToR
  <2>1. PICK x \in exec.page.entries :
          exec' = [exec EXCEPT
            !.page.asked = @ \cup {x.tor},
            !.page.links = @ \cup LinksVia(cmdb, exec.page.entries, x.tor)]
    BY <1>2 DEF ReadToR
  <2>2. exec.page \in Page /\ x.tor \in Tors
    BY DEF Types, Execs, Page, Entry
  <2>3. LinksVia(cmdb, exec.page.entries, x.tor) \subseteq Link
    BY DEF LinksVia
  <2> DEFINE page == [exec.page EXCEPT
                        !.asked = @ \cup {x.tor},
                        !.links = @ \cup LinksVia(cmdb, exec.page.entries, x.tor)]
  <2>4. page \in Page
    BY <2>2, <2>3 DEF Page
  <2>5. exec' = [exec EXCEPT !.page = page]
    BY <2>1, <2>2 DEF Types, Execs, Page
  <2> HIDE DEF page
  <2> QED
    BY <2>4, <2>5 DEF Types, Execs
<1>3. CASE EndPage
  <2> DEFINE pages == Append(exec.pages, exec.page)
  <2>1. pages \in Seq(Page)
    BY DEF Types, Execs
  <2>2. \/ \E pc \in PCs :
             exec' = [exec EXCEPT !.pages = pages, !.page = NoPage, !.pc = pc]
        \/ Goto("failing")
    BY <1>3 DEF EndPage, PCs, Calls
  <2>3. CASE Goto("failing")
    BY <2>3, GotoType DEF PCs
  <2>4. ASSUME NEW pc \in PCs,
               exec' = [exec EXCEPT !.pages = pages, !.page = NoPage, !.pc = pc]
        PROVE  exec' \in Execs
    <3> HIDE DEF pages
    <3> QED
      BY <2>1, <2>4, NoPageType DEF Types, Execs
  <2> QED
    BY <2>2, <2>3, <2>4
<1> QED
  BY <1>1, <1>2, <1>3

LEMMA PageLinks ==
  ASSUME NEW pages \in Seq(Page)
  PROVE  LinksOf(pages) \subseteq Link
<1>1. \A i \in DOMAIN pages : pages[i] \in Page
  OBVIOUS
<1>2. \A p \in Page : p.links \subseteq Link
  BY DEF Page
<1> QED
  BY <1>1, <1>2 DEF LinksOf

LEMMA WriteTypes ==
  ASSUME Types, Probe \/ Write \/ Written
  PROVE  exec' \in Execs /\ current' \subseteq Edge
<1>1. CASE Probe
  <2> DEFINE valid == {EdgeOf(l) : l \in {k \in LinksOf(exec.pages) : EndpointsValid(k)}}
  <2>1. exec.pages \in Seq(Page)
    BY DEF Types, Execs
  <2>2. valid \subseteq Edge
    BY <2>1, PageLinks DEF EdgeOf, Edge, Link
  <2>3. Cardinality(valid) \in Nat
    BY <2>2, EdgesFinite
  <2>4. exec' = [exec EXCEPT !.pc = "write", !.todo = valid,
                             !.count = Cardinality(valid),
                             !.first = exec.pages, !.pages = <<>>]
    BY <1>1 DEF Probe
  <2>5. <<>> \in Seq(Page)
    OBVIOUS
  <2>6. current' = current
    BY <1>1 DEF Probe
  <2> HIDE DEF valid
  <2> QED
    BY <2>1, <2>2, <2>3, <2>4, <2>5, <2>6 DEF Types, Execs, PCs, Calls
<1>2. CASE Write
  BY <1>2 DEF Write, Types, Execs
<1>3. CASE Written
  BY <1>3 DEF Written, Types, Execs, PCs, Calls
<1> QED
  BY <1>1, <1>2, <1>3

LEMMA StepTypes ==
  ASSUME Types, Step
  PROVE  Types'
<1> USE DEF PCs, Calls, Checks
<1>1. CASE CheckCancel
  <2>1. \E pc \in PCs : Goto(pc)
    BY <1>1 DEF CheckCancel, AfterCheck
  <2> QED
    BY <1>1, <2>1, GotoType DEF CheckCancel, Types
<1>2. CASE BeginCheckpoint \/ Compare \/ Verify \/ StopHeartbeat
  <2>1. \E pc \in PCs : Goto(pc)
    BY <1>2 DEF BeginCheckpoint, Compare, Verify, StopHeartbeat
  <2> QED
    BY <1>2, <2>1, GotoType DEF BeginCheckpoint, Compare, Verify, StopHeartbeat, Types
<1>3. CASE ReadServers \/ ReadToR \/ EndPage
  BY <1>3, CollectTypes DEF ReadServers, ReadToR, EndPage, Types
<1>4. CASE Probe \/ Write \/ Written
  BY <1>4, WriteTypes DEF Probe, Write, Written, Types
<1>5. CASE Advance
  <2>1. \E pc \in PCs : Goto(pc)
    BY <1>5 DEF Advance
  <2>2. row' = row \/ row' = [row EXCEPT !.total = exec.count]
    BY <1>5 DEF Advance
  <2>3. row' \in Rows
    BY <2>2 DEF Types, Execs, Rows
  <2> QED
    BY <1>5, <2>1, <2>3, GotoType DEF Advance, Types
<1>6. ASSUME NEW to \in InFlight, NEW pc \in PCs, Transition(to, pc)
      PROVE  Types'
  <2>1. row' \in Rows
    BY <1>6 DEF Transition, Types, Rows
  <2>2. exec' \in Execs
    <3>1. CASE Goto("failing")
      BY <3>1, GotoType
    <3>2. CASE exec' = [exec EXCEPT !.pc = pc, !.status = NewStatus(to)]
      BY <3>2 DEF Types, Execs, NewStatus
    <3> QED
      BY <1>6, <3>1, <3>2 DEF Transition
  <2> QED
    BY <1>6, <2>1, <2>2 DEF Transition, Types
<1>7. CASE ToValidating \/ ToPublishing
  BY <1>6, <1>7 DEF ToValidating, ToPublishing, InFlight
<1>8. CASE Complete
  <2>1. \E pc \in PCs : Goto(pc)
    BY <1>8 DEF Complete
  <2>2. row' \in Rows
    BY <1>8 DEF Complete, Types, Rows, Ended
  <2> QED
    BY <1>8, <2>1, <2>2, GotoType DEF Complete, Types
<1>9. CASE CallFails
  <2>1. current' \subseteq Edge
    BY <1>9 DEF CallFails, Types, Execs
  <2>2. exec' \in Execs
    BY <1>9, GotoType DEF CallFails
  <2> QED
    BY <1>9, <2>1, <2>2 DEF CallFails, Types
<1>10. CASE Decide
  BY <1>10 DEF Decide, Types, Execs
<1>11. CASE EndRun
  <2>1. row' \in Rows
    BY <1>11 DEF EndRun, Types, Execs, Rows, Ended
  <2>2. exec' \in Execs
    BY <1>11, GotoType DEF EndRun
  <2> QED
    BY <1>11, <2>1, <2>2 DEF EndRun, Types
<1> QED
  BY <1>1, <1>2, <1>3, <1>4, <1>5, <1>7, <1>8, <1>9, <1>10, <1>11 DEF Step

LEMMA OtherTypes ==
  ASSUME Types, Heartbeat \/ Environment
  PROVE  Types'
<1>1. CASE Heartbeat
  <2>1. exec' = exec \/ CancelLease
    BY <1>1 DEF Heartbeat, BeatTick, BeatAsk, BeatRenew, BeatEnds
  <2>2. exec' \in Execs
    BY <2>1 DEF CancelLease, Types, Execs
  <2>3. beat' \in Beats
    BY <1>1 DEF Heartbeat, BeatTick, BeatAsk, BeatRenew, BeatEnds, Beats
  <2> QED
    BY <1>1, <2>2, <2>3 DEF Heartbeat, BeatTick, BeatAsk, BeatRenew, BeatEnds, Types
<1>2. CASE CmdbChanges
  <2>1. exec' \in Execs
    BY <1>2 DEF CmdbChanges, Types, Execs
  <2> QED
    BY <1>2, <2>1 DEF CmdbChanges, Types
<1>3. CASE Shutdown
  <2>1. exec' \in Execs
    BY <1>3 DEF Shutdown, Types, Execs
  <2> QED
    BY <1>3, <2>1 DEF Shutdown, Types
<1>4. CASE Cancel \/ Lapse \/ Expire
  <2>1. row' \in Rows
    BY <1>4 DEF Cancel, Lapse, Expire, Types, Rows, Ended
  <2> QED
    BY <1>4, <2>1 DEF Cancel, Lapse, Expire, Types
<1> QED
  BY <1>1, <1>2, <1>3, <1>4 DEF Environment

-----------------------------------------------------------------------------
(* Every step keeps what the executor knows of its lease.  Only the last   *)
(* stretch of the executor, the heartbeat's verdict and the ends of the    *)
(* run can disturb it.                                                     *)
LEMMA StepLease ==
  ASSUME Types, LeaseInv, Types', Step
  PROVE  LeaseInv'
<1> USE DEF Calls, Checks
<1>1. CASE CheckCancel
  <2>1. \E pc \in PCs : Goto(pc) /\ (pc = "complete" => exec.pc = "stopped")
                        /\ pc \notin {"stopping", "stopped"}
    BY <1>1 DEF CheckCancel, AfterCheck, PCs
  <2>2. /\ exec'.ctx = exec.ctx /\ exec'.status = exec.status
        /\ exec'.pc = "complete" => exec.pc = "stopped"
        /\ exec'.pc \notin {"stopping", "stopped"}
    BY <2>1, GotoType
  <2>3. row' = row /\ beat' = beat
    BY <1>1 DEF CheckCancel
  <2> QED
    BY <2>2, <2>3 DEF LeaseInv
<1>2. CASE BeginCheckpoint \/ Compare \/ Verify \/ Advance
  <2>1. \E pc \in PCs \ {"stopping", "stopped", "complete"} : Goto(pc)
    BY <1>2 DEF BeginCheckpoint, Compare, Verify, Advance, PCs
  <2>2. /\ exec'.ctx = exec.ctx /\ exec'.status = exec.status
        /\ exec'.pc \notin {"stopping", "stopped", "complete"}
    BY <2>1, GotoType
  <2>3. beat' = beat /\ row'.status = row.status
    BY <1>2 DEF BeginCheckpoint, Compare, Verify, Advance, Types, Rows
  <2> QED
    BY <2>2, <2>3 DEF LeaseInv
<1>3. CASE ReadServers \/ ReadToR \/ EndPage \/ Probe \/ Write \/ Written
  <2>1. /\ exec'.ctx = exec.ctx /\ exec'.status = exec.status
        /\ exec'.pc \notin {"stopping", "stopped", "complete"}
    BY <1>3 DEF ReadServers, ReadToR, EndPage, Probe, Write, Written, Goto,
       Types, Execs
  <2>2. row' = row /\ beat' = beat
    BY <1>3 DEF ReadServers, ReadToR, EndPage, Probe, Write, Written
  <2> QED
    BY <2>1, <2>2 DEF LeaseInv
<1>4. ASSUME NEW to \in InFlight, NEW pc \in PCs, Transition(to, pc),
             exec.pc \in {"validate", "publish"}, pc = "stopping" => to = "publishing",
             pc \notin {"stopped", "complete"}
      PROVE  LeaseInv'
  <2>1. row'.status # "succeeded" \/ row'.status = row.status
    BY <1>4 DEF Transition, Types, Rows, InFlight
  <2>2. /\ exec'.ctx = exec.ctx
        /\ exec'.pc \notin {"stopped", "complete"}
        /\ exec'.pc = "stopping" => exec'.status = "publishing"
    <3>1. CASE Goto("failing")
      BY <3>1, GotoType DEF PCs
    <3>2. CASE exec' = [exec EXCEPT !.pc = pc, !.status = to]
      BY <1>4, <3>2 DEF Types, Execs
    <3> QED
      BY <1>4, <3>1, <3>2 DEF Transition, NewStatus
  <2>3. beat' = beat
    BY <1>4 DEF Transition
  <2>4. row'.status = "succeeded" => exec'.status = "publishing" /\ beat' = "ended"
    <3>1. CASE Goto("failing")
      BY <1>4, <2>1, <2>2, <2>3, <3>1, GotoType DEF LeaseInv, PCs
    <3>2. CASE RowPermits(to) /\ row' = [row EXCEPT !.status = to]
      BY <3>2 DEF Types, Rows, InFlight
    <3> QED
      BY <1>4, <3>1, <3>2 DEF Transition
  <2> QED
    BY <2>2, <2>3, <2>4 DEF LeaseInv
<1>5. CASE ToValidating \/ ToPublishing
  BY <1>4, <1>5 DEF ToValidating, ToPublishing, InFlight, PCs
<1>6. CASE StopHeartbeat
  <2>1. /\ exec'.ctx = exec.ctx /\ exec'.status = exec.status
        /\ exec'.pc = "stopped" => beat = "ended"
        /\ exec'.pc \in {"failing", "stopped"}
    BY <1>6, GotoType DEF StopHeartbeat, BeatOver, PCs
  <2> QED
    BY <1>6, <2>1 DEF StopHeartbeat, LeaseInv
<1>7. CASE Complete
  <2>1. /\ exec'.ctx = exec.ctx /\ exec'.status = exec.status
        /\ exec'.pc \in {"failing", "done"}
    BY <1>7, GotoType DEF Complete, PCs
  <2> QED
    BY <1>7, <2>1 DEF Complete, LeaseInv
<1>8. CASE CallFails
  <2>1. /\ exec'.ctx = exec.ctx /\ exec'.status = exec.status
        /\ exec'.pc = "failing"
    BY <1>8, GotoType DEF CallFails, PCs
  <2> QED
    BY <1>8, <2>1 DEF CallFails, LeaseInv
<1>9. CASE Decide
  <2>1. /\ exec'.ctx = exec.ctx /\ exec'.status = exec.status
        /\ exec'.pc = "ending"
    BY <1>9 DEF Decide, Types, Execs
  <2> QED
    BY <1>9, <2>1 DEF Decide, LeaseInv
<1>10. CASE EndRun
  <2>1. /\ exec'.ctx = exec.ctx /\ exec'.status = exec.status
        /\ exec'.pc = "done"
    BY <1>10, GotoType DEF EndRun, PCs
  <2>2. row' = row \/ row'.status = exec.terminal
    BY <1>10 DEF EndRun, Types, Rows
  <2>3. exec.terminal # "succeeded"
    BY DEF Types, Execs
  <2> QED
    BY <1>10, <2>1, <2>2, <2>3 DEF EndRun, LeaseInv
<1> QED
  BY <1>1, <1>2, <1>3, <1>5, <1>6, <1>7, <1>8, <1>9, <1>10 DEF Step

LEMMA OtherLease ==
  ASSUME Types, LeaseInv, Types', Heartbeat \/ Environment
  PROVE  LeaseInv'
<1>1. CASE Heartbeat
  <2>1. /\ exec'.pc = exec.pc /\ exec'.status = exec.status
        /\ exec'.ctx = exec.ctx \/ exec'.ctx # "live"
    BY <1>1 DEF Heartbeat, BeatTick, BeatAsk, BeatRenew, BeatEnds, CancelLease,
       Types, Execs
  <2>2. row' = row /\ beat # "ended" /\ beat # "lost"
    BY <1>1 DEF Heartbeat, BeatTick, BeatAsk, BeatRenew, BeatEnds
  <2>3. beat' = "lost" => exec'.ctx # "live"
    BY <1>1 DEF Heartbeat, BeatTick, BeatAsk, BeatRenew, BeatEnds, CancelLease,
       Types, Execs
  <2> QED
    BY <2>1, <2>2, <2>3 DEF LeaseInv
<1>2. CASE CmdbChanges \/ Shutdown
  <2>1. /\ exec'.pc = exec.pc /\ exec'.status = exec.status
        /\ exec'.ctx = exec.ctx \/ exec'.ctx # "live"
    BY <1>2 DEF CmdbChanges, Shutdown, Types, Execs
  <2> QED
    BY <1>2, <2>1 DEF CmdbChanges, Shutdown, LeaseInv
<1>3. CASE Cancel \/ Lapse \/ Expire
  <2>1. row'.status = row.status \/ row'.status # "succeeded"
    BY <1>3 DEF Cancel, Lapse, Expire, Types, Rows
  <2> QED
    BY <1>3, <2>1 DEF Cancel, Lapse, Expire, LeaseInv
<1> QED
  BY <1>1, <1>2, <1>3 DEF Environment

-----------------------------------------------------------------------------
LEMMA InductiveInv == Spec => []UplinkInv
<1>1. Init => UplinkInv
  BY InitTypes DEF Init, LeaseInv, UplinkInv
<1>2. UplinkInv /\ [Next]_vars => UplinkInv'
  <2>1. SUFFICES ASSUME UplinkInv, [Next]_vars PROVE UplinkInv'
    OBVIOUS
  <2>2. CASE Next
    BY <2>1, <2>2, StepTypes, OtherTypes, StepLease, OtherLease DEF Next, UplinkInv
  <2>3. CASE UNCHANGED vars
    BY <2>1, <2>3 DEF vars, UplinkInv, Types, LeaseInv
  <2> QED
    BY <2>1, <2>2, <2>3
<1> QED
  BY <1>1, <1>2, PTL DEF Spec

(* The types of ServerUplink: whatever the calls answer and the CMDB holds *)
(* at any time, the pages stay pages, the counts stay counts, a lost lease *)
(* has ended the executor's context, and a succeeded run was published.    *)
THEOREM TypeCorrect == Spec => []TypeOK
<1>1. UplinkInv => TypeOK
  BY DEF UplinkInv, Types, LeaseInv, TypeOK, Rows, Execs, Beats, PCs
<1> QED
  BY <1>1, InductiveInv, PTL

(* The executor completes the run only after the heartbeat has ended with  *)
(* its lease: no renewal races the completion, and none that lost the      *)
(* lease lets the run succeed.                                             *)
THEOREM SucceedsWithLease == Spec => []SucceedsWithItsLease
<1>1. UplinkInv => SucceedsWithItsLease
  BY DEF UplinkInv, LeaseInv, SucceedsWithItsLease
<1> QED
  BY <1>1, InductiveInv, PTL

-----------------------------------------------------------------------------
(* For the life cycle: the executor's idea of the phase goes with its      *)
(* place, and a mark keeps the row out of publishing.                      *)
Early == {"begin", "checkpoint", "servers", "tors", "probe", "write",
          "compare", "collected", "advance", "validate"}

PhaseInv ==
  /\ exec.pc \in Early => exec.status = "running"
  /\ exec.pc \in {"verify", "verified", "publish"} => exec.status = "validating"

MarkInv == row.cancel => row.status \notin {"publishing", "succeeded"}

(* A step of the row, as the table of the program allows it.               *)
RowMoves ==
  \/ row'.status = row.status /\ row'.cancel = row.cancel
  \/ /\ row'.status = row.status /\ row'.cancel
     /\ row.status \in {"running", "validating"}
  \/ /\ row'.cancel = row.cancel
     /\ \/ row.status = "running" /\ row'.status = "validating"
        \/ row.status = "validating" /\ ~row.cancel /\ row'.status = "publishing"
        \/ row.status = "publishing" /\ ~row.cancel /\ row'.status = "succeeded"
        \/ row.status \in InFlight /\ row'.status = "failed"
        \/ row.status \in {"running", "validating"} /\ row'.status = "canceled"

LEMMA PhaseStep ==
  ASSUME Types, PhaseInv, Next
  PROVE  PhaseInv'
<1> USE DEF PhaseInv, Early, Calls, Checks
<1>1. CASE CheckCancel
  <2>1. \E pc \in PCs :
          /\ Goto(pc)
          /\ pc \in Early => exec.pc \in Early
          /\ pc \in {"verify", "verified", "publish"} => exec.pc = "verified"
    BY <1>1 DEF CheckCancel, AfterCheck, PCs
  <2>2. /\ exec'.status = exec.status
        /\ exec'.pc \in Early => exec.pc \in Early
        /\ exec'.pc \in {"verify", "verified", "publish"} => exec.pc = "verified"
    BY <2>1, GotoType
  <2> QED
    BY <2>2
<1>2. CASE BeginCheckpoint \/ Compare \/ Verify \/ Advance
  <2>1. \E pc \in PCs :
          /\ Goto(pc)
          /\ pc \in Early => exec.pc \in Early
          /\ pc \in {"verify", "verified", "publish"} => exec.pc = "verify"
    BY <1>2 DEF BeginCheckpoint, Compare, Verify, Advance, PCs
  <2>2. /\ exec'.status = exec.status
        /\ exec'.pc \in Early => exec.pc \in Early
        /\ exec'.pc \in {"verify", "verified", "publish"} => exec.pc = "verify"
    BY <2>1, GotoType
  <2> QED
    BY <2>2
<1>3. CASE ReadServers \/ ReadToR \/ EndPage \/ Probe \/ Write \/ Written
  <2>1. /\ exec'.status = exec.status
        /\ exec'.pc \in Early => exec.pc \in Early
        /\ exec'.pc \notin {"verify", "verified", "publish"}
    BY <1>3 DEF ReadServers, ReadToR, EndPage, Probe, Write, Written, Goto,
       Types, Execs
  <2> QED
    BY <2>1
<1>4. CASE ToValidating
  <2>1. exec' = [exec EXCEPT !.pc = "verify", !.status = "validating"] \/ Goto("failing")
    BY <1>4 DEF ToValidating, Transition, NewStatus
  <2> QED
    BY <2>1 DEF Goto, Types, Execs
<1>5. CASE ToPublishing
  <2>1. exec' = [exec EXCEPT !.pc = "stopping", !.status = "publishing"] \/ Goto("failing")
    BY <1>5 DEF ToPublishing, Transition, NewStatus
  <2> QED
    BY <2>1 DEF Goto, Types, Execs
<1>6. CASE StopHeartbeat \/ Complete \/ CallFails \/ Decide \/ EndRun
  <2>1. exec'.pc \in {"failing", "stopped", "done", "ending"}
    BY <1>6 DEF StopHeartbeat, Complete, CallFails, Decide, EndRun, Goto,
       Types, Execs
  <2> QED
    BY <2>1
<1>7. CASE Heartbeat \/ Environment
  <2>1. exec'.pc = exec.pc /\ exec'.status = exec.status
    BY <1>7 DEF Heartbeat, BeatTick, BeatAsk, BeatRenew, BeatEnds, CancelLease,
       Environment, CmdbChanges, Cancel, Shutdown, Lapse, Expire, Types, Execs
  <2> QED
    BY <2>1
<1> QED
  BY <1>1, <1>2, <1>3, <1>4, <1>5, <1>6, <1>7 DEF Next, Step

LEMMA RowStep ==
  ASSUME Types, PhaseInv, MarkInv, Next
  PROVE  RowMoves /\ MarkInv'
<1> USE DEF RowMoves, MarkInv
<1>1. ASSUME row' = row PROVE RowMoves /\ MarkInv'
  BY <1>1
<1>2. CASE CheckCancel \/ BeginCheckpoint \/ ReadServers \/ ReadToR \/ EndPage
           \/ Probe \/ Write \/ Written \/ Compare \/ Verify \/ StopHeartbeat
           \/ CallFails \/ Decide
  BY <1>1, <1>2 DEF CheckCancel, BeginCheckpoint, ReadServers, ReadToR, EndPage,
     Probe, Write, Written, Compare, Verify, StopHeartbeat, CallFails, Decide
<1>3. CASE Advance
  <2>1. row' = row \/ row' = [row EXCEPT !.total = exec.count]
    BY <1>3 DEF Advance
  <2> QED
    BY <2>1 DEF Types, Rows
<1>4. CASE ToValidating
  BY <1>4 DEF ToValidating, Transition, RowPermits, PhaseInv, Early, Types, Rows
<1>5. CASE ToPublishing
  BY <1>5 DEF ToPublishing, Transition, RowPermits, PhaseInv, Types, Rows
<1>6. CASE Complete
  BY <1>6 DEF Complete, Completes, Types, Rows
<1>7. CASE EndRun
  <2>1. row' = row \/ (RowEnds(exec.terminal) /\ row' = [row EXCEPT !.status = exec.terminal])
    BY <1>7 DEF EndRun
  <2>2. exec.terminal \in {"failed", "canceled"} /\ exec.status \in InFlight
    BY DEF Types, Execs
  <2> QED
    BY <2>1, <2>2 DEF RowEnds, InFlight, Types, Rows
<1>8. CASE Heartbeat \/ CmdbChanges \/ Shutdown
  BY <1>1, <1>8 DEF Heartbeat, BeatTick, BeatAsk, BeatRenew, BeatEnds,
     CmdbChanges, Shutdown
<1>9. CASE Cancel \/ Lapse
  BY <1>9 DEF Cancel, Lapse, Types, Rows
<1>10. CASE Expire
  BY <1>10 DEF Expire, InFlight, Types, Rows
<1> QED
  BY <1>2, <1>3, <1>4, <1>5, <1>6, <1>7, <1>8, <1>9, <1>10
     DEF Next, Step, Environment

LEMMA RefineInv == Spec => [](Types /\ PhaseInv /\ MarkInv)
<1>1. Init => Types /\ PhaseInv /\ MarkInv
  BY InitTypes DEF Init, PhaseInv, MarkInv, Early
<1>2. Types /\ PhaseInv /\ MarkInv /\ [Next]_vars => (Types /\ PhaseInv /\ MarkInv)'
  <2>1. CASE Next
    BY <2>1, StepTypes, OtherTypes, PhaseStep, RowStep DEF Next
  <2>2. CASE UNCHANGED vars
    BY <2>2 DEF vars, Types, PhaseInv, MarkInv, Early
  <2> QED
    BY <2>1, <2>2
<1> QED
  BY <1>1, <1>2, PTL DEF Spec

(* The row of the run goes through the life cycle that RunLifecycle states *)
(* for every run of the control plane, however the executor, its heartbeat,*)
(* failing calls, cancellations, lapses and expiries overlap.              *)
THEOREM Refinement == Spec => RunsFollowLifecycle
<1> DEFINE one == [status |-> row.status, source |-> "source",
                   cancel |-> row.cancel, started |-> 2]
           life == [r \in {"run"} |-> one]
<1>1. Init => Life!Init
  <2>1. SUFFICES ASSUME Init PROVE Life!Init
    OBVIOUS
  <2>2. one = [status |-> "running", source |-> "source",
               cancel |-> FALSE, started |-> 2]
    BY <2>1 DEF Init
  <2>3. \A r \in {"run"} : life[r] = Life!Unborn \/ Life!Create(Life!Unborn, life[r])
    BY <2>2 DEF Life!Create
  <2>4. Life!OneAlive
    BY DEF Life!OneAlive
  <2> QED
    BY <2>3, <2>4 DEF Life!Init
<1>2. Types /\ PhaseInv /\ MarkInv /\ [Next]_vars => [Life!Next]_life
  <2>1. SUFFICES ASSUME Types, PhaseInv, MarkInv, [Next]_vars
                 PROVE  [Life!Next]_life
    OBVIOUS
  <2>2. CASE Next
    <3>1. RowMoves
      BY <2>1, <2>2, RowStep
    <3>2. one' = one \/ Life!Step(one, one')
      <4>1. CASE row'.status = row.status /\ row'.cancel = row.cancel
        BY <4>1
      <4>2. CASE /\ row'.status = row.status /\ row'.cancel
                 /\ row.status \in {"running", "validating"}
        <5>1. row'.cancel = TRUE
          BY <2>1, <2>2, <4>2, StepTypes, OtherTypes DEF Next, Types, Rows
        <5>2. Life!RequestCancel(one, one')
          BY <4>2, <5>1 DEF Life!RequestCancel
        <5> QED
          BY <5>2 DEF Life!Step
      <4>3. CASE /\ row'.cancel = row.cancel
                 /\ \/ row.status = "running" /\ row'.status = "validating"
                    \/ /\ row.status = "validating" /\ ~row.cancel
                       /\ row'.status = "publishing"
        <5>1. Life!Advance(one, one')
          BY <4>3 DEF Life!Advance
        <5> QED
          BY <5>1 DEF Life!Step
      <4>4. CASE /\ row'.cancel = row.cancel
                 /\ row.status = "publishing" /\ ~row.cancel
                 /\ row'.status = "succeeded"
        <5>1. Life!Succeed(one, one')
          BY <4>4 DEF Life!Succeed
        <5> QED
          BY <5>1 DEF Life!Step
      <4>5. CASE /\ row'.cancel = row.cancel
                 /\ row.status \in InFlight /\ row'.status = "failed"
        <5>1. Life!Fail(one, one')
          BY <4>5 DEF Life!Fail, Life!Executed, InFlight
        <5> QED
          BY <5>1 DEF Life!Step
      <4>6. CASE /\ row'.cancel = row.cancel
                 /\ row.status \in {"running", "validating"}
                 /\ row'.status = "canceled"
        <5>1. Life!Stop(one, one')
          BY <4>6 DEF Life!Stop
        <5> QED
          BY <5>1 DEF Life!Step
      <4> QED
        BY <3>1, <4>1, <4>2, <4>3, <4>4, <4>5, <4>6 DEF RowMoves
    <3>3. \A r \in {"run"} : life'[r] = life[r] \/ Life!Step(life[r], life'[r])
      BY <3>2
    <3>4. Life!OneAlive'
      BY DEF Life!OneAlive
    <3> QED
      BY <3>3, <3>4 DEF Life!Next
  <2>3. CASE UNCHANGED vars
    BY <2>3 DEF vars
  <2> QED
    BY <2>1, <2>2, <2>3
<1> QED
  BY <1>1, <1>2, RefineInv, PTL DEF Spec, RunsFollowLifecycle, Life!Spec

-----------------------------------------------------------------------------
(* What is published.  The edges of the graph are those of the first pass  *)
(* whose ends are valid, once they are all written; and the checkpoint     *)
(* counts them.                                                            *)
Reading == {"servers", "tors"}
Later == {"collected", "advance", "validate", "verify", "verified", "publish",
          "stopping", "stopped", "complete"}

EdgesOf(pages) ==
  {EdgeOf(l) : l \in {k \in LinksOf(pages) : EndpointsValid(k)}}

EdgeInv ==
  /\ exec.pc \in {"begin", "checkpoint", "probe", "write"} => ~exec.second
  /\ exec.pc \in {"compare"} \cup Later => exec.second
  /\ exec.pc \in {"begin", "checkpoint", "probe"} \cup Reading /\ ~exec.second =>
       current = {}
  /\ exec.pc = "write" => /\ current \cup exec.todo = EdgesOf(exec.first)
                          /\ exec.pages = <<>>
  /\ exec.pc \in {"compare"} \cup Reading \cup Later /\ exec.second =>
       current = EdgesOf(exec.first)
  /\ \/ exec.pc = "write"
     \/ exec.pc \in {"compare"} \cup Reading \cup Later /\ exec.second
     => exec.count = Cardinality(EdgesOf(exec.first))
  /\ exec.pc \in Early \ {"validate"} => row.total = 0
  /\ exec.pc \in Later \ {"collected", "advance"} => row.total = exec.count

(* What a view lists for some servers and ToRs, and what the pages of the  *)
(* second pass hold of a view that has not changed under it.               *)
LinksFor(view, servers, tors) ==
  {l \in Listed(view) : l.server \in servers /\ l.tor \in tors}

Shows(view, pages) ==
  \A i \in DOMAIN pages :
    /\ pages[i].servers \subseteq view.servers
    /\ pages[i].links = LinksFor(view, pages[i].servers, Tors)

Gathers(view, page) ==
  /\ page.total = Cardinality(view.servers)
  /\ page.servers \subseteq view.servers
  /\ page.entries = {x \in view.entries : x.server \in page.servers}
  /\ page.links = LinksFor(view, page.servers, page.asked)

ListInv ==
  exec.second =>
    \A view \in exec.listed :
      /\ exec.pc \in Reading => view = cmdb /\ Shows(view, exec.pages)
      /\ exec.pc = "tors" => Gathers(view, exec.page)
      /\ exec.pc = "compare" => LinksOf(exec.pages) = Listed(view)
      /\ exec.pc \in Later => LinksOf(exec.first) = Listed(view)

-----------------------------------------------------------------------------
LEMMA ListedLinks ==
  ASSUME NEW view \in Views, NEW l
  PROVE  l \in Listed(view) <=>
           /\ l \in Link
           /\ [server |-> l.server, tor |-> l.tor, name |-> l.name] \in view.entries
           /\ [tor |-> l.tor, name |-> l.name, port |-> l.port] \in Resolved(view, l.tor)
<1>1. l \in Listed(view) <=> \E tor \in Tors : l \in LinksVia(view, view.entries, tor)
  BY DEF Listed
<1>2. l \in Link => l.tor \in Tors
  BY DEF Link
<1> QED
  BY <1>1, <1>2 DEF LinksVia

(* What one ToR adds to a page.                                            *)
LEMMA ToRAdds ==
  ASSUME NEW view \in Views, NEW servers, NEW tor \in Tors
  PROVE  LinksVia(view, {x \in view.entries : x.server \in servers}, tor)
           = LinksFor(view, servers, {tor})
<1>1. ASSUME NEW l \in Link, l.tor = tor
      PROVE  [server |-> l.server, tor |-> tor, name |-> l.name]
                 \in {x \in view.entries : x.server \in servers}
             <=> /\ [server |-> l.server, tor |-> tor, name |-> l.name] \in view.entries
                 /\ l.server \in servers
  OBVIOUS
<1>2. ASSUME NEW l
      PROVE  l \in LinksVia(view, {x \in view.entries : x.server \in servers}, tor)
               <=> l \in LinksFor(view, servers, {tor})
  BY <1>1, ListedLinks DEF LinksVia, LinksFor
<1> QED
  BY <1>2

(* A page of which every ToR was asked has all links of its servers.       *)
LEMMA PageIsFull ==
  ASSUME NEW view \in Views, NEW page, Gathers(view, page),
         \A x \in page.entries : x.tor \in page.asked
  PROVE  page.links = LinksFor(view, page.servers, Tors)
<1>1. ASSUME NEW l \in LinksFor(view, page.servers, Tors)
      PROVE  l.tor \in page.asked
  <2> DEFINE x == [server |-> l.server, tor |-> l.tor, name |-> l.name]
  <2>1. x \in view.entries /\ x.server \in page.servers
    BY ListedLinks DEF LinksFor
  <2>2. x \in page.entries
    BY <2>1 DEF Gathers
  <2>3. x.tor = l.tor
    OBVIOUS
  <2> HIDE DEF x
  <2> QED
    BY <2>2, <2>3
<1>2. \A l \in Listed(view) : l.tor \in Tors
  <2>1. \A l \in Listed(view) : l \in Link
    BY ListedLinks
  <2> QED
    BY <2>1 DEF Link
<1> QED
  BY <1>1, <1>2 DEF Gathers, LinksFor

(* Pages that hold all servers of a view hold all its links.               *)
LEMMA PagesAreFull ==
  ASSUME NEW view \in Views, NEW pages \in Seq(Page), Shows(view, pages),
         Cardinality(ServersOf(pages)) = Cardinality(view.servers)
  PROVE  LinksOf(pages) = Listed(view)
<1>1. ServersOf(pages) \subseteq view.servers
  BY DEF ServersOf, Shows
<1>2. IsFiniteSet(view.servers)
  BY UplinkAssumption, FS_Subset DEF UplinkAssumption
<1>3. ServersOf(pages) = view.servers
  BY <1>1, <1>2, FS_Subset
<1>4. ASSUME NEW l \in Listed(view)
      PROVE  l \in LinksOf(pages)
  <2>1. l \in Link /\ [server |-> l.server, tor |-> l.tor, name |-> l.name] \in view.entries
    BY ListedLinks
  <2>2. l.server \in view.servers
    BY <2>1, UplinkAssumption DEF UplinkAssumption
  <2>3. PICK i \in DOMAIN pages : l.server \in pages[i].servers
    BY <1>3, <2>2 DEF ServersOf
  <2>4. l \in pages[i].links
    BY <2>1, <2>3 DEF Shows, LinksFor, Link
  <2> QED
    BY <2>4 DEF LinksOf
<1>5. LinksOf(pages) \subseteq Listed(view)
  BY DEF LinksOf, Shows, LinksFor
<1> QED
  BY <1>4, <1>5

-----------------------------------------------------------------------------
(* Every step keeps the edges and their count.                             *)
(* A step that only moves the executor.                                    *)
LEMMA GotoEdges ==
  ASSUME Types, EdgeInv, UNCHANGED <<row, current>>, NEW pc \in PCs, Goto(pc),
         \/ pc \in {"failing", "ending", "done"}
         \/ exec.pc \in {"begin", "checkpoint"} /\ pc \in {"checkpoint", "servers"}
         \/ exec.pc = "compare" /\ pc = "collected"
         \/ exec.pc = "collected" /\ pc = "advance"
         \/ /\ exec.pc \in Later \ {"collected", "advance"}
            /\ pc \in Later \ {"collected", "advance"}
         \/ exec.pc = "advance" /\ pc = "validate" /\ row.total = exec.count
  PROVE  EdgeInv'
<1>1. /\ exec'.pc = pc /\ exec'.second = exec.second /\ exec'.pages = exec.pages
      /\ exec'.first = exec.first /\ exec'.todo = exec.todo /\ exec'.count = exec.count
  BY DEF Types, Execs, Goto
<1>2. EdgesOf(exec.first)' = EdgesOf(exec.first)
  BY <1>1 DEF EdgesOf, LinksOf
<1> QED
  BY <1>1, <1>2 DEF EdgeInv, Reading, Later, Early

LEMMA CollectEdges ==
  ASSUME Types, EdgeInv, ReadServers \/ ReadToR \/ EndPage
  PROVE  EdgeInv'
<1>1. UNCHANGED <<row, current>>
  BY DEF ReadServers, ReadToR, EndPage
<1>2. CASE Goto("failing")
  BY <1>1, <1>2, GotoEdges DEF PCs
<1>3. CASE ~Goto("failing")
  <2>1. /\ exec'.second = exec.second /\ exec'.first = exec.first
        /\ exec'.count = exec.count
        /\ exec.pc \in Reading
        /\ exec'.pc \in Reading \cup {"compare", "probe"}
        /\ exec'.pc = "compare" => exec.second
        /\ exec'.pc = "probe" => ~exec.second
    BY <1>3 DEF ReadServers, ReadToR, EndPage, Reading, Types, Execs
  <2>2. EdgesOf(exec.first)' = EdgesOf(exec.first)
    BY <2>1 DEF EdgesOf, LinksOf
  <2> QED
    BY <1>1, <2>1, <2>2 DEF EdgeInv, Reading, Later, Early
<1> QED
  BY <1>2, <1>3

LEMMA WriteEdges ==
  ASSUME Types, EdgeInv, Probe \/ Write \/ Written
  PROVE  EdgeInv'
<1>1. CASE Probe
  <2>1. /\ exec'.pc = "write" /\ exec'.todo = EdgesOf(exec.pages)
        /\ exec'.count = Cardinality(EdgesOf(exec.pages))
        /\ exec'.first = exec.pages /\ exec'.pages = <<>>
        /\ exec'.second = exec.second
    BY <1>1 DEF Probe, EdgesOf, Types, Execs
  <2>2. EdgesOf(exec.first)' = EdgesOf(exec.pages)
    BY <2>1 DEF EdgesOf, LinksOf
  <2>3. exec.pc = "probe" /\ UNCHANGED <<row, current>>
    BY <1>1 DEF Probe
  <2> QED
    BY <2>1, <2>2, <2>3 DEF EdgeInv, Reading, Later, Early
<1>2. CASE Write
  <2>1. PICK x \in exec.todo : /\ current' = current \cup {x}
                               /\ exec' = [exec EXCEPT !.todo = @ \ {x}]
    BY <1>2 DEF Write
  <2>2. /\ exec'.pc = exec.pc /\ exec'.todo = exec.todo \ {x}
        /\ exec'.count = exec.count /\ exec'.first = exec.first
        /\ exec'.pages = exec.pages /\ exec'.second = exec.second
    BY <2>1 DEF Types, Execs
  <2>3. EdgesOf(exec.first)' = EdgesOf(exec.first)
    BY <2>2 DEF EdgesOf, LinksOf
  <2>4. exec.pc = "write" /\ row' = row
    BY <1>2 DEF Write
  <2> QED
    BY <2>1, <2>2, <2>3, <2>4 DEF EdgeInv, Reading, Later, Early
<1>3. CASE Written
  <2>1. /\ exec'.pc = "servers" /\ exec'.count = exec.count
        /\ exec'.first = exec.first /\ exec'.second
    BY <1>3 DEF Written, Types, Execs
  <2>2. EdgesOf(exec.first)' = EdgesOf(exec.first)
    BY <2>1 DEF EdgesOf, LinksOf
  <2>3. exec.pc = "write" /\ exec.todo = {} /\ UNCHANGED <<row, current>>
    BY <1>3 DEF Written
  <2> QED
    BY <2>1, <2>2, <2>3 DEF EdgeInv, Reading, Later, Early
<1> QED
  BY <1>1, <1>2, <1>3

(* A step that leaves the records in hand and the graph alone.             *)
NothingRead ==
  /\ \/ exec'.pc = exec.pc
     \/ exec'.pc \in {"failing", "ending", "done"}
     \/ exec.pc = "validate" /\ exec'.pc = "verify"
     \/ exec.pc = "publish" /\ exec'.pc = "stopping"
  /\ exec'.second = exec.second /\ exec'.pages = exec.pages
  /\ exec'.first = exec.first /\ exec'.todo = exec.todo
  /\ exec'.count = exec.count
  /\ row'.total = row.total /\ current' = current

LEMMA NothingReadKeeps ==
  ASSUME EdgeInv, NothingRead
  PROVE  EdgeInv'
<1>1. EdgesOf(exec.first)' = EdgesOf(exec.first)
  BY DEF NothingRead, EdgesOf, LinksOf
<1> QED
  BY <1>1 DEF NothingRead, EdgeInv, Reading, Later, Early

LEMMA StepEdges ==
  ASSUME Types, EdgeInv, Step
  PROVE  EdgeInv'
<1> USE DEF PCs, Calls, Checks
<1>1. CASE CheckCancel
  <2>1. \E pc \in PCs :
          /\ Goto(pc)
          /\ \/ pc = "failing"
             \/ exec.pc = "begin" /\ pc = "checkpoint"
             \/ exec.pc = "collected" /\ pc = "advance"
             \/ exec.pc = "verified" /\ pc = "publish"
             \/ exec.pc = "stopped" /\ pc = "complete"
    BY <1>1 DEF CheckCancel, AfterCheck
  <2>2. UNCHANGED <<row, current>>
    BY <1>1 DEF CheckCancel
  <2> QED
    BY <2>1, <2>2, GotoEdges DEF Later
<1>2. CASE BeginCheckpoint \/ Compare \/ Verify \/ StopHeartbeat
  <2>1. \E pc \in PCs :
          /\ Goto(pc)
          /\ \/ pc = "failing"
             \/ exec.pc = "checkpoint" /\ pc = "servers"
             \/ exec.pc = "compare" /\ pc = "collected"
             \/ exec.pc = "verify" /\ pc = "verified"
             \/ exec.pc = "stopping" /\ pc = "stopped"
    BY <1>2 DEF BeginCheckpoint, Compare, Verify, StopHeartbeat
  <2>2. UNCHANGED <<row, current>>
    BY <1>2 DEF BeginCheckpoint, Compare, Verify, StopHeartbeat
  <2> QED
    BY <2>1, <2>2, GotoEdges DEF Later
<1>3. CASE Advance
  <2>1. row.total = 0 /\ exec.pc = "advance"
    BY <1>3 DEF Advance, EdgeInv, Early
  <2>2. CASE row' = row
    <3>1. \/ Goto("failing")
          \/ exec.count = 0 /\ Goto("validate")
      BY <1>3, <2>2, <2>1 DEF Advance, Types, Rows
    <3> QED
      BY <1>3, <2>1, <2>2, <3>1, GotoEdges DEF Advance
  <2>3. CASE row' = [row EXCEPT !.total = exec.count]
    <3>1. row'.total = exec.count
      BY <2>3 DEF Types, Rows
    <3>2. /\ exec'.pc \in {"validate", "failing"} /\ exec'.count = exec.count
          /\ exec'.first = exec.first /\ exec'.second = exec.second
      BY <1>3 DEF Advance, Goto, Types, Execs
    <3>3. EdgesOf(exec.first)' = EdgesOf(exec.first)
      BY <3>2 DEF EdgesOf, LinksOf
    <3>4. current' = current
      BY <1>3 DEF Advance
    <3> QED
      BY <2>1, <3>1, <3>2, <3>3, <3>4 DEF EdgeInv, Reading, Later, Early
  <2> QED
    BY <1>3, <2>2, <2>3 DEF Advance
<1>4. CASE ToValidating \/ ToPublishing
  <2>1. /\ \/ exec'.pc = "failing"
           \/ exec.pc = "validate" /\ exec'.pc = "verify"
           \/ exec.pc = "publish" /\ exec'.pc = "stopping"
        /\ exec'.second = exec.second /\ exec'.pages = exec.pages
        /\ exec'.first = exec.first /\ exec'.todo = exec.todo
        /\ exec'.count = exec.count
    BY <1>4 DEF ToValidating, ToPublishing, Transition, Goto, NewStatus, Types, Execs
  <2>2. row'.total = row.total /\ current' = current
    BY <1>4 DEF ToValidating, ToPublishing, Transition, Types, Rows
  <2>3. NothingRead
    BY <2>1, <2>2 DEF NothingRead
  <2> QED
    BY <2>3, NothingReadKeeps
<1>5. CASE Complete \/ Decide \/ EndRun
  <2>1. /\ exec'.pc \in {"failing", "ending", "done"}
        /\ exec'.second = exec.second /\ exec'.pages = exec.pages
        /\ exec'.first = exec.first /\ exec'.todo = exec.todo
        /\ exec'.count = exec.count
    BY <1>5 DEF Complete, Decide, EndRun, Goto, Types, Execs
  <2>2. row'.total = row.total /\ current' = current
    BY <1>5 DEF Complete, Decide, EndRun, Types, Rows
  <2>3. NothingRead
    BY <2>1, <2>2 DEF NothingRead
  <2> QED
    BY <2>3, NothingReadKeeps
<1>6. CASE CallFails
  <2>1. exec'.pc = "failing"
    BY <1>6 DEF CallFails, Goto, Types, Execs
  <2> QED
    BY <2>1 DEF EdgeInv, Reading, Later, Early
<1> QED
  BY <1>1, <1>2, <1>3, <1>4, <1>5, <1>6, CollectEdges, WriteEdges DEF Step

LEMMA OtherEdges ==
  ASSUME Types, EdgeInv, Heartbeat \/ Environment
  PROVE  EdgeInv'
<1>1. /\ exec'.pc = exec.pc
      /\ exec'.second = exec.second /\ exec'.pages = exec.pages
      /\ exec'.first = exec.first /\ exec'.todo = exec.todo
      /\ exec'.count = exec.count
  BY DEF Heartbeat, BeatTick, BeatAsk, BeatRenew, BeatEnds, CancelLease,
     Environment, CmdbChanges, Cancel, Shutdown, Lapse, Expire, Types, Execs
<1>2. row'.total = row.total /\ current' = current
  BY DEF Heartbeat, BeatTick, BeatAsk, BeatRenew, BeatEnds,
     Environment, CmdbChanges, Cancel, Shutdown, Lapse, Expire, Types, Rows
<1>3. NothingRead
  BY <1>1, <1>2 DEF NothingRead
<1> QED
  BY <1>3, NothingReadKeeps

-----------------------------------------------------------------------------
(* Every step keeps what the pages of the second pass hold of a view that  *)
(* has not changed under it.                                               *)
LEMMA ServersListed ==
  ASSUME Types, ListInv, ReadServers
  PROVE  ListInv'
<1> DEFINE batch == Batch(cmdb, Cardinality(ServersOf(exec.pages)))
           page == [NoPage EXCEPT !.total = Cardinality(cmdb.servers), !.servers = batch,
                      !.entries = {x \in cmdb.entries : x.server \in batch}]
<1>1. exec.pc = "servers"
  BY DEF ReadServers
<1>2. CASE Goto("failing")
  BY <1>2 DEF Goto, ListInv, Reading, Later, Types, Execs
<1>3. CASE exec' = [exec EXCEPT !.pc = "tors", !.page = page]
  <2> HIDE DEF page
  <2>1. /\ exec'.pc = "tors" /\ exec'.page = page /\ exec'.second = exec.second
        /\ exec'.pages = exec.pages /\ exec'.listed = exec.listed
    BY <1>3 DEF Types, Execs
  <2>2. cmdb' = cmdb
    BY DEF ReadServers
  <2>3. /\ page.total = Cardinality(cmdb.servers) /\ page.servers = batch
        /\ page.entries = {x \in cmdb.entries : x.server \in batch}
        /\ page.asked = {} /\ page.links = {}
    BY DEF page, NoPage
  <2>4. Gathers(cmdb, page)
    BY <2>3 DEF Gathers, LinksFor, Batch
  <2>5. ASSUME NEW view \in exec.listed, exec.second
        PROVE  view = cmdb /\ Shows(view, exec.pages)
    BY <1>1, <2>5 DEF ListInv, Reading
  <2>6. \A view : Shows(view, exec.pages)' <=> Shows(view, exec.pages)
    BY <2>1 DEF Shows, LinksFor
  <2>7. \A view : Gathers(view, exec.page)' <=> Gathers(view, page)
    BY <2>1 DEF Gathers, LinksFor
  <2> QED
    BY <2>1, <2>2, <2>4, <2>5, <2>6, <2>7 DEF ListInv, Reading, Later
<1> QED
  BY <1>2, <1>3 DEF ReadServers

LEMMA ToRListed ==
  ASSUME Types, ListInv, ReadToR
  PROVE  ListInv'
<1>1. PICK x \in exec.page.entries :
        exec' = [exec EXCEPT
          !.page.asked = @ \cup {x.tor},
          !.page.links = @ \cup LinksVia(cmdb, exec.page.entries, x.tor)]
  BY DEF ReadToR
<1>2. exec.page \in Page /\ x.tor \in Tors
  BY DEF Types, Execs, Page, Entry
<1> DEFINE page == [exec.page EXCEPT
                      !.asked = @ \cup {x.tor},
                      !.links = @ \cup LinksVia(cmdb, exec.page.entries, x.tor)]
<1>3. exec' = [exec EXCEPT !.page = page]
  BY <1>1, <1>2 DEF Types, Execs, Page
<1>4. /\ page.total = exec.page.total /\ page.servers = exec.page.servers
      /\ page.entries = exec.page.entries
      /\ page.asked = exec.page.asked \cup {x.tor}
      /\ page.links = exec.page.links \cup LinksVia(cmdb, exec.page.entries, x.tor)
  BY <1>2 DEF Page
<1>5. exec.pc = "tors" /\ cmdb' = cmdb /\ cmdb \in Views
  BY DEF ReadToR, Types
<1>6. ASSUME Gathers(cmdb, exec.page)
      PROVE  Gathers(cmdb, page)
  <2>1. LinksVia(cmdb, exec.page.entries, x.tor)
          = LinksFor(cmdb, exec.page.servers, {x.tor})
    BY <1>2, <1>5, <1>6, ToRAdds DEF Gathers
  <2>2. page.links = LinksFor(cmdb, page.servers, page.asked)
    BY <1>4, <1>6, <2>1 DEF Gathers, LinksFor
  <2> QED
    BY <1>4, <1>6, <2>2 DEF Gathers
<1> HIDE DEF page
<1>7. /\ exec'.pc = "tors" /\ exec'.page = page /\ exec'.second = exec.second
      /\ exec'.pages = exec.pages /\ exec'.listed = exec.listed
  BY <1>3, <1>5 DEF Types, Execs
<1>8. \A view : Shows(view, exec.pages)' <=> Shows(view, exec.pages)
  BY <1>7 DEF Shows, LinksFor
<1>9. \A view : Gathers(view, exec.page)' <=> Gathers(view, page)
  BY <1>7 DEF Gathers, LinksFor
<1> QED
  BY <1>5, <1>6, <1>7, <1>8, <1>9 DEF ListInv, Reading, Later

LEMMA PageListed ==
  ASSUME Types, ListInv, EndPage
  PROVE  ListInv'
<1> DEFINE pages == Append(exec.pages, exec.page)
<1>1. /\ exec.pages \in Seq(Page) /\ exec.page \in Page /\ pages \in Seq(Page)
      /\ cmdb \in Views /\ exec.pc = "tors" /\ cmdb' = cmdb
      /\ \A x \in exec.page.entries : x.tor \in exec.page.asked
  BY DEF EndPage, Types, Execs
<1>2. CASE Goto("failing")
  BY <1>2 DEF Goto, ListInv, Reading, Later, Types, Execs
<1>3. ASSUME exec.second, cmdb \in exec.listed
      PROVE  Shows(cmdb, pages) /\ Gathers(cmdb, exec.page)
  <2>1. Shows(cmdb, exec.pages) /\ Gathers(cmdb, exec.page)
    BY <1>1, <1>3 DEF ListInv, Reading
  <2>2. exec.page.links = LinksFor(cmdb, exec.page.servers, Tors)
    BY <1>1, <2>1, PageIsFull
  <2>3. ASSUME NEW i \in DOMAIN pages
        PROVE  pages[i] = exec.page \/ (i \in DOMAIN exec.pages /\ pages[i] = exec.pages[i])
    BY <1>1
  <2> QED
    BY <2>1, <2>2, <2>3 DEF Shows, Gathers
<1>4. CASE ~Goto("failing")
  <2>1. /\ exec'.second = exec.second /\ exec'.listed = exec.listed
        /\ exec'.pages = pages
        /\ exec'.pc \in {"servers", "compare", "probe"}
        /\ exec'.pc = "compare" => Cardinality(ServersOf(pages)) = exec.page.total
    BY <1>1, <1>4 DEF EndPage, Types, Execs
  <2> HIDE DEF pages
  <2>2. \A view : Shows(view, exec.pages)' <=> Shows(view, pages)
    BY <2>1 DEF Shows, LinksFor
  <2>3. (LinksOf(exec.pages) = Listed(cmdb))' <=> LinksOf(pages) = Listed(cmdb)
    BY <1>1, <2>1 DEF LinksOf
  <2>4. ASSUME exec.second, cmdb \in exec.listed, exec'.pc = "compare"
        PROVE  LinksOf(pages) = Listed(cmdb)
    BY <1>1, <1>3, <2>1, <2>4, PagesAreFull DEF Gathers
  <2>5. \A view \in exec.listed : exec.second => view = cmdb
    BY <1>1 DEF ListInv, Reading
  <2>6. ASSUME exec'.second, NEW view \in exec'.listed
        PROVE  (/\ exec.pc \in Reading => view = cmdb /\ Shows(view, exec.pages)
                /\ exec.pc = "tors" => Gathers(view, exec.page)
                /\ exec.pc = "compare" => LinksOf(exec.pages) = Listed(view)
                /\ exec.pc \in Later => LinksOf(exec.first) = Listed(view))'
    BY <1>1, <1>3, <2>1, <2>2, <2>3, <2>4, <2>5, <2>6 DEF Reading, Later
  <2> QED
    BY <2>6 DEF ListInv
<1> QED
  BY <1>2, <1>4

(* Elsewhere the pages and what the CMDB has shown stay as they are.       *)
LEMMA RestListed ==
  ASSUME Types, EdgeInv, ListInv, Next, ~ReadServers, ~ReadToR, ~EndPage
  PROVE  ListInv'
<1>1. CASE Probe \/ Write
  <2>1. ~exec'.second
    BY <1>1 DEF Probe, Write, EdgeInv, Types, Execs
  <2> QED
    BY <2>1 DEF ListInv
<1>2. CASE Written
  <2>1. /\ exec'.pc = "servers" /\ exec'.listed = {cmdb} /\ exec'.pages = <<>>
        /\ cmdb' = cmdb
    BY <1>2 DEF Written, EdgeInv, Types, Execs
  <2>2. \A view : Shows(view, exec.pages)'
    BY <2>1 DEF Shows
  <2> QED
    BY <2>1, <2>2 DEF ListInv, Reading, Later
<1>3. CASE Compare
  <2>1. /\ exec'.pc = "failing" \/ (exec.pages = exec.first /\ exec'.pc = "collected")
        /\ exec'.listed = exec.listed /\ exec'.first = exec.first
        /\ exec'.second = exec.second /\ exec.pc = "compare"
    BY <1>3 DEF Compare, SamePass, Goto, Types, Execs
  <2>2. exec'.pc = "collected" => LinksOf(exec.pages) = LinksOf(exec.first)
    BY <2>1
  <2>3. LinksOf(exec.first)' = LinksOf(exec.first)
    BY <2>1 DEF LinksOf
  <2> QED
    BY <2>1, <2>2, <2>3 DEF ListInv, Reading, Later
<1>4. CASE CmdbChanges
  <2>1. /\ exec'.pc = exec.pc /\ exec'.first = exec.first
        /\ exec'.pages = exec.pages /\ exec'.second = exec.second
        /\ exec'.listed = IF exec.pc \in Reading THEN {} ELSE exec.listed
    BY <1>4 DEF CmdbChanges, Reading, Types, Execs
  <2>2. LinksOf(exec.first)' = LinksOf(exec.first) /\ LinksOf(exec.pages)' = LinksOf(exec.pages)
    BY <2>1 DEF LinksOf
  <2> QED
    BY <2>1, <2>2 DEF ListInv, Reading, Later
<1>5. ASSUME /\ exec'.first = exec.first /\ exec'.second = exec.second
             /\ exec'.listed = exec.listed
             /\ exec'.pages = exec.pages /\ exec'.page = exec.page,
             \/ exec'.pc = exec.pc /\ cmdb' = cmdb
             \/ exec'.pc \in {"failing", "ending", "done", "checkpoint"}
             \/ exec'.pc \in Later /\ exec.pc \in Later
             \/ ~exec'.second
      PROVE  ListInv'
  <2>1. LinksOf(exec.first)' = LinksOf(exec.first) /\ LinksOf(exec.pages)' = LinksOf(exec.pages)
    BY <1>5 DEF LinksOf
  <2>2. \A view : /\ Shows(view, exec.pages)' <=> Shows(view, exec.pages)
                  /\ Gathers(view, exec.page)' <=> Gathers(view, exec.page)
    BY <1>5 DEF Shows, Gathers, LinksFor
  <2> QED
    BY <1>5, <2>1, <2>2 DEF ListInv, Reading, Later
<1>6. ASSUME NEW pc \in PCs, Goto(pc),
             \/ pc \in {"failing", "done", "checkpoint"}
             \/ pc \in Later /\ exec.pc \in Later
             \/ ~exec.second
      PROVE  ListInv'
  <2>1. /\ exec'.pc = pc /\ exec'.first = exec.first /\ exec'.second = exec.second
        /\ exec'.listed = exec.listed
        /\ exec'.pages = exec.pages /\ exec'.page = exec.page
    BY <1>6 DEF Goto, Types, Execs
  <2> QED
    BY <1>5, <1>6, <2>1
<1>7. CASE CheckCancel \/ BeginCheckpoint \/ Verify \/ StopHeartbeat \/ Advance
           \/ Complete \/ CallFails \/ EndRun
  <2>1. \E pc \in PCs :
          /\ Goto(pc)
          /\ \/ pc \in {"failing", "done", "checkpoint"}
             \/ pc \in Later /\ exec.pc \in Later
             \/ exec.pc = "checkpoint"
    BY <1>7 DEF CheckCancel, AfterCheck, BeginCheckpoint, Verify, StopHeartbeat,
       Advance, Complete, CallFails, EndRun, PCs, Calls, Checks, Later
  <2>2. exec.pc = "checkpoint" => ~exec.second
    BY DEF EdgeInv
  <2> QED
    BY <1>6, <2>1, <2>2
<1>8. CASE ToValidating \/ ToPublishing \/ Decide
  <2>1. /\ exec'.first = exec.first /\ exec'.second = exec.second
        /\ exec'.listed = exec.listed
        /\ exec'.pages = exec.pages /\ exec'.page = exec.page
        /\ \/ exec'.pc \in {"failing", "ending"}
           \/ exec'.pc \in Later /\ exec.pc \in Later
    BY <1>8 DEF ToValidating, ToPublishing, Transition, Decide, Goto, Later, Types, Execs
  <2> QED
    BY <1>5, <2>1
<1>9. CASE Heartbeat \/ Cancel \/ Shutdown \/ Lapse \/ Expire
  <2>1. /\ exec'.first = exec.first /\ exec'.second = exec.second
        /\ exec'.listed = exec.listed
        /\ exec'.pages = exec.pages /\ exec'.page = exec.page
        /\ exec'.pc = exec.pc /\ cmdb' = cmdb
    BY <1>9 DEF Heartbeat, BeatTick, BeatAsk, BeatRenew, BeatEnds, CancelLease,
       Cancel, Shutdown, Lapse, Expire, Types, Execs
  <2> QED
    BY <1>5, <2>1
<1> QED
  BY <1>1, <1>2, <1>3, <1>4, <1>7, <1>8, <1>9 DEF Next, Step, Environment

LEMMA Publication == Spec => [](Types /\ EdgeInv /\ ListInv)
<1>1. Init => Types /\ EdgeInv /\ ListInv
  BY InitTypes DEF Init, EdgeInv, ListInv, Reading, Later, Early
<1>2. Types /\ EdgeInv /\ ListInv /\ [Next]_vars => (Types /\ EdgeInv /\ ListInv)'
  <2>1. SUFFICES ASSUME Types, EdgeInv, ListInv, [Next]_vars
                 PROVE  Types' /\ EdgeInv' /\ ListInv'
    OBVIOUS
  <2>2. CASE Next
    BY <2>1, <2>2, StepTypes, OtherTypes, StepEdges, OtherEdges,
       ServersListed, ToRListed, PageListed, RestListed DEF Next
  <2>3. CASE UNCHANGED vars
    BY <2>1, <2>3 DEF vars, Types, EdgeInv, EdgesOf, LinksOf, ListInv, Shows,
       Gathers, LinksFor
  <2> QED
    BY <2>1, <2>2, <2>3
<1> QED
  BY <1>1, <1>2, PTL DEF Spec

(* A run of sync-server-uplinks that succeeds has left the edges that its  *)
(* checkpoint counts, and, if the CMDB was left alone during the second    *)
(* pass, exactly those that it lists with valid ends: however pages shift, *)
(* calls fail and the heartbeat interferes (executeServerUplink).          *)
THEOREM PublishesListed == Spec => PublishedUplinks
<1>1. Types /\ EdgeInv /\ ListInv /\ [Next]_vars =>
        [row.status # "succeeded" /\ row'.status = "succeeded" =>
           /\ row.total = Cardinality(current)
           /\ \A view \in exec.listed :
                current = {EdgeOf(l) : l \in {k \in Listed(view) : EndpointsValid(k)}}]_vars
  <2>1. SUFFICES ASSUME Types, EdgeInv, ListInv, Next,
                        row.status # "succeeded", row'.status = "succeeded"
                 PROVE  /\ row.total = Cardinality(current)
                        /\ \A view \in exec.listed :
                             current = {EdgeOf(l) : l \in {k \in Listed(view) : EndpointsValid(k)}}
    OBVIOUS
  <2>2. Complete
    <3>1. row'.status \in {row.status, "validating", "publishing", "failed", "canceled"}
          \/ Complete
      BY <2>1 DEF Next, Step, CheckCancel, BeginCheckpoint, ReadServers, ReadToR, EndPage,
         Probe, Write, Written, Compare, Advance, ToValidating, ToPublishing, Transition,
         Verify, StopHeartbeat, CallFails, Decide, EndRun, Heartbeat, BeatTick, BeatAsk,
         BeatRenew, BeatEnds, Environment, CmdbChanges, Cancel, Shutdown, Lapse, Expire,
         Types, Rows, Execs
    <3> QED
      BY <2>1, <3>1
  <2>3. exec.pc = "complete"
    BY <2>2 DEF Complete
  <2>4. /\ current = EdgesOf(exec.first) /\ row.total = Cardinality(current)
        /\ exec.second
    BY <2>1, <2>3 DEF EdgeInv, Later
  <2>5. \A view \in exec.listed : LinksOf(exec.first) = Listed(view)
    BY <2>1, <2>3, <2>4 DEF ListInv, Later
  <2> QED
    BY <2>4, <2>5 DEF EdgesOf
<1> QED
  BY <1>1, Publication, PTL DEF Spec, PublishedUplinks
=============================================================================
