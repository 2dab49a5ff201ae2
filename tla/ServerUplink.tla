---------------------------- MODULE ServerUplink ----------------------------
(***************************************************************************)
(* sync-server-uplinks: one run that the command has enqueued and claimed  *)
(* in one transaction, its executor, and the heartbeat beside it.  The     *)
(* executor collects the links of all servers page by page, looks up their *)
(* endpoints in the graph, writes the edges, collects everything once more *)
(* to compare, validates the edges in the graph and completes the run.     *)
(* Whatever fails, one deferred function stops the heartbeat and gives the *)
(* run its end.                                                            *)
(*                                                                         *)
(* Of the control plane only what guards the executor is kept; a lease is  *)
(* current or lapsed (SyncRuns has the clocks).  The vertices of the graph *)
(* do not change under the run: no other run of its source is active.      *)
(* The ports of one ToR are read in one step.                              *)
(***************************************************************************)
EXTENDS Integers, Sequences, FiniteSets

CONSTANTS
  Servers,      \* instance ids that the CMDB may list, each with its own SN
  Tors, Names, Ports,
  Views,        \* what the CMDB may hold
  KnownServers, \* servers that are vertices of the graph
  GraphOwner,   \* the only owner of a port in the graph, None without one
  PageSize,
  None,
  MayFault,     \* calls may fail for reasons of their own
  MayLapse      \* the lease may run out although the executor goes on

Entry == [server : Servers, tor : Tors, name : Names]
Link == [server : Servers, name : Names, port : Ports, tor : Tors]
Edge == [server : Servers, port : Ports]

ASSUME UplinkAssumption ==
  /\ Servers \subseteq Nat \ {0} /\ IsFiniteSet(Servers) /\ IsFiniteSet(Ports)
  /\ \A view \in Views :
       /\ view.servers \subseteq Servers
       /\ view.entries \subseteq {x \in Entry : x.server \in view.servers}
       /\ view.ports \subseteq [tor : Tors, name : Names, port : Ports]
  /\ KnownServers \subseteq Servers
  /\ GraphOwner \in [Ports -> Tors \cup {None}]
  /\ None \notin Tors
  /\ PageSize \in Nat \ {0}
  /\ MayFault \in BOOLEAN /\ MayLapse \in BOOLEAN

VARIABLES
  row,      \* the run: status, cancellation mark, lapsed lease, cursor's total
  exec,     \* the executor
  beat,     \* the heartbeat
  cmdb,     \* what the CMDB holds now
  current   \* edges of the graph with this run's synced_at

vars == <<row, exec, beat, cmdb, current>>

InFlight == {"running", "validating", "publishing"}
Ended == {"succeeded", "failed", "canceled"}

NoPage == [total |-> 0, servers |-> {}, entries |-> {}, asked |-> {}, links |-> {}]

Page == [total : Nat, servers : SUBSET Servers, entries : SUBSET Entry,
         asked : SUBSET Tors, links : SUBSET Link]

(* The calls of the executor, in their order, and its ways out.            *)
Calls == {"checkpoint", "servers", "tors", "probe", "write", "compare",
          "advance", "validate", "verify", "publish", "complete"}
Checks == {"begin", "collected", "verified", "stopped"}

(* ctx is "canceled" when the heartbeat has ended the lease context and    *)
(* "shutdown" when the process was told to stop.  pages are those of the   *)
(* pass under way, first those of the first pass: the digests.  listed is  *)
(* an observation: the one view that the CMDB has shown to all of the      *)
(* second pass, or nothing.                                                *)
TypeOK ==
  /\ row \in [status : InFlight \cup Ended, cancel : BOOLEAN,
              lapsed : BOOLEAN, total : Nat]
  /\ exec \in [pc : Calls \cup Checks \cup {"stopping", "failing", "ending", "done"},
               ctx : {"live", "canceled", "shutdown"}, status : InFlight,
               terminal : {"failed", "canceled"}, second : BOOLEAN,
               pages : Seq(Page), first : Seq(Page), page : Page,
               todo : SUBSET Edge, count : Nat, listed : SUBSET Views]
  /\ beat \in {"waiting", "asking", "renewing", "ended", "lost"}
  /\ cmdb \in Views
  /\ current \subseteq Edge
  /\ beat = "lost" => exec.ctx # "live"
  /\ row.status = "succeeded" => exec.status = "publishing"

-----------------------------------------------------------------------------
CancelSeen == row.status = "canceled" \/ row.cancel

(* Whether a call may fail for a reason that is not in the model.          *)
Faulty == MayFault \/ exec.ctx # "live"

Goto(pc) == exec' = [exec EXCEPT !.pc = pc]

(* checkCancel, and the call that comes next when it finds nothing.        *)
AfterCheck == [begin |-> "checkpoint", collected |-> "advance",
               verified |-> "publish", stopped |-> "complete"]

CheckCancel ==
  /\ exec.pc \in Checks
  /\ \/ exec.ctx = "live" /\ ~CancelSeen /\ Goto(AfterCheck[exec.pc])
     \/ (CancelSeen \/ Faulty) /\ Goto("failing")
  /\ UNCHANGED <<row, beat, cmdb, current>>

(* The guard of BeginCheckpoint and AdvanceCheckpoint.                     *)
Executing == row.status = "running" /\ ~row.cancel /\ ~row.lapsed

BeginCheckpoint ==
  /\ exec.pc = "checkpoint"
  /\ exec.ctx = "live"
  /\ Goto(IF Executing THEN "servers" ELSE "failing")
  /\ UNCHANGED <<row, beat, cmdb, current>>

-----------------------------------------------------------------------------
(* Collection.  A page holds the servers behind an offset in the order of  *)
(* their instance ids; then each ToR that they name is asked once.         *)
Rank(view, s) == Cardinality({t \in view.servers : t < s})

Batch(view, offset) ==
  {s \in view.servers : offset <= Rank(view, s) /\ Rank(view, s) < offset + PageSize}

ServersOf(pages) == UNION {pages[i].servers : i \in DOMAIN pages}
LinksOf(pages) == UNION {pages[i].links : i \in DOMAIN pages}

SameTotal(pages, total) == pages # <<>> => total = pages[1].total

ReadServers ==
  LET offset == Cardinality(ServersOf(exec.pages))
      total == Cardinality(cmdb.servers)
      batch == Batch(cmdb, offset) IN
  /\ exec.pc = "servers"
  /\ exec.ctx = "live"
  /\ IF /\ offset <= total
        /\ SameTotal(exec.pages, total)
        /\ \A s \in batch, t \in ServersOf(exec.pages) : t < s
     THEN exec' = [exec EXCEPT
            !.pc = "tors",
            !.page = [NoPage EXCEPT !.total = total, !.servers = batch,
                        !.entries = {x \in cmdb.entries : x.server \in batch}]]
     ELSE Goto("failing")
  /\ UNCHANGED <<row, beat, cmdb, current>>

(* A name stands for a port of its ToR if it is unique there and the port  *)
(* goes by no other name; anything else is skipped.                        *)
Resolved(view, tor) ==
  {p \in view.ports :
     /\ p.tor = tor
     /\ \A q \in view.ports :
          q.tor = tor /\ (q.name = p.name \/ q.port = p.port) => q = p}

LinksVia(view, entries, tor) ==
  {l \in Link :
     /\ l.tor = tor
     /\ [server |-> l.server, tor |-> tor, name |-> l.name] \in entries
     /\ [tor |-> tor, name |-> l.name, port |-> l.port] \in Resolved(view, tor)}

ReadToR ==
  /\ exec.pc = "tors"
  /\ exec.ctx = "live"
  /\ \E x \in exec.page.entries :
       /\ x.tor \notin exec.page.asked
       /\ exec' = [exec EXCEPT
            !.page.asked = @ \cup {x.tor},
            !.page.links = @ \cup LinksVia(cmdb, exec.page.entries, x.tor)]
  /\ UNCHANGED <<row, beat, cmdb, current>>

(* A port with two ToR owners, within a page or over the pages, is an error*)
OwnersAgree(pages) ==
  \A l, m \in LinksOf(pages) : l.port = m.port => l.tor = m.tor

EndPage ==
  LET pages == Append(exec.pages, exec.page)
      complete == Cardinality(ServersOf(pages)) = exec.page.total IN
  /\ exec.pc = "tors"
  /\ exec.ctx = "live"
  /\ \A x \in exec.page.entries : x.tor \in exec.page.asked
  /\ IF OwnersAgree(pages)
     THEN exec' = [exec EXCEPT
            !.pages = pages, !.page = NoPage,
            !.pc = IF ~complete THEN "servers"
                   ELSE IF exec.second THEN "compare" ELSE "probe"]
     ELSE Goto("failing")
  /\ UNCHANGED <<row, beat, cmdb, current>>

-----------------------------------------------------------------------------
(* VertexExists of both ends and of the ToR, ServerUplinkEndpointsValid.   *)
EndpointsValid(l) ==
  l.server \in KnownServers /\ GraphOwner[l.port] = l.tor

EdgeOf(l) == [server |-> l.server, port |-> l.port]

(* All endpoints are looked up before the first edge is written.           *)
Probe ==
  LET valid == {EdgeOf(l) : l \in {k \in LinksOf(exec.pages) : EndpointsValid(k)}} IN
  /\ exec.pc = "probe"
  /\ exec.ctx = "live"
  /\ exec' = [exec EXCEPT !.pc = "write", !.todo = valid,
                          !.count = Cardinality(valid),
                          !.first = exec.pages, !.pages = <<>>]
  /\ UNCHANGED <<row, beat, cmdb, current>>

Write ==
  /\ exec.pc = "write"
  /\ exec.ctx = "live"
  /\ \E x \in exec.todo :
       /\ current' = current \cup {x}
       /\ exec' = [exec EXCEPT !.todo = @ \ {x}]
  /\ UNCHANGED <<row, beat, cmdb>>

Written ==
  /\ exec.pc = "write"
  /\ exec.todo = {}
  /\ exec' = [exec EXCEPT !.pc = "servers", !.second = TRUE, !.listed = {cmdb}]
  /\ UNCHANGED <<row, beat, cmdb, current>>

SameServers(pages, first) ==    \* mutant of SamePass: only the servers compared
  ServersOf(pages) = ServersOf(first)

SamePass(pages, first) == pages = first

Compare ==
  /\ exec.pc = "compare"
  /\ exec.ctx = "live"
  /\ Goto(IF SamePass(exec.pages, exec.first) THEN "collected" ELSE "failing")
  /\ UNCHANGED <<row, beat, cmdb, current>>

-----------------------------------------------------------------------------
(* Without an edge there is nothing to advance.                            *)
Advance ==
  /\ exec.pc = "advance"
  /\ exec.ctx = "live"
  /\ \/ exec.count = 0 /\ Goto("validate") /\ UNCHANGED row
     \/ /\ exec.count > 0 /\ Executing
        /\ row' = [row EXCEPT !.total = exec.count]
        /\ Goto("validate") \/ (MayFault /\ Goto("failing"))
     \/ exec.count > 0 /\ ~Executing /\ Goto("failing") /\ UNCHANGED row
  /\ UNCHANGED <<beat, cmdb, current>>

KeepsOldStatus(to) == exec.status   \* mutant of NewStatus: the assignment is lost

NewStatus(to) == to

RowPermits(to) ==
  /\ row.status = exec.status
  /\ ~row.lapsed
  /\ to = "publishing" => ~row.cancel

(* TransitionRun: a failure may come after its update has committed, and   *)
(* then the row is a phase ahead of the executor.                          *)
Transition(to, pc) ==
  /\ \/ /\ RowPermits(to)
        /\ row' = [row EXCEPT !.status = to]
        /\ \/ /\ exec.ctx = "live"
              /\ exec' = [exec EXCEPT !.pc = pc, !.status = NewStatus(to)]
           \/ Faulty /\ Goto("failing")
     \/ ~RowPermits(to) /\ Goto("failing") /\ UNCHANGED row
  /\ UNCHANGED <<beat, cmdb, current>>

ToValidating == exec.pc = "validate" /\ Transition("validating", "verify")
ToPublishing == exec.pc = "publish" /\ Transition("publishing", "stopping")

(* verifyServerUplinkGraph: as many edges of this snapshot as were written,*)
(* each with exactly one owning ToR behind its port.                       *)
Verify ==
  /\ exec.pc = "verify"
  /\ exec.ctx = "live"
  /\ Goto(IF /\ Cardinality(current) = exec.count
             /\ \A x \in current :
                  x.server \in KnownServers /\ GraphOwner[x.port] # None
          THEN "verified" ELSE "failing")
  /\ UNCHANGED <<row, beat, cmdb, current>>

BeatTold == TRUE                \* mutant of BeatOver: told to stop, not awaited

BeatOver == beat \in {"ended", "lost"}

(* stopHeartbeat before the completion; leaseErr is read after it.         *)
StopHeartbeat ==
  /\ exec.pc = "stopping"
  /\ BeatOver
  /\ Goto(IF beat = "lost" THEN "failing" ELSE "stopped")
  /\ UNCHANGED <<row, beat, cmdb, current>>

(* CompleteCheckpointAndRun; the cursor was advanced to its total at once. *)
Completes == row.status = "publishing" /\ ~row.cancel /\ ~row.lapsed

Complete ==
  /\ exec.pc = "complete"
  /\ \/ /\ Completes
        /\ row' = [row EXCEPT !.status = "succeeded"]
        /\ Goto("done") \/ (Faulty /\ Goto("failing"))
     \/ ~Completes /\ Goto("failing") /\ UNCHANGED row
  /\ UNCHANGED <<beat, cmdb, current>>

(* Every call may return an error, and does when its context has ended.  A *)
(* failed upsert may have written its edge.                                *)
CallFails ==
  /\ exec.pc \in Calls
  /\ Faulty
  /\ Goto("failing")
  /\ \/ UNCHANGED current
     \/ /\ exec.pc = "write"
        /\ \E x \in exec.todo : current' = current \cup {x}
  /\ UNCHANGED <<row, beat, cmdb>>

-----------------------------------------------------------------------------
(* The deferred function: the heartbeat is awaited, the row asked for a    *)
(* cancellation, and the run ended from the executor's idea of its phase.  *)
Decide ==
  /\ exec.pc = "failing"
  /\ BeatOver
  /\ \E terminal \in {"failed", "canceled"} :
       /\ terminal = "canceled" => exec.ctx = "shutdown" \/ CancelSeen
       /\ terminal = "failed" =>
            exec.ctx # "shutdown" /\ (CancelSeen => MayFault)
       /\ exec' = [exec EXCEPT !.pc = "ending", !.terminal = terminal]
  /\ UNCHANGED <<row, beat, cmdb, current>>

EndsFromAnywhere(to) ==         \* mutant of RowEnds: the table is not asked
  row.status = exec.status /\ ~row.lapsed

(* SyncRunTransitionAllowed knows no way from publishing to canceled.      *)
RowEnds(to) ==
  /\ row.status = exec.status
  /\ ~row.lapsed
  /\ to = "canceled" => exec.status # "publishing"

EndRun ==
  /\ exec.pc = "ending"
  /\ \/ RowEnds(exec.terminal) /\ row' = [row EXCEPT !.status = exec.terminal]
     \/ (~RowEnds(exec.terminal) \/ MayFault) /\ UNCHANGED row
  /\ Goto("done")
  /\ UNCHANGED <<beat, cmdb, current>>

-----------------------------------------------------------------------------
(* The heartbeat.  When a tick and the request to stop are both there the  *)
(* select may take either.                                                 *)
LeaseKept == UNCHANGED exec     \* mutant of CancelLease: cancel is not called

CancelLease ==
  exec' = [exec EXCEPT !.ctx = IF @ = "live" THEN "canceled" ELSE @]

BeatTick ==
  /\ beat = "waiting"
  /\ beat' = "asking"
  /\ UNCHANGED <<row, exec, cmdb, current>>

BeatAsk ==
  /\ beat = "asking"
  /\ \/ ~CancelSeen /\ beat' = "renewing" /\ UNCHANGED exec
     \/ (CancelSeen \/ MayFault) /\ beat' = "ended" /\ CancelLease
  /\ UNCHANGED <<row, cmdb, current>>

BeatRenew ==
  LET held == row.status \in InFlight /\ ~row.lapsed IN
  /\ beat = "renewing"
  /\ \/ held /\ beat' = "waiting" /\ UNCHANGED exec
     \/ (~held \/ MayFault) /\ beat' = "lost" /\ CancelLease
  /\ UNCHANGED <<row, cmdb, current>>

BeatEnds ==
  /\ beat = "waiting"
  /\ exec.pc \in {"stopping", "failing"} \/ exec.ctx # "live"
  /\ beat' = "ended"
  /\ UNCHANGED <<row, exec, cmdb, current>>

-----------------------------------------------------------------------------
(* The environment.                                                        *)
CmdbChanges ==
  /\ \E view \in Views \ {cmdb} : cmdb' = view
  /\ exec' = [exec EXCEPT !.listed = IF exec.pc \in {"servers", "tors"} THEN {} ELSE @]
  /\ UNCHANGED <<row, beat, current>>

Cancel ==
  /\ row.status \in {"running", "validating"}
  /\ row' = [row EXCEPT !.cancel = TRUE]
  /\ UNCHANGED <<exec, beat, cmdb, current>>

Shutdown ==
  /\ exec.pc # "done"
  /\ exec' = [exec EXCEPT !.ctx = "shutdown"]
  /\ UNCHANGED <<row, beat, cmdb, current>>

Lapse ==
  /\ row.status \in InFlight
  /\ MayLapse \/ exec.pc = "done"
  /\ row' = [row EXCEPT !.lapsed = TRUE]
  /\ UNCHANGED <<exec, beat, cmdb, current>>

(* expireStaleSyncRuns, in somebody's enqueue or claim.                    *)
Expire ==
  /\ row.status \in InFlight
  /\ row.lapsed
  /\ row' = [row EXCEPT !.status = IF row.cancel THEN "canceled" ELSE "failed"]
  /\ UNCHANGED <<exec, beat, cmdb, current>>

-----------------------------------------------------------------------------
Init ==
  /\ row = [status |-> "running", cancel |-> FALSE, lapsed |-> FALSE, total |-> 0]
  /\ exec = [pc |-> "begin", ctx |-> "live", status |-> "running",
             terminal |-> "failed", second |-> FALSE, pages |-> <<>>,
             first |-> <<>>, page |-> NoPage, todo |-> {}, count |-> 0,
             listed |-> {}]
  /\ beat = "waiting"
  /\ cmdb \in Views
  /\ current = {}

Step ==
  \/ CheckCancel \/ BeginCheckpoint
  \/ ReadServers \/ ReadToR \/ EndPage
  \/ Probe \/ Write \/ Written \/ Compare
  \/ Advance \/ ToValidating \/ Verify \/ ToPublishing
  \/ StopHeartbeat \/ Complete
  \/ CallFails \/ Decide \/ EndRun

Heartbeat == BeatTick \/ BeatAsk \/ BeatRenew \/ BeatEnds

Environment == CmdbChanges \/ Cancel \/ Shutdown \/ Lapse \/ Expire

Next == Step \/ Heartbeat \/ Environment

Spec == Init /\ [][Next]_vars

(* Every call returns by its timeout; a heartbeat that has been told to    *)
(* stop does not find a tick there again and again.                        *)
Fairness == WF_vars(Step) /\ WF_vars(Heartbeat) /\ SF_vars(BeatEnds)

FairSpec == Spec /\ Fairness

-----------------------------------------------------------------------------
(* A run that succeeds has as many edges as its checkpoint says, and, if   *)
(* the CMDB was left alone during the second pass, exactly those that it   *)
(* lists with valid ends, whatever it did under the first one.             *)
Listed(view) == UNION {LinksVia(view, view.entries, tor) : tor \in Tors}

PublishedUplinks ==
  [][row.status # "succeeded" /\ row'.status = "succeeded" =>
       /\ row.total = Cardinality(current)
       /\ \A view \in exec.listed :
            current = {EdgeOf(l) : l \in {k \in Listed(view) : EndpointsValid(k)}}]_vars

(* The comment at the second stopHeartbeat: a renewal in flight ends       *)
(* before the success is committed, so that no heartbeat takes the end of  *)
(* the run for a lost lease; and none that lost it lets the run succeed.   *)
SucceedsWithItsLease == row.status = "succeeded" => beat = "ended"

(* However the executor, the heartbeat, cancellations and expiries         *)
(* overlap, the row goes through the life cycle of the control plane.      *)
Life == INSTANCE RunLifecycle WITH
  RunIds <- {"run"},
  Sources <- {"source"},
  None <- "none",
  life <- [r \in {"run"} |-> [status |-> row.status, source |-> "source",
                              cancel |-> row.cancel, started |-> 2]]

RunsFollowLifecycle == Life!Spec

(* The deferred function ends the run on every path: it stays in flight    *)
(* only if its lease lapses, if an ended context hid a transition that had *)
(* committed, or if a shutdown meets it in publishing.                     *)
UplinkRunEnds ==
  row.status \in InFlight
    ~> (\/ row.status \in Ended
        \/ row.lapsed
        \/ exec.ctx # "live" /\ row.status # exec.status
        \/ exec.ctx = "shutdown" /\ row.status = "publishing")
=============================================================================
