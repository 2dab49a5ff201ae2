---------------------------- MODULE RunLifecycle ----------------------------
(***************************************************************************)
(* What the control plane promises about a synchronization run, with no    *)
(* word about transactions, locks, leases or clocks.  Each run moves       *)
(* through the phases of model.SyncRun on its own; one transaction of the  *)
(* program may move several runs at once (an expiry and the insert that    *)
(* follows it), so a step lets every run take a step of its own.           *)
(***************************************************************************)
EXTENDS Integers

CONSTANTS RunIds, Sources, None

VARIABLE life    \* [RunIds -> [status, source, cancel, started]]

Unborn == [status |-> "absent", source |-> None, cancel |-> FALSE, started |-> -1]

Executed == {"running", "validating", "publishing"}
Alive == Executed \cup {"queued"}

(* No source is synchronized twice at the same time.                       *)
OneAlive ==
  \A q, r \in RunIds :
    /\ life[q].status \in Alive
    /\ life[r].status \in Alive
    /\ life[q].source = life[r].source
    => q = r

-----------------------------------------------------------------------------
(* A request leaves a queued run, a command one that is already claimed.   *)
Create(old, new) ==
  /\ old = Unborn
  /\ new.source \in Sources
  /\ ~new.cancel
  /\ \/ new.status = "queued" /\ new.started = -1
     \/ new.status = "running" /\ new.started \in Nat

Claim(old, new) ==
  /\ old.status = "queued"
  /\ new.started \in Nat
  /\ new = [status |-> "running", source |-> old.source,
            cancel |-> old.cancel, started |-> new.started]

Withdraw(old, new) ==
  /\ old.status = "queued"
  /\ new = [status |-> "canceled", source |-> old.source,
            cancel |-> TRUE, started |-> old.started]

RequestCancel(old, new) ==
  /\ old.status \in {"running", "validating"}
  /\ new = [status |-> old.status, source |-> old.source,
            cancel |-> TRUE, started |-> old.started]

(* The mark is honoured up to the start of publishing, and not after it.   *)
Advance(old, new) ==
  \/ /\ old.status = "running"
     /\ new = [old EXCEPT !.status = "validating"]
  \/ /\ old.status = "validating"
     /\ ~old.cancel
     /\ new = [old EXCEPT !.status = "publishing"]

Succeed(old, new) ==
  /\ old.status = "publishing"
  /\ ~old.cancel
  /\ new = [old EXCEPT !.status = "succeeded"]

(* By the executor, or by an expiry when the executor is lost.             *)
Fail(old, new) ==
  /\ old.status \in Executed
  /\ new = [old EXCEPT !.status = "failed"]

Stop(old, new) ==
  /\ old.status \in {"running", "validating"}
  /\ new = [old EXCEPT !.status = "canceled"]

Step(old, new) ==
  \/ Create(old, new)
  \/ Claim(old, new)
  \/ Withdraw(old, new)
  \/ RequestCancel(old, new)
  \/ Advance(old, new)
  \/ Succeed(old, new)
  \/ Fail(old, new)
  \/ Stop(old, new)

Init ==
  /\ \A r \in RunIds : life[r] = Unborn \/ Create(Unborn, life[r])
  /\ OneAlive

Next ==
  /\ \A r \in RunIds : life'[r] = life[r] \/ Step(life[r], life'[r])
  /\ OneAlive'

Spec == Init /\ [][Next]_life
=============================================================================
