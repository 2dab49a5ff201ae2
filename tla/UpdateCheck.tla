---------------------------- MODULE UpdateCheck ----------------------------
(***************************************************************************)
(* The update notifier of archify (scripts/check-update.mjs): invocations  *)
(* of the script share one cache directory and no lock service.  A check   *)
(* fetches the manifest and commits what it found; an acknowledgement      *)
(* (--ack) commits that a digest has been seen.  An operation is a         *)
(* numbered directory: reserved-N is made once and never removed, pending-N*)
(* is made under it and renamed exactly once, to committed-N, fenced-N or  *)
(* cancelled-N, whoever renames it first.  Before it fetches or commits,   *)
(* an operation takes the claim, the directory active-claim, from whoever  *)
(* has settled or outlived its lease.                                      *)
(*                                                                         *)
(* Each call to the file system that others can observe is a step.  A      *)
(* prepared claim-N is seen by its own invocation only, so making and      *)
(* discarding it are not steps.  A guarded read fails if the entry that it *)
(* reads is replaced meanwhile: it is one step, and its failure is among   *)
(* those of Fails.  A release is its digest.                               *)
(***************************************************************************)
EXTENDS Integers, FiniteSets

CONSTANTS
  Checks,         \* invocations without arguments
  Acks,           \* invocations with --ack
  EventOf,        \* the digest that an acknowledgement names
  Digests, Newer, \* of the releases; those above the installed version
  None,
  MaxGen,         \* MAX_OPERATION_GENERATION
  MaxLapsed,      \* bound of the model: leases that have run out at once
  Attempts,       \* of a promotion, 8 in the code
  Rounds,         \* of an acknowledgement within ACK_LOCK_WAIT_MS
  Capacity,       \* entries that fit in MAX_CACHE_STATE_BYTES
  SuccessDelays,  \* 72 hours, spread by a fifth
  FirstFailureDelay, LaterFailureDelay,
  Horizon,        \* MAX_CACHE_HORIZON_MS
  NowOf           \* the time at which a check starts; any may start first

ASSUME UpdateAssumption ==
  /\ Checks \cap Acks = {} /\ None \notin Digests
  /\ EventOf \in [Acks -> Digests] /\ Newer \subseteq Digests
  /\ MaxGen \in Nat /\ Attempts \in Nat \ {0} /\ Rounds \in Nat \ {0}
  /\ Capacity \in Nat /\ Horizon \in Nat /\ NowOf \in [Checks -> Nat]
  /\ SuccessDelays \subseteq 1..Horizon
  /\ FirstFailureDelay \in 1..Horizon /\ LaterFailureDelay \in 1..Horizon

VARIABLES
  op,       \* per generation: its directory, whether its lease runs, state.json
  claim,    \* the generation whose claim is active-claim, 0 if there is none
  retired,  \* generations with an entry in their retired-claim directory
  inv       \* per invocation

vars == <<op, claim, retired, inv>>

Invocations == Checks \cup Acks
Gens == 1..MaxGen

-----------------------------------------------------------------------------
(* The state file.                                                         *)

Never == 0    \* nextCheckAt of a state that no check has written

EmptyState == [next |-> Never, failures |-> 0, candidate |-> None,
               offered |-> {}, acked |-> {}]

State == [next : Int, failures : 0..2, candidate : Digests \cup {None},
          offered : SUBSET Digests, acked : SUBSET Digests]

(* encodeRecoverableState: the state fits, and so does every state that    *)
(* acknowledgements and failures can make of it.  A digest takes the same  *)
(* room in either list.                                                    *)
Fits(s) == Cardinality(s.offered) + Cardinality(s.acked)
             + (IF s.candidate = None THEN 0 ELSE 1) <= Capacity

(* normalizeState: what a reader does not ignore.                          *)
Normal(s) ==
  /\ s.candidate \in Newer => s.candidate \in s.offered \cup s.acked
  /\ Fits(s)

AfterAcknowledgement(s, d) ==
  [s EXCEPT !.offered = @ \ {d}, !.acked = @ \cup {d}]

AfterFailure(s, now, withdraw) ==
  LET failures == IF s.failures = 2 THEN 2 ELSE s.failures + 1
  IN [s EXCEPT !.failures = failures,
               !.next = now + (IF failures <= 1 THEN FirstFailureDelay
                                                ELSE LaterFailureDelay),
               !.candidate = IF withdraw THEN None ELSE @]

AfterSuccess(s, now, d, delay) ==
  [s EXCEPT !.next = now + delay, !.failures = 0, !.candidate = d,
            !.offered = IF d \in Newer \ s.acked THEN @ \cup {d} ELSE @]

NoResult == [status |-> "none", digest |-> None]
Silent == [status |-> "silent", digest |-> None]
InProgress == [status |-> "in_progress", digest |-> None]
Result == {NoResult, Silent, InProgress}
            \cup [status : {"update_available", "acknowledged"}, digest : Digests]

ResultOfAnyNewer(s) ==    \* mutant of ResultFor: acknowledged or not
  IF s.candidate \in Newer
  THEN [status |-> "update_available", digest |-> s.candidate]
  ELSE Silent

ResultFor(s) ==
  IF s.candidate \in Newer \ s.acked
  THEN [status |-> "update_available", digest |-> s.candidate]
  ELSE Silent

Fresh(s, now) == s.next # Never /\ now < s.next /\ s.next <= now + Horizon

-----------------------------------------------------------------------------
(* The cache directory.                                                    *)

Kinds == {"free", "reserved", "pending", "committed", "fenced", "cancelled"}

Unreserved == [kind |-> "free", live |-> FALSE, state |-> EmptyState]

Committed == {g \in Gens : op[g].kind = "committed" /\ Normal(op[g].state)}

(* readState: the highest generation that can be read.                     *)
Current ==
  IF Committed = {} THEN EmptyState
  ELSE op[CHOOSE g \in Committed : \A h \in Committed : h <= g].state

Active(g) == op[g].kind = "pending" /\ op[g].live

Busy == claim # 0 /\ Active(claim)

AnyPending == \E g \in Gens : op[g].kind = "pending"    \* mutant of SomeActive

SomeActive == \E g \in Gens : Active(g)

BlockedByYounger(g) == claim > g    \* mutant of Blocked: no lease

Blocked(g) == Active(claim) \/ claim > g

MovableAnyhow(victim) == claim # 0    \* mutant of Movable: an old target is replaced

Movable(victim) == claim # 0 /\ victim \notin retired

Owns(g) == claim = g /\ Active(g)

LowerClaim(g) ==    \* mutant of Lower: only one that has got the claim
  {h \in Gens : h < g /\ op[h].kind = "pending" /\ claim = h}

Lower(g) == {h \in Gens : h < g /\ op[h].kind = "pending"}

Superseded(g) == \E h \in Gens : h > g /\ op[h].kind # "free"

Rename(g, kind) ==
  IF g # 0 /\ op[g].kind = "pending"
  THEN [op EXCEPT ![g].kind = kind, ![g].live = FALSE] ELSE op

-----------------------------------------------------------------------------
(* An invocation.  victim is the claim it is about to retire, todo what it *)
(* has yet to fence, found the digest of the manifest (None if the fetch   *)
(* failed), next the state it is about to commit.  seen and alone are      *)
(* observations: what was acknowledged when it started, and whether it has *)
(* had the cache to itself with every lease run out.                       *)

Searching == {"survey", "reserve", "mkdir", "own", "promote",
              "probe", "retire", "claim", "alive"}
Holding == {"reread", "owns", "fetch", "commit", "list", "fence", "still",
            "decide", "publish"}
Running == {"read", "lost", "cancel"} \cup Searching \cup Holding

Invocation ==
  [pc : Running \cup {"idle", "done", "crashed"}, gen : Gens \cup {0},
   victim : Gens \cup {0}, todo : SUBSET Gens,
   tries : 0..Attempts, rounds : 0..Rounds, found : Digests \cup {None},
   next : State, result : Result, seen : SUBSET Digests, alone : BOOLEAN]

NotStarted ==
  [pc |-> "idle", gen |-> 0, victim |-> 0, todo |-> {}, tries |-> 0,
   rounds |-> 0, found |-> None, next |-> EmptyState, result |-> NoResult,
   seen |-> {}, alone |-> FALSE]

At(p, pc) == inv[p].pc = pc
Go(p, pc) == inv' = [inv EXCEPT ![p].pc = pc]
Ending(p, result) ==
  [NotStarted EXCEPT !.pc = "done", !.result = result,
                     !.seen = inv[p].seen, !.alone = inv[p].alone]
Finish(p, result) == inv' = [inv EXCEPT ![p] = Ending(p, result)]
CancelThen(p, result) ==
  inv' = [inv EXCEPT ![p].pc = "cancel", ![p].result = result, ![p].tries = 0,
                     ![p].found = None]

EndUnavailable(p) ==    \* cache-unavailable
  inv' = [inv EXCEPT ![p] = [NotStarted EXCEPT !.pc = "done", !.result = Silent]]

Start(p) ==
  /\ At(p, "idle")
  /\ inv' = [q \in Invocations |->
       IF q = p
       THEN [NotStarted EXCEPT !.pc = IF p \in Checks THEN "read" ELSE "survey",
               !.seen = IF p \in Checks THEN Current.acked ELSE {},
               !.alone = /\ \A r \in Invocations : inv[r].pc \notin Running
                         /\ \A g \in Gens : ~Active(g)
                         /\ \E g \in Gens : op[g].kind = "free"]
       ELSE [inv[q] EXCEPT !.alone = FALSE]]
  /\ UNCHANGED <<op, claim, retired>>

ReadCache(p) ==
  /\ At(p, "read")
  /\ IF Fresh(Current, NowOf[p]) THEN Finish(p, ResultFor(Current))
                                   ELSE Go(p, "survey")
  /\ UNCHANGED <<op, claim, retired>>

(* acquireOperation: nobody holds the claim, nobody is on the way to it.   *)
(* The first is included in the second, which is asked right after it.     *)
SurveyPending(p) ==
  /\ At(p, "survey")
  /\ Go(p, IF SomeActive THEN "lost" ELSE "reserve")
  /\ UNCHANGED <<op, claim, retired>>

(* reserveOperation ends at the lowest generation that is free: mkdir      *)
(* fails on the others, and none is ever given back.                       *)
ReserveGeneration(p) ==
  /\ At(p, "reserve")
  /\ \/ \E g \in Gens :
          /\ op[g].kind = "free"
          /\ \A h \in 1..(g - 1) : op[h].kind # "free"
          /\ op' = [op EXCEPT ![g].kind = "reserved"]
          /\ inv' = [inv EXCEPT ![p].pc = "mkdir", ![p].gen = g]
     \/ /\ \A g \in Gens : op[g].kind # "free"
        /\ Finish(p, Silent)
        /\ UNCHANGED op
  /\ UNCHANGED <<claim, retired>>

MakePending(p) ==
  /\ At(p, "mkdir")
  /\ op' = [op EXCEPT ![inv[p].gen].kind = "pending", ![inv[p].gen].live = TRUE]
  /\ Go(p, "own")
  /\ UNCHANGED <<claim, retired>>

(* The owner file starts the lease anew; it cannot be written into a       *)
(* directory that has been fenced (OperationFencedError).                  *)
WriteOwner(p) ==
  /\ At(p, "own")
  /\ IF op[inv[p].gen].kind = "pending"
     THEN /\ op' = [op EXCEPT ![inv[p].gen].live = TRUE]
          /\ Go(p, "promote")
     ELSE UNCHANGED op /\ Go(p, "lost")
  /\ UNCHANGED <<claim, retired>>

MayTryOnceMore(tries) == tries <= Attempts    \* mutant of MayTry

MayTry(tries) == tries < Attempts

(* promoteOperationClaim: up to Attempts rounds of "am I still the         *)
(* youngest", "who holds the claim", and a rename.  acquireOperation asks  *)
(* the first question once more before it, and its answer only changes to  *)
(* no.                                                                     *)
Promote(p) ==
  /\ At(p, "promote")
  /\ IF MayTry(inv[p].tries) /\ ~Superseded(inv[p].gen)
     THEN inv' = [inv EXCEPT ![p].pc = "probe", ![p].tries = @ + 1]
     ELSE CancelThen(p, NoResult)
  /\ UNCHANGED <<op, claim, retired>>

ProbeClaim(p) ==
  /\ At(p, "probe")
  /\ IF claim = 0 THEN Go(p, "claim")
     ELSE IF Blocked(inv[p].gen) THEN CancelThen(p, NoResult)
     ELSE inv' = [inv EXCEPT ![p].pc = "retire", ![p].victim = claim]
  /\ UNCHANGED <<op, claim, retired>>

(* retireActiveClaim moves whatever is active-claim now; a directory does  *)
(* not replace one that holds an entry.                                    *)
RetireClaim(p) ==
  /\ At(p, "retire")
  /\ IF Movable(inv[p].victim)
     THEN claim' = 0 /\ retired' = retired \cup {inv[p].victim}
     ELSE UNCHANGED <<claim, retired>>
  /\ inv' = [inv EXCEPT ![p].pc = "promote", ![p].victim = 0]
  /\ UNCHANGED op

TakeClaim(p) ==
  /\ At(p, "claim")
  /\ IF claim = 0 THEN claim' = inv[p].gen /\ Go(p, "alive")
                  ELSE UNCHANGED claim /\ Go(p, "promote")
  /\ UNCHANGED <<op, retired>>

StillAlive(p) ==
  /\ At(p, "alive")
  /\ IF ~Active(inv[p].gen) THEN CancelThen(p, NoResult)
     ELSE inv' = [inv EXCEPT ![p].pc = IF p \in Checks THEN "reread" ELSE "commit",
                             ![p].tries = 0]
  /\ UNCHANGED <<op, claim, retired>>

(* A check that got no operation answers from the cache if that has been   *)
(* offered; an acknowledgement waits and tries again until its deadline.   *)
LoseOperation(p) ==
  /\ At(p, "lost")
  /\ \/ /\ p \in Checks
        /\ Finish(p, IF Current.candidate \in Current.offered
                     THEN ResultFor(Current) ELSE InProgress)
     \/ /\ p \in Acks /\ inv[p].rounds < Rounds
        /\ inv' = [inv EXCEPT ![p].pc = "survey", ![p].rounds = @ + 1, ![p].gen = 0,
                           ![p].tries = 0]
     \/ p \in Acks /\ Finish(p, InProgress)
  /\ UNCHANGED <<op, claim, retired>>

(* cancelOperation; somebody may have fenced the directory already.        *)
Cancel(p) ==
  /\ At(p, "cancel")
  /\ op' = Rename(inv[p].gen, "cancelled")
  /\ IF inv[p].result = NoResult THEN Go(p, "lost") ELSE Finish(p, inv[p].result)
  /\ UNCHANGED <<claim, retired>>

RereadCache(p) ==
  /\ At(p, "reread")
  /\ IF Fresh(Current, NowOf[p]) THEN CancelThen(p, ResultFor(Current))
                                   ELSE Go(p, "owns")
  /\ UNCHANGED <<op, claim, retired>>

CheckOwnership(p) ==
  /\ At(p, "owns")
  /\ IF Owns(inv[p].gen) THEN Go(p, "fetch") ELSE CancelThen(p, NoResult)
  /\ UNCHANGED <<op, claim, retired>>

(* fetchCandidate ends with a valid manifest or in an error, the timeout   *)
(* included; either way there is something to commit.                      *)
Fetch(p) ==
  /\ At(p, "fetch")
  /\ \E d \in Digests \cup {None} :
       inv' = [inv EXCEPT ![p].pc = "commit", ![p].found = d]
  /\ UNCHANGED <<op, claim, retired>>

(* commitOperation, from the first ownership check to the last rename.     *)
Fenced(p) == CancelThen(p, IF p \in Checks THEN InProgress ELSE NoResult)

BeginCommit(p) ==
  /\ At(p, "commit")
  /\ IF Owns(inv[p].gen) THEN Go(p, "list") ELSE Fenced(p)
  /\ UNCHANGED <<op, claim, retired>>

ListLower(p) ==
  /\ At(p, "list")
  /\ inv' = [inv EXCEPT ![p].pc = "fence",
       ![p].todo = Lower(inv[p].gen)]
  /\ UNCHANGED <<op, claim, retired>>

AfterSuccessfulRename(todo, g) ==    \* mutant of AfterRename: ENOENT repeats it
  IF op[g].kind = "pending" THEN todo \ {g} ELSE todo

AfterRename(todo, g) == todo \ {g}

FenceLower(p) ==
  /\ At(p, "fence")
  /\ \/ \E g \in inv[p].todo :
          /\ \A h \in inv[p].todo : g <= h
          /\ op' = Rename(g, "fenced")
          /\ inv' = [inv EXCEPT ![p].todo = AfterRename(@, g)]
     \/ inv[p].todo = {} /\ Go(p, "still") /\ UNCHANGED op
  /\ UNCHANGED <<claim, retired>>

RecheckOwnership(p) ==
  /\ At(p, "still")
  /\ IF Owns(inv[p].gen) THEN Go(p, "decide") ELSE Fenced(p)
  /\ UNCHANGED <<op, claim, retired>>

Publishing(p, next, result) ==
  inv' = [inv EXCEPT ![p].pc = "publish", ![p].next = next, ![p].result = result,
                     ![p].found = None]

DecideCheck(p) ==
  /\ At(p, "decide") /\ p \in Checks
  /\ LET failed(withdraw) == AfterFailure(Current, NowOf[p], withdraw)
     IN IF inv[p].found = None
        THEN IF Fits(failed(FALSE)) THEN Publishing(p, failed(FALSE), Silent)
                                    ELSE CancelThen(p, Silent)
        ELSE \E delay \in SuccessDelays :
               LET next == AfterSuccess(Current, NowOf[p], inv[p].found, delay)
               IN IF Fits(next) THEN Publishing(p, next, ResultFor(next))
                  ELSE IF Fits(failed(TRUE)) THEN Publishing(p, failed(TRUE), Silent)
                  ELSE CancelThen(p, Silent)
  /\ UNCHANGED <<op, claim, retired>>

DecideAck(p) ==
  /\ At(p, "decide") /\ p \in Acks
  /\ LET d == EventOf[p]
         next == AfterAcknowledgement(Current, d)
     IN IF d \in Current.offered \cup Current.acked /\ Fits(next)
        THEN Publishing(p, next, [status |-> "acknowledged", digest |-> d])
        ELSE CancelThen(p, Silent)
  /\ UNCHANGED <<op, claim, retired>>

(* state.json is renamed into the directory, and the directory to          *)
(* committed-N; both fail if it has been fenced.  The verification that    *)
(* follows may fail although the rename has been made.                     *)
Publish(p) ==
  /\ At(p, "publish")
  /\ IF op[inv[p].gen].kind = "pending"
     THEN /\ op' = [op EXCEPT ![inv[p].gen].kind = "committed",
                              ![inv[p].gen].live = FALSE,
                              ![inv[p].gen].state = inv[p].next]
          /\ Finish(p, inv[p].result) \/ EndUnavailable(p)
     ELSE /\ IF p \in Checks THEN Finish(p, InProgress)
             ELSE inv' = [inv EXCEPT ![p].pc = "lost", ![p].result = NoResult,
                                     ![p].next = EmptyState]
          /\ UNCHANGED op
  /\ UNCHANGED <<claim, retired>>

-----------------------------------------------------------------------------
(* The environment.                                                        *)

(* A call to the file system, or a guard around one, fails: cache-         *)
(* unavailable.  An operation that is held, or whose owner file could not  *)
(* be written, is cancelled if that can be done; one that fails on the way *)
(* to the claim is left to its lease.                                      *)
Fails(p) ==
  /\ inv[p].pc \in Running \ {"lost"}
  /\ EndUnavailable(p)
  /\ \/ UNCHANGED op
     \/ inv[p].pc \in Holding \cup {"own", "cancel"} /\ op' = Rename(inv[p].gen, "cancelled")
  /\ UNCHANGED <<claim, retired>>

Crash(p) ==
  /\ inv[p].pc \in Running
  /\ inv' = [inv EXCEPT ![p] = [NotStarted EXCEPT !.pc = "crashed"]]
  /\ UNCHANGED <<op, claim, retired>>

(* LOCK_STALE_MS after its owner file was written; nothing renews it.      *)
Lapse(g) ==
  /\ Active(g)
  /\ Cardinality({h \in Gens : op[h].kind = "pending" /\ ~op[h].live}) < MaxLapsed
  /\ op' = [op EXCEPT ![g].live = FALSE]
  /\ inv' = [p \in Invocations |->
               IF inv[p].gen = g THEN [inv[p] EXCEPT !.alone = FALSE] ELSE inv[p]]
  /\ UNCHANGED <<claim, retired>>

Step(p) ==
  \/ ReadCache(p) \/ SurveyPending(p)
  \/ ReserveGeneration(p) \/ MakePending(p) \/ WriteOwner(p)
  \/ Promote(p) \/ ProbeClaim(p) \/ RetireClaim(p)
  \/ TakeClaim(p) \/ StillAlive(p) \/ LoseOperation(p) \/ Cancel(p)
  \/ RereadCache(p) \/ CheckOwnership(p) \/ Fetch(p)
  \/ BeginCommit(p) \/ ListLower(p) \/ FenceLower(p) \/ RecheckOwnership(p)
  \/ DecideCheck(p) \/ DecideAck(p) \/ Publish(p)

Next ==
  \/ \E p \in Invocations : Start(p) \/ Step(p) \/ Fails(p) \/ Crash(p)
  \/ \E g \in Gens : Lapse(g)

Init ==
  /\ op = [g \in Gens |-> Unreserved]
  /\ claim = 0 /\ retired = {}
  /\ inv = [p \in Invocations |-> NotStarted]

Spec == Init /\ [][Next]_vars

(* An invocation that nobody kills runs on; nobody has to start one, and   *)
(* no call has to fail.                                                    *)
FairSpec == Spec /\ \A p \in Invocations : WF_vars(Step(p))

-----------------------------------------------------------------------------
TypeOK ==
  /\ op \in [Gens -> [kind : Kinds, live : BOOLEAN, state : State]]
  /\ claim \in Gens \cup {0} /\ retired \subseteq Gens
  /\ inv \in [Invocations -> Invocation]

(* Two invocations fetch at the same time only if one of them has outlived *)
(* its lease: inspectActiveClaim, hasActivePendingOperation and the two    *)
(* ownership checks before the fetch give one check per lease together.    *)
OneFetchPerLease ==
  \A p, q \in Invocations :
    /\ p # q /\ At(p, "fetch") /\ At(q, "fetch")
    => ~(Active(inv[p].gen) /\ Active(inv[q].gen))

(* The claim of an operation that is pending within its lease is never     *)
(* moved away, although a retirement (lines 906-950) renames active-claim  *)
(* long after it was inspected.                                            *)
LiveClaimKept == [][Busy => claim' = claim]_claim

(* Whoever is told of an update can acknowledge it: the digest is on       *)
(* record.  And nobody is told of what had been acknowledged before the    *)
(* check began (resultForCandidate), whichever way the answer was found.   *)
NoticesAreDue ==
  \A p \in Checks :
    LET d == inv[p].result.digest
    IN At(p, "done") /\ inv[p].result.status = "update_available"
       => /\ d \in Current.offered \cup Current.acked
          /\ d \notin inv[p].seen

(* What crashed invocations leave behind never turns away one that comes   *)
(* alone after their leases have run out.                                  *)
LoneInvocationServed ==
  \A p \in Invocations :
    At(p, "done") /\ inv[p].alone => inv[p].result # InProgress

(* The state that readers see follows the ledger: every commit is built on *)
(* the one that it succeeds, so no offer and no acknowledgement is lost to *)
(* a commit that overlapped with it (commitOperation, fenceLowerOperations).*)
Offers(s) == [candidate |-> s.candidate, offered |-> s.offered, acked |-> s.acked]
Ledger == INSTANCE UpdateLedger WITH ledger <- Offers(Current)
FollowsLedger == Ledger!LedgerSpec

(* Every invocation comes to an end, whatever holds the claim.             *)
InvocationsEnd ==
  \A p \in Invocations : inv[p].pc \in Running ~> inv[p].pc \notin Running
=============================================================================
