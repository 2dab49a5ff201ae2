------------------------- MODULE UpdateCheckProofs -------------------------
(***************************************************************************)
(* Theorems about UpdateCheck, for any invocations, releases, numbers of   *)
(* generations and attempts, delays and clocks: the types, the claim of a  *)
(* live operation, one fetch per lease, and the ledger.                    *)
(***************************************************************************)
EXTENDS UpdateCheck, FiniteSetTheorems, WellFoundedInduction, TLAPS

-----------------------------------------------------------------------------
(* The highest of some generations.                                        *)
LEMMA HighestExists ==
  ASSUME NEW S, S \subseteq Gens, S # {}
  PROVE  \E g \in S : \A h \in S : h <= g
<1> DEFINE T == {MaxGen - g : g \in S}
<1>0. MaxGen \in Nat
  BY UpdateAssumption DEF UpdateAssumption
<1>1. T \subseteq Nat /\ T # {}
  <2>1. \A g \in S : MaxGen - g \in Nat
    BY <1>0 DEF Gens
  <2> QED
    BY <2>1
<1>2. PICK n \in T : \A m \in T : ~ (<<m, n>> \in OpToRel(<, Nat))
  BY <1>1, NatLessThanWellFounded, WFMin
<1>3. PICK g \in S : n = MaxGen - g
  BY <1>2
<1>4. ASSUME NEW h \in S
      PROVE  h <= g
  <2>1. MaxGen - h \in T
    OBVIOUS
  <2>2. ~ (MaxGen - h < MaxGen - g)
    BY <2>1, <1>0, <1>1, <1>2, <1>3 DEF OpToRel
  <2>3. g \in Nat /\ h \in Nat /\ g <= MaxGen /\ h <= MaxGen
    BY <1>0 DEF Gens
  <2> QED
    BY <2>2, <2>3, <1>0
<1> QED
  BY <1>4

LEMMA CurrentTyped ==
  ASSUME TypeOK
  PROVE  Current \in State
<1>1. EmptyState \in State
  BY UpdateAssumption DEF UpdateAssumption, EmptyState, State, Never
<1>2. CASE Committed # {}
  <2>1. \E g \in Committed : \A h \in Committed : h <= g
    BY <1>2, HighestExists DEF Committed
  <2> DEFINE top == CHOOSE g \in Committed : \A h \in Committed : h <= g
  <2>2. top \in Gens
    BY <2>1 DEF Committed
  <2>3. Current = op[top].state
    BY <1>2 DEF Current
  <2> QED
    BY <2>2, <2>3 DEF TypeOK
<1> QED
  BY <1>1, <1>2 DEF Current

-----------------------------------------------------------------------------
(* The values that steps put together have their types.                    *)
LEMMA EmptyStateTyped == EmptyState \in State
BY UpdateAssumption DEF UpdateAssumption, EmptyState, State, Never

LEMMA NotStartedTyped == NotStarted \in Invocation
BY EmptyStateTyped, UpdateAssumption
   DEF NotStarted, Invocation, Result, NoResult, UpdateAssumption

LEMMA ResultTyped ==
  ASSUME NEW s \in State
  PROVE  ResultFor(s) \in Result
BY UpdateAssumption DEF ResultFor, Result, Silent, State, UpdateAssumption

LEMMA EndingTyped ==
  ASSUME TypeOK, NEW p \in Invocations, NEW r \in Result
  PROVE  Ending(p, r) \in Invocation
BY NotStartedTyped DEF TypeOK, Ending, Invocation

LEMMA DelaysTyped ==
  /\ FirstFailureDelay \in Int /\ LaterFailureDelay \in Int
  /\ SuccessDelays \subseteq Int /\ \A p \in Checks : NowOf[p] \in Int
BY UpdateAssumption DEF UpdateAssumption

LEMMA AcknowledgementTyped ==
  ASSUME NEW s \in State, NEW d \in Digests
  PROVE  AfterAcknowledgement(s, d) \in State
BY DEF AfterAcknowledgement, State

LEMMA FailureTyped ==
  ASSUME NEW s \in State, NEW now \in Int, NEW withdraw \in BOOLEAN
  PROVE  AfterFailure(s, now, withdraw) \in State
<1> DEFINE failures == IF s.failures = 2 THEN 2 ELSE s.failures + 1
           next == now + (IF failures <= 1 THEN FirstFailureDelay ELSE LaterFailureDelay)
           candidate == IF withdraw THEN None ELSE s.candidate
<1>1. failures \in 0..2
  BY DEF State
<1>2. next \in Int
  BY DelaysTyped
<1>3. candidate \in Digests \cup {None}
  BY DEF State
<1>4. AfterFailure(s, now, withdraw)
        = [s EXCEPT !.failures = failures, !.next = next, !.candidate = candidate]
  BY DEF AfterFailure
<1> HIDE DEF failures, next, candidate
<1> QED
  BY <1>1, <1>2, <1>3, <1>4 DEF State

LEMMA SuccessTyped ==
  ASSUME NEW s \in State, NEW now \in Int, NEW d \in Digests, NEW delay \in Int
  PROVE  AfterSuccess(s, now, d, delay) \in State
<1> DEFINE offered == IF d \in Newer \ s.acked THEN s.offered \cup {d} ELSE s.offered
<1>1. now + delay \in Int
  OBVIOUS
<1>2. offered \in SUBSET Digests
  BY DEF State
<1>3. AfterSuccess(s, now, d, delay)
        = [s EXCEPT !.next = now + delay, !.failures = 0, !.candidate = d, !.offered = offered]
  BY DEF AfterSuccess
<1>4. s.acked \in SUBSET Digests
  BY DEF State
<1> DEFINE next == now + delay
<1>5. next \in Int /\ 0 \in 0..2 /\ d \in Digests \cup {None}
  BY <1>1
<1> HIDE DEF offered, next
<1>6. [s EXCEPT !.next = next, !.failures = 0, !.candidate = d, !.offered = offered] \in State
  BY <1>2, <1>5 DEF State
<1> QED
  BY <1>3, <1>6 DEF next

LEMMA RenameTyped ==
  ASSUME TypeOK, NEW g, NEW kind \in Kinds
  PROVE  Rename(g, kind) \in [Gens -> [kind : Kinds, live : BOOLEAN, state : State]]
BY DEF TypeOK, Rename

-----------------------------------------------------------------------------
(* A step of one invocation leaves it, and the directories, well typed.    *)
Ops == [Gens -> [kind : Kinds, live : BOOLEAN, state : State]]

(* A claim is retired into the directory of a generation.                  *)
Retiring == \A p \in Invocations : inv[p].pc = "retire" => inv[p].victim # 0

LEMMA PublishingTyped ==
  ASSUME TypeOK, NEW p \in Invocations, NEW s \in State, NEW r \in Result,
         Publishing(p, s, r)
  PROVE  inv' \in [Invocations -> Invocation]
<1> DEFINE i == [inv[p] EXCEPT !.pc = "publish", !.next = s, !.result = r, !.found = None]
<1>1. inv[p] \in Invocation /\ inv \in [Invocations -> Invocation]
  BY DEF TypeOK
<1>2. i \in Invocation
  BY <1>1 DEF Invocation, Running, Holding
<1>3. inv' = [inv EXCEPT ![p] = i]
  BY DEF Publishing
<1> QED
  BY <1>1, <1>2, <1>3

LEMMA CancelTyped ==
  ASSUME TypeOK, NEW p \in Invocations, NEW r \in Result, CancelThen(p, r)
  PROVE  inv' \in [Invocations -> Invocation]
<1> DEFINE i == [inv[p] EXCEPT !.pc = "cancel", !.result = r, !.tries = 0, !.found = None]
<1>1. inv[p] \in Invocation /\ inv \in [Invocations -> Invocation] /\ 0 \in 0..Attempts
  BY UpdateAssumption DEF TypeOK, UpdateAssumption
<1>2. i \in Invocation
  BY <1>1 DEF Invocation, Running
<1>3. inv' = [inv EXCEPT ![p] = i]
  BY DEF CancelThen
<1> QED
  BY <1>1, <1>2, <1>3

LEMMA UnavailableTyped ==
  ASSUME TypeOK, NEW p \in Invocations, EndUnavailable(p)
  PROVE  inv' \in [Invocations -> Invocation]
<1>1. [NotStarted EXCEPT !.pc = "done", !.result = Silent] \in Invocation
  BY NotStartedTyped DEF Invocation, Result
<1> QED
  BY <1>1 DEF TypeOK, EndUnavailable

LEMMA StepTyped ==
  ASSUME TypeOK, Retiring, NEW p \in Invocations, Step(p)
  PROVE  TypeOK'
<1> USE DEF At
<1>1. /\ op \in Ops /\ inv \in [Invocations -> Invocation] /\ inv[p] \in Invocation
      /\ claim \in Gens \cup {0} /\ retired \subseteq Gens
  BY DEF TypeOK, Ops
<1>2. Current \in State /\ ResultFor(Current) \in Result
  BY CurrentTyped, ResultTyped
<1>3. \A r \in Result : Ending(p, r) \in Invocation
  BY EndingTyped
<1>4. {NoResult, Silent, InProgress} \subseteq Result
  BY DEF Result
<1> SUFFICES op' \in Ops /\ inv' \in [Invocations -> Invocation]
             /\ claim' \in Gens \cup {0} /\ retired' \subseteq Gens
  BY DEF TypeOK, Ops
<1>10. CASE ReadCache(p)
  BY <1>1, <1>2, <1>3, <1>4, <1>10
     DEF ReadCache, Finish, Go, CancelThen, Fenced, Invocation, Running, Searching, Holding
<1>11. CASE SurveyPending(p)
  BY <1>1, <1>2, <1>3, <1>4, <1>11
     DEF SurveyPending, Finish, Go, CancelThen, Fenced, Invocation, Running, Searching, Holding
<1>12. CASE ReserveGeneration(p)
  <2>1. CASE Finish(p, Silent) /\ UNCHANGED op
    BY <1>1, <1>3, <1>4, <1>12, <2>1 DEF ReserveGeneration, Finish
  <2>2. CASE \E g \in Gens : /\ op' = [op EXCEPT ![g].kind = "reserved"]
                            /\ inv' = [inv EXCEPT ![p].pc = "mkdir", ![p].gen = g]
    <3>1. PICK g \in Gens : /\ op' = [op EXCEPT ![g].kind = "reserved"]
                            /\ inv' = [inv EXCEPT ![p].pc = "mkdir", ![p].gen = g]
      BY <2>2
    <3>2. op' \in Ops
      BY <1>1, <3>1 DEF Ops, Kinds
    <3>3. inv' \in [Invocations -> Invocation]
      BY <1>1, <3>1 DEF Invocation, Running, Searching
    <3> QED
      BY <1>1, <1>12, <3>2, <3>3 DEF ReserveGeneration
  <2> QED
    BY <1>12, <2>1, <2>2 DEF ReserveGeneration
<1>13. CASE MakePending(p)
  <2>1. op' \in Ops
    BY <1>1, <1>13 DEF MakePending, Ops, Kinds
  <2> QED
    BY <1>1, <1>13, <2>1 DEF MakePending, Go, Invocation, Running, Searching
<1>14. CASE WriteOwner(p)
  <2>1. op' \in Ops
    <3>1. op' = op \/ op' = [op EXCEPT ![inv[p].gen].live = TRUE]
      BY <1>14 DEF WriteOwner
    <3> QED
      BY <1>1, <3>1 DEF Ops
  <2> QED
    BY <1>1, <1>14, <2>1 DEF WriteOwner, Go, Invocation, Running, Searching
<1>15. CASE Promote(p)
  BY <1>1, <1>2, <1>3, <1>4, <1>15
     DEF Promote, Finish, Go, CancelThen, Fenced, Invocation, Running, Searching, Holding
<1>16. CASE ProbeClaim(p)
  BY <1>1, <1>2, <1>3, <1>4, <1>16
     DEF ProbeClaim, Finish, Go, CancelThen, Fenced, Invocation, Running, Searching, Holding
<1>17. CASE RetireClaim(p)
  <2>1. inv[p].victim \in Gens
    BY <1>1, <1>17 DEF RetireClaim, Invocation, Retiring
  <2> QED
    BY <1>1, <1>17, <2>1 DEF RetireClaim, Invocation, Running, Searching
<1>18. CASE TakeClaim(p)
  BY <1>1, <1>2, <1>3, <1>4, <1>18
     DEF TakeClaim, Finish, Go, CancelThen, Fenced, Invocation, Running, Searching, Holding
<1>19. CASE StillAlive(p)
  BY <1>1, <1>2, <1>3, <1>4, <1>19
     DEF StillAlive, Finish, Go, CancelThen, Fenced, Invocation, Running, Searching, Holding
<1>20. CASE LoseOperation(p)
  BY <1>1, <1>2, <1>3, <1>4, <1>20
     DEF LoseOperation, Finish, Go, CancelThen, Fenced, Invocation, Running, Searching, Holding
<1>21. CASE Cancel(p)
  <2>1. op' \in Ops
    BY <1>21, RenameTyped DEF Cancel, Ops, Kinds
  <2>2. inv[p].result \in Result
    BY <1>1 DEF Invocation
  <2> QED
    BY <1>1, <1>3, <1>21, <2>1, <2>2 DEF Cancel, Finish, Go, Invocation, Running
<1>22. CASE RereadCache(p)
  BY <1>1, <1>2, <1>3, <1>4, <1>22
     DEF RereadCache, Finish, Go, CancelThen, Fenced, Invocation, Running, Searching, Holding
<1>23. CASE CheckOwnership(p)
  BY <1>1, <1>2, <1>3, <1>4, <1>23
     DEF CheckOwnership, Finish, Go, CancelThen, Fenced, Invocation, Running, Searching, Holding
<1>24. CASE Fetch(p)
  <2>1. PICK d \in Digests \cup {None} :
          inv' = [inv EXCEPT ![p].pc = "commit", ![p].found = d]
    BY <1>24 DEF Fetch
  <2> QED
    BY <1>1, <1>24, <2>1 DEF Fetch, Invocation, Running, Holding
<1>25. CASE BeginCommit(p)
  BY <1>1, <1>2, <1>3, <1>4, <1>25
     DEF BeginCommit, Finish, Go, CancelThen, Fenced, Invocation, Running, Searching, Holding
<1>26. CASE ListLower(p)
  <2>1. Lower(inv[p].gen) \in SUBSET Gens
    BY DEF Lower
  <2> QED
    BY <1>1, <1>26, <2>1 DEF ListLower, Invocation, Running, Holding
<1>27. CASE FenceLower(p)
  <2>1. CASE inv[p].todo = {} /\ Go(p, "still") /\ UNCHANGED op
    BY <1>1, <1>27, <2>1 DEF FenceLower, Go, Invocation, Running, Holding
  <2>2. CASE \E g \in inv[p].todo : /\ op' = Rename(g, "fenced")
                                   /\ inv' = [inv EXCEPT ![p].todo = inv[p].todo \ {g}]
    <3>1. PICK g \in inv[p].todo : /\ op' = Rename(g, "fenced")
                                   /\ inv' = [inv EXCEPT ![p].todo = inv[p].todo \ {g}]
      BY <2>2
    <3>2. op' \in Ops
      BY <3>1, RenameTyped DEF Ops, Kinds
    <3>3. inv' \in [Invocations -> Invocation]
      <4>1. inv[p].todo \ {g} \in SUBSET Gens
        BY <1>1 DEF Invocation
      <4> QED
        BY <1>1, <3>1, <4>1 DEF Invocation
    <3> QED
      BY <1>1, <1>27, <3>2, <3>3 DEF FenceLower
  <2>3. \/ inv[p].todo = {} /\ Go(p, "still") /\ UNCHANGED op
        \/ \E g \in inv[p].todo : /\ op' = Rename(g, "fenced")
                                /\ inv' = [inv EXCEPT ![p].todo = inv[p].todo \ {g}]
    BY <1>27 DEF FenceLower, AfterRename
  <2> QED
    BY <2>1, <2>2, <2>3
<1>28. CASE RecheckOwnership(p)
  BY <1>1, <1>2, <1>3, <1>4, <1>28
     DEF RecheckOwnership, Finish, Go, CancelThen, Fenced, Invocation, Running, Searching, Holding
<1>29. CASE DecideCheck(p)
  <2> DEFINE failed(withdraw) == AfterFailure(Current, NowOf[p], withdraw)
  <2>1. NowOf[p] \in Int
    BY <1>29, DelaysTyped DEF DecideCheck
  <2>2. failed(TRUE) \in State /\ failed(FALSE) \in State
    BY <1>2, <2>1, FailureTyped
  <2>3. CASE inv[p].found = None
    BY <1>1, <1>4, <1>29, <2>2, <2>3, PublishingTyped, CancelTyped DEF DecideCheck
  <2>4. CASE inv[p].found # None
    <3>1. PICK delay \in SuccessDelays :
            LET next == AfterSuccess(Current, NowOf[p], inv[p].found, delay)
            IN IF Fits(next) THEN Publishing(p, next, ResultFor(next))
               ELSE IF Fits(failed(TRUE)) THEN Publishing(p, failed(TRUE), Silent)
               ELSE CancelThen(p, Silent)
      BY <1>29, <2>4 DEF DecideCheck
    <3> DEFINE next == AfterSuccess(Current, NowOf[p], inv[p].found, delay)
    <3>2. inv[p].found \in Digests
      BY <1>1, <2>4 DEF Invocation
    <3>3. next \in State
      BY <1>2, <2>1, <3>2, DelaysTyped, SuccessTyped
    <3>4. ResultFor(next) \in Result
      BY <3>3, ResultTyped
    <3>5. \/ Publishing(p, next, ResultFor(next))
          \/ Publishing(p, failed(TRUE), Silent)
          \/ CancelThen(p, Silent)
      BY <3>1
    <3> HIDE DEF next
    <3> QED
      BY <1>1, <1>4, <1>29, <2>2, <3>3, <3>4, <3>5, PublishingTyped, CancelTyped DEF DecideCheck
  <2> QED
    BY <2>3, <2>4
<1>30. CASE DecideAck(p)
  <2>1. EventOf[p] \in Digests
    BY <1>30, UpdateAssumption DEF DecideAck, UpdateAssumption
  <2>2. AfterAcknowledgement(Current, EventOf[p]) \in State
    BY <1>2, <2>1, AcknowledgementTyped
  <2>3. [status |-> "acknowledged", digest |-> EventOf[p]] \in Result
    BY <2>1 DEF Result
  <2>4. \/ Publishing(p, AfterAcknowledgement(Current, EventOf[p]),
                      [status |-> "acknowledged", digest |-> EventOf[p]])
        \/ CancelThen(p, Silent)
    BY <1>30 DEF DecideAck
  <2> QED
    BY <1>1, <1>4, <1>30, <2>2, <2>3, <2>4, PublishingTyped, CancelTyped DEF DecideAck
<1>31. CASE Publish(p)
  <2>1. inv[p].next \in State /\ inv[p].result \in Result
    BY <1>1 DEF Invocation
  <2>2. op' \in Ops
    BY <1>1, <1>31, <2>1 DEF Publish, Ops, Kinds
  <2>3. \/ Finish(p, inv[p].result) \/ Finish(p, InProgress)
        \/ EndUnavailable(p)
        \/ inv' = [inv EXCEPT ![p].pc = "lost", ![p].result = NoResult, ![p].next = EmptyState]
    BY <1>31 DEF Publish
  <2>4. CASE EndUnavailable(p)
    BY <1>1, <1>31, <2>2, <2>4, UnavailableTyped DEF Publish
  <2>5. CASE inv' = [inv EXCEPT ![p].pc = "lost", ![p].result = NoResult, ![p].next = EmptyState]
    BY <1>1, <1>4, <1>31, <2>2, <2>5, EmptyStateTyped DEF Publish, Invocation, Running
  <2>6. CASE Finish(p, inv[p].result) \/ Finish(p, InProgress)
    BY <1>1, <1>3, <1>4, <1>31, <2>1, <2>2, <2>6 DEF Publish, Finish
  <2> QED
    BY <2>3, <2>4, <2>5, <2>6
<1> QED
  BY <1>10, <1>11, <1>12, <1>13, <1>14, <1>15, <1>16, <1>17, <1>18, <1>19,
     <1>20, <1>21, <1>22, <1>23, <1>24, <1>25, <1>26, <1>27, <1>28, <1>29, <1>30, <1>31 DEF Step

LEMMA NextTyped ==
  ASSUME TypeOK, Retiring, [Next]_vars
  PROVE  TypeOK'
<1>1. /\ op \in Ops /\ inv \in [Invocations -> Invocation]
      /\ claim \in Gens \cup {0} /\ retired \subseteq Gens
  BY DEF TypeOK, Ops
<1>2. CASE UNCHANGED vars
  BY <1>1, <1>2 DEF vars, TypeOK, Ops
<1>3. ASSUME NEW p \in Invocations, Start(p)
      PROVE  TypeOK'
  <2>1. Current.acked \in SUBSET Digests
    BY CurrentTyped DEF State
  <2> DEFINE pc == IF p \in Checks THEN "read" ELSE "survey"
             seen == IF p \in Checks THEN Current.acked ELSE {}
             alone == /\ \A r \in Invocations : inv[r].pc \notin Running
                      /\ \A g \in Gens : ~Active(g)
                      /\ \E g \in Gens : op[g].kind = "free"
             i == [NotStarted EXCEPT !.pc = pc, !.seen = seen, !.alone = alone]
  <2>2. pc \in Running /\ seen \in SUBSET Digests /\ alone \in BOOLEAN
    BY <2>1 DEF Running, Searching
  <2> HIDE DEF pc, seen, alone
  <2>3. i \in Invocation
    BY <2>2, NotStartedTyped DEF Invocation
  <2>4. \A q \in Invocations : [inv[q] EXCEPT !.alone = FALSE] \in Invocation
    BY <1>1 DEF Invocation
  <2>5. inv' = [q \in Invocations |-> IF q = p THEN i ELSE [inv[q] EXCEPT !.alone = FALSE]]
    BY <1>3 DEF Start, pc, seen, alone
  <2>6. UNCHANGED <<op, claim, retired>>
    BY <1>3 DEF Start
  <2> HIDE DEF i
  <2>7. inv' \in [Invocations -> Invocation]
    BY <1>1, <2>3, <2>4, <2>5
  <2> QED
    BY <1>1, <2>6, <2>7 DEF TypeOK, Ops
<1>4. ASSUME NEW p \in Invocations, Fails(p)
      PROVE  TypeOK'
  <2>1. op' \in Ops
    BY <1>1, <1>4, RenameTyped DEF Fails, Ops, Kinds
  <2> QED
    BY <1>1, <1>4, <2>1, UnavailableTyped DEF Fails, TypeOK, Ops
<1>5. ASSUME NEW p \in Invocations, Crash(p)
      PROVE  TypeOK'
  <2>1. [NotStarted EXCEPT !.pc = "crashed"] \in Invocation
    BY NotStartedTyped DEF Invocation
  <2> QED
    BY <1>1, <1>5, <2>1 DEF Crash, TypeOK, Ops
<1>6. ASSUME NEW g \in Gens, Lapse(g)
      PROVE  TypeOK'
  <2>1. op' \in Ops
    BY <1>1, <1>6 DEF Lapse, Ops
  <2>2. \A q \in Invocations : [inv[q] EXCEPT !.alone = FALSE] \in Invocation
    BY <1>1 DEF Invocation
  <2> QED
    BY <1>1, <1>6, <2>1, <2>2 DEF Lapse, TypeOK, Ops
<1> QED
  BY <1>2, <1>3, <1>4, <1>5, <1>6, StepTyped DEF Next

-----------------------------------------------------------------------------
(* The claim.  An invocation on the way to the claim has a generation of   *)
(* its own that is not the claim and never was; one that has taken it has  *)
(* it for as long as its lease runs; the claim that one is about to retire *)
(* is still the claim, with no lease, unless it has been retired already.  *)
OnTheWay == {"mkdir", "own", "promote", "probe", "retire", "claim"}
Past == {"alive"} \cup Holding

ReservedOnce ==
  /\ \A p \in Invocations : inv[p].gen # 0 => op[inv[p].gen].kind # "free"
  /\ \A p, q \in Invocations : p # q /\ inv[p].gen = inv[q].gen => inv[p].gen = 0
  /\ claim # 0 => op[claim].kind # "free"
  /\ \A g \in retired : op[g].kind # "free"

NotYetClaimed ==
  \A p \in Invocations :
    inv[p].pc \in OnTheWay => /\ inv[p].gen # 0 /\ inv[p].gen # claim
                              /\ inv[p].gen \notin retired

ClaimedWhileLive ==
  \A p \in Invocations :
    inv[p].pc \in Past => inv[p].gen # 0 /\ (Active(inv[p].gen) => claim = inv[p].gen)

RetiresTheClaim ==
  \A p \in Invocations :
    inv[p].pc = "retire" =>
      /\ inv[p].victim # 0
      /\ inv[p].victim \notin retired
           => claim = inv[p].victim /\ ~Active(inv[p].victim)

ClaimInv == ReservedOnce /\ NotYetClaimed /\ ClaimedWhileLive /\ RetiresTheClaim

(* Most steps have no part in the claim.                                   *)
Quiet ==
  /\ claim' = claim /\ retired' = retired
  /\ \A g \in Gens : /\ op[g].kind # "free" => op'[g].kind # "free"
                     /\ Active(g)' => Active(g)
  /\ \A q \in Invocations :
       /\ inv'[q].gen # 0 => inv'[q].gen = inv[q].gen
       /\ inv'[q].pc \in OnTheWay => inv[q].pc \in OnTheWay /\ inv'[q].gen = inv[q].gen
       /\ inv'[q].pc \in Past => inv[q].pc \in Past /\ inv'[q].gen = inv[q].gen
       /\ inv'[q].pc = "retire" => inv[q].pc = "retire" /\ inv'[q].victim = inv[q].victim

LEMMA QuietKeepsClaimInv ==
  ASSUME TypeOK, ClaimInv, Quiet
  PROVE  ClaimInv'
<1>1. /\ \A p \in Invocations : inv[p].gen \in Gens \cup {0} /\ inv[p].victim \in Gens \cup {0}
      /\ claim \in Gens \cup {0} /\ retired \subseteq Gens
  BY DEF TypeOK, Invocation
<1>2. ReservedOnce'
  BY <1>1 DEF ClaimInv, ReservedOnce, Quiet
<1>3. NotYetClaimed'
  BY <1>1 DEF ClaimInv, NotYetClaimed, Quiet
<1>4. ClaimedWhileLive'
  BY <1>1 DEF ClaimInv, ClaimedWhileLive, Quiet
<1>5. RetiresTheClaim'
  BY <1>1 DEF ClaimInv, RetiresTheClaim, Quiet
<1> QED
  BY <1>2, <1>3, <1>4, <1>5 DEF ClaimInv

(* What a rename does to the directories.                                  *)
LEMMA RenameQuiet ==
  ASSUME TypeOK, NEW g, NEW kind \in Kinds \ {"free", "pending"}, op' = Rename(g, kind)
  PROVE  \A h \in Gens : /\ op[h].kind # "free" => op'[h].kind # "free"
                         /\ Active(h)' => Active(h)
BY DEF TypeOK, Rename, Active, Kinds

(* A step of p is quiet if it leaves the claim alone, only renames, and    *)
(* does not bring p any nearer to the claim than it was.                   *)
LEMMA QuietIf ==
  ASSUME TypeOK, NEW p \in Invocations, NEW i, inv' = [inv EXCEPT ![p] = i],
         UNCHANGED <<claim, retired>>,
         \A h \in Gens : /\ op[h].kind # "free" => op'[h].kind # "free"
                         /\ Active(h)' => Active(h),
         \/ i.gen = 0 /\ i.pc \notin OnTheWay \cup Past
         \/ /\ i.gen = inv[p].gen /\ i.pc # "retire"
            /\ i.pc \in OnTheWay => inv[p].pc \in OnTheWay
            /\ i.pc \in Past => inv[p].pc \in Past
  PROVE  Quiet
<1>1. \A q \in Invocations : inv'[q] = IF q = p THEN i ELSE inv[q]
  BY DEF TypeOK
<1>2. i.pc # "retire"
  BY DEF OnTheWay
<1> QED
  BY <1>1, <1>2 DEF Quiet

LEMMA QuietSteps ==
  ASSUME TypeOK, NEW p \in Invocations,
         \/ ReadCache(p) \/ SurveyPending(p) \/ Promote(p) \/ StillAlive(p)
         \/ LoseOperation(p) \/ Cancel(p) \/ RereadCache(p) \/ CheckOwnership(p)
         \/ Fetch(p) \/ BeginCommit(p) \/ ListLower(p) \/ FenceLower(p)
         \/ RecheckOwnership(p) \/ DecideCheck(p) \/ DecideAck(p) \/ Publish(p)
         \/ Fails(p) \/ Crash(p)
  PROVE  Quiet
<1> DEFINE Renamed == \A h \in Gens : /\ op[h].kind # "free" => op'[h].kind # "free"
                                      /\ Active(h)' => Active(h)
           Mild(i) == \/ i.gen = 0 /\ i.pc \notin OnTheWay \cup Past
                      \/ /\ i.gen = inv[p].gen /\ i.pc # "retire"
                         /\ i.pc \in OnTheWay => inv[p].pc \in OnTheWay
                         /\ i.pc \in Past => inv[p].pc \in Past
<1> USE DEF At
<1>1. inv \in [Invocations -> Invocation] /\ inv[p] \in Invocation
  BY DEF TypeOK
<1>2. UNCHANGED op => Renamed
  BY DEF Active
<1>3. ASSUME NEW pc, Go(p, pc), pc # "retire", pc \in OnTheWay => inv[p].pc \in OnTheWay,
             pc \in Past => inv[p].pc \in Past
      PROVE  \E i : inv' = [inv EXCEPT ![p] = i] /\ Mild(i)
  <2> DEFINE i == [inv[p] EXCEPT !.pc = pc]
  <2>1. inv' = [inv EXCEPT ![p] = i]
    BY <1>3 DEF Go
  <2>2. i.gen = inv[p].gen /\ i.pc = pc
    BY <1>1 DEF Invocation
  <2> QED
    BY <1>3, <2>1, <2>2
<1>4. ASSUME NEW r, Finish(p, r)
      PROVE  \E i : inv' = [inv EXCEPT ![p] = i] /\ Mild(i)
  <2>1. Ending(p, r).gen = 0 /\ Ending(p, r).pc = "done"
    BY DEF Ending, NotStarted
  <2> QED
    BY <1>4, <2>1 DEF Finish, OnTheWay, Past, Holding
<1>5. ASSUME NEW r, CancelThen(p, r)
      PROVE  \E i : inv' = [inv EXCEPT ![p] = i] /\ Mild(i)
  <2> DEFINE i == [inv[p] EXCEPT !.pc = "cancel", !.result = r, !.tries = 0, !.found = None]
  <2>1. inv' = [inv EXCEPT ![p] = i]
    BY <1>5 DEF CancelThen
  <2>2. i.gen = inv[p].gen /\ i.pc = "cancel"
    BY <1>1 DEF Invocation
  <2> QED
    BY <2>1, <2>2 DEF OnTheWay, Past, Holding
<1>6. ASSUME EndUnavailable(p)
      PROVE  \E i : inv' = [inv EXCEPT ![p] = i] /\ Mild(i)
  <2> DEFINE i == [NotStarted EXCEPT !.pc = "done", !.result = Silent]
  <2>1. i.gen = 0 /\ i.pc = "done"
    BY DEF NotStarted
  <2> QED
    BY <1>6, <2>1 DEF EndUnavailable, OnTheWay, Past, Holding
<1>7. ASSUME NEW s, NEW r, Publishing(p, s, r), inv[p].pc = "decide"
      PROVE  \E i : inv' = [inv EXCEPT ![p] = i] /\ Mild(i)
  <2> DEFINE i == [inv[p] EXCEPT !.pc = "publish", !.next = s, !.result = r, !.found = None]
  <2>1. inv' = [inv EXCEPT ![p] = i]
    BY <1>7 DEF Publishing
  <2>2. i.gen = inv[p].gen /\ i.pc = "publish"
    BY <1>1 DEF Invocation
  <2> QED
    BY <1>7, <2>1, <2>2 DEF OnTheWay, Past, Holding
<1> SUFFICES /\ UNCHANGED <<claim, retired>> /\ Renamed
             /\ \E i : inv' = [inv EXCEPT ![p] = i] /\ Mild(i)
  <2>1. PICK i : inv' = [inv EXCEPT ![p] = i] /\ Mild(i)
    OBVIOUS
  <2> QED
    BY <2>1, QuietIf
<1>10. CASE ReadCache(p)
  BY <1>2, <1>3, <1>4, <1>5, <1>10 DEF ReadCache, OnTheWay, Past, Holding
<1>11. CASE SurveyPending(p)
  BY <1>2, <1>3, <1>4, <1>5, <1>11 DEF SurveyPending, OnTheWay, Past, Holding
<1>12. CASE RereadCache(p)
  BY <1>2, <1>3, <1>4, <1>5, <1>12 DEF RereadCache, OnTheWay, Past, Holding
<1>13. CASE CheckOwnership(p)
  BY <1>2, <1>3, <1>4, <1>5, <1>13 DEF CheckOwnership, OnTheWay, Past, Holding
<1>14. CASE BeginCommit(p)
  BY <1>2, <1>3, <1>4, <1>5, <1>14 DEF BeginCommit, Fenced, OnTheWay, Past, Holding
<1>15. CASE RecheckOwnership(p)
  BY <1>2, <1>3, <1>4, <1>5, <1>15 DEF RecheckOwnership, Fenced, OnTheWay, Past, Holding
<1>16. CASE Promote(p)
  <2>1. CASE CancelThen(p, NoResult)
    BY <1>2, <1>5, <1>16, <2>1 DEF Promote
  <2>2. CASE ~CancelThen(p, NoResult)
    <3> DEFINE i == [inv[p] EXCEPT !.pc = "probe", !.tries = inv[p].tries + 1]
    <3>1. inv' = [inv EXCEPT ![p] = i]
      BY <1>16, <2>2 DEF Promote
    <3>2. i.gen = inv[p].gen /\ i.pc = "probe"
      BY <1>1 DEF Invocation
    <3>3. Mild(i)
      BY <1>16, <3>2 DEF Promote, OnTheWay, Past, Holding
    <3> QED
      BY <1>2, <1>16, <3>1, <3>3 DEF Promote
  <2> QED
    BY <2>1, <2>2
<1>17. CASE StillAlive(p)
  <2>1. CASE CancelThen(p, NoResult)
    BY <1>2, <1>5, <1>17, <2>1 DEF StillAlive
  <2>2. CASE ~CancelThen(p, NoResult)
    <3> DEFINE pc == IF p \in Checks THEN "reread" ELSE "commit"
               i == [inv[p] EXCEPT !.pc = pc, !.tries = 0]
    <3>1. inv' = [inv EXCEPT ![p] = i]
      BY <1>17, <2>2 DEF StillAlive
    <3>2. i.gen = inv[p].gen /\ i.pc = pc
      BY <1>1 DEF Invocation
    <3>3. Mild(i)
      BY <1>17, <3>2 DEF StillAlive, OnTheWay, Past, Holding
    <3> QED
      BY <1>2, <1>17, <3>1, <3>3 DEF StillAlive
  <2> QED
    BY <2>1, <2>2
<1>18. CASE LoseOperation(p)
  <2>1. CASE \E r : Finish(p, r)
    BY <1>2, <1>4, <1>18, <2>1 DEF LoseOperation
  <2>2. CASE ~\E r : Finish(p, r)
    <3> DEFINE i == [inv[p] EXCEPT !.pc = "survey", !.rounds = inv[p].rounds + 1,
                                   !.gen = 0, !.tries = 0]
    <3>1. inv' = [inv EXCEPT ![p] = i]
      BY <1>18, <2>2 DEF LoseOperation
    <3>2. i.gen = 0 /\ i.pc = "survey"
      BY <1>1 DEF Invocation
    <3>3. Mild(i)
      BY <3>2 DEF OnTheWay, Past, Holding
    <3> QED
      BY <1>2, <1>18, <3>1, <3>3 DEF LoseOperation
  <2> QED
    BY <2>1, <2>2
<1>19. CASE Cancel(p)
  <2>1. Renamed
    BY <1>19, RenameQuiet DEF Cancel, Kinds
  <2>2. Go(p, "lost") \/ Finish(p, inv[p].result)
    BY <1>19 DEF Cancel
  <2> QED
    BY <1>3, <1>4, <1>19, <2>1, <2>2 DEF Cancel, OnTheWay, Past, Holding
<1>20. CASE Fetch(p)
  <2>1. PICK d : inv' = [inv EXCEPT ![p].pc = "commit", ![p].found = d]
    BY <1>20 DEF Fetch
  <2> DEFINE i == [inv[p] EXCEPT !.pc = "commit", !.found = d]
  <2>2. inv' = [inv EXCEPT ![p] = i]
    BY <2>1
  <2>3. i.gen = inv[p].gen /\ i.pc = "commit"
    BY <1>1 DEF Invocation
  <2>4. Mild(i)
    BY <1>20, <2>3 DEF Fetch, OnTheWay, Past, Holding
  <2> QED
    BY <1>2, <1>20, <2>2, <2>4 DEF Fetch
<1>21. CASE ListLower(p)
  <2> DEFINE i == [inv[p] EXCEPT !.pc = "fence", !.todo = Lower(inv[p].gen)]
  <2>2. inv' = [inv EXCEPT ![p] = i]
    BY <1>21 DEF ListLower
  <2>3. i.gen = inv[p].gen /\ i.pc = "fence"
    BY <1>1 DEF Invocation
  <2>4. Mild(i)
    BY <1>21, <2>3 DEF ListLower, OnTheWay, Past, Holding
  <2> QED
    BY <1>2, <1>21, <2>2, <2>4 DEF ListLower
<1>22. CASE FenceLower(p)
  <2>1. CASE Go(p, "still") /\ UNCHANGED op
    BY <1>2, <1>3, <1>22, <2>1 DEF FenceLower, OnTheWay, Past, Holding
  <2>2. CASE ~(Go(p, "still") /\ UNCHANGED op)
    <3>1. PICK g \in inv[p].todo : /\ op' = Rename(g, "fenced")
                                   /\ inv' = [inv EXCEPT ![p].todo = inv[p].todo \ {g}]
      BY <1>22, <2>2 DEF FenceLower, AfterRename
    <3> DEFINE i == [inv[p] EXCEPT !.todo = inv[p].todo \ {g}]
    <3>2. inv' = [inv EXCEPT ![p] = i]
      BY <3>1
    <3>3. i.gen = inv[p].gen /\ i.pc = inv[p].pc
      BY <1>1 DEF Invocation
    <3>4. Mild(i)
      BY <1>22, <3>3 DEF FenceLower, OnTheWay, Past, Holding
    <3>5. Renamed
      BY <3>1, RenameQuiet DEF Kinds
    <3> QED
      BY <1>22, <3>2, <3>4, <3>5 DEF FenceLower
  <2> QED
    BY <2>1, <2>2
<1>23. CASE DecideCheck(p)
  <2>1. UNCHANGED <<op, claim, retired>> /\ inv[p].pc = "decide"
    BY <1>23 DEF DecideCheck
  <2>2. (\E r : CancelThen(p, r)) \/ \E s, r : Publishing(p, s, r)
    BY <1>23 DEF DecideCheck
  <2> QED
    BY <1>2, <1>5, <1>7, <2>1, <2>2
<1>24. CASE DecideAck(p)
  <2>1. UNCHANGED <<op, claim, retired>> /\ inv[p].pc = "decide"
    BY <1>24 DEF DecideAck
  <2>2. (\E r : CancelThen(p, r)) \/ \E s, r : Publishing(p, s, r)
    BY <1>24 DEF DecideAck
  <2> QED
    BY <1>2, <1>5, <1>7, <2>1, <2>2
<1>25. CASE Publish(p)
  <2>1. UNCHANGED <<claim, retired>> /\ inv[p].pc = "publish"
    BY <1>25 DEF Publish
  <2>2. Renamed
    BY <1>25 DEF Publish, TypeOK, Active
  <2>3. CASE inv' = [inv EXCEPT ![p].pc = "lost", ![p].result = NoResult,
                                ![p].next = EmptyState]
    <3> DEFINE i == [inv[p] EXCEPT !.pc = "lost", !.result = NoResult, !.next = EmptyState]
    <3>1. inv' = [inv EXCEPT ![p] = i]
      BY <2>3
    <3>2. i.gen = inv[p].gen /\ i.pc = "lost"
      BY <1>1 DEF Invocation
    <3>3. Mild(i)
      BY <3>2 DEF OnTheWay, Past, Holding
    <3> QED
      BY <2>1, <2>2, <3>1, <3>3
  <2>4. \/ inv' = [inv EXCEPT ![p].pc = "lost", ![p].result = NoResult,
                              ![p].next = EmptyState]
        \/ EndUnavailable(p) \/ \E r : Finish(p, r)
    BY <1>25 DEF Publish
  <2> QED
    BY <1>4, <1>6, <2>1, <2>2, <2>3, <2>4
<1>26. CASE Fails(p)
  <2>1. Renamed
    BY <1>2, <1>26, RenameQuiet DEF Fails, Kinds
  <2> QED
    BY <1>6, <1>26, <2>1 DEF Fails
<1>27. CASE Crash(p)
  <2> DEFINE i == [NotStarted EXCEPT !.pc = "crashed"]
  <2>1. i.gen = 0 /\ i.pc = "crashed"
    BY DEF NotStarted
  <2>2. Mild(i)
    BY <2>1 DEF OnTheWay, Past, Holding
  <2> QED
    BY <1>2, <1>27, <2>2 DEF Crash
<1> QED
  BY <1>10, <1>11, <1>12, <1>13, <1>14, <1>15, <1>16, <1>17, <1>18, <1>19,
     <1>20, <1>21, <1>22, <1>23, <1>24, <1>25, <1>26, <1>27

LEMMA StartQuiet ==
  ASSUME TypeOK, NEW p \in Invocations, Start(p)
  PROVE  Quiet
<1>1. UNCHANGED <<op, claim, retired>>
  BY DEF Start
<1>2. \A q \in Invocations \ {p} : /\ inv'[q].gen = inv[q].gen /\ inv'[q].pc = inv[q].pc
                                   /\ inv'[q].victim = inv[q].victim
  <2>1. \A q \in Invocations \ {p} : inv'[q] = [inv[q] EXCEPT !.alone = FALSE]
    BY DEF Start
  <2> QED
    BY <2>1 DEF TypeOK, Invocation
<1>3. inv'[p].gen = 0 /\ inv'[p].pc \in {"read", "survey"}
  <2> DEFINE pc == IF p \in Checks THEN "read" ELSE "survey"
  <2>1. PICK seen, alone : inv'[p] = [NotStarted EXCEPT !.pc = pc, !.seen = seen, !.alone = alone]
    BY DEF Start
  <2> QED
    BY <2>1 DEF NotStarted
<1>4. inv'[p].pc \notin OnTheWay \cup Past /\ inv'[p].pc # "retire"
  BY <1>3 DEF OnTheWay, Past, Holding
<1> QED
  BY <1>1, <1>2, <1>3, <1>4 DEF Quiet, Active

LEMMA LapseQuiet ==
  ASSUME TypeOK, NEW g \in Gens, Lapse(g)
  PROVE  Quiet
<1>1. UNCHANGED <<claim, retired>> /\ op' = [op EXCEPT ![g].live = FALSE]
  BY DEF Lapse
<1>2. \A q \in Invocations : /\ inv'[q].gen = inv[q].gen /\ inv'[q].pc = inv[q].pc
                             /\ inv'[q].victim = inv[q].victim
  BY DEF Lapse, TypeOK, Invocation
<1>3. \A h \in Gens : /\ op[h].kind # "free" => op'[h].kind # "free"
                      /\ Active(h)' => Active(h)
  BY <1>1 DEF TypeOK, Active
<1> QED
  BY <1>1, <1>2, <1>3 DEF Quiet

(* The steps that have a part in it.                                       *)
LEMMA ReserveKeepsClaimInv ==
  ASSUME TypeOK, ClaimInv, NEW p \in Invocations, ReserveGeneration(p)
  PROVE  ClaimInv'
<1>1. CASE Finish(p, Silent) /\ UNCHANGED op
  <2> DEFINE i == Ending(p, Silent)
  <2>1. i.gen = 0 /\ i.pc = "done"
    BY DEF Ending, NotStarted
  <2>2. UNCHANGED <<claim, retired>>
    BY DEF ReserveGeneration
  <2>3. Quiet
    BY <1>1, <2>1, <2>2, QuietIf DEF Finish, OnTheWay, Past, Holding, Active
  <2> QED
    BY <2>3, QuietKeepsClaimInv
<1>2. CASE ~(Finish(p, Silent) /\ UNCHANGED op)
  <2>1. PICK g \in Gens : /\ op[g].kind = "free"
                          /\ op' = [op EXCEPT ![g].kind = "reserved"]
                          /\ inv' = [inv EXCEPT ![p].pc = "mkdir", ![p].gen = g]
    BY <1>2 DEF ReserveGeneration
  <2>2. UNCHANGED <<claim, retired>>
    BY DEF ReserveGeneration
  <2>3. \A q \in Invocations : /\ inv'[q].gen = IF q = p THEN g ELSE inv[q].gen
                               /\ inv'[q].pc = IF q = p THEN "mkdir" ELSE inv[q].pc
                               /\ inv'[q].victim = inv[q].victim
    BY <2>1 DEF TypeOK, Invocation
  <2>4. \A h \in Gens : /\ op'[h].kind = IF h = g THEN "reserved" ELSE op[h].kind
                        /\ Active(h)' = Active(h)
    BY <2>1 DEF TypeOK, Active
  <2>5. /\ \A q \in Invocations : inv[q].gen \in Gens \cup {0} /\ inv[q].victim \in Gens \cup {0}
        /\ claim \in Gens \cup {0} /\ retired \subseteq Gens /\ g # 0
    BY DEF TypeOK, Invocation, Gens
  <2>6. g # claim /\ g \notin retired /\ \A q \in Invocations : inv[q].gen # g
    BY <2>1, <2>5 DEF ClaimInv, ReservedOnce
  <2>7. ReservedOnce'
    BY <2>2, <2>3, <2>4, <2>5, <2>6 DEF ClaimInv, ReservedOnce
  <2>8. NotYetClaimed'
    BY <2>2, <2>3, <2>4, <2>5, <2>6 DEF ClaimInv, NotYetClaimed
  <2>9. ClaimedWhileLive'
    BY <2>2, <2>3, <2>4, <2>5, <2>6 DEF ClaimInv, ClaimedWhileLive, Past, Holding
  <2>10. RetiresTheClaim'
    BY <2>2, <2>3, <2>4, <2>5, <2>6 DEF ClaimInv, RetiresTheClaim
  <2> QED
    BY <2>7, <2>8, <2>9, <2>10 DEF ClaimInv
<1> QED
  BY <1>1, <1>2

(* The lease of p begins: its generation has never been the claim.         *)
LEMMA LeaseKeepsClaimInv ==
  ASSUME TypeOK, ClaimInv, NEW p \in Invocations, MakePending(p) \/ WriteOwner(p)
  PROVE  ClaimInv'
<1> DEFINE g == inv[p].gen
<1>1. inv[p].pc \in {"mkdir", "own"} /\ g \in Gens /\ g # claim /\ g \notin retired
  BY DEF MakePending, WriteOwner, At, ClaimInv, NotYetClaimed, OnTheWay, TypeOK, Invocation
<1>2. UNCHANGED <<claim, retired>>
  BY DEF MakePending, WriteOwner
<1>3. \A h \in Gens : /\ op[h].kind # "free" => op'[h].kind # "free"
                      /\ h # g => Active(h)' = Active(h)
  <2>1. CASE MakePending(p)
    BY <1>1, <2>1 DEF MakePending, TypeOK, Active
  <2>2. CASE WriteOwner(p)
    BY <1>1, <2>2 DEF WriteOwner, TypeOK, Active
  <2> QED
    BY <2>1, <2>2
<1>4. \A q \in Invocations : /\ inv'[q].gen = inv[q].gen /\ inv'[q].victim = inv[q].victim
                             /\ q # p => inv'[q].pc = inv[q].pc
                             /\ inv'[p].pc \in {"own", "promote", "lost"}
  <2>1. PICK pc \in {"own", "promote", "lost"} : Go(p, pc)
    BY DEF MakePending, WriteOwner
  <2> QED
    BY <2>1 DEF Go, TypeOK, Invocation
<1>5. /\ \A q \in Invocations : inv[q].gen \in Gens \cup {0} /\ inv[q].victim \in Gens \cup {0}
      /\ claim \in Gens \cup {0} /\ retired \subseteq Gens /\ g # 0
  BY <1>1 DEF TypeOK, Invocation, Gens
<1>6. \A q \in Invocations : q # p => inv[q].gen # g
  BY <1>5 DEF ClaimInv, ReservedOnce
<1>7. inv'[p].pc \notin Past /\ inv'[p].pc # "retire"
  BY <1>4 DEF Past, Holding
<1> HIDE DEF g
<1>8. ReservedOnce'
  BY <1>2, <1>3, <1>4, <1>5 DEF ClaimInv, ReservedOnce
<1>9. NotYetClaimed'
  <2>1. \A q \in Invocations : inv'[q].pc \in OnTheWay => inv[q].pc \in OnTheWay
    BY <1>1, <1>4 DEF OnTheWay
  <2> QED
    BY <1>2, <1>4, <2>1 DEF ClaimInv, NotYetClaimed
<1>10. ClaimedWhileLive'
  <2> SUFFICES ASSUME NEW q \in Invocations, inv'[q].pc \in Past
               PROVE  inv'[q].gen # 0 /\ (Active(inv[q].gen)' => claim' = inv'[q].gen)
    BY <1>4 DEF ClaimedWhileLive
  <2>1. q # p /\ inv[q].pc \in Past
    BY <1>4, <1>7
  <2>2. inv[q].gen # 0 /\ (Active(inv[q].gen) => claim = inv[q].gen)
    BY <2>1 DEF ClaimInv, ClaimedWhileLive
  <2>3. Active(inv[q].gen)' = Active(inv[q].gen)
    BY <1>3, <1>4, <1>5, <1>6, <2>1, <2>2
  <2> QED
    BY <1>2, <1>4, <2>2, <2>3
<1>11. RetiresTheClaim'
  <2> SUFFICES ASSUME NEW q \in Invocations, inv'[q].pc = "retire"
               PROVE  /\ inv'[q].victim # 0
                      /\ inv'[q].victim \notin retired'
                           => claim' = inv'[q].victim /\ ~Active(inv[q].victim)'
    BY <1>4 DEF RetiresTheClaim
  <2>1. q # p /\ inv[q].pc = "retire"
    BY <1>4, <1>7
  <2>2. /\ inv[q].victim # 0
        /\ inv[q].victim \notin retired => claim = inv[q].victim /\ ~Active(inv[q].victim)
    BY <2>1 DEF ClaimInv, RetiresTheClaim
  <2>3. inv[q].victim \notin retired => Active(inv[q].victim)' = Active(inv[q].victim)
    BY <1>1, <1>3, <1>4, <1>5, <2>2
  <2> QED
    BY <1>2, <1>4, <2>2, <2>3
<1> QED
  BY <1>8, <1>9, <1>10, <1>11 DEF ClaimInv

LEMMA ProbeKeepsClaimInv ==
  ASSUME TypeOK, ClaimInv, NEW p \in Invocations, ProbeClaim(p)
  PROVE  ClaimInv'
<1>1. UNCHANGED <<op, claim, retired>> /\ inv[p].pc = "probe"
  BY DEF ProbeClaim, At
<1>2. CASE inv' = [inv EXCEPT ![p].pc = "retire", ![p].victim = claim] /\ claim # 0 /\ ~Active(claim)
  <2>1. \A q \in Invocations : /\ inv'[q].gen = inv[q].gen
                               /\ inv'[q].pc = IF q = p THEN "retire" ELSE inv[q].pc
                               /\ inv'[q].victim = IF q = p THEN claim ELSE inv[q].victim
    BY <1>2 DEF TypeOK, Invocation
  <2>2. \A g : Active(g)' = Active(g)
    BY <1>1 DEF Active
  <2>3. ReservedOnce'
    BY <1>1, <2>1 DEF ClaimInv, ReservedOnce
  <2>4. NotYetClaimed'
    BY <1>1, <2>1 DEF ClaimInv, NotYetClaimed, OnTheWay
  <2>5. ClaimedWhileLive'
    BY <1>1, <2>1, <2>2 DEF ClaimInv, ClaimedWhileLive, Past, Holding
  <2>6. RetiresTheClaim'
    <3> SUFFICES ASSUME NEW q \in Invocations, inv'[q].pc = "retire"
                 PROVE  /\ inv'[q].victim # 0
                        /\ inv'[q].victim \notin retired
                             => claim = inv'[q].victim /\ ~Active(inv[q].victim)'
      BY <1>1 DEF RetiresTheClaim
    <3>1. CASE q = p
      BY <1>2, <2>1, <2>2, <3>1
    <3>2. CASE q # p
      BY <2>1, <2>2, <3>2 DEF ClaimInv, RetiresTheClaim
    <3> QED
      BY <3>1, <3>2
  <2> QED
    BY <2>3, <2>4, <2>5, <2>6 DEF ClaimInv
<1>3. CASE Go(p, "claim") \/ CancelThen(p, NoResult)
  <2>1. \E i : /\ inv' = [inv EXCEPT ![p] = i] /\ i.gen = inv[p].gen
               /\ i.pc \in {"claim", "cancel"}
    <3>1. CASE Go(p, "claim")
      <4> DEFINE i == [inv[p] EXCEPT !.pc = "claim"]
      <4>1. inv' = [inv EXCEPT ![p] = i] /\ i.gen = inv[p].gen /\ i.pc = "claim"
        BY <3>1 DEF Go, TypeOK, Invocation
      <4> QED
        BY <4>1
    <3>2. CASE CancelThen(p, NoResult)
      <4> DEFINE i == [inv[p] EXCEPT !.pc = "cancel", !.result = NoResult, !.tries = 0,
                                     !.found = None]
      <4>1. inv' = [inv EXCEPT ![p] = i] /\ i.gen = inv[p].gen /\ i.pc = "cancel"
        BY <3>2 DEF CancelThen, TypeOK, Invocation
      <4> QED
        BY <4>1
    <3> QED
      BY <1>3, <3>1, <3>2
  <2>2. PICK i : /\ inv' = [inv EXCEPT ![p] = i] /\ i.gen = inv[p].gen
                 /\ i.pc \in {"claim", "cancel"}
    BY <2>1
  <2>3. Quiet
    BY <1>1, <2>2, QuietIf DEF OnTheWay, Past, Holding, Active
  <2> QED
    BY <2>3, QuietKeepsClaimInv
<1> QED
  BY <1>2, <1>3 DEF ProbeClaim, Blocked

(* What is moved away is the claim that was inspected, with no lease.      *)
LEMMA RetireKeepsClaimInv ==
  ASSUME TypeOK, ClaimInv, NEW p \in Invocations, RetireClaim(p)
  PROVE  ClaimInv' /\ (Busy => claim' = claim)
<1> DEFINE v == inv[p].victim
<1>1. inv[p].pc = "retire" /\ UNCHANGED op /\ v # 0 /\ v \in Gens
  BY DEF RetireClaim, At, ClaimInv, RetiresTheClaim, TypeOK, Invocation
<1>2. \A q \in Invocations : /\ inv'[q].gen = inv[q].gen
                             /\ inv'[q].pc = IF q = p THEN "promote" ELSE inv[q].pc
                             /\ inv'[q].victim = IF q = p THEN 0 ELSE inv[q].victim
  BY DEF RetireClaim, TypeOK, Invocation
<1>3. \A g : Active(g)' = Active(g)
  BY <1>1 DEF Active
<1>4. \/ UNCHANGED <<claim, retired>>
      \/ /\ claim' = 0 /\ retired' = retired \cup {v}
         /\ claim = v /\ v \notin retired /\ ~Active(v)
  BY <1>1 DEF RetireClaim, Movable, ClaimInv, RetiresTheClaim
<1> HIDE DEF v
<1>5. ReservedOnce'
  BY <1>1, <1>2, <1>4 DEF ClaimInv, ReservedOnce
<1>6. NotYetClaimed'
  BY <1>1, <1>2, <1>4 DEF ClaimInv, NotYetClaimed, OnTheWay
<1>7. ClaimedWhileLive'
  BY <1>1, <1>2, <1>3, <1>4 DEF ClaimInv, ClaimedWhileLive, Past, Holding
<1>8. RetiresTheClaim'
  BY <1>1, <1>2, <1>3, <1>4 DEF ClaimInv, RetiresTheClaim
<1>9. Busy => claim' = claim
  BY <1>4 DEF Busy
<1> QED
  BY <1>5, <1>6, <1>7, <1>8, <1>9 DEF ClaimInv

LEMMA TakeKeepsClaimInv ==
  ASSUME TypeOK, ClaimInv, NEW p \in Invocations, TakeClaim(p)
  PROVE  ClaimInv' /\ (Busy => claim' = claim)
<1> DEFINE g == inv[p].gen
<1>1. /\ inv[p].pc = "claim" /\ UNCHANGED <<op, retired>>
      /\ g # 0 /\ g # claim /\ g \notin retired
  BY DEF TakeClaim, At, ClaimInv, NotYetClaimed, OnTheWay
<1>2. CASE claim # 0
  <2> DEFINE i == [inv[p] EXCEPT !.pc = "promote"]
  <2>1. inv' = [inv EXCEPT ![p] = i] /\ i.gen = inv[p].gen /\ i.pc = "promote"
    BY <1>2 DEF TakeClaim, Go, TypeOK, Invocation
  <2>2. UNCHANGED claim
    BY <1>2 DEF TakeClaim
  <2>3. Quiet
    BY <1>1, <2>1, <2>2, QuietIf DEF OnTheWay, Past, Holding, Active
  <2> QED
    BY <2>2, <2>3, QuietKeepsClaimInv
<1>3. CASE claim = 0
  <2>1. claim' = g /\ Go(p, "alive")
    BY <1>3 DEF TakeClaim
  <2>2. \A q \in Invocations : /\ inv'[q].gen = inv[q].gen /\ inv'[q].victim = inv[q].victim
                               /\ inv'[q].pc = IF q = p THEN "alive" ELSE inv[q].pc
    BY <2>1 DEF Go, TypeOK, Invocation
  <2>3. \A h : Active(h)' = Active(h)
    BY <1>1 DEF Active
  <2>4. \A q \in Invocations : q # p => inv[q].gen # g
    BY <1>1 DEF ClaimInv, ReservedOnce
  <2>5. op[g].kind # "free" /\ inv'[p].pc \notin OnTheWay
    BY <1>1, <2>2 DEF ClaimInv, ReservedOnce, OnTheWay
  <2>6. ReservedOnce'
    BY <1>1, <2>1, <2>2, <2>5 DEF ClaimInv, ReservedOnce
  <2>7. NotYetClaimed'
    BY <1>1, <2>1, <2>2, <2>4, <2>5 DEF ClaimInv, NotYetClaimed
  <2>8. ClaimedWhileLive'
    <3> SUFFICES ASSUME NEW q \in Invocations, inv'[q].pc \in Past
                 PROVE  inv[q].gen # 0 /\ (Active(inv[q].gen) => g = inv[q].gen)
      BY <2>1, <2>2, <2>3 DEF ClaimedWhileLive
    <3> QED
      BY <1>1, <1>3, <2>2 DEF ClaimInv, ClaimedWhileLive
  <2>9. RetiresTheClaim'
    <3> SUFFICES ASSUME NEW q \in Invocations, inv'[q].pc = "retire"
                 PROVE  inv[q].victim # 0 /\ inv[q].victim \in retired
      BY <1>1, <2>2 DEF RetiresTheClaim
    <3> QED
      BY <1>1, <1>3, <2>2 DEF ClaimInv, RetiresTheClaim
  <2>10. ~Busy
    BY <1>3 DEF Busy
  <2> QED
    BY <2>6, <2>7, <2>8, <2>9, <2>10 DEF ClaimInv
<1> QED
  BY <1>2, <1>3

LEMMA NextKeepsClaimInv ==
  ASSUME TypeOK, ClaimInv, [Next]_vars
  PROVE  ClaimInv' /\ (Busy => claim' = claim)
<1>1. CASE UNCHANGED vars
  <2>1. Quiet
    BY <1>1 DEF vars, Quiet, Active
  <2> QED
    BY <2>1, QuietKeepsClaimInv DEF Quiet
<1>2. ASSUME Quiet
      PROVE  ClaimInv' /\ (Busy => claim' = claim)
  BY <1>2, QuietKeepsClaimInv DEF Quiet
<1>3. ASSUME NEW p \in Invocations, Start(p) \/ Step(p) \/ Fails(p) \/ Crash(p)
      PROVE  ClaimInv' /\ (Busy => claim' = claim)
  <2>1. CASE Start(p)
    BY <1>2, <2>1, StartQuiet
  <2>2. CASE ReserveGeneration(p)
    BY <2>2, ReserveKeepsClaimInv DEF ReserveGeneration
  <2>3. CASE MakePending(p) \/ WriteOwner(p)
    BY <2>3, LeaseKeepsClaimInv DEF MakePending, WriteOwner
  <2>4. CASE ProbeClaim(p)
    BY <2>4, ProbeKeepsClaimInv DEF ProbeClaim
  <2>5. CASE RetireClaim(p)
    BY <2>5, RetireKeepsClaimInv
  <2>6. CASE TakeClaim(p)
    BY <2>6, TakeKeepsClaimInv
  <2> QED
    BY <1>2, <1>3, <2>1, <2>2, <2>3, <2>4, <2>5, <2>6, QuietSteps DEF Step
<1>4. ASSUME NEW g \in Gens, Lapse(g)
      PROVE  ClaimInv' /\ (Busy => claim' = claim)
  BY <1>2, <1>4, LapseQuiet
<1> QED
  BY <1>1, <1>3, <1>4 DEF Next

-----------------------------------------------------------------------------
LEMMA InitTyped == Init => TypeOK /\ ClaimInv
<1> SUFFICES ASSUME Init
             PROVE  TypeOK /\ ClaimInv
  OBVIOUS
<1>1. \A p \in Invocations : inv[p] = NotStarted
  BY DEF Init
<1>2. NotStarted.gen = 0 /\ NotStarted.pc = "idle"
  BY DEF NotStarted
<1>3. TypeOK
  BY NotStartedTyped, EmptyStateTyped DEF Init, TypeOK, Unreserved, Kinds
<1>4. ClaimInv
  BY <1>1, <1>2 DEF Init, ClaimInv, ReservedOnce, NotYetClaimed, ClaimedWhileLive,
                    RetiresTheClaim, OnTheWay, Past, Holding
<1> QED
  BY <1>3, <1>4

LEMMA Inductive == Spec => [](TypeOK /\ ClaimInv)
<1>1. TypeOK /\ ClaimInv /\ [Next]_vars => TypeOK' /\ ClaimInv'
  <2> SUFFICES ASSUME TypeOK, ClaimInv, [Next]_vars
               PROVE  TypeOK' /\ ClaimInv'
    OBVIOUS
  <2>1. Retiring
    BY DEF ClaimInv, RetiresTheClaim, Retiring
  <2> QED
    BY <2>1, NextTyped, NextKeepsClaimInv
<1> QED
  BY <1>1, InitTyped, PTL DEF Spec

(* Whatever the number of invocations and generations, the cache directory *)
(* and every invocation keep their types.                                  *)
THEOREM TypeCorrect == Spec => []TypeOK
BY Inductive, PTL

(* The claim of an operation whose lease runs is never moved away, however *)
(* long ago those who retire claims have inspected it.                     *)
THEOREM LiveClaimIsKept == Spec => LiveClaimKept
<1>1. TypeOK /\ ClaimInv /\ [Next]_vars => [Busy => claim' = claim]_claim
  BY NextKeepsClaimInv
<1> QED
  BY <1>1, Inductive, PTL DEF Spec, LiveClaimKept

(* Two operations that fetch within their leases both have the claim, and  *)
(* therefore are one.                                                      *)
THEOREM FetchesAreExclusive == Spec => []OneFetchPerLease
<1>1. ClaimInv => OneFetchPerLease
  BY DEF ClaimInv, ReservedOnce, ClaimedWhileLive, OneFetchPerLease, At, Past, Holding
<1> QED
  BY <1>1, Inductive, PTL
=============================================================================
