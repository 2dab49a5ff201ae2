------------------------- MODULE UpdateLedgerProofs -------------------------
(***************************************************************************)
(* The state that readers of the cache directory see follows UpdateLedger. *)
(* The argument is the numbering of the operations: one that commits has   *)
(* fenced every lower operation that was pending, and no lower one becomes *)
(* pending later and gets to the claim, so nobody else can commit between  *)
(* the moment it reads the current state and its own commit.  The same     *)
(* numbering lets an invocation that comes alone get to the claim.         *)
(***************************************************************************)
EXTENDS UpdateCheckProofs

-----------------------------------------------------------------------------
(* The state of the highest committed generation.                          *)
LEMMA NextCurrentIsHighest ==
  ASSUME NEW g \in Committed', \A h \in Committed' : h <= g
  PROVE  Current' = op'[g].state
<1> DEFINE top == CHOOSE k \in Committed' : \A h \in Committed' : h <= k
<1>1. top \in Committed' /\ \A h \in Committed' : h <= top
  OBVIOUS
<1>2. top \in Int /\ g \in Int
  BY <1>1 DEF Committed, Gens
<1>3. top <= g /\ g <= top
  BY <1>1
<1> HIDE DEF top
<1>4. top = g
  BY <1>2, <1>3
<1> USE DEF top
<1> QED
  BY <1>4 DEF Current

SameCommits ==
  \A g \in Gens : /\ op'[g].kind = "committed" <=> op[g].kind = "committed"
                  /\ op[g].kind = "committed" => op'[g].state = op[g].state

LEMMA CurrentUnchanged ==
  ASSUME SameCommits
  PROVE  Current' = Current
<1>1. Committed' = Committed
  BY DEF SameCommits, Committed
<1>2. CASE Committed = {}
  BY <1>1, <1>2 DEF Current
<1>3. CASE Committed # {}
  <2> DEFINE top == CHOOSE k \in Committed : \A h \in Committed : h <= k
  <2>1. \E k \in Committed : \A h \in Committed : h <= k
    BY <1>3, HighestExists DEF Committed
  <2>2. top \in Committed
    BY <2>1
  <2>3. Current = op[top].state
    BY <1>3 DEF Current
  <2>4. Current' = op'[top].state
    BY <1>1, <1>3 DEF Current
  <2> HIDE DEF top
  <2> QED
    BY <2>2, <2>3, <2>4 DEF SameCommits, Committed
<1> QED
  BY <1>2, <1>3

(* A reader's state knows what it may announce.                            *)
Known(s) == s.candidate \in Newer => s.candidate \in s.offered \cup s.acked

LEMMA CurrentKnown == Known(Current)
<1>1. CASE Committed = {}
  BY <1>1, UpdateAssumption DEF Current, EmptyState, Known, UpdateAssumption
<1>2. CASE Committed # {}
  <2> DEFINE top == CHOOSE k \in Committed : \A h \in Committed : h <= k
  <2>1. \E k \in Committed : \A h \in Committed : h <= k
    BY <1>2, HighestExists DEF Committed
  <2>2. top \in Committed
    BY <2>1
  <2>3. Current = op[top].state
    BY <1>2 DEF Current
  <2> HIDE DEF top
  <2> QED
    BY <2>2, <2>3 DEF Committed, Normal, Known
<1> QED
  BY <1>1, <1>2

-----------------------------------------------------------------------------
(* One state after another in the ledger.                                  *)
Follows(s, t) ==
  \/ t.candidate = s.candidate /\ t.offered = s.offered /\ t.acked = s.acked
  \/ \E d \in Newer \ s.acked :
       t.candidate = d /\ t.offered = s.offered \cup {d} /\ t.acked = s.acked
  \/ \E d \in Digests : /\ d \in Newer => d \in s.acked
                        /\ t.candidate = d /\ t.offered = s.offered /\ t.acked = s.acked
  \/ \E d \in s.offered \cup s.acked :
       t.candidate = s.candidate /\ t.offered = s.offered \ {d} /\ t.acked = s.acked \cup {d}
  \/ t.candidate = None /\ t.offered = s.offered /\ t.acked = s.acked

LEMMA FailureFollows ==
  ASSUME NEW s \in State, NEW now \in Int, NEW withdraw \in BOOLEAN, Known(s)
  PROVE  /\ Follows(s, AfterFailure(s, now, withdraw))
         /\ Known(AfterFailure(s, now, withdraw))
<1> DEFINE t == AfterFailure(s, now, withdraw)
<1>1. /\ t.candidate = IF withdraw THEN None ELSE s.candidate
      /\ t.offered = s.offered /\ t.acked = s.acked
  BY DEF AfterFailure, State
<1>2. None \notin Newer
  BY UpdateAssumption DEF UpdateAssumption
<1> HIDE DEF t
<1>3. Known(t)
  BY <1>1, <1>2 DEF Known
<1>4. Follows(s, t)
  BY <1>1 DEF Follows
<1> QED
  BY <1>3, <1>4 DEF t

LEMMA SuccessFollows ==
  ASSUME NEW s \in State, NEW now \in Int, NEW d \in Digests, NEW delay \in Int, Known(s)
  PROVE  Follows(s, AfterSuccess(s, now, d, delay)) /\ Known(AfterSuccess(s, now, d, delay))
<1> DEFINE t == AfterSuccess(s, now, d, delay)
<1>1. /\ t.candidate = d /\ t.acked = s.acked
      /\ t.offered = IF d \in Newer \ s.acked THEN s.offered \cup {d} ELSE s.offered
  BY DEF AfterSuccess, State
<1> HIDE DEF t
<1>2. Known(t)
  BY <1>1 DEF Known
<1>3. Follows(s, t)
  BY <1>1 DEF Follows
<1> QED
  BY <1>2, <1>3 DEF t

LEMMA AcknowledgementFollows ==
  ASSUME NEW s \in State, NEW d \in s.offered \cup s.acked, Known(s)
  PROVE  Follows(s, AfterAcknowledgement(s, d)) /\ Known(AfterAcknowledgement(s, d))
<1> DEFINE t == AfterAcknowledgement(s, d)
<1>1. /\ t.candidate = s.candidate /\ t.acked = s.acked \cup {d}
      /\ t.offered = s.offered \ {d}
  BY DEF AfterAcknowledgement, State
<1> HIDE DEF t
<1>2. Known(t)
  BY <1>1 DEF Known
<1>3. Follows(s, t)
  BY <1>1 DEF Follows
<1> QED
  BY <1>2, <1>3 DEF t

(* Following is what the ledger allows.                                    *)
LEMMA FollowingIsALedgerStep ==
  ASSUME Current \in State, Follows(Current, Current')
  PROVE  [Ledger!LedgerNext]_(Offers(Current))
<1> DEFINE s == Current
           t == Current'
           a == Offers(Current)
           b == Offers(Current)'
<1>1. /\ a = [candidate |-> s.candidate, offered |-> s.offered, acked |-> s.acked]
      /\ b = [candidate |-> t.candidate, offered |-> t.offered, acked |-> t.acked]
  BY DEF Offers
<1>2. a.candidate = s.candidate /\ a.offered = s.offered /\ a.acked = s.acked
  BY <1>1
<1> SUFFICES ASSUME b # a
             PROVE  Ledger!LedgerNext
  OBVIOUS
<1>3. CASE t.candidate = s.candidate /\ t.offered = s.offered /\ t.acked = s.acked
  BY <1>1, <1>3
<1>4. ASSUME NEW d \in Newer \ s.acked,
             t.candidate = d /\ t.offered = s.offered \cup {d} /\ t.acked = s.acked
      PROVE  Ledger!Offer(d)
  BY <1>1, <1>2, <1>4 DEF Ledger!Offer, Ledger!Entry
<1>5. ASSUME NEW d \in Digests, d \in Newer => d \in s.acked,
             t.candidate = d /\ t.offered = s.offered /\ t.acked = s.acked
      PROVE  Ledger!Keep(d)
  BY <1>1, <1>2, <1>5 DEF Ledger!Keep, Ledger!Entry
<1>6. ASSUME NEW d \in s.offered \cup s.acked, t.candidate = s.candidate,
             t.offered = s.offered \ {d} /\ t.acked = s.acked \cup {d}
      PROVE  Ledger!Acknowledge(d)
  BY <1>1, <1>2, <1>6 DEF Ledger!Acknowledge, Ledger!Entry
<1>7. CASE t.candidate = None /\ t.offered = s.offered /\ t.acked = s.acked
  BY <1>1, <1>2, <1>7 DEF Ledger!Withdraw, Ledger!Entry, Ledger!LedgerNext
<1>8. Newer \subseteq Digests /\ s.offered \subseteq Digests /\ s.acked \subseteq Digests
  BY UpdateAssumption DEF UpdateAssumption, State
<1>9. CASE \E d \in Digests : Ledger!Offer(d) \/ Ledger!Keep(d) \/ Ledger!Acknowledge(d)
  BY <1>9 DEF Ledger!LedgerNext
<1> HIDE DEF s, t, a, b
<1>10. Follows(s, t)
  BY DEF s, t
<1> QED
  BY <1>3, <1>4, <1>5, <1>6, <1>7, <1>8, <1>9, <1>10 DEF Follows

-----------------------------------------------------------------------------
(* Who passed the look at younger reservations is never behind one that    *)
(* has committed, and is on the list of every one that lists later.        *)
Unchallenged == {"probe", "retire", "claim"} \cup Past
Listed == {"fence", "still", "decide", "publish"}

ReservedFirst ==
  \A p \in Invocations : inv[p].pc = "mkdir" => op[inv[p].gen].kind = "reserved"

LowerFenced ==
  \A p, q \in Invocations :
    /\ inv[p].pc \in Unchallenged /\ op[inv[p].gen].kind = "pending"
    /\ inv[q].pc \in Listed /\ inv[p].gen < inv[q].gen
    => inv[p].gen \in inv[q].todo

OlderCommitted ==
  \A p \in Invocations :
    inv[p].pc \in Unchallenged /\ op[inv[p].gen].kind = "pending"
      => \A h \in Gens : op[h].kind = "committed" => h < inv[p].gen

Emptied ==
  \A p \in Invocations : inv[p].pc \in Listed \ {"fence"} => inv[p].todo = {}

(* What is about to be committed follows what is current.                  *)
PublishesNext ==
  \A p \in Invocations :
    inv[p].pc = "publish" =>
      /\ Normal(inv[p].next)
      /\ op[inv[p].gen].kind = "pending" => Follows(Current, inv[p].next)

FenceInv == ReservedFirst /\ LowerFenced /\ OlderCommitted /\ Emptied /\ PublishesNext

(* Most steps do not bear on it.                                           *)
Aside ==
  /\ SameCommits
  /\ \A g \in Gens : /\ op'[g].kind = "pending" => op[g].kind = "pending"
                     /\ op[g].kind = "reserved" => op'[g].kind = "reserved"
  /\ \A q \in Invocations :
       /\ inv'[q].pc = "mkdir" => inv[q].pc = "mkdir" /\ inv'[q].gen = inv[q].gen
       /\ inv'[q].pc \in Unchallenged
            => inv[q].pc \in Unchallenged /\ inv'[q].gen = inv[q].gen
       /\ inv'[q].pc \in Listed
            => inv[q].pc \in Listed /\ inv'[q].gen = inv[q].gen /\ inv'[q].todo = inv[q].todo
       /\ inv'[q].pc \in Listed \ {"fence"} => inv[q].pc # "fence"
       /\ inv'[q].pc = "publish" => inv[q].pc = "publish" /\ inv'[q].next = inv[q].next

LEMMA AsideKeepsFenceInv ==
  ASSUME TypeOK, TypeOK', ClaimInv, FenceInv, Aside
  PROVE  FenceInv' /\ Current' = Current
<1>1. \A p \in Invocations : /\ inv[p].gen \in Gens \cup {0}
                             /\ inv[p].pc \in Unchallenged \cup {"mkdir"} => inv[p].gen \in Gens
  BY DEF TypeOK, Invocation, ClaimInv, NotYetClaimed, ClaimedWhileLive, Unchallenged, OnTheWay
<1>2. Current' = Current
  BY CurrentUnchanged DEF Aside
<1>3. Listed \subseteq Unchallenged
  BY DEF Listed, Unchallenged, Past, Holding
<1>4. ReservedFirst'
  BY <1>1 DEF FenceInv, ReservedFirst, Aside
<1>5. LowerFenced'
  BY <1>1 DEF FenceInv, LowerFenced, Aside
<1>6. OlderCommitted'
  BY <1>1 DEF FenceInv, OlderCommitted, Aside, SameCommits
<1>7. Emptied'
  BY DEF FenceInv, Emptied, Aside
<1>8. PublishesNext'
  <2> SUFFICES ASSUME NEW p \in Invocations, inv'[p].pc = "publish"
               PROVE  /\ Normal(inv'[p].next)
                      /\ op'[inv'[p].gen].kind = "pending" => Follows(Current', inv'[p].next)
    BY DEF PublishesNext
  <2>1. inv[p].pc = "publish" /\ inv'[p].next = inv[p].next /\ inv'[p].gen = inv[p].gen
    BY DEF Aside, Listed
  <2>2. inv[p].gen \in Gens
    BY <1>1, <1>3, <2>1 DEF Listed
  <2> QED
    BY <1>2, <2>1, <2>2 DEF FenceInv, PublishesNext, Aside
<1> QED
  BY <1>2, <1>4, <1>5, <1>6, <1>7, <1>8 DEF FenceInv

(* A step of p is aside if it commits nothing, opens nothing, and takes p  *)
(* into none of the guarded places.                                        *)
Apart(p, i) ==
  /\ i.pc # "mkdir"
  /\ i.pc \in Unchallenged => inv[p].pc \in Unchallenged /\ i.gen = inv[p].gen
  /\ i.pc \in Listed
       => inv[p].pc \in Listed /\ i.gen = inv[p].gen /\ i.todo = inv[p].todo
  /\ i.pc \in Listed \ {"fence"} => inv[p].pc # "fence"
  /\ i.pc # "publish"

Renames ==
  /\ SameCommits
  /\ \A g \in Gens : /\ op'[g].kind = "pending" => op[g].kind = "pending"
                     /\ op[g].kind = "reserved" => op'[g].kind = "reserved"

LEMMA AsideIf ==
  ASSUME TypeOK, NEW p \in Invocations, NEW i, inv' = [inv EXCEPT ![p] = i],
         Renames, Apart(p, i)
  PROVE  Aside
<1>1. \A q \in Invocations : inv'[q] = IF q = p THEN i ELSE inv[q]
  BY DEF TypeOK
<1> QED
  BY <1>1 DEF Aside, Apart, Renames

LEMMA RenameRenames ==
  ASSUME TypeOK, NEW g, NEW kind \in {"fenced", "cancelled"}, op' = Rename(g, kind)
  PROVE  Renames
BY DEF TypeOK, Rename, Renames, SameCommits

LEMMA SameRenames == UNCHANGED op => Renames
BY DEF Renames, SameCommits

(* The updates that take p out of every guarded place.                     *)
LEMMA LeavesApart ==
  ASSUME TypeOK, NEW p \in Invocations,
         \/ \E r : Finish(p, r) \/ CancelThen(p, r)
         \/ EndUnavailable(p)
         \/ \E pc \in {"lost", "survey"} : Go(p, pc)
  PROVE  \E i : inv' = [inv EXCEPT ![p] = i] /\ Apart(p, i)
<1> USE DEF Unchallenged, Listed, Past, Holding
<1>1. inv[p] \in Invocation
  BY DEF TypeOK
<1>2. ASSUME NEW r, Finish(p, r)
      PROVE  \E i : inv' = [inv EXCEPT ![p] = i] /\ Apart(p, i)
  <2>1. Ending(p, r).pc = "done"
    BY DEF Ending, NotStarted
  <2> QED
    BY <1>2, <2>1 DEF Finish, Apart
<1>3. ASSUME NEW r, CancelThen(p, r)
      PROVE  \E i : inv' = [inv EXCEPT ![p] = i] /\ Apart(p, i)
  <2> DEFINE i == [inv[p] EXCEPT !.pc = "cancel", !.result = r, !.tries = 0, !.found = None]
  <2>1. inv' = [inv EXCEPT ![p] = i]
    BY <1>3 DEF CancelThen
  <2>2. i.pc = "cancel"
    BY <1>1 DEF Invocation
  <2> QED
    BY <2>1, <2>2 DEF Apart
<1>4. CASE EndUnavailable(p)
  <2> DEFINE i == [NotStarted EXCEPT !.pc = "done", !.result = Silent]
  <2>1. i.pc = "done"
    BY DEF NotStarted
  <2> QED
    BY <1>4, <2>1 DEF EndUnavailable, Apart
<1>5. ASSUME NEW pc \in {"lost", "survey"}, Go(p, pc)
      PROVE  \E i : inv' = [inv EXCEPT ![p] = i] /\ Apart(p, i)
  <2> DEFINE i == [inv[p] EXCEPT !.pc = pc]
  <2>1. inv' = [inv EXCEPT ![p] = i]
    BY <1>5 DEF Go
  <2>2. i.pc = pc
    BY <1>1 DEF Invocation
  <2> QED
    BY <2>1, <2>2 DEF Apart
<1> QED
  BY <1>2, <1>3, <1>4, <1>5

LEMMA GoApart ==
  ASSUME TypeOK, NEW p \in Invocations, NEW pc, Go(p, pc),
         pc \notin {"mkdir", "publish"},
         pc \in Unchallenged => inv[p].pc \in Unchallenged,
         pc \in Listed => inv[p].pc \in Listed \ {"fence"}
  PROVE  \E i : inv' = [inv EXCEPT ![p] = i] /\ Apart(p, i)
<1> DEFINE i == [inv[p] EXCEPT !.pc = pc]
<1>1. inv' = [inv EXCEPT ![p] = i]
  BY DEF Go
<1>2. i.pc = pc /\ i.gen = inv[p].gen /\ i.todo = inv[p].todo
  BY DEF TypeOK, Invocation
<1> QED
  BY <1>1, <1>2 DEF Apart

LEMMA AsideSteps ==
  ASSUME TypeOK, NEW p \in Invocations,
         \/ ReadCache(p) \/ SurveyPending(p) \/ WriteOwner(p) \/ ProbeClaim(p)
         \/ RetireClaim(p) \/ TakeClaim(p) \/ StillAlive(p) \/ LoseOperation(p)
         \/ Cancel(p) \/ RereadCache(p) \/ CheckOwnership(p) \/ Fetch(p)
         \/ BeginCommit(p) \/ RecheckOwnership(p) \/ Fails(p) \/ Crash(p)
  PROVE  Aside
<1> USE DEF At
<1>1. inv \in [Invocations -> Invocation] /\ inv[p] \in Invocation
  BY DEF TypeOK
<1> DEFINE Shape == \E i : inv' = [inv EXCEPT ![p] = i] /\ Apart(p, i)
<1> SUFFICES Renames /\ Shape
  <2>1. PICK i : inv' = [inv EXCEPT ![p] = i] /\ Apart(p, i)
    OBVIOUS
  <2> QED
    BY <2>1, AsideIf
<1>2. ASSUME NEW r, Finish(p, r) \/ CancelThen(p, r)
      PROVE  Shape
  BY <1>2, LeavesApart
<1>3. ASSUME EndUnavailable(p)
      PROVE  Shape
  BY <1>3, LeavesApart
<1>4. ASSUME NEW pc \in {"lost", "survey"}, Go(p, pc)
      PROVE  Shape
  BY <1>4, LeavesApart
<1>5. ASSUME NEW pc, Go(p, pc), pc \notin {"mkdir", "publish"},
             pc \in Unchallenged => inv[p].pc \in Unchallenged,
             pc \in Listed => inv[p].pc \in Listed \ {"fence"}
      PROVE  Shape
  BY <1>5, GoApart
<1> HIDE DEF Shape
<1>10. CASE ReadCache(p)
  <2>1. Finish(p, ResultFor(Current)) \/ Go(p, "survey")
    BY <1>10 DEF ReadCache
  <2> QED
    BY <1>2, <1>4, <1>10, <2>1, SameRenames DEF ReadCache
<1>11. CASE SurveyPending(p)
  <2>1. Go(p, "lost") \/ Go(p, "reserve")
    BY <1>11 DEF SurveyPending
  <2>2. "reserve" \notin Unchallenged \cup Listed \cup {"mkdir", "publish"}
    BY DEF Unchallenged, Listed, Past, Holding
  <2> QED
    BY <1>4, <1>5, <1>11, <2>1, <2>2, SameRenames DEF SurveyPending
<1>12. CASE WriteOwner(p)
  <2>1. Go(p, "promote") \/ Go(p, "lost")
    BY <1>12 DEF WriteOwner
  <2>2. "promote" \notin Unchallenged \cup Listed \cup {"mkdir", "publish"}
    BY DEF Unchallenged, Listed, Past, Holding
  <2>3. Renames
    BY <1>12 DEF WriteOwner, TypeOK, Renames, SameCommits
  <2> QED
    BY <1>4, <1>5, <2>1, <2>2, <2>3
<1>13. CASE ProbeClaim(p)
  <2>1. CASE Go(p, "claim") \/ CancelThen(p, NoResult)
    <3>1. "claim" \notin Listed \cup {"mkdir", "publish"} /\ inv[p].pc \in Unchallenged
      BY <1>13 DEF ProbeClaim, Unchallenged, Listed
    <3> QED
      BY <1>2, <1>5, <1>13, <2>1, <3>1, SameRenames DEF ProbeClaim
  <2>2. CASE ~(Go(p, "claim") \/ CancelThen(p, NoResult))
    <3> DEFINE i == [inv[p] EXCEPT !.pc = "retire", !.victim = claim]
    <3>1. inv' = [inv EXCEPT ![p] = i]
      BY <1>13, <2>2 DEF ProbeClaim
    <3>2. i.pc = "retire" /\ i.gen = inv[p].gen
      BY <1>1 DEF Invocation
    <3>3. Apart(p, i)
      BY <1>13, <3>2 DEF ProbeClaim, Apart, Unchallenged, Listed
    <3> QED
      BY <1>13, <3>1, <3>3, SameRenames DEF ProbeClaim, Shape
  <2> QED
    BY <2>1, <2>2
<1>14. CASE RetireClaim(p)
  <2> DEFINE i == [inv[p] EXCEPT !.pc = "promote", !.victim = 0]
  <2>1. inv' = [inv EXCEPT ![p] = i]
    BY <1>14 DEF RetireClaim
  <2>2. i.pc = "promote"
    BY <1>1 DEF Invocation
  <2>3. Apart(p, i)
    BY <2>2 DEF Apart, Unchallenged, Listed, Past, Holding
  <2> QED
    BY <1>14, <2>1, <2>3, SameRenames DEF RetireClaim, Shape
<1>15. CASE TakeClaim(p)
  <2>1. Go(p, "alive") \/ Go(p, "promote")
    BY <1>15 DEF TakeClaim
  <2>2. /\ "promote" \notin Unchallenged \cup Listed \cup {"mkdir", "publish"}
        /\ "alive" \notin Listed \cup {"mkdir", "publish"} /\ inv[p].pc \in Unchallenged
    BY <1>15 DEF TakeClaim, Unchallenged, Listed, Past, Holding
  <2> QED
    BY <1>5, <1>15, <2>1, <2>2, SameRenames DEF TakeClaim
<1>16. CASE StillAlive(p)
  <2>1. CASE CancelThen(p, NoResult)
    BY <1>2, <1>16, <2>1, SameRenames DEF StillAlive
  <2>2. CASE ~CancelThen(p, NoResult)
    <3> DEFINE pc == IF p \in Checks THEN "reread" ELSE "commit"
               i == [inv[p] EXCEPT !.pc = pc, !.tries = 0]
    <3>1. inv' = [inv EXCEPT ![p] = i]
      BY <1>16, <2>2 DEF StillAlive
    <3>2. i.gen = inv[p].gen /\ i.pc = pc
      BY <1>1 DEF Invocation
    <3>3. Apart(p, i)
      BY <1>16, <3>2 DEF StillAlive, Apart, Unchallenged, Listed, Past, Holding
    <3> QED
      BY <1>16, <3>1, <3>3, SameRenames DEF StillAlive, Shape
  <2> QED
    BY <2>1, <2>2
<1>17. CASE LoseOperation(p)
  <2>1. CASE \E r : Finish(p, r)
    BY <1>2, <1>17, <2>1, SameRenames DEF LoseOperation
  <2>2. CASE ~\E r : Finish(p, r)
    <3> DEFINE i == [inv[p] EXCEPT !.pc = "survey", !.rounds = inv[p].rounds + 1,
                                   !.gen = 0, !.tries = 0]
    <3>1. inv' = [inv EXCEPT ![p] = i]
      BY <1>17, <2>2 DEF LoseOperation
    <3>2. i.pc = "survey"
      BY <1>1 DEF Invocation
    <3>3. Apart(p, i)
      BY <3>2 DEF Apart, Unchallenged, Listed, Past, Holding
    <3> QED
      BY <1>17, <3>1, <3>3, SameRenames DEF LoseOperation, Shape
  <2> QED
    BY <2>1, <2>2
<1>18. CASE Cancel(p)
  <2>1. Renames
    BY <1>18, RenameRenames DEF Cancel
  <2>2. Go(p, "lost") \/ Finish(p, inv[p].result)
    BY <1>18 DEF Cancel
  <2> QED
    BY <1>2, <1>4, <2>1, <2>2
<1>19. CASE RereadCache(p)
  <2>1. CancelThen(p, ResultFor(Current)) \/ Go(p, "owns")
    BY <1>19 DEF RereadCache
  <2>2. "owns" \notin Listed \cup {"mkdir", "publish"} /\ inv[p].pc \in Unchallenged
    BY <1>19 DEF RereadCache, Unchallenged, Listed, Past, Holding
  <2> QED
    BY <1>2, <1>5, <1>19, <2>1, <2>2, SameRenames DEF RereadCache
<1>20. CASE CheckOwnership(p)
  <2>1. CancelThen(p, NoResult) \/ Go(p, "fetch")
    BY <1>20 DEF CheckOwnership
  <2>2. "fetch" \notin Listed \cup {"mkdir", "publish"} /\ inv[p].pc \in Unchallenged
    BY <1>20 DEF CheckOwnership, Unchallenged, Listed, Past, Holding
  <2> QED
    BY <1>2, <1>5, <1>20, <2>1, <2>2, SameRenames DEF CheckOwnership
<1>21. CASE Fetch(p)
  <2>1. PICK d : inv' = [inv EXCEPT ![p].pc = "commit", ![p].found = d]
    BY <1>21 DEF Fetch
  <2> DEFINE i == [inv[p] EXCEPT !.pc = "commit", !.found = d]
  <2>2. inv' = [inv EXCEPT ![p] = i]
    BY <2>1
  <2>3. i.pc = "commit" /\ i.gen = inv[p].gen
    BY <1>1 DEF Invocation
  <2>4. Apart(p, i)
    BY <1>21, <2>3 DEF Fetch, Apart, Unchallenged, Listed, Past, Holding
  <2> QED
    BY <1>21, <2>2, <2>4, SameRenames DEF Fetch, Shape
<1>22. CASE BeginCommit(p)
  <2>1. (\E r : CancelThen(p, r)) \/ Go(p, "list")
    BY <1>22 DEF BeginCommit, Fenced
  <2>2. "list" \notin Listed \cup {"mkdir", "publish"} /\ inv[p].pc \in Unchallenged
    BY <1>22 DEF BeginCommit, Unchallenged, Listed, Past, Holding
  <2> QED
    BY <1>2, <1>5, <1>22, <2>1, <2>2, SameRenames DEF BeginCommit
<1>23. CASE RecheckOwnership(p)
  <2>1. (\E r : CancelThen(p, r)) \/ Go(p, "decide")
    BY <1>23 DEF RecheckOwnership, Fenced
  <2>2. inv[p].pc \in Unchallenged /\ inv[p].pc \in Listed \ {"fence"}
    BY <1>23 DEF RecheckOwnership, Unchallenged, Listed, Past, Holding
  <2> QED
    BY <1>2, <1>5, <1>23, <2>1, <2>2, SameRenames DEF RecheckOwnership
<1>24. CASE Fails(p)
  <2>1. Renames
    BY <1>24, RenameRenames, SameRenames DEF Fails
  <2> QED
    BY <1>3, <1>24, <2>1 DEF Fails
<1>25. CASE Crash(p)
  <2> DEFINE i == [NotStarted EXCEPT !.pc = "crashed"]
  <2>1. i.pc = "crashed"
    BY DEF NotStarted
  <2>2. Apart(p, i)
    BY <2>1 DEF Apart, Unchallenged, Listed, Past, Holding
  <2> QED
    BY <1>25, <2>2, SameRenames DEF Crash, Shape
<1> QED
  BY <1>10, <1>11, <1>12, <1>13, <1>14, <1>15, <1>16, <1>17, <1>18, <1>19,
     <1>20, <1>21, <1>22, <1>23, <1>24, <1>25

LEMMA StartAside ==
  ASSUME TypeOK, NEW p \in Invocations, Start(p)
  PROVE  Aside
<1>1. UNCHANGED op
  BY DEF Start
<1>2. \A q \in Invocations \ {p} :
        /\ inv'[q].gen = inv[q].gen /\ inv'[q].pc = inv[q].pc
        /\ inv'[q].todo = inv[q].todo /\ inv'[q].next = inv[q].next
  <2>1. \A q \in Invocations \ {p} : inv'[q] = [inv[q] EXCEPT !.alone = FALSE]
    BY DEF Start
  <2>2. \A q \in Invocations : inv[q] \in Invocation
    BY DEF TypeOK
  <2> QED
    BY <2>1, <2>2 DEF Invocation
<1>3. inv'[p].pc \in {"read", "survey"}
  <2> DEFINE pc == IF p \in Checks THEN "read" ELSE "survey"
  <2>1. PICK seen, alone : inv'[p] = [NotStarted EXCEPT !.pc = pc, !.seen = seen, !.alone = alone]
    BY DEF Start
  <2> QED
    BY <2>1 DEF NotStarted
<1>4. inv'[p].pc \notin Unchallenged \cup Listed \cup {"mkdir", "publish"}
  BY <1>3 DEF Unchallenged, Listed, Past, Holding
<1> QED
  BY <1>1, <1>2, <1>4, SameRenames DEF Aside, Renames

LEMMA LapseAside ==
  ASSUME TypeOK, NEW g \in Gens, Lapse(g)
  PROVE  Aside
<1>1. op' = [op EXCEPT ![g].live = FALSE]
  BY DEF Lapse
<1>2. \A q \in Invocations :
        /\ inv'[q].gen = inv[q].gen /\ inv'[q].pc = inv[q].pc
        /\ inv'[q].todo = inv[q].todo /\ inv'[q].next = inv[q].next
  BY DEF Lapse, TypeOK, Invocation
<1>3. Renames
  BY <1>1 DEF TypeOK, Renames, SameCommits
<1> QED
  BY <1>2, <1>3 DEF Aside, Renames, Listed

-----------------------------------------------------------------------------
(* The steps that bear on it.                                              *)
LEMMA PlacesTyped ==
  ASSUME TypeOK, ClaimInv, NEW p \in Invocations, inv[p].pc \in Unchallenged \cup OnTheWay
  PROVE  inv[p].gen \in Gens /\ inv[p].gen \in Nat /\ op[inv[p].gen].kind # "free"
<1>1. inv[p].gen \in Gens \cup {0} /\ inv[p].gen # 0
  BY DEF TypeOK, Invocation, ClaimInv, NotYetClaimed, ClaimedWhileLive, Unchallenged, OnTheWay
<1> QED
  BY <1>1 DEF Gens, ClaimInv, ReservedOnce

LEMMA OwnGeneration ==
  ASSUME TypeOK, ClaimInv, NEW p \in Invocations, NEW q \in Invocations, p # q,
         inv[p].pc \in Unchallenged \cup OnTheWay
  PROVE  inv[p].gen # inv[q].gen
BY PlacesTyped DEF ClaimInv, ReservedOnce, Gens

LEMMA ReserveKeepsFenceInv ==
  ASSUME TypeOK, ClaimInv, FenceInv, NEW p \in Invocations, ReserveGeneration(p), TypeOK'
  PROVE  FenceInv' /\ Current' = Current
<1>1. CASE Finish(p, Silent) /\ UNCHANGED op
  <2>1. PICK i : inv' = [inv EXCEPT ![p] = i] /\ Apart(p, i)
    BY <1>1, LeavesApart
  <2>2. Aside
    BY <1>1, <2>1, SameRenames, AsideIf
  <2> QED
    BY <2>2, AsideKeepsFenceInv
<1>2. CASE ~(Finish(p, Silent) /\ UNCHANGED op)
  <2>1. PICK g \in Gens : /\ op[g].kind = "free"
                          /\ op' = [op EXCEPT ![g].kind = "reserved"]
                          /\ inv' = [inv EXCEPT ![p].pc = "mkdir", ![p].gen = g]
    BY <1>2 DEF ReserveGeneration
  <2>2. \A q \in Invocations :
          /\ inv'[q].gen = IF q = p THEN g ELSE inv[q].gen
          /\ inv'[q].pc = IF q = p THEN "mkdir" ELSE inv[q].pc
          /\ inv'[q].todo = inv[q].todo /\ inv'[q].next = inv[q].next
    <3>1. \A q \in Invocations : inv[q] \in Invocation
      BY DEF TypeOK
    <3>2. \A q \in Invocations :
            inv'[q] = IF q = p THEN [inv[q] EXCEPT !.pc = "mkdir", !.gen = g] ELSE inv[q]
      BY <2>1 DEF TypeOK
    <3> QED
      BY <3>1, <3>2 DEF Invocation
  <2>3. \A h \in Gens : /\ op'[h].kind = IF h = g THEN "reserved" ELSE op[h].kind
                        /\ op'[h].state = op[h].state
    BY <2>1 DEF TypeOK
  <2>4. SameCommits
    BY <2>1, <2>3 DEF SameCommits
  <2>5. Current' = Current
    BY <2>4, CurrentUnchanged
  <2>6. \A q \in Invocations : inv[q].pc \in Unchallenged \cup OnTheWay => inv[q].gen \in Gens
    BY PlacesTyped
  <2>7. "mkdir" \notin Unchallenged \cup Listed /\ Listed \subseteq Unchallenged
    BY DEF Unchallenged, Listed, Past, Holding
  <2>8. \A q \in Invocations : inv[q].gen # g
    BY <2>1 DEF ClaimInv, ReservedOnce, Gens
  <2>9. ReservedFirst'
    BY <2>2, <2>3, <2>6 DEF FenceInv, ReservedFirst, OnTheWay
  <2>10. LowerFenced'
    BY <2>2, <2>3, <2>6, <2>7 DEF FenceInv, LowerFenced
  <2>11. OlderCommitted'
    BY <2>2, <2>3, <2>6, <2>7 DEF FenceInv, OlderCommitted
  <2>12. Emptied'
    BY <2>2, <2>7 DEF FenceInv, Emptied
  <2>13. PublishesNext'
    <3> SUFFICES ASSUME NEW q \in Invocations, inv'[q].pc = "publish"
                 PROVE  /\ Normal(inv'[q].next)
                        /\ op'[inv'[q].gen].kind = "pending" => Follows(Current', inv'[q].next)
      BY DEF PublishesNext
    <3>1. inv[q].pc = "publish" /\ inv'[q].next = inv[q].next /\ inv'[q].gen = inv[q].gen
      BY <2>2
    <3>2. inv[q].gen \in Gens
      BY <2>6, <2>7, <3>1 DEF Listed
    <3> QED
      BY <2>3, <2>5, <3>1, <3>2 DEF FenceInv, PublishesNext
  <2> QED
    BY <2>5, <2>9, <2>10, <2>11, <2>12, <2>13 DEF FenceInv
<1> QED
  BY <1>1, <1>2

(* A directory opened under its reservation belongs to nobody else's past. *)
LEMMA MakeKeepsFenceInv ==
  ASSUME TypeOK, ClaimInv, FenceInv, NEW p \in Invocations, MakePending(p), TypeOK'
  PROVE  FenceInv' /\ Current' = Current
<1> DEFINE g == inv[p].gen
<1>1. inv[p].pc = "mkdir" /\ op[g].kind = "reserved" /\ g \in Gens
  BY PlacesTyped DEF MakePending, At, FenceInv, ReservedFirst, OnTheWay
<1>2. \A q \in Invocations :
        /\ inv'[q].gen = inv[q].gen /\ inv'[q].todo = inv[q].todo /\ inv'[q].next = inv[q].next
        /\ inv'[q].pc = IF q = p THEN "own" ELSE inv[q].pc
  BY DEF MakePending, Go, TypeOK, Invocation
<1>3. \A h \in Gens : /\ op'[h].kind = IF h = g THEN "pending" ELSE op[h].kind
                      /\ op'[h].state = op[h].state
  BY <1>1 DEF MakePending, TypeOK
<1>4. \A q \in Invocations : q # p => inv[q].gen # g
  BY <1>1, OwnGeneration DEF OnTheWay
<1>5. \A q \in Invocations : inv[q].pc \in Unchallenged \cup OnTheWay => inv[q].gen \in Gens
  BY PlacesTyped
<1>6. "own" \notin Unchallenged \cup Listed /\ Listed \subseteq Unchallenged
  BY DEF Unchallenged, Listed, Past, Holding
<1> HIDE DEF g
<1>7. SameCommits
  BY <1>1, <1>3 DEF SameCommits
<1>8. Current' = Current
  BY <1>7, CurrentUnchanged
<1>9. ReservedFirst'
  BY <1>2, <1>3, <1>4, <1>5 DEF FenceInv, ReservedFirst, OnTheWay
<1>10. LowerFenced'
  <2> SUFFICES ASSUME NEW q \in Invocations, NEW r \in Invocations,
                      inv'[q].pc \in Unchallenged, op'[inv'[q].gen].kind = "pending",
                      inv'[r].pc \in Listed, inv'[q].gen < inv'[r].gen
               PROVE  inv'[q].gen \in inv'[r].todo
    BY DEF LowerFenced
  <2>1. q # p /\ inv[q].pc \in Unchallenged /\ r # p /\ inv[r].pc \in Listed
    BY <1>2, <1>6
  <2>2. op[inv[q].gen].kind = "pending"
    BY <1>2, <1>3, <1>4, <1>5, <2>1
  <2> QED
    BY <1>2, <2>1, <2>2 DEF FenceInv, LowerFenced
<1>11. OlderCommitted'
  <2> SUFFICES ASSUME NEW q \in Invocations, NEW h \in Gens, inv'[q].pc \in Unchallenged,
                      op'[inv'[q].gen].kind = "pending", op'[h].kind = "committed"
               PROVE  h < inv'[q].gen
    BY DEF OlderCommitted
  <2>1. q # p /\ inv[q].pc \in Unchallenged
    BY <1>2, <1>6
  <2>2. op[inv[q].gen].kind = "pending" /\ op[h].kind = "committed"
    BY <1>2, <1>3, <1>4, <1>5, <2>1
  <2> QED
    BY <1>2, <2>1, <2>2 DEF FenceInv, OlderCommitted
<1>12. Emptied'
  BY <1>2, <1>6 DEF FenceInv, Emptied
<1>13. PublishesNext'
  <2> SUFFICES ASSUME NEW q \in Invocations, inv'[q].pc = "publish"
               PROVE  /\ Normal(inv'[q].next)
                      /\ op'[inv'[q].gen].kind = "pending" => Follows(Current', inv'[q].next)
    BY DEF PublishesNext
  <2>1. inv[q].pc = "publish" /\ q # p
    BY <1>2
  <2>2. inv[q].gen \in Gens
    BY <1>5, <1>6, <2>1 DEF Listed
  <2> QED
    BY <1>2, <1>3, <1>4, <1>8, <2>1, <2>2 DEF FenceInv, PublishesNext
<1> QED
  BY <1>8, <1>9, <1>10, <1>11, <1>12, <1>13 DEF FenceInv

(* When p passes the look at younger reservations, nobody has listed yet   *)
(* above it and nobody has committed above it.                             *)
LEMMA PromoteKeepsFenceInv ==
  ASSUME TypeOK, ClaimInv, FenceInv, NEW p \in Invocations, Promote(p), TypeOK'
  PROVE  FenceInv' /\ Current' = Current
<1> DEFINE g == inv[p].gen
<1>0. inv[p].pc = "promote" /\ UNCHANGED op
  BY DEF Promote, At
<1>1. Current' = Current
  BY <1>0, CurrentUnchanged DEF SameCommits
<1>2. CASE CancelThen(p, NoResult)
  <2>1. PICK i : inv' = [inv EXCEPT ![p] = i] /\ Apart(p, i)
    BY <1>2, LeavesApart
  <2>2. Aside
    BY <1>0, <2>1, SameRenames, AsideIf
  <2> QED
    BY <2>2, AsideKeepsFenceInv
<1>3. CASE ~CancelThen(p, NoResult)
  <2>1. /\ inv' = [inv EXCEPT ![p].pc = "probe", ![p].tries = inv[p].tries + 1]
        /\ \A h \in Gens : h > g => op[h].kind = "free"
    BY <1>3 DEF Promote, Superseded
  <2>2. \A q \in Invocations :
          /\ inv'[q].gen = inv[q].gen /\ inv'[q].todo = inv[q].todo
          /\ inv'[q].next = inv[q].next
          /\ inv'[q].pc = IF q = p THEN "probe" ELSE inv[q].pc
    <3>1. \A q \in Invocations : inv[q] \in Invocation
      BY DEF TypeOK
    <3>2. \A q \in Invocations :
            inv'[q] = IF q = p THEN [inv[q] EXCEPT !.pc = "probe", !.tries = inv[p].tries + 1]
                               ELSE inv[q]
      BY <2>1 DEF TypeOK
    <3> QED
      BY <3>1, <3>2 DEF Invocation
  <2>3. g \in Gens /\ g \in Nat
    BY <1>0, PlacesTyped DEF OnTheWay
  <2>4. \A q \in Invocations : inv[q].pc \in Listed => ~(g < inv[q].gen)
    <3> SUFFICES ASSUME NEW q \in Invocations, inv[q].pc \in Listed
                 PROVE  ~(g < inv[q].gen)
      OBVIOUS
    <3>1. inv[q].gen \in Gens /\ inv[q].gen \in Nat /\ op[inv[q].gen].kind # "free"
      BY PlacesTyped DEF Listed, Unchallenged, Past, Holding
    <3> QED
      BY <2>1, <2>3, <3>1
  <2>5. "probe" \notin Listed \cup {"mkdir", "publish"}
    BY DEF Listed
  <2> HIDE DEF g
  <2>6. ReservedFirst'
    BY <1>0, <2>2 DEF FenceInv, ReservedFirst
  <2>7. LowerFenced'
    BY <1>0, <2>2, <2>4, <2>5 DEF FenceInv, LowerFenced, g
  <2>8. OlderCommitted'
    <3> SUFFICES ASSUME NEW q \in Invocations, NEW h \in Gens, inv'[q].pc \in Unchallenged,
                        op[inv[q].gen].kind = "pending", op[h].kind = "committed"
                 PROVE  h < inv[q].gen
      BY <1>0, <2>2 DEF OlderCommitted
    <3>1. CASE q = p
      <4>1. ~(h > g) /\ h # g /\ h \in Nat
        BY <2>1, <3>1 DEF Gens, g
      <4> QED
        BY <2>3, <3>1, <4>1 DEF g
    <3>2. CASE q # p
      BY <2>2, <3>2 DEF FenceInv, OlderCommitted
    <3> QED
      BY <3>1, <3>2
  <2>9. Emptied'
    BY <2>2, <2>5 DEF FenceInv, Emptied
  <2>10. PublishesNext'
    BY <1>0, <1>1, <2>2 DEF FenceInv, PublishesNext
  <2> QED
    BY <1>1, <2>6, <2>7, <2>8, <2>9, <2>10 DEF FenceInv
<1> QED
  BY <1>2, <1>3

LEMMA ListKeepsFenceInv ==
  ASSUME TypeOK, ClaimInv, FenceInv, NEW p \in Invocations, ListLower(p), TypeOK'
  PROVE  FenceInv' /\ Current' = Current
<1> DEFINE g == inv[p].gen
<1>1. /\ inv[p].pc = "list" /\ UNCHANGED op
      /\ inv' = [inv EXCEPT ![p].pc = "fence", ![p].todo = Lower(g)]
  BY DEF ListLower, At
<1>2. \A q \in Invocations :
        /\ inv'[q].gen = inv[q].gen /\ inv'[q].next = inv[q].next
        /\ inv'[q].todo = IF q = p THEN Lower(g) ELSE inv[q].todo
        /\ inv'[q].pc = IF q = p THEN "fence" ELSE inv[q].pc
  <2>1. \A q \in Invocations : inv[q] \in Invocation
    BY DEF TypeOK
  <2>2. \A q \in Invocations :
          inv'[q] = IF q = p THEN [inv[q] EXCEPT !.pc = "fence", !.todo = Lower(g)] ELSE inv[q]
    BY <1>1 DEF TypeOK
  <2> QED
    BY <2>1, <2>2 DEF Invocation
<1>3. Current' = Current
  BY <1>1, CurrentUnchanged DEF SameCommits
<1>4. inv[p].pc \in Unchallenged
  BY <1>1 DEF Unchallenged, Past, Holding
<1>5. \A q \in Invocations : inv'[q].pc \in Unchallenged => inv[q].pc \in Unchallenged
  BY <1>2, <1>4
<1>6. \A q \in Invocations : inv[q].pc \in Unchallenged => inv[q].gen \in Gens
  BY PlacesTyped
<1> HIDE DEF g
<1>12. UNCHANGED op
  BY <1>1
<1>7. ReservedFirst'
  BY <1>2, <1>12 DEF FenceInv, ReservedFirst
<1>8. LowerFenced'
  <2> SUFFICES ASSUME NEW q \in Invocations, NEW r \in Invocations,
                      inv'[q].pc \in Unchallenged, op[inv[q].gen].kind = "pending",
                      inv'[r].pc \in Listed, inv[q].gen < inv[r].gen
               PROVE  inv[q].gen \in inv'[r].todo
    BY <1>1, <1>2 DEF LowerFenced
  <2>1. CASE r = p
    BY <1>2, <1>5, <1>6, <2>1 DEF Lower, g
  <2>2. CASE r # p
    BY <1>2, <1>5, <2>2 DEF FenceInv, LowerFenced
  <2> QED
    BY <2>1, <2>2
<1>9. OlderCommitted'
  BY <1>1, <1>2, <1>5 DEF FenceInv, OlderCommitted
<1>10. Emptied'
  BY <1>2 DEF FenceInv, Emptied
<1>11. PublishesNext'
  BY <1>2, <1>3, <1>12 DEF FenceInv, PublishesNext
<1> QED
  BY <1>3, <1>7, <1>8, <1>9, <1>10, <1>11 DEF FenceInv

LEMMA FenceKeepsFenceInv ==
  ASSUME TypeOK, ClaimInv, FenceInv, NEW p \in Invocations, FenceLower(p), TypeOK'
  PROVE  FenceInv' /\ Current' = Current
<1>1. inv[p].pc = "fence" /\ inv[p].pc \in Unchallenged /\ Listed \subseteq Unchallenged
  BY DEF FenceLower, At, Unchallenged, Listed, Past, Holding
<1>2. Renames
  BY RenameRenames, SameRenames DEF FenceLower
<1>3. Current' = Current
  BY <1>2, CurrentUnchanged DEF Renames
<1>4. \A q \in Invocations : inv[q].pc \in Unchallenged \cup OnTheWay => inv[q].gen \in Gens
  BY PlacesTyped
<1>5. \A q \in Invocations :
        /\ inv'[q].gen = inv[q].gen /\ inv'[q].next = inv[q].next
        /\ q # p => inv'[q].pc = inv[q].pc /\ inv'[q].todo = inv[q].todo
  <2>1. CASE Go(p, "still")
    BY <2>1 DEF Go, TypeOK, Invocation
  <2>2. CASE \E t : inv' = [inv EXCEPT ![p].todo = t]
    BY <2>2 DEF TypeOK, Invocation
  <2>3. Go(p, "still") \/ \E t : inv' = [inv EXCEPT ![p].todo = t]
    BY DEF FenceLower, AfterRename
  <2> QED
    BY <2>1, <2>2, <2>3
<1>6. \/ inv[p].todo = {} /\ inv'[p].pc = "still" /\ inv'[p].todo = {}
      \/ /\ inv'[p].pc = "fence"
         /\ \E g \in inv[p].todo :
              op' = Rename(g, "fenced") /\ inv'[p].todo = inv[p].todo \ {g}
  <2>1. CASE inv[p].todo = {} /\ Go(p, "still")
    BY <2>1 DEF Go, TypeOK, Invocation
  <2>2. CASE ~(inv[p].todo = {} /\ Go(p, "still"))
    <3>1. PICK g \in inv[p].todo : /\ op' = Rename(g, "fenced")
                                   /\ inv' = [inv EXCEPT ![p].todo = inv[p].todo \ {g}]
      BY <2>2 DEF FenceLower, AfterRename
    <3>2. inv'[p].pc = "fence" /\ inv'[p].todo = inv[p].todo \ {g}
      BY <1>1, <3>1 DEF TypeOK, Invocation
    <3> QED
      BY <3>1, <3>2
  <2> QED
    BY <2>1, <2>2
<1>7. \A q \in Invocations : /\ inv'[q].pc \in Unchallenged => inv[q].pc \in Unchallenged
                             /\ inv'[q].pc \in Listed => inv[q].pc \in Listed
  BY <1>1, <1>5 DEF Listed
<1>8. \A q \in Invocations : q = p => inv'[q].pc \in {"fence", "still"}
  BY <1>6
<1>9. ReservedFirst'
  BY <1>2, <1>4, <1>5, <1>8 DEF FenceInv, ReservedFirst, Renames, OnTheWay
<1>10. LowerFenced'
  <2> SUFFICES ASSUME NEW q \in Invocations, NEW r \in Invocations,
                      inv'[q].pc \in Unchallenged, op'[inv[q].gen].kind = "pending",
                      inv'[r].pc \in Listed, inv[q].gen < inv[r].gen
               PROVE  inv[q].gen \in inv'[r].todo
    BY <1>5 DEF LowerFenced
  <2>1. op[inv[q].gen].kind = "pending" /\ inv[q].gen \in Gens
    BY <1>2, <1>4, <1>7 DEF Renames
  <2>2. inv[q].gen \in inv[r].todo
    BY <1>7, <2>1 DEF FenceInv, LowerFenced
  <2>3. CASE r = p
    <3>1. PICK g \in inv[p].todo :
            op' = Rename(g, "fenced") /\ inv'[p].todo = inv[p].todo \ {g}
      BY <1>6, <2>2, <2>3
    <3>2. inv[q].gen # g
      BY <2>1, <3>1 DEF Rename, TypeOK, Gens
    <3> QED
      BY <2>2, <2>3, <3>1, <3>2
  <2>4. CASE r # p
    BY <1>5, <2>2, <2>4
  <2> QED
    BY <2>3, <2>4
<1>11. OlderCommitted'
  BY <1>2, <1>4, <1>5, <1>7 DEF FenceInv, OlderCommitted, Renames, SameCommits
<1>12. Emptied'
  BY <1>5, <1>6 DEF FenceInv, Emptied
<1>13. PublishesNext'
  <2> SUFFICES ASSUME NEW q \in Invocations, inv'[q].pc = "publish"
               PROVE  /\ Normal(inv'[q].next)
                      /\ op'[inv'[q].gen].kind = "pending" => Follows(Current', inv'[q].next)
    BY DEF PublishesNext
  <2>1. inv[q].pc = "publish" /\ q # p
    BY <1>5, <1>8
  <2>2. inv[q].gen \in Gens
    BY <1>1, <1>4, <2>1 DEF Listed
  <2> QED
    BY <1>2, <1>3, <1>5, <2>1, <2>2 DEF FenceInv, PublishesNext, Renames
<1> QED
  BY <1>3, <1>9, <1>10, <1>11, <1>12, <1>13 DEF FenceInv

(* The state to be published is built on the current one.                  *)
LEMMA PublishingKeepsFenceInv ==
  ASSUME TypeOK, ClaimInv, FenceInv, NEW p \in Invocations, inv[p].pc = "decide",
         UNCHANGED op, NEW s, NEW r, Publishing(p, s, r), Normal(s), Follows(Current, s)
  PROVE  FenceInv' /\ Current' = Current
<1>1. Current' = Current
  BY CurrentUnchanged DEF SameCommits
<1>2. \A q \in Invocations :
        /\ inv'[q].gen = inv[q].gen /\ inv'[q].todo = inv[q].todo
        /\ inv'[q].next = IF q = p THEN s ELSE inv[q].next
        /\ inv'[q].pc = IF q = p THEN "publish" ELSE inv[q].pc
  <2>1. \A q \in Invocations : inv[q] \in Invocation
    BY DEF TypeOK
  <2>2. \A q \in Invocations :
          inv'[q] = IF q = p
                    THEN [inv[q] EXCEPT !.pc = "publish", !.next = s, !.result = r, !.found = None]
                    ELSE inv[q]
    BY DEF Publishing, TypeOK
  <2>3. ASSUME NEW q \in Invocations
        PROVE  /\ inv'[q].gen = inv[q].gen /\ inv'[q].todo = inv[q].todo
               /\ inv'[q].next = IF q = p THEN s ELSE inv[q].next
               /\ inv'[q].pc = IF q = p THEN "publish" ELSE inv[q].pc
    <3>1. CASE q # p
      BY <2>2, <3>1
    <3>2. CASE q = p
      <4>1. inv'[q] = [inv[q] EXCEPT !.pc = "publish", !.next = s, !.result = r, !.found = None]
        BY <2>2, <3>2
      <4>2. inv[q] \in Invocation
        BY <2>1
      <4> QED
        BY <3>2, <4>1, <4>2 DEF Invocation
    <3> QED
      BY <3>1, <3>2
  <2> QED
    BY <2>3
<1>3. \A q \in Invocations : /\ inv'[q].pc \in Unchallenged => inv[q].pc \in Unchallenged
                             /\ inv'[q].pc \in Listed => inv[q].pc \in Listed
                             /\ inv'[q].pc \in Listed \ {"fence"} => inv[q].pc \in Listed \ {"fence"}
  BY <1>2 DEF Unchallenged, Listed, Past, Holding
<1>4. ReservedFirst'
  BY <1>2 DEF FenceInv, ReservedFirst
<1>5. LowerFenced'
  BY <1>2, <1>3 DEF FenceInv, LowerFenced
<1>6. OlderCommitted'
  BY <1>2, <1>3 DEF FenceInv, OlderCommitted
<1>7. Emptied'
  BY <1>2, <1>3 DEF FenceInv, Emptied
<1>8. PublishesNext'
  BY <1>1, <1>2 DEF FenceInv, PublishesNext
<1> QED
  BY <1>1, <1>4, <1>5, <1>6, <1>7, <1>8 DEF FenceInv

LEMMA DecideKeepsFenceInv ==
  ASSUME TypeOK, ClaimInv, FenceInv, NEW p \in Invocations,
         DecideCheck(p) \/ DecideAck(p), TypeOK'
  PROVE  FenceInv' /\ Current' = Current
<1>1. inv[p].pc = "decide" /\ UNCHANGED op
  BY DEF DecideCheck, DecideAck, At
<1>2. Current \in State /\ Known(Current)
  BY CurrentTyped, CurrentKnown
<1>3. ASSUME NEW r, CancelThen(p, r)
      PROVE  FenceInv' /\ Current' = Current
  <2>1. PICK i : inv' = [inv EXCEPT ![p] = i] /\ Apart(p, i)
    BY <1>3, LeavesApart
  <2>2. Aside
    BY <1>1, <2>1, SameRenames, AsideIf
  <2> QED
    BY <2>2, AsideKeepsFenceInv
<1>4. ASSUME NEW s, NEW r, Publishing(p, s, r), Fits(s), Known(s), Follows(Current, s)
      PROVE  FenceInv' /\ Current' = Current
  <2>1. Normal(s)
    BY <1>4 DEF Normal, Known
  <2> QED
    BY <1>1, <1>4, <2>1, PublishingKeepsFenceInv
<1>5. CASE DecideCheck(p)
  <2> DEFINE failed(withdraw) == AfterFailure(Current, NowOf[p], withdraw)
  <2>1. NowOf[p] \in Int
    BY <1>5, DelaysTyped DEF DecideCheck
  <2>2. \A w \in BOOLEAN : Follows(Current, failed(w)) /\ Known(failed(w))
    BY <1>2, <2>1, FailureFollows
  <2>3. CASE inv[p].found = None
    BY <1>3, <1>4, <1>5, <2>2, <2>3 DEF DecideCheck
  <2>4. CASE inv[p].found # None
    <3>1. PICK delay \in SuccessDelays :
            LET next == AfterSuccess(Current, NowOf[p], inv[p].found, delay)
            IN IF Fits(next) THEN Publishing(p, next, ResultFor(next))
               ELSE IF Fits(failed(TRUE)) THEN Publishing(p, failed(TRUE), Silent)
               ELSE CancelThen(p, Silent)
      BY <1>5, <2>4 DEF DecideCheck
    <3> DEFINE next == AfterSuccess(Current, NowOf[p], inv[p].found, delay)
    <3>2. inv[p].found \in Digests
      BY <2>4 DEF TypeOK, Invocation
    <3>3. Follows(Current, next) /\ Known(next)
      BY <1>2, <2>1, <3>2, DelaysTyped, SuccessFollows
    <3>4. \/ Fits(next) /\ Publishing(p, next, ResultFor(next))
          \/ Fits(failed(TRUE)) /\ Publishing(p, failed(TRUE), Silent)
          \/ CancelThen(p, Silent)
      BY <3>1
    <3> HIDE DEF next
    <3> QED
      BY <1>3, <1>4, <2>2, <3>3, <3>4
  <2> QED
    BY <2>3, <2>4
<1>6. CASE DecideAck(p)
  <2> DEFINE d == EventOf[p]
             next == AfterAcknowledgement(Current, d)
  <2>1. \/ CancelThen(p, Silent)
        \/ /\ d \in Current.offered \cup Current.acked /\ Fits(next)
           /\ Publishing(p, next, [status |-> "acknowledged", digest |-> d])
    BY <1>6 DEF DecideAck
  <2>2. d \in Current.offered \cup Current.acked => Follows(Current, next) /\ Known(next)
    BY <1>2, AcknowledgementFollows
  <2> HIDE DEF next
  <2> QED
    BY <1>3, <1>4, <2>1, <2>2
<1> QED
  BY <1>5, <1>6

(* A commit is the only one there is, and the highest.                     *)
LEMMA PublishKeepsFenceInv ==
  ASSUME TypeOK, ClaimInv, FenceInv, NEW p \in Invocations, Publish(p), TypeOK'
  PROVE  /\ FenceInv'
         /\ IF op[inv[p].gen].kind = "pending" THEN Current' = inv[p].next
                                               ELSE Current' = Current
<1> DEFINE g == inv[p].gen
<1>1. inv[p].pc = "publish" /\ inv[p].pc \in Unchallenged /\ inv[p].pc \in Listed
  BY DEF Publish, At, Unchallenged, Listed, Past, Holding
<1>2. g \in Gens /\ g \in Nat
  BY <1>1, PlacesTyped
<1>3. CASE op[g].kind # "pending"
  <2>1. UNCHANGED op
    BY <1>3 DEF Publish
  <2>2. \E i : inv' = [inv EXCEPT ![p] = i] /\ Apart(p, i)
    <3>1. CASE \E r : Finish(p, r)
      BY <3>1, LeavesApart
    <3>2. CASE inv' = [inv EXCEPT ![p].pc = "lost", ![p].result = NoResult,
                                  ![p].next = EmptyState]
      <4> DEFINE i == [inv[p] EXCEPT !.pc = "lost", !.result = NoResult, !.next = EmptyState]
      <4>1. inv' = [inv EXCEPT ![p] = i]
        BY <3>2
      <4>2. i.pc = "lost"
        BY DEF TypeOK, Invocation
      <4>3. Apart(p, i)
        BY <4>2 DEF Apart, Unchallenged, Listed, Past, Holding
      <4> QED
        BY <4>1, <4>3
    <3> QED
      BY <1>3, <3>1, <3>2 DEF Publish
  <2>3. Aside
    BY <2>1, <2>2, SameRenames, AsideIf
  <2> QED
    BY <1>3, <2>3, AsideKeepsFenceInv
<1>4. CASE op[g].kind = "pending"
  <2>1. op' = [op EXCEPT ![g].kind = "committed", ![g].live = FALSE, ![g].state = inv[p].next]
    BY <1>4 DEF Publish
  <2>2. \A h \in Gens : /\ op'[h].kind = IF h = g THEN "committed" ELSE op[h].kind
                        /\ op'[h].state = IF h = g THEN inv[p].next ELSE op[h].state
    BY <1>2, <2>1 DEF TypeOK
  <2>3. /\ \A q \in Invocations \ {p} : inv'[q] = inv[q]
        /\ inv'[p].pc = "done"
    <3>1. PICK i : inv' = [inv EXCEPT ![p] = i] /\ i.pc = "done"
      <4>1. Ending(p, inv[p].result).pc = "done"
            /\ [NotStarted EXCEPT !.pc = "done", !.result = Silent].pc = "done"
        BY DEF Ending, NotStarted
      <4> QED
        BY <1>4, <4>1 DEF Publish, Finish, EndUnavailable
    <3> QED
      BY <3>1 DEF TypeOK
  <2>4. "done" \notin Unchallenged \cup Listed \cup {"mkdir", "publish"}
    BY DEF Unchallenged, Listed, Past, Holding
  <2>5. Normal(inv[p].next) /\ inv[p].todo = {}
    BY <1>1 DEF FenceInv, PublishesNext, Emptied, Listed
  <2>6. ASSUME NEW r \in Invocations, r # p, inv[r].pc \in Unchallenged,
               op[inv[r].gen].kind = "pending"
        PROVE  g < inv[r].gen
    <3>1. inv[r].gen # g /\ inv[r].gen \in Nat
      BY <2>6, OwnGeneration, PlacesTyped
    <3>2. ~(inv[r].gen < g)
      BY <1>1, <2>5, <2>6 DEF FenceInv, LowerFenced
    <3> QED
      BY <1>2, <3>1, <3>2
  <2>7. ASSUME NEW r \in Invocations, r # p, inv[r].pc = "publish"
        PROVE  op[inv[r].gen].kind # "pending"
    <3>1. inv[r].pc \in Unchallenged /\ inv[r].pc \in Listed \ {"fence"}
      BY <2>7 DEF Unchallenged, Listed, Past, Holding
    <3>2. inv[r].todo = {}
      BY <3>1 DEF FenceInv, Emptied
    <3> QED
      BY <1>1, <1>4, <2>6, <2>7, <3>1, <3>2 DEF FenceInv, LowerFenced
  <2>8. Current' = inv[p].next
    <3>1. g \in Committed'
      BY <1>2, <2>2, <2>5 DEF Committed
    <3>2. \A h \in Committed' : h <= g
      <4> SUFFICES ASSUME NEW h \in Gens, op'[h].kind = "committed", h # g
                   PROVE  h <= g
        BY <1>2 DEF Committed
      <4>1. op[h].kind = "committed" /\ h \in Nat
        BY <2>2 DEF Gens
      <4>2. h < g
        BY <1>1, <1>4, <4>1 DEF FenceInv, OlderCommitted
      <4> QED
        BY <1>2, <4>1, <4>2
    <3>3. Current' = op'[g].state
      BY <3>1, <3>2, NextCurrentIsHighest
    <3> QED
      BY <1>2, <2>2, <3>3
  <2>9. \A q \in Invocations : inv[q].pc \in Unchallenged \cup OnTheWay => inv[q].gen \in Gens
    BY PlacesTyped
  <2>10. Listed \subseteq Unchallenged
    BY DEF Unchallenged, Listed, Past, Holding
  <2> HIDE DEF g
  <2>11. ReservedFirst'
    <3> SUFFICES ASSUME NEW q \in Invocations, inv'[q].pc = "mkdir"
                 PROVE  op'[inv'[q].gen].kind = "reserved"
      BY DEF ReservedFirst
    <3>1. inv'[q] = inv[q] /\ inv[q].gen \in Gens
      BY <2>3, <2>9 DEF OnTheWay
    <3>2. op[inv[q].gen].kind = "reserved"
      BY <3>1 DEF FenceInv, ReservedFirst
    <3> QED
      BY <1>4, <2>2, <3>1, <3>2
  <2>12. LowerFenced'
    <3> SUFFICES ASSUME NEW q \in Invocations, NEW r \in Invocations,
                        inv'[q].pc \in Unchallenged, op'[inv'[q].gen].kind = "pending",
                        inv'[r].pc \in Listed, inv'[q].gen < inv'[r].gen
                 PROVE  inv'[q].gen \in inv'[r].todo
      BY DEF LowerFenced
    <3>1. inv'[q] = inv[q] /\ inv'[r] = inv[r] /\ inv[q].gen \in Gens
      BY <2>3, <2>4, <2>9
    <3>2. op[inv[q].gen].kind = "pending"
      BY <2>2, <3>1
    <3> QED
      BY <3>1, <3>2 DEF FenceInv, LowerFenced
  <2>13. OlderCommitted'
    <3> SUFFICES ASSUME NEW q \in Invocations, NEW h \in Gens, inv'[q].pc \in Unchallenged,
                        op'[inv'[q].gen].kind = "pending", op'[h].kind = "committed"
                 PROVE  h < inv'[q].gen
      BY DEF OlderCommitted
    <3>1. q # p /\ inv'[q] = inv[q] /\ inv[q].gen \in Gens
      BY <2>3, <2>4, <2>9
    <3>2. op[inv[q].gen].kind = "pending"
      BY <2>2, <3>1
    <3>3. CASE h = g
      BY <2>6, <3>1, <3>2, <3>3
    <3>4. CASE h # g
      BY <2>2, <3>1, <3>2, <3>4 DEF FenceInv, OlderCommitted
    <3> QED
      BY <3>3, <3>4
  <2>14. Emptied'
    BY <2>3, <2>4 DEF FenceInv, Emptied
  <2>15. PublishesNext'
    <3> SUFFICES ASSUME NEW q \in Invocations, inv'[q].pc = "publish"
                 PROVE  Normal(inv'[q].next) /\ op'[inv'[q].gen].kind # "pending"
      BY DEF PublishesNext
    <3>1. q # p /\ inv'[q] = inv[q]
      BY <2>3
    <3>2. inv[q].gen \in Gens
      BY <2>9, <2>10, <3>1 DEF Listed
    <3>3. op[inv[q].gen].kind # "pending" /\ Normal(inv[q].next)
      BY <2>7, <3>1 DEF FenceInv, PublishesNext
    <3> QED
      BY <2>2, <3>1, <3>2, <3>3
  <2> QED
    BY <1>4, <2>8, <2>11, <2>12, <2>13, <2>14, <2>15 DEF FenceInv, g
<1> QED
  BY <1>3, <1>4

LEMMA NextKeepsFenceInv ==
  ASSUME TypeOK, ClaimInv, FenceInv, [Next]_vars, TypeOK'
  PROVE  FenceInv' /\ Follows(Current, Current')
<1>1. CASE UNCHANGED vars
  <2>1. Aside
    BY <1>1, SameRenames DEF vars, Aside, Renames, Listed
  <2> QED
    BY <2>1, AsideKeepsFenceInv DEF Follows
<1>2. ASSUME Aside
      PROVE  FenceInv' /\ Follows(Current, Current')
  BY <1>2, AsideKeepsFenceInv DEF Follows
<1>3. ASSUME NEW p \in Invocations, Start(p) \/ Step(p) \/ Fails(p) \/ Crash(p)
      PROVE  FenceInv' /\ Follows(Current, Current')
  <2>1. CASE Start(p)
    BY <1>2, <2>1, StartAside
  <2>2. ASSUME FenceInv' /\ Current' = Current
        PROVE  FenceInv' /\ Follows(Current, Current')
    BY <2>2 DEF Follows
  <2>3. CASE ReserveGeneration(p) \/ MakePending(p) \/ Promote(p) \/ ListLower(p)
             \/ FenceLower(p) \/ DecideCheck(p) \/ DecideAck(p)
    BY <2>2, <2>3, ReserveKeepsFenceInv, MakeKeepsFenceInv, PromoteKeepsFenceInv,
       ListKeepsFenceInv, FenceKeepsFenceInv, DecideKeepsFenceInv
  <2>4. CASE Publish(p)
    <3>1. op[inv[p].gen].kind = "pending" => Follows(Current, inv[p].next)
      BY <2>4 DEF Publish, At, FenceInv, PublishesNext
    <3> QED
      BY <2>4, <3>1, PublishKeepsFenceInv DEF Follows
  <2> QED
    BY <1>2, <1>3, <2>1, <2>3, <2>4, AsideSteps DEF Step
<1>4. ASSUME NEW g \in Gens, Lapse(g)
      PROVE  FenceInv' /\ Follows(Current, Current')
  BY <1>2, <1>4, LapseAside
<1> QED
  BY <1>1, <1>3, <1>4 DEF Next

LEMMA InitFenced == Init => FenceInv /\ Current = EmptyState
<1> SUFFICES ASSUME Init
             PROVE  FenceInv /\ Current = EmptyState
  OBVIOUS
<1>1. \A p \in Invocations : inv[p].pc = "idle"
  BY DEF Init, NotStarted
<1>2. FenceInv
  BY <1>1 DEF FenceInv, ReservedFirst, LowerFenced, OlderCommitted, Emptied, PublishesNext,
              Unchallenged, Listed, Past, Holding
<1>3. Committed = {}
  BY DEF Init, Committed, Unreserved
<1> QED
  BY <1>2, <1>3 DEF Current

LEMMA FenceInductive == Spec => [](TypeOK /\ ClaimInv /\ FenceInv)
<1>1. TypeOK /\ ClaimInv /\ FenceInv /\ [Next]_vars => TypeOK' /\ ClaimInv' /\ FenceInv'
  <2> SUFFICES ASSUME TypeOK, ClaimInv, FenceInv, [Next]_vars
               PROVE  TypeOK' /\ ClaimInv' /\ FenceInv'
    OBVIOUS
  <2>1. TypeOK'
    BY NextTyped DEF ClaimInv, RetiresTheClaim, Retiring
  <2> QED
    BY <2>1, NextKeepsClaimInv, NextKeepsFenceInv
<1> QED
  BY <1>1, InitTyped, InitFenced, PTL DEF Spec

(* The state that readers see moves as the ledger does: no offer and no    *)
(* acknowledgement is lost to a commit that overlapped with it, whatever   *)
(* crashed, lapsed, or failed meanwhile.                                   *)
THEOREM CurrentFollowsLedger == Spec => FollowsLedger
<1>1. Init => Offers(Current) = Ledger!Blank
  BY InitFenced DEF Offers, EmptyState, Ledger!Blank, Ledger!Entry
<1>2. /\ TypeOK /\ ClaimInv /\ FenceInv /\ [Next]_vars
      => [Ledger!LedgerNext]_(Offers(Current))
  <2> SUFFICES ASSUME TypeOK, ClaimInv, FenceInv, [Next]_vars
               PROVE  [Ledger!LedgerNext]_(Offers(Current))
    OBVIOUS
  <2>1. TypeOK'
    BY NextTyped DEF ClaimInv, RetiresTheClaim, Retiring
  <2> QED
    BY <2>1, CurrentTyped, NextKeepsFenceInv, FollowingIsALedgerStep
<1> QED
  BY <1>1, <1>2, FenceInductive, PTL DEF Spec, FollowsLedger, Ledger!LedgerSpec

-----------------------------------------------------------------------------
(* What a check says, and on its way to say, of an update.                 *)
Told(i) == i.result.status = "update_available"

Due(i, s) ==
  /\ i.seen \subseteq s.acked
  /\ Told(i) => \/ i.pc = "publish" /\ i.result = ResultFor(i.next)
                \/ /\ i.pc \in {"cancel", "done"}
                   /\ i.result.digest \in (s.offered \cup s.acked) \ i.seen

NoticeInv == \A p \in Checks : Due(inv[p], Current)

LEMMA DueGrows ==
  ASSUME NEW i, NEW s, NEW t, Due(i, s), Follows(s, t)
  PROVE  Due(i, t)
<1>1. s.acked \subseteq t.acked /\ s.offered \cup s.acked \subseteq t.offered \cup t.acked
  BY DEF Follows
<1> QED
  BY <1>1 DEF Due

LEMMA DueFound ==
  ASSUME NEW i, NEW s, Known(s), i.seen \subseteq s.acked, i.result = ResultFor(s),
         i.pc \in {"cancel", "done"}
  PROVE  Due(i, s)
<1>1. CASE s.candidate \in Newer \ s.acked
  <2>1. i.result.digest = s.candidate
    BY <1>1 DEF ResultFor
  <2> QED
    BY <1>1, <2>1 DEF Due, Known
<1>2. CASE s.candidate \notin Newer \ s.acked
  <2>1. i.result.status = "silent"
    BY <1>2 DEF ResultFor, Silent
  <2> QED
    BY <2>1 DEF Due, Told
<1> QED
  BY <1>1, <1>2

LEMMA DueSilent ==
  ASSUME NEW i, NEW s, i.seen \subseteq s.acked,
         i.result \in {NoResult, Silent, InProgress} \/ ~Told(i)
  PROVE  Due(i, s)
BY DEF Due, Told, NoResult, Silent, InProgress

(* Nothing of what matters to a notice changes.                            *)
LEMMA DueSame ==
  ASSUME NEW i, NEW j, NEW s, Due(i, s), j.seen = i.seen, j.result = i.result,
         ~Told(i) \/ (i.pc = "cancel" /\ j.pc = "done")
                  \/ (j.pc = i.pc /\ j.next = i.next)
  PROVE  Due(j, s)
BY DEF Due, Told

LEMMA StepKeepsDue ==
  ASSUME TypeOK, NEW p \in Checks, Due(inv[p], Current), Step(p), ~Publish(p)
  PROVE  Due(inv'[p], Current)
<1> USE DEF At
<1> DEFINE i == inv[p]
           s == Current
<1>1. inv \in [Invocations -> Invocation] /\ p \in Invocations /\ i \in Invocation
      /\ p \notin Acks
  BY UpdateAssumption DEF TypeOK, Invocations, UpdateAssumption
<1>2. s \in State /\ Known(s) /\ i.seen \subseteq s.acked
  BY CurrentTyped, CurrentKnown DEF Due
<1>3. i.pc \notin {"publish", "cancel", "done"} => ~Told(i)
  BY DEF Due
<1>4. ASSUME NEW r, Finish(p, r), r = ResultFor(s) \/ r \in {NoResult, Silent, InProgress}
      PROVE  Due(inv'[p], s)
  <2>1. inv'[p] = Ending(p, r)
    BY <1>1, <1>4 DEF Finish
  <2>2. inv'[p].seen = i.seen /\ inv'[p].result = r /\ inv'[p].pc = "done"
    BY <2>1 DEF Ending, NotStarted
  <2> QED
    BY <1>2, <1>4, <2>2, DueFound, DueSilent
<1>5. ASSUME NEW r, CancelThen(p, r), r = ResultFor(s) \/ r \in {NoResult, Silent, InProgress}
      PROVE  Due(inv'[p], s)
  <2>1. inv'[p] = [i EXCEPT !.pc = "cancel", !.result = r, !.tries = 0, !.found = None]
    BY <1>1, <1>5 DEF CancelThen
  <2>2. inv'[p].seen = i.seen /\ inv'[p].result = r /\ inv'[p].pc = "cancel"
    BY <1>1, <2>1 DEF Invocation
  <2> QED
    BY <1>2, <1>5, <2>2, DueFound, DueSilent
<1>6. ASSUME NEW t, NEW r, Publishing(p, t, r), r = ResultFor(t) \/ r = Silent
      PROVE  Due(inv'[p], s)
  <2>1. inv'[p] = [i EXCEPT !.pc = "publish", !.next = t, !.result = r, !.found = None]
    BY <1>1, <1>6 DEF Publishing
  <2>2. /\ inv'[p].seen = i.seen /\ inv'[p].result = r
        /\ inv'[p].pc = "publish" /\ inv'[p].next = t
    BY <1>1, <2>1 DEF Invocation
  <2>3. CASE r = Silent
    BY <1>2, <2>2, <2>3, DueSilent
  <2>4. CASE r = ResultFor(t)
    BY <1>2, <2>2, <2>4 DEF Due
  <2> QED
    BY <1>6, <2>3, <2>4
<1>7. ASSUME inv'[p].seen = i.seen, inv'[p].result = i.result,
             i.pc \notin {"publish", "cancel", "done"}
      PROVE  Due(inv'[p], s)
  BY <1>3, <1>7, DueSame
<1>8. ASSUME NEW pc, Go(p, pc), i.pc \notin {"publish", "cancel", "done"}
      PROVE  Due(inv'[p], s)
  <2>1. inv'[p] = [i EXCEPT !.pc = pc]
    BY <1>1, <1>8 DEF Go
  <2> QED
    BY <1>1, <1>7, <1>8, <2>1 DEF Invocation
<1>9. i.seen = inv[p].seen /\ i.result = inv[p].result /\ i.pc = inv[p].pc
  OBVIOUS
<1>10. CASE ReadCache(p)
  BY <1>4, <1>8, <1>10 DEF ReadCache
<1>11. CASE SurveyPending(p)
  BY <1>8, <1>11 DEF SurveyPending
<1>12. CASE ReserveGeneration(p)
  <2>1. CASE Finish(p, Silent)
    BY <1>4, <2>1
  <2>2. CASE ~Finish(p, Silent)
    <3>1. PICK g : inv'[p] = [i EXCEPT !.pc = "mkdir", !.gen = g]
      BY <1>1, <1>12, <2>2 DEF ReserveGeneration
    <3>2. i.pc = "reserve"
      BY <1>12 DEF ReserveGeneration
    <3> QED
      BY <1>1, <1>7, <3>1, <3>2 DEF Invocation
  <2> QED
    BY <2>1, <2>2
<1>13. CASE MakePending(p)
  BY <1>8, <1>13 DEF MakePending
<1>14. CASE WriteOwner(p)
  BY <1>8, <1>14 DEF WriteOwner
<1>15. CASE Promote(p)
  <2>1. CASE CancelThen(p, NoResult)
    BY <1>5, <2>1
  <2>2. CASE ~CancelThen(p, NoResult)
    <3>1. inv'[p] = [i EXCEPT !.pc = "probe", !.tries = i.tries + 1] /\ i.pc = "promote"
      BY <1>1, <1>15, <2>2 DEF Promote
    <3> QED
      BY <1>1, <1>7, <3>1 DEF Invocation
  <2> QED
    BY <2>1, <2>2
<1>16. CASE ProbeClaim(p)
  <2>1. CASE CancelThen(p, NoResult)
    BY <1>5, <2>1
  <2>2. CASE Go(p, "claim")
    BY <1>8, <1>16, <2>2 DEF ProbeClaim
  <2>3. CASE ~CancelThen(p, NoResult) /\ ~Go(p, "claim")
    <3>1. inv'[p] = [i EXCEPT !.pc = "retire", !.victim = claim] /\ i.pc = "probe"
      BY <1>1, <1>16, <2>3 DEF ProbeClaim
    <3> QED
      BY <1>1, <1>7, <3>1 DEF Invocation
  <2> QED
    BY <2>1, <2>2, <2>3
<1>17. CASE RetireClaim(p)
  <2>1. inv'[p] = [i EXCEPT !.pc = "promote", !.victim = 0] /\ i.pc = "retire"
    BY <1>1, <1>17 DEF RetireClaim
  <2> QED
    BY <1>1, <1>7, <2>1 DEF Invocation
<1>18. CASE TakeClaim(p)
  BY <1>8, <1>18 DEF TakeClaim
<1>19. CASE StillAlive(p)
  <2>1. CASE CancelThen(p, NoResult)
    BY <1>5, <2>1
  <2>2. CASE ~CancelThen(p, NoResult)
    <3>1. PICK pc : inv'[p] = [i EXCEPT !.pc = pc, !.tries = 0] /\ i.pc = "alive"
      BY <1>1, <1>19, <2>2 DEF StillAlive
    <3> QED
      BY <1>1, <1>7, <3>1 DEF Invocation
  <2> QED
    BY <2>1, <2>2
<1>20. CASE LoseOperation(p)
  BY <1>1, <1>4, <1>20 DEF LoseOperation
<1>21. CASE Cancel(p)
  <2>1. CASE i.result = NoResult
    <3>1. inv'[p] = [i EXCEPT !.pc = "lost"]
      BY <1>1, <1>21, <2>1 DEF Cancel, Go
    <3>2. inv'[p].seen = i.seen /\ inv'[p].result = NoResult
      BY <1>1, <2>1, <3>1 DEF Invocation
    <3> QED
      BY <1>2, <3>2, DueSilent
  <2>2. CASE i.result # NoResult
    <3>1. inv'[p] = Ending(p, i.result) /\ i.pc = "cancel"
      BY <1>1, <1>21, <2>2 DEF Cancel, Finish
    <3>2. inv'[p].seen = i.seen /\ inv'[p].result = i.result /\ inv'[p].pc = "done"
      BY <3>1 DEF Ending, NotStarted
    <3> QED
      BY <3>1, <3>2, DueSame
  <2> QED
    BY <2>1, <2>2
<1>22. CASE RereadCache(p)
  BY <1>5, <1>8, <1>22 DEF RereadCache
<1>23. CASE CheckOwnership(p)
  BY <1>5, <1>8, <1>23 DEF CheckOwnership
<1>24. CASE Fetch(p)
  <2>1. PICK d : inv'[p] = [i EXCEPT !.pc = "commit", !.found = d] /\ i.pc = "fetch"
    BY <1>1, <1>24 DEF Fetch
  <2> QED
    BY <1>1, <1>7, <2>1 DEF Invocation
<1>25. CASE BeginCommit(p)
  BY <1>5, <1>8, <1>25 DEF BeginCommit, Fenced
<1>26. CASE ListLower(p)
  <2>1. inv'[p] = [i EXCEPT !.pc = "fence", !.todo = Lower(i.gen)] /\ i.pc = "list"
    BY <1>1, <1>26 DEF ListLower
  <2> QED
    BY <1>1, <1>7, <2>1 DEF Invocation
<1>27. CASE FenceLower(p)
  <2>1. CASE Go(p, "still")
    BY <1>8, <1>27, <2>1 DEF FenceLower
  <2>2. CASE ~Go(p, "still")
    <3>1. PICK t : inv'[p] = [i EXCEPT !.todo = t] /\ i.pc = "fence"
      BY <1>1, <1>27, <2>2 DEF FenceLower
    <3> QED
      BY <1>1, <1>7, <3>1 DEF Invocation
  <2> QED
    BY <2>1, <2>2
<1>28. CASE RecheckOwnership(p)
  BY <1>5, <1>8, <1>28 DEF RecheckOwnership, Fenced
<1>29. CASE DecideCheck(p)
  <2>1. CASE \E r \in {Silent} : CancelThen(p, r)
    BY <1>5, <2>1
  <2>2. CASE \E t : Publishing(p, t, ResultFor(t)) \/ Publishing(p, t, Silent)
    BY <1>6, <2>2
  <2>3. \/ \E r \in {Silent} : CancelThen(p, r)
        \/ \E t : Publishing(p, t, ResultFor(t)) \/ Publishing(p, t, Silent)
    BY <1>29 DEF DecideCheck
  <2> QED
    BY <2>1, <2>2, <2>3
<1>30. CASE DecideAck(p)
  BY <1>1, <1>30 DEF DecideAck
<1> QED
  BY <1>10, <1>11, <1>12, <1>13, <1>14, <1>15, <1>16, <1>17, <1>18, <1>19, <1>20, <1>21, <1>22,
     <1>23, <1>24, <1>25, <1>26, <1>27, <1>28, <1>29, <1>30 DEF Step

(* A commit makes the notice that was prepared with it true.               *)
LEMMA PublishKeepsDue ==
  ASSUME TypeOK, ClaimInv, FenceInv, TypeOK', NEW p \in Checks, Due(inv[p], Current), Publish(p)
  PROVE  Due(inv'[p], Current')
<1> DEFINE i == inv[p]
           t == i.next
<1>1. inv \in [Invocations -> Invocation] /\ p \in Invocations
  BY DEF TypeOK, Invocations
<1>2. i.pc = "publish" /\ Known(t)
  BY <1>1 DEF Publish, At, FenceInv, PublishesNext, Normal, Known
<1>3. i.seen \subseteq Current.acked /\ (Told(i) => i.result = ResultFor(t))
  BY <1>2 DEF Due
<1>4. CASE op[i.gen].kind = "pending"
  <2>1. Current' = t
    BY <1>1, <1>4, PublishKeepsFenceInv
  <2>2. Follows(Current, t)
    BY <1>1, <1>2, <1>4 DEF FenceInv, PublishesNext
  <2>3. i.seen \subseteq t.acked
    BY <1>3, <2>2 DEF Follows
  <2>4. CASE Finish(p, i.result)
    <3>1. inv'[p] = Ending(p, i.result)
      BY <1>1, <2>4 DEF Finish
    <3>2. inv'[p].seen = i.seen /\ inv'[p].result = i.result /\ inv'[p].pc = "done"
      BY <3>1 DEF Ending, NotStarted
    <3>3. CASE Told(i)
      <4>1. inv'[p].result = ResultFor(t)
        BY <1>3, <3>2, <3>3
      <4> HIDE DEF i, t
      <4>2. Due(inv'[p], t)
        BY <1>2, <2>3, <3>2, <4>1, DueFound
      <4> QED
        BY <2>1, <4>2
    <3>4. CASE ~Told(i)
      <4>1. ~Told(inv'[p])
        BY <3>2, <3>4 DEF Told
      <4> HIDE DEF i, t
      <4>2. Due(inv'[p], t)
        BY <2>3, <3>2, <4>1, DueSilent
      <4> QED
        BY <2>1, <4>2
    <3> QED
      BY <3>3, <3>4
  <2>5. CASE EndUnavailable(p)
    <3>1. inv'[p] = [NotStarted EXCEPT !.pc = "done", !.result = Silent]
      BY <1>1, <2>5 DEF EndUnavailable
    <3>2. inv'[p].seen = {} /\ inv'[p].result = Silent
      BY <3>1 DEF NotStarted
    <3> QED
      BY <3>2, DueSilent
  <2> QED
    BY <1>4, <2>4, <2>5 DEF Publish
<1>5. CASE op[i.gen].kind # "pending"
  <2>1. Current' = Current
    BY <1>1, <1>5, PublishKeepsFenceInv
  <2>2. Finish(p, InProgress)
    BY <1>5 DEF Publish
  <2>3. inv'[p] = Ending(p, InProgress)
    BY <1>1, <2>2 DEF Finish
  <2>4. inv'[p].seen = i.seen /\ inv'[p].result = InProgress
    BY <2>3 DEF Ending, NotStarted
  <2> QED
    BY <1>3, <2>1, <2>4, DueSilent
<1> QED
  BY <1>4, <1>5

(* An invocation that p's step does not touch, beyond alone.               *)
LEMMA OthersDue ==
  ASSUME TypeOK, NEW q \in Checks, Due(inv[q], Current),
         inv'[q] = inv[q] \/ inv'[q] = [inv[q] EXCEPT !.alone = FALSE]
  PROVE  Due(inv'[q], Current)
<1>1. inv[q] \in Invocation
  BY DEF TypeOK, Invocations
<1>2. /\ inv'[q].seen = inv[q].seen /\ inv'[q].result = inv[q].result
      /\ inv'[q].pc = inv[q].pc /\ inv'[q].next = inv[q].next
  BY <1>1 DEF Invocation
<1> QED
  BY <1>2, DueSame

LEMMA StepTouchesOne ==
  ASSUME NEW p \in Invocations, Step(p)
  PROVE  \E i : inv' = [inv EXCEPT ![p] = i]
<1>1. (\E pc : Go(p, pc)) => \E i : inv' = [inv EXCEPT ![p] = i]
  BY DEF Go
<1>2. (\E r : Finish(p, r)) => \E i : inv' = [inv EXCEPT ![p] = i]
  BY DEF Finish
<1>3. (\E r : CancelThen(p, r)) => \E i : inv' = [inv EXCEPT ![p] = i]
  BY DEF CancelThen
<1>4. (\E t, r : Publishing(p, t, r)) => \E i : inv' = [inv EXCEPT ![p] = i]
  BY DEF Publishing
<1>5. EndUnavailable(p) => \E i : inv' = [inv EXCEPT ![p] = i]
  BY DEF EndUnavailable
<1>6. CASE ReadCache(p) \/ SurveyPending(p) \/ MakePending(p) \/ WriteOwner(p)
           \/ TakeClaim(p) \/ Cancel(p) \/ RereadCache(p) \/ CheckOwnership(p)
           \/ BeginCommit(p) \/ RecheckOwnership(p)
  BY <1>1, <1>2, <1>3, <1>6
     DEF ReadCache, SurveyPending, MakePending, WriteOwner, TakeClaim, Cancel, RereadCache,
         CheckOwnership, BeginCommit, RecheckOwnership, Fenced
<1>7. CASE ReserveGeneration(p) \/ Promote(p) \/ ProbeClaim(p) \/ RetireClaim(p)
           \/ StillAlive(p) \/ LoseOperation(p)
  BY <1>1, <1>2, <1>3, <1>7
     DEF ReserveGeneration, Promote, ProbeClaim, RetireClaim, StillAlive, LoseOperation
<1>8. CASE Fetch(p) \/ ListLower(p) \/ FenceLower(p)
  BY <1>1, <1>8 DEF Fetch, ListLower, FenceLower
<1>9. CASE DecideCheck(p) \/ DecideAck(p)
  BY <1>3, <1>4, <1>9 DEF DecideCheck, DecideAck
<1>10. CASE Publish(p)
  BY <1>2, <1>5, <1>10 DEF Publish
<1> QED
  BY <1>6, <1>7, <1>8, <1>9, <1>10 DEF Step

LEMMA NextKeepsNoticeInv ==
  ASSUME TypeOK, ClaimInv, FenceInv, NoticeInv, [Next]_vars, TypeOK'
  PROVE  NoticeInv'
<1>1. Follows(Current, Current')
  BY NextKeepsFenceInv
<1>2. /\ inv \in [Invocations -> Invocation] /\ Checks \subseteq Invocations
      /\ \A q \in Checks : Due(inv[q], Current)
  BY DEF TypeOK, Invocations, NoticeInv
<1> SUFFICES ASSUME NEW q \in Checks
             PROVE  Due(inv'[q], Current')
  BY DEF NoticeInv
<1>3. ASSUME Due(inv'[q], Current)
      PROVE  Due(inv'[q], Current')
  BY <1>1, <1>3, DueGrows
<1>4. CASE inv'[q] = inv[q] \/ inv'[q] = [inv[q] EXCEPT !.alone = FALSE]
  BY <1>2, <1>3, <1>4, OthersDue
<1>5. ASSUME NEW p \in Invocations, Start(p)
      PROVE  Due(inv'[q], Current')
  <2>1. CASE q = p
    <3>1. PICK alone : inv'[q] = [NotStarted EXCEPT !.pc = "read", !.seen = Current.acked,
                                                    !.alone = alone]
      BY <1>2, <1>5, <2>1 DEF Start
    <3>2. inv'[q].seen = Current.acked /\ inv'[q].result = NoResult
      BY <3>1 DEF NotStarted
    <3> QED
      BY <1>3, <3>2, DueSilent
  <2>2. CASE q # p
    BY <1>2, <1>4, <1>5, <2>2 DEF Start
  <2> QED
    BY <2>1, <2>2
<1>6. ASSUME NEW p \in Invocations, Fails(p) \/ Crash(p)
      PROVE  Due(inv'[q], Current')
  <2>1. PICK i : inv' = [inv EXCEPT ![p] = i] /\ i.seen = {} /\ i.result \in {NoResult, Silent}
    <3>1. /\ [NotStarted EXCEPT !.pc = "crashed"].seen = {}
          /\ [NotStarted EXCEPT !.pc = "crashed"].result = NoResult
          /\ [NotStarted EXCEPT !.pc = "done", !.result = Silent].seen = {}
          /\ [NotStarted EXCEPT !.pc = "done", !.result = Silent].result = Silent
      BY DEF NotStarted
    <3> QED
      BY <1>6, <3>1 DEF Fails, EndUnavailable, Crash
  <2>2. CASE q = p
    <3>1. inv'[q].seen = {} /\ inv'[q].result \in {NoResult, Silent}
      BY <1>2, <2>1, <2>2
    <3> QED
      BY <1>3, <3>1, DueSilent
  <2>3. CASE q # p
    BY <1>2, <1>4, <2>1, <2>3
  <2> QED
    BY <2>2, <2>3
<1>7. ASSUME NEW p \in Invocations, Step(p)
      PROVE  Due(inv'[q], Current')
  <2>1. CASE q = p /\ Publish(p)
    BY <1>2, <2>1, PublishKeepsDue
  <2>2. CASE q = p /\ ~Publish(p)
    BY <1>2, <1>3, <1>7, <2>2, StepKeepsDue
  <2>3. CASE q # p
    <3>1. \E i : inv' = [inv EXCEPT ![p] = i]
      BY <1>7, StepTouchesOne
    <3> QED
      BY <1>2, <1>4, <2>3, <3>1
  <2> QED
    BY <2>1, <2>2, <2>3
<1>8. ASSUME NEW g \in Gens, Lapse(g)
      PROVE  Due(inv'[q], Current')
  BY <1>2, <1>4, <1>8 DEF Lapse
<1>9. CASE UNCHANGED vars
  BY <1>4, <1>9 DEF vars
<1> QED
  BY <1>5, <1>6, <1>7, <1>8, <1>9 DEF Next

LEMMA InitDue == Init => NoticeInv
<1> SUFFICES ASSUME Init
             PROVE  NoticeInv
  OBVIOUS
<1>1. \A p \in Checks : inv[p].seen = {} /\ inv[p].result = NoResult
  BY DEF Init, Invocations, NotStarted
<1> QED
  BY <1>1, DueSilent DEF NoticeInv

(* Whoever is told of an update can acknowledge it, and is not told of     *)
(* what had been acknowledged before the check began.                      *)
THEOREM NoticesAreAlwaysDue == Spec => []NoticesAreDue
<1>1. TypeOK /\ ClaimInv /\ FenceInv /\ NoticeInv /\ [Next]_vars
        => TypeOK' /\ ClaimInv' /\ FenceInv' /\ NoticeInv'
  <2> SUFFICES ASSUME TypeOK, ClaimInv, FenceInv, NoticeInv, [Next]_vars
               PROVE  TypeOK' /\ ClaimInv' /\ FenceInv' /\ NoticeInv'
    OBVIOUS
  <2>1. TypeOK'
    BY NextTyped DEF ClaimInv, RetiresTheClaim, Retiring
  <2> QED
    BY <2>1, NextKeepsClaimInv, NextKeepsFenceInv, NextKeepsNoticeInv
<1>2. NoticeInv => NoticesAreDue
  BY DEF NoticeInv, Due, Told, NoticesAreDue, At
<1> QED
  BY <1>1, <1>2, InitTyped, InitFenced, InitDue, PTL DEF Spec

-----------------------------------------------------------------------------
(* An invocation that has the cache to itself.  The generations that were  *)
(* ever reserved have no gaps, and what has been retired is not the claim. *)
Orderly ==
  /\ \A g, h \in Gens : g < h /\ op[h].kind # "free" => op[g].kind # "free"
  /\ claim \notin retired

Answered(r) == r.status \notin {"none", "in_progress"}

Before == {"read", "survey", "reserve"}
Opened == ((OnTheWay \cup Past) \ {"mkdir"})

(* Nothing in the directory is in the way of the invocation i: it meets at *)
(* most one claim, with no lease, and then the free place.                 *)
OnItsOwn(i) ==
  /\ i.pc # "lost"
  /\ \A h \in Gens : Active(h) => h = i.gen
  /\ i.pc \in Before =>
       i.gen = 0 /\ i.tries = 0 /\ \E g \in Gens : op[g].kind = "free"
  /\ i.pc \in OnTheWay \cup Past => ~Superseded(i.gen)
  /\ i.pc \in Opened => Active(i.gen)
  /\ i.pc \in {"mkdir", "own"} => i.tries = 0
  /\ i.pc = "promote" => i.tries = 0 \/ (i.tries = 1 /\ claim = 0)
  /\ i.pc = "probe" => i.tries = 1 \/ claim = 0
  /\ i.pc = "retire" => i.tries = 1 /\ claim # 0 /\ i.victim = claim
  /\ i.pc = "claim" => claim = 0
  /\ i.pc \in Listed => \A h \in i.todo : h < i.gen
  /\ i.pc \in {"cancel", "publish"} => Answered(i.result)

LoneInv ==
  \A p \in Invocations :
    inv[p].alone =>
      /\ inv[p].pc \in Running =>
           OnItsOwn(inv[p]) /\ \A q \in Invocations : q # p => inv[q].pc \notin Running
      /\ inv[p].pc = "done" => Answered(inv[p].result)

LEMMA RenameReserved ==
  ASSUME TypeOK, NEW g, NEW kind \in Kinds \ {"free"}, op' = Rename(g, kind)
  PROVE  \A h \in Gens : op'[h].kind = "free" <=> op[h].kind = "free"
BY DEF TypeOK, Rename, Kinds

LEMMA SameReserved ==
  ASSUME TypeOK, ClaimInv, [Next]_vars, \A p \in Invocations : ~ReserveGeneration(p)
  PROVE  \A h \in Gens : op'[h].kind = "free" <=> op[h].kind = "free"
<1> DEFINE Same == \A h \in Gens : op'[h].kind = "free" <=> op[h].kind = "free"
<1> SUFFICES Same
  OBVIOUS
<1>1. CASE UNCHANGED op
  BY <1>1
<1>2. ASSUME NEW p \in Invocations, MakePending(p) \/ WriteOwner(p) \/ Publish(p)
      PROVE  Same
  <2>1. inv[p].pc \in {"mkdir", "own"} => op[inv[p].gen].kind # "free"
    BY PlacesTyped DEF OnTheWay
  <2> QED
    BY <1>2, <2>1 DEF MakePending, WriteOwner, Publish, At, TypeOK
<1>3. ASSUME NEW p \in Invocations, Cancel(p) \/ FenceLower(p) \/ Fails(p)
      PROVE  Same
  <2>1. \/ UNCHANGED op
        \/ \E g : op' = Rename(g, "cancelled") \/ op' = Rename(g, "fenced")
    BY <1>3 DEF Cancel, FenceLower, Fails
  <2> QED
    BY <2>1, RenameReserved DEF Kinds
<1>4. ASSUME NEW g \in Gens, Lapse(g)
      PROVE  Same
  BY <1>4 DEF Lapse, TypeOK
<1>5. ASSUME NEW p \in Invocations, Step(p)
      PROVE  Same
  <2>1. CASE MakePending(p) \/ WriteOwner(p) \/ Publish(p) \/ Cancel(p) \/ FenceLower(p)
    BY <1>2, <1>3, <2>1
  <2>2. CASE ~(MakePending(p) \/ WriteOwner(p) \/ Publish(p) \/ Cancel(p) \/ FenceLower(p))
    <3>1. UNCHANGED op
      BY <1>5, <2>2
         DEF Step, ReadCache, SurveyPending, Promote, ProbeClaim, RetireClaim, TakeClaim,
             StillAlive, LoseOperation, RereadCache, CheckOwnership, Fetch, BeginCommit,
             ListLower, RecheckOwnership, DecideCheck, DecideAck
    <3> QED
      BY <1>1, <3>1
  <2> QED
    BY <2>1, <2>2
<1>6. ASSUME NEW p \in Invocations, Start(p) \/ Crash(p)
      PROVE  UNCHANGED op
  BY <1>6 DEF Start, Crash
<1> HIDE DEF Same
<1>7. CASE UNCHANGED vars
  BY <1>1, <1>7 DEF vars
<1> QED
  BY <1>1, <1>3, <1>4, <1>5, <1>6, <1>7 DEF Next

LEMMA OrderlyKept ==
  ASSUME TypeOK, ClaimInv, Orderly, [Next]_vars
  PROVE  Orderly'
<1>1. \A g, h \in Gens : g < h /\ op'[h].kind # "free" => op'[g].kind # "free"
  <2>1. CASE \A p \in Invocations : ~ReserveGeneration(p)
    BY <2>1, SameReserved DEF Orderly
  <2>2. CASE \E p \in Invocations : ReserveGeneration(p)
    <3>1. CASE UNCHANGED op
      BY <3>1 DEF Orderly
    <3>2. CASE \E g \in Gens : /\ \A h \in 1..(g - 1) : op[h].kind # "free"
                               /\ op' = [op EXCEPT ![g].kind = "reserved"]
      <4>1. PICK n \in Gens : /\ \A h \in 1..(n - 1) : op[h].kind # "free"
                              /\ op' = [op EXCEPT ![n].kind = "reserved"]
        BY <3>2
      <4>2. \A h \in Gens : op'[h].kind = IF h = n THEN "reserved" ELSE op[h].kind
        BY <4>1 DEF TypeOK
      <4>3. \A h \in Gens : h < n => h \in 1..(n - 1)
        BY UpdateAssumption DEF UpdateAssumption, Gens
      <4> QED
        BY <4>1, <4>2, <4>3 DEF Orderly
    <3> QED
      BY <2>2, <3>1, <3>2 DEF ReserveGeneration
  <2> QED
    BY <2>1, <2>2
<1>2. claim' \notin retired'
  <2>0. 0 \notin retired /\ claim \notin retired
    BY UpdateAssumption DEF TypeOK, Gens, UpdateAssumption, Orderly
  <2>1. CASE UNCHANGED <<claim, retired>>
    BY <2>0, <2>1
  <2>2. ASSUME NEW p \in Invocations, RetireClaim(p)
        PROVE  claim' \notin retired'
    <3>1. inv[p].victim # 0
      BY <2>2 DEF ClaimInv, RetiresTheClaim, RetireClaim, At
    <3> QED
      BY <2>0, <2>2, <3>1 DEF RetireClaim
  <2>3. ASSUME NEW p \in Invocations, TakeClaim(p)
        PROVE  claim' \notin retired'
    BY <2>0, <2>3 DEF TakeClaim, At, ClaimInv, NotYetClaimed, OnTheWay
  <2>4. ASSUME NEW p \in Invocations, Step(p), ~RetireClaim(p), ~TakeClaim(p)
        PROVE  UNCHANGED <<claim, retired>>
    BY <2>4
       DEF Step, ReadCache, SurveyPending, ReserveGeneration, MakePending, WriteOwner, Promote,
           ProbeClaim, StillAlive, LoseOperation, Cancel, RereadCache, CheckOwnership, Fetch,
           BeginCommit, ListLower, FenceLower, RecheckOwnership, DecideCheck, DecideAck, Publish
  <2> QED
    BY <2>1, <2>2, <2>3, <2>4 DEF Next, vars, Start, Fails, Crash, Lapse
<1> QED
  BY <1>1, <1>2 DEF Orderly

Outcome(p) ==
  /\ inv[p].pc \in Running => OnItsOwn(inv[p])
  /\ inv[p].pc = "done" => Answered(inv[p].result)

(* A step that leaves the directories alone.                               *)
LEMMA GoesOn ==
  ASSUME TypeOK, NEW p \in Invocations, OnItsOwn(inv[p]), UNCHANGED op,
         NEW i, inv' = [inv EXCEPT ![p] = i],
         i.pc # "lost", i.pc # "done" => i.gen = inv[p].gen,
         i.pc \in Before => inv[p].pc \in Before /\ i.tries = inv[p].tries,
         i.pc \in OnTheWay \cup Past => inv[p].pc \in Opened,
         i.pc \notin {"mkdir", "own"},
         i.pc = "promote" => i.tries = 1 /\ claim' = 0,
         i.pc = "probe" => i.tries = 1 \/ claim' = 0,
         i.pc = "retire" => i.tries = 1 /\ claim' # 0 /\ i.victim = claim',
         i.pc = "claim" => claim' = 0,
         i.pc \in Listed => \A h \in i.todo : h < i.gen,
         i.pc \in {"cancel", "publish", "done"} => Answered(i.result)
  PROVE  Outcome(p)'
<1>1. inv'[p] = i
  BY DEF TypeOK
<1>2. \A h \in Gens : op'[h].kind = op[h].kind /\ op'[h].live = op[h].live
  OBVIOUS
<1>3. inv[p].pc \in Opened => inv[p].pc \in OnTheWay \cup Past
  BY DEF Opened
<1>4. CASE i.pc # "done"
  <2>1. \A h \in Gens : Active(h)' => h = i.gen
    BY <1>2, <1>4 DEF OnItsOwn, Active
  <2>2. i.pc \in Before => i.gen = 0 /\ i.tries = 0 /\ \E g \in Gens : op'[g].kind = "free"
    BY <1>2, <1>4 DEF OnItsOwn
  <2>3. i.pc \in OnTheWay \cup Past => ~ \E h \in Gens : h > i.gen /\ op'[h].kind # "free"
    BY <1>2, <1>3, <1>4 DEF OnItsOwn, Superseded
  <2>4. i.pc \in Opened => op'[i.gen].kind = "pending" /\ op'[i.gen].live
    BY <1>4 DEF OnItsOwn, Opened, Active
  <2>5. OnItsOwn(inv[p])'
    BY <1>1, <1>4, <2>1, <2>2, <2>3, <2>4 DEF OnItsOwn, Active, Superseded
  <2> QED
    BY <1>1, <1>4, <2>5 DEF Outcome
<1>5. CASE i.pc = "done"
  BY <1>1, <1>5 DEF Outcome, Running, Searching, Holding
<1> QED
  BY <1>4, <1>5

LEMMA AnswersAre ==
  /\ Answered(Silent) /\ \A s : Answered(ResultFor(s))
  /\ \A d : Answered([status |-> "acknowledged", digest |-> d])
BY DEF Answered, Silent, ResultFor

LEMMA FinishesAnswered ==
  ASSUME TypeOK, NEW p \in Invocations, NEW r, Answered(r), Finish(p, r)
  PROVE  Outcome(p)'
<1>1. inv'[p].pc = "done" /\ inv'[p].result = r
  BY DEF TypeOK, Finish, Ending, NotStarted
<1> QED
  BY <1>1 DEF Outcome, Running, Searching, Holding

LEMMA CancelsAnswered ==
  ASSUME TypeOK, NEW p \in Invocations, OnItsOwn(inv[p]), NEW r, Answered(r),
         CancelThen(p, r), UNCHANGED op
  PROVE  Outcome(p)'
<1> DEFINE i == [inv[p] EXCEPT !.pc = "cancel", !.result = r, !.tries = 0, !.found = None]
<1>1. inv' = [inv EXCEPT ![p] = i]
  BY DEF CancelThen, TypeOK
<1>2. i.pc = "cancel" /\ i.gen = inv[p].gen /\ i.result = r
  BY DEF TypeOK, Invocation
<1>3. i.pc \notin Before \cup OnTheWay \cup Past \cup Listed
  BY <1>2 DEF Before, OnTheWay, Past, Holding, Listed
<1> HIDE DEF i
<1> QED
  BY <1>1, <1>2, <1>3, GoesOn

(* The steps that only move on: to a place that asks for nothing new.      *)
LEMMA MovesOn ==
  ASSUME TypeOK, NEW p \in Invocations, OnItsOwn(inv[p]), NEW pc, Go(p, pc), UNCHANGED op,
         \/ pc \in Before /\ inv[p].pc \in Before
         \/ /\ pc \in {"reread", "owns", "fetch", "commit", "list", "still", "decide"}
            /\ inv[p].pc \in Opened
            /\ pc \in Listed => inv[p].pc \in Listed
         \/ pc = "claim" /\ inv[p].pc \in Opened /\ claim' = 0
         \/ pc = "alive" /\ inv[p].pc \in Opened
  PROVE  Outcome(p)'
<1> DEFINE i == [inv[p] EXCEPT !.pc = pc]
<1>1. inv' = [inv EXCEPT ![p] = i]
  BY DEF Go, TypeOK
<1>2. i.pc = pc /\ i.gen = inv[p].gen /\ i.tries = inv[p].tries /\ i.todo = inv[p].todo
  BY DEF TypeOK, Invocation
<1>3. pc \in Before => pc \notin OnTheWay \cup Past \cup Listed
  BY DEF Before, OnTheWay, Past, Holding, Listed
<1>4. pc \notin {"lost", "done", "mkdir", "own", "promote", "probe", "retire", "cancel", "publish"}
  BY DEF Before
<1>5. pc \notin Before => inv[p].pc \in Opened
  OBVIOUS
<1>6. pc \in Listed => \A h \in i.todo : h < i.gen
  <2>1. "claim" \notin Listed /\ "alive" \notin Listed
    BY DEF Listed
  <2> QED
    BY <1>2, <1>3, <2>1 DEF OnItsOwn
<1> HIDE DEF i
<1>7. i.pc \in Before => inv[p].pc \in Before /\ i.tries = inv[p].tries
  BY <1>2 DEF Before
<1>8. i.pc \in OnTheWay \cup Past => inv[p].pc \in Opened
  BY <1>2, <1>3, <1>5
<1>9. i.pc = "claim" => claim' = 0
  BY <1>2 DEF Before
<1> QED
  BY <1>1, <1>2, <1>4, <1>6, <1>7, <1>8, <1>9, GoesOn

LEMMA LoneSearches ==
  ASSUME TypeOK, ClaimInv, Orderly, Attempts > 1, NEW p \in Invocations,
         OnItsOwn(inv[p]),
         \/ ReadCache(p) \/ SurveyPending(p) \/ Promote(p) \/ ProbeClaim(p)
         \/ RetireClaim(p) \/ TakeClaim(p) \/ StillAlive(p) \/ LoseOperation(p)
  PROVE  Outcome(p)'
<1> USE DEF At
<1> DEFINE i == inv[p]
<1>1. inv \in [Invocations -> Invocation] /\ i \in Invocation
  BY DEF TypeOK
<1>2. \A g \in Gens : Active(g) => g = i.gen
  BY DEF OnItsOwn
<1>3. CASE ReadCache(p)
  BY <1>3, AnswersAre, FinishesAnswered, MovesOn DEF ReadCache, Before
<1>4. CASE SurveyPending(p)
  <2>1. ~SomeActive
    BY <1>2, <1>4, UpdateAssumption
       DEF SomeActive, SurveyPending, OnItsOwn, Before, Gens, UpdateAssumption
  <2> QED
    BY <1>4, <2>1, MovesOn DEF SurveyPending, Before
<1>5. CASE Promote(p)
  <2> DEFINE j == [i EXCEPT !.pc = "probe", !.tries = i.tries + 1]
  <2>1. i.tries < Attempts /\ ~Superseded(i.gen)
    BY <1>5, UpdateAssumption DEF Promote, OnItsOwn, OnTheWay, UpdateAssumption
  <2>2. inv' = [inv EXCEPT ![p] = j]
    BY <1>1, <1>5, <2>1 DEF Promote, MayTry
  <2>3. j.pc = "probe" /\ j.gen = i.gen /\ j.tries = i.tries + 1
    BY <1>1 DEF Invocation
  <2>4. j.tries = 1 \/ claim' = 0
    BY <1>5, <2>3 DEF Promote, OnItsOwn
  <2>5. i.pc \in Opened /\ j.pc \notin Before \cup Listed
    BY <1>5, <2>3 DEF Promote, Opened, OnTheWay, Before, Listed
  <2> HIDE DEF j
  <2> QED
    BY <1>5, <2>2, <2>3, <2>4, <2>5, GoesOn DEF Promote
<1>6. CASE ProbeClaim(p)
  <2>1. i.pc \in Opened /\ i.pc \in OnTheWay
    BY <1>6 DEF ProbeClaim, Opened, OnTheWay
  <2>2. CASE claim = 0
    BY <1>6, <2>1, <2>2, MovesOn DEF ProbeClaim
  <2>3. CASE claim # 0
    <3>1. claim \in Gens /\ i.gen \in Gens /\ claim # i.gen
      BY <1>1, <2>1, <2>3 DEF TypeOK, Invocation, ClaimInv, NotYetClaimed
    <3>2. ~Active(claim)
      BY <1>2, <3>1
    <3>3. ~(claim > i.gen)
      BY <2>1, <2>3, <3>1 DEF OnItsOwn, Superseded, ClaimInv, ReservedOnce
    <3> DEFINE j == [i EXCEPT !.pc = "retire", !.victim = claim]
    <3>4. inv' = [inv EXCEPT ![p] = j] /\ claim' = claim /\ UNCHANGED op
      BY <1>6, <2>3, <3>2, <3>3 DEF ProbeClaim, Blocked
    <3>5. j.pc = "retire" /\ j.gen = i.gen /\ j.tries = i.tries /\ j.victim = claim
      BY <1>1 DEF Invocation
    <3>6. j.tries = 1
      BY <1>6, <2>3, <3>5 DEF ProbeClaim, OnItsOwn
    <3>7. j.pc \notin Before \cup Listed
      BY <3>5 DEF Before, Listed
    <3> HIDE DEF j
    <3> QED
      BY <2>1, <2>3, <3>4, <3>5, <3>6, <3>7, GoesOn
  <2> QED
    BY <2>2, <2>3
<1>7. CASE RetireClaim(p)
  <2> DEFINE j == [i EXCEPT !.pc = "promote", !.victim = 0]
  <2>1. i.victim = claim /\ claim # 0 /\ i.tries = 1 /\ i.pc \in Opened
    BY <1>7 DEF RetireClaim, OnItsOwn, Opened, OnTheWay
  <2>2. claim' = 0 /\ UNCHANGED op /\ inv' = [inv EXCEPT ![p] = j]
    BY <1>7, <2>1 DEF RetireClaim, Movable, Orderly
  <2>3. j.pc = "promote" /\ j.gen = i.gen /\ j.tries = i.tries
    BY <1>1 DEF Invocation
  <2>4. j.pc \notin Before \cup Listed
    BY <2>3 DEF Before, Listed
  <2> HIDE DEF j
  <2> QED
    BY <2>1, <2>2, <2>3, <2>4, GoesOn
<1>8. CASE TakeClaim(p)
  BY <1>8, MovesOn DEF TakeClaim, OnItsOwn, Opened, OnTheWay
<1>9. CASE StillAlive(p)
  <2> DEFINE pc == IF p \in Checks THEN "reread" ELSE "commit"
             j == [i EXCEPT !.pc = pc, !.tries = 0]
  <2>1. i.pc \in Opened
    BY <1>9 DEF StillAlive, Opened, OnTheWay, Past
  <2>2. Active(i.gen)
    BY <2>1 DEF OnItsOwn
  <2>3. inv' = [inv EXCEPT ![p] = j] /\ UNCHANGED op
    BY <1>9, <2>2 DEF StillAlive
  <2>4. j.pc = pc /\ j.gen = i.gen
    BY <1>1 DEF Invocation
  <2>5. j.pc \in {"reread", "commit"} /\ j.pc \notin Before \cup Listed
    BY <2>4 DEF Before, Listed
  <2> HIDE DEF j, pc
  <2> QED
    BY <2>1, <2>3, <2>4, <2>5, GoesOn
<1>10. CASE LoseOperation(p)
  BY <1>10 DEF LoseOperation, OnItsOwn
<1> QED
  BY <1>3, <1>4, <1>5, <1>6, <1>7, <1>8, <1>9, <1>10

LEMMA LoneHolds ==
  ASSUME TypeOK, ClaimInv, NEW p \in Invocations, OnItsOwn(inv[p]),
         \/ RereadCache(p) \/ CheckOwnership(p) \/ Fetch(p) \/ BeginCommit(p)
         \/ ListLower(p) \/ RecheckOwnership(p) \/ DecideCheck(p) \/ DecideAck(p)
  PROVE  Outcome(p)'
<1> USE DEF At
<1> DEFINE i == inv[p]
<1>1. inv \in [Invocations -> Invocation] /\ i \in Invocation
  BY DEF TypeOK
<1>2. i.pc \in {"reread", "owns", "fetch", "commit", "list", "still", "decide"}
  BY DEF RereadCache, CheckOwnership, Fetch, BeginCommit, ListLower, RecheckOwnership,
         DecideCheck, DecideAck
<1>3. i.pc \in Opened /\ i.pc \in Past
  BY <1>2 DEF Opened, OnTheWay, Past, Holding
<1>4. Owns(i.gen)
  BY <1>3 DEF OnItsOwn, Owns, ClaimInv, ClaimedWhileLive
<1>5. CASE RereadCache(p)
  BY <1>3, <1>5, AnswersAre, CancelsAnswered, MovesOn DEF RereadCache, Listed
<1>6. CASE CheckOwnership(p)
  BY <1>3, <1>4, <1>6, MovesOn DEF CheckOwnership, Listed
<1>7. CASE Fetch(p)
  <2>1. PICK d \in Digests \cup {None} :
          inv' = [inv EXCEPT ![p] = [i EXCEPT !.pc = "commit", !.found = d]]
    BY <1>1, <1>7 DEF Fetch
  <2> DEFINE j == [i EXCEPT !.pc = "commit", !.found = d]
  <2>2. j.pc = "commit" /\ j.gen = i.gen
    BY <1>1 DEF Invocation
  <2>3. j.pc \notin Before \cup Listed
    BY <2>2 DEF Before, Listed
  <2> HIDE DEF j
  <2> QED
    BY <1>3, <1>7, <2>1, <2>2, <2>3, GoesOn DEF Fetch, j
<1>8. CASE BeginCommit(p)
  BY <1>3, <1>4, <1>8, MovesOn DEF BeginCommit, Listed
<1>9. CASE ListLower(p)
  <2> DEFINE j == [i EXCEPT !.pc = "fence", !.todo = Lower(i.gen)]
  <2>1. inv' = [inv EXCEPT ![p] = j] /\ UNCHANGED op
    BY <1>1, <1>9 DEF ListLower
  <2>2. j.pc = "fence" /\ j.gen = i.gen /\ j.todo = Lower(i.gen)
    BY <1>1 DEF Invocation
  <2>3. j.pc \notin Before
    BY <2>2 DEF Before
  <2>4. \A h \in j.todo : h < j.gen
    BY <2>2 DEF Lower
  <2> HIDE DEF j
  <2> QED
    BY <1>3, <2>1, <2>2, <2>3, <2>4, GoesOn
<1>10. CASE RecheckOwnership(p)
  BY <1>3, <1>4, <1>10, MovesOn DEF RecheckOwnership, Listed
<1>11. ASSUME NEW t, NEW r, Answered(r), Publishing(p, t, r), UNCHANGED op,
              i.pc = "decide"
       PROVE  Outcome(p)'
  <2> DEFINE j == [i EXCEPT !.pc = "publish", !.next = t, !.result = r, !.found = None]
  <2>1. inv' = [inv EXCEPT ![p] = j]
    BY <1>1, <1>11 DEF Publishing
  <2>2. j.pc = "publish" /\ j.gen = i.gen /\ j.todo = i.todo /\ j.result = r
    BY <1>1 DEF Invocation
  <2>3. j.pc \notin Before
    BY <2>2 DEF Before
  <2>4. \A h \in j.todo : h < j.gen
    BY <1>11, <2>2 DEF OnItsOwn, Listed
  <2> HIDE DEF j
  <2> QED
    BY <1>3, <1>11, <2>1, <2>2, <2>3, <2>4, GoesOn
<1>12. CASE DecideCheck(p) \/ DecideAck(p)
  <2>1. i.pc = "decide" /\ UNCHANGED op
    BY <1>12 DEF DecideCheck, DecideAck
  <2>2. \/ \E t, r : Answered(r) /\ Publishing(p, t, r)
        \/ \E r : Answered(r) /\ CancelThen(p, r)
    BY <1>12, AnswersAre DEF DecideCheck, DecideAck
  <2> QED
    BY <1>11, <2>1, <2>2, CancelsAnswered
<1> QED
  BY <1>5, <1>6, <1>7, <1>8, <1>9, <1>10, <1>12

LEMMA LoneWrites ==
  ASSUME TypeOK, ClaimInv, FenceInv, Orderly, NEW p \in Invocations, OnItsOwn(inv[p]),
         inv'[p].alone,
         \/ ReserveGeneration(p) \/ MakePending(p) \/ WriteOwner(p) \/ Cancel(p)
         \/ FenceLower(p) \/ Publish(p)
  PROVE  Outcome(p)'
<1> USE DEF At
<1> DEFINE i == inv[p]
<1>1. inv \in [Invocations -> Invocation] /\ i \in Invocation
  BY DEF TypeOK
<1>2. i.pc \in OnTheWay \cup Past => i.gen \in Gens /\ i.gen \in Nat /\ op[i.gen].kind # "free"
  BY PlacesTyped DEF Unchallenged, OnTheWay
<1>3. CASE ReserveGeneration(p)
  <2>1. PICK g \in Gens : /\ op[g].kind = "free"
                          /\ op' = [op EXCEPT ![g].kind = "reserved"]
                          /\ inv' = [inv EXCEPT ![p].pc = "mkdir", ![p].gen = g]
    BY <1>3 DEF ReserveGeneration, OnItsOwn, Before
  <2>2. inv'[p].pc = "mkdir" /\ inv'[p].gen = g /\ inv'[p].tries = 0
    BY <1>1, <1>3, <2>1 DEF Invocation, ReserveGeneration, OnItsOwn, Before
  <2>3. \A h \in Gens : /\ op'[h].kind = IF h = g THEN "reserved" ELSE op[h].kind
                        /\ op'[h].live = op[h].live
    BY <2>1 DEF TypeOK
  <2>4. \A h \in Gens : Active(h)' => h = g
    <3>1. \A h \in Gens : ~Active(h)
      BY <1>3, UpdateAssumption DEF ReserveGeneration, OnItsOwn, Before, Gens, UpdateAssumption
    <3> QED
      BY <2>3, <3>1 DEF Active
  <2>5. \A h \in Gens : h > g => op'[h].kind = "free"
    BY <2>1, <2>3 DEF Orderly, Gens
  <2>6. "mkdir" \notin Opened \cup Before \cup Listed
    BY DEF Opened, Before, Listed
  <2>7. OnItsOwn(inv[p])'
    BY <2>2, <2>4, <2>5, <2>6 DEF OnItsOwn, Superseded
  <2> QED
    BY <2>2, <2>7 DEF Outcome
<1>4. CASE MakePending(p)
  <2>1. i.gen \in Gens /\ i.pc = "mkdir"
    BY <1>2, <1>4 DEF MakePending, OnTheWay
  <2>2. inv'[p].pc = "own" /\ inv'[p].gen = i.gen /\ inv'[p].tries = 0
    BY <1>1, <1>4 DEF Invocation, MakePending, Go, OnItsOwn
  <2>3. \A h \in Gens : /\ op'[h].kind = IF h = i.gen THEN "pending" ELSE op[h].kind
                        /\ op'[h].live = IF h = i.gen THEN TRUE ELSE op[h].live
    BY <1>4, <2>1 DEF MakePending, TypeOK
  <2>4. \A h \in Gens : Active(h)' => h = i.gen
    BY <2>3 DEF OnItsOwn, Active
  <2>5. \A h \in Gens : h > i.gen => op'[h].kind = "free"
    BY <1>2, <2>1, <2>3 DEF OnItsOwn, Superseded, OnTheWay, Gens
  <2>6. "own" \notin Before \cup Listed
    BY DEF Before, Listed
  <2>7. OnItsOwn(inv[p])'
    BY <2>1, <2>2, <2>3, <2>4, <2>5, <2>6 DEF OnItsOwn, Superseded, Active
  <2> QED
    BY <2>2, <2>7 DEF Outcome
<1>5. CASE WriteOwner(p)
  <2>1. i.gen \in Gens /\ i.pc = "own" /\ Active(i.gen)
    BY <1>2, <1>5 DEF WriteOwner, OnTheWay, OnItsOwn, Opened
  <2>2. op' = [op EXCEPT ![i.gen].live = TRUE] /\ Go(p, "promote")
    BY <1>5, <2>1 DEF WriteOwner, Active
  <2>3. inv'[p].pc = "promote" /\ inv'[p].gen = i.gen /\ inv'[p].tries = 0
    BY <1>1, <2>1, <2>2 DEF Invocation, Go, OnItsOwn
  <2>4. \A h \in Gens : /\ op'[h].kind = op[h].kind
                        /\ op'[h].live = IF h = i.gen THEN TRUE ELSE op[h].live
    BY <2>1, <2>2 DEF TypeOK
  <2>5. \A h \in Gens : Active(h)' => h = i.gen
    BY <2>4 DEF OnItsOwn, Active
  <2>6. \A h \in Gens : h > i.gen => op'[h].kind = "free"
    BY <2>1, <2>4 DEF OnItsOwn, Superseded, OnTheWay, Gens
  <2>7. "promote" \notin Before \cup Listed
    BY DEF Before, Listed
  <2>8. OnItsOwn(inv[p])'
    BY <2>1, <2>3, <2>4, <2>5, <2>6, <2>7 DEF OnItsOwn, Superseded, Active
  <2> QED
    BY <2>3, <2>8 DEF Outcome
<1>6. CASE Cancel(p)
  <2>1. Answered(i.result) /\ i.result # NoResult
    BY <1>6 DEF Cancel, OnItsOwn, Answered, NoResult
  <2> QED
    BY <1>6, <2>1, FinishesAnswered DEF Cancel
<1>7. CASE FenceLower(p)
  <2>1. i.pc = "fence" /\ i.pc \in Opened /\ i.pc \in Past /\ i.pc \in Listed
    BY <1>7 DEF FenceLower, Opened, OnTheWay, Past, Holding, Listed
  <2>2. CASE Go(p, "still") /\ UNCHANGED op
    BY <2>1, <2>2, MovesOn
  <2>3. CASE \E g \in i.todo : /\ op' = Rename(g, "fenced")
                              /\ inv' = [inv EXCEPT ![p].todo = AfterRename(@, g)]
    <3>1. PICK g \in i.todo : /\ op' = Rename(g, "fenced")
                              /\ inv' = [inv EXCEPT ![p].todo = AfterRename(@, g)]
      BY <2>3
    <3>2. /\ inv'[p].pc = "fence" /\ inv'[p].gen = i.gen /\ inv'[p].todo \subseteq i.todo
      BY <1>1, <2>1, <3>1 DEF Invocation, AfterRename
    <3>3. i.gen \in Gens /\ i.gen \in Nat /\ g < i.gen /\ g \in Gens /\ g # 0
      BY <1>1, <1>2, <2>1 DEF OnItsOwn, Invocation, Gens
    <3>4. \A h \in Gens : /\ op'[h].kind = "free" <=> op[h].kind = "free"
                          /\ Active(h)' => Active(h)
                          /\ h # g => op'[h] = op[h]
      BY <3>1 DEF Rename, TypeOK, Active
    <3>5. g # i.gen
      BY <3>3, UpdateAssumption DEF UpdateAssumption, Gens
    <3>6. op'[i.gen].kind = "pending" /\ op'[i.gen].live
      BY <2>1, <3>3, <3>4, <3>5 DEF OnItsOwn, Active
    <3>7. "fence" \notin Before
      BY DEF Before
    <3>8. OnItsOwn(inv[p])'
      BY <2>1, <3>2, <3>4, <3>6, <3>7 DEF OnItsOwn, Superseded, Active
    <3> QED
      BY <3>2, <3>8 DEF Outcome
  <2> QED
    BY <1>7, <2>2, <2>3 DEF FenceLower
<1>8. CASE Publish(p)
  <2>1. Active(i.gen) /\ Answered(i.result)
    BY <1>8 DEF Publish, OnItsOwn, Opened, Past, OnTheWay, Holding
  <2>2. ~EndUnavailable(p)
    BY <1>1 DEF EndUnavailable, NotStarted
  <2> QED
    BY <1>8, <2>1, <2>2, FinishesAnswered DEF Publish, Active
<1> QED
  BY <1>3, <1>4, <1>5, <1>6, <1>7, <1>8

LEMMA StepsOfTheRunning ==
  ASSUME NEW p \in Invocations, Step(p)
  PROVE  inv[p].pc \in Running
BY DEF Step, ReadCache, SurveyPending, ReserveGeneration, MakePending, WriteOwner, Promote,
       ProbeClaim, RetireClaim, TakeClaim, StillAlive, LoseOperation, Cancel, RereadCache,
       CheckOwnership, Fetch, BeginCommit, ListLower, FenceLower, RecheckOwnership, DecideCheck,
       DecideAck, Publish, At, Running, Searching, Holding

LEMMA AloneBefore ==
  ASSUME TypeOK, NEW p \in Invocations, Step(p), inv'[p].alone
  PROVE  inv[p].alone
<1>1. inv \in [Invocations -> Invocation] /\ inv[p] \in Invocation
  BY DEF TypeOK
<1>2. ASSUME NEW pc, Go(p, pc)
      PROVE  inv'[p].alone = inv[p].alone
  BY <1>1, <1>2 DEF Go, Invocation
<1>3. ASSUME NEW r, Finish(p, r)
      PROVE  inv'[p].alone = inv[p].alone
  <2>1. Ending(p, r).alone = inv[p].alone
    BY DEF Ending, NotStarted
  <2> QED
    BY <1>1, <1>3, <2>1 DEF Finish
<1>4. ASSUME NEW r, CancelThen(p, r)
      PROVE  inv'[p].alone = inv[p].alone
  BY <1>1, <1>4 DEF CancelThen, Invocation
<1>5. ASSUME NEW t, NEW r, Publishing(p, t, r)
      PROVE  inv'[p].alone = inv[p].alone
  BY <1>1, <1>5 DEF Publishing, Invocation
<1>6. ~EndUnavailable(p)
  BY <1>1 DEF EndUnavailable, NotStarted
<1>7. CASE ReadCache(p) \/ SurveyPending(p) \/ MakePending(p) \/ WriteOwner(p)
           \/ TakeClaim(p) \/ Cancel(p) \/ RereadCache(p) \/ CheckOwnership(p)
           \/ BeginCommit(p) \/ RecheckOwnership(p) \/ DecideCheck(p) \/ DecideAck(p)
  BY <1>2, <1>3, <1>4, <1>5, <1>7
     DEF ReadCache, SurveyPending, MakePending, WriteOwner, TakeClaim, Cancel, RereadCache,
         CheckOwnership, BeginCommit, RecheckOwnership, Fenced, DecideCheck, DecideAck
<1>8. CASE Promote(p)
  <2>1. CASE inv' = [inv EXCEPT ![p].pc = "probe", ![p].tries = @ + 1]
    BY <1>1, <2>1 DEF Invocation
  <2> QED
    BY <1>4, <1>8, <2>1 DEF Promote
<1>9. CASE ProbeClaim(p)
  <2>1. CASE inv' = [inv EXCEPT ![p].pc = "retire", ![p].victim = claim]
    BY <1>1, <2>1 DEF Invocation
  <2> QED
    BY <1>2, <1>4, <1>9, <2>1 DEF ProbeClaim
<1>10. CASE RetireClaim(p)
  BY <1>1, <1>10 DEF RetireClaim, Invocation
<1>11. CASE StillAlive(p)
  <2> DEFINE pc == IF p \in Checks THEN "reread" ELSE "commit"
  <2>1. CASE CancelThen(p, NoResult)
    BY <1>4, <2>1
  <2>2. CASE inv' = [inv EXCEPT ![p].pc = pc, ![p].tries = 0]
    <3> HIDE DEF pc
    <3> QED
      BY <1>1, <2>2 DEF Invocation
  <2> QED
    BY <1>11, <2>1, <2>2 DEF StillAlive
<1>12. CASE LoseOperation(p)
  <2>1. CASE inv' = [inv EXCEPT ![p].pc = "survey", ![p].rounds = @ + 1, ![p].gen = 0,
                                ![p].tries = 0]
    BY <1>1, <2>1 DEF Invocation
  <2> QED
    BY <1>3, <1>12, <2>1 DEF LoseOperation
<1>13. CASE ReserveGeneration(p)
  <2>1. CASE \E g \in Gens : inv' = [inv EXCEPT ![p].pc = "mkdir", ![p].gen = g]
    BY <1>1, <2>1 DEF Invocation
  <2> QED
    BY <1>3, <1>13, <2>1 DEF ReserveGeneration
<1>14. CASE Fetch(p) \/ ListLower(p)
  BY <1>1, <1>14 DEF Fetch, ListLower, Invocation
<1>15. CASE FenceLower(p)
  <2>1. CASE \E g : inv' = [inv EXCEPT ![p].todo = AfterRename(@, g)]
    BY <1>1, <2>1 DEF Invocation
  <2> QED
    BY <1>2, <1>15, <2>1 DEF FenceLower
<1>16. CASE Publish(p)
  <2>1. CASE inv' = [inv EXCEPT ![p].pc = "lost", ![p].result = NoResult, ![p].next = EmptyState]
    BY <1>1, <2>1 DEF Invocation
  <2> QED
    BY <1>3, <1>6, <1>16, <2>1 DEF Publish
<1> QED
  BY <1>7, <1>8, <1>9, <1>10, <1>11, <1>12, <1>13, <1>14, <1>15, <1>16 DEF Step

LEMMA NextKeepsLoneInv ==
  ASSUME TypeOK, ClaimInv, FenceInv, Orderly, LoneInv, Attempts > 1, [Next]_vars
  PROVE  LoneInv'
<1>1. /\ inv \in [Invocations -> Invocation] /\ op \in Ops
      /\ \A q \in Invocations : inv[q] \in Invocation
  BY DEF TypeOK, Ops
<1> SUFFICES ASSUME NEW p \in Invocations, inv'[p].alone
             PROVE  /\ inv'[p].pc \in Running =>
                         /\ OnItsOwn(inv[p])'
                         /\ \A q \in Invocations : q # p => inv'[q].pc \notin Running
                    /\ inv'[p].pc = "done" => Answered(inv'[p].result)
  BY DEF LoneInv
<1> DEFINE Goal ==
      /\ inv'[p].pc \in Running =>
           /\ OnItsOwn(inv[p])'
           /\ \A q \in Invocations : q # p => inv'[q].pc \notin Running
      /\ inv'[p].pc = "done" => Answered(inv'[p].result)
<1> SUFFICES Goal
  OBVIOUS
<1>2. ASSUME NEW q \in Invocations, Start(q)
      PROVE  Goal
  <2>1. q = p
    BY <1>1, <1>2 DEF Start, Invocation
  <2>2. /\ \A r \in Invocations : inv[r].pc \notin Running
        /\ \A g \in Gens : ~Active(g)
        /\ \E g \in Gens : op[g].kind = "free"
    BY <1>1, <1>2, <2>1 DEF Start, Invocation, NotStarted
  <2>3. \A r \in Invocations : r # p => inv'[r].pc = inv[r].pc
    BY <1>1, <1>2, <2>1 DEF Start, Invocation
  <2>4. inv'[p].pc \in {"read", "survey"} /\ inv'[p].gen = 0 /\ inv'[p].tries = 0
    BY <1>1, <1>2, <2>1 DEF Start, NotStarted
  <2>5. UNCHANGED op
    BY <1>2 DEF Start
  <2>6. OnItsOwn(inv[p])'
    BY <2>2, <2>4, <2>5 DEF OnItsOwn, Before, OnTheWay, Past, Opened, Holding, Listed, Active
  <2> QED
    BY <2>2, <2>3, <2>4, <2>6
<1>3. ASSUME NEW q \in Invocations, Step(q)
      PROVE  Goal
  <2>1. PICK i : inv' = [inv EXCEPT ![q] = i]
    BY <1>3, StepTouchesOne
  <2>2. CASE q = p
    <3>1. inv[p].alone /\ inv[p].pc \in Running
      BY <1>3, <2>2, AloneBefore, StepsOfTheRunning
    <3>2. OnItsOwn(inv[p]) /\ \A r \in Invocations : r # p => inv[r].pc \notin Running
      BY <3>1 DEF LoneInv
    <3>3. Outcome(p)'
      BY <1>3, <2>2, <3>2, LoneSearches, LoneHolds, LoneWrites DEF Step
    <3> QED
      BY <1>1, <2>1, <2>2, <3>2, <3>3 DEF Outcome
  <2>3. CASE q # p
    <3>1. inv[q].pc \in Running
      BY <1>3, StepsOfTheRunning
    <3>2. inv'[p] = inv[p]
      BY <1>1, <2>1, <2>3
    <3> QED
      BY <2>3, <3>1, <3>2 DEF LoneInv
  <2> QED
    BY <2>2, <2>3
<1>4. ASSUME NEW q \in Invocations, Fails(q) \/ Crash(q)
      PROVE  Goal
  <2>1. PICK i : inv' = [inv EXCEPT ![q] = i] /\ ~i.alone
    <3>1. /\ ~[NotStarted EXCEPT !.pc = "done", !.result = Silent].alone
          /\ ~[NotStarted EXCEPT !.pc = "crashed"].alone
      BY DEF NotStarted
    <3> QED
      BY <1>4, <3>1 DEF Fails, Crash, EndUnavailable
  <2>2. q # p
    BY <1>1, <2>1
  <2>3. inv[q].pc \in Running /\ inv'[p] = inv[p]
    BY <1>1, <1>4, <2>1, <2>2 DEF Fails, Crash
  <2> QED
    BY <2>2, <2>3 DEF LoneInv
<1>5. ASSUME NEW g \in Gens, Lapse(g)
      PROVE  Goal
  <2>1. inv[p].gen # g /\ inv'[p] = inv[p]
    BY <1>1, <1>5 DEF Lapse, Invocation
  <2>2. \A r \in Invocations : inv'[r].pc = inv[r].pc
    BY <1>1, <1>5 DEF Lapse, Invocation
  <2>3. \A h \in Gens : /\ op'[h].kind = op[h].kind
                        /\ Active(h)' => Active(h)
                        /\ h # g => op'[h] = op[h]
    BY <1>1, <1>5 DEF Lapse, Ops, Active
  <2>4. claim' = claim
    BY <1>5 DEF Lapse
  <2>5. inv[p].pc \in Opened => inv[p].gen \in Gens
    BY PlacesTyped DEF Opened, OnTheWay, Unchallenged
  <2>6. inv[p].pc \in Running => OnItsOwn(inv[p])
    BY <2>1 DEF LoneInv
  <2>7. ASSUME OnItsOwn(inv[p])
        PROVE  OnItsOwn(inv[p])'
    <3>1. \A h \in Gens : Active(h)' => h = inv[p].gen
      BY <2>3, <2>7 DEF OnItsOwn
    <3>2. (\E h \in Gens : op[h].kind = "free") => \E h \in Gens : op'[h].kind = "free"
      BY <2>3
    <3>3. Superseded(inv[p].gen)' => Superseded(inv[p].gen)
      BY <2>1, <2>3 DEF Superseded
    <3>4. inv[p].pc \in Opened => Active(inv[p].gen)'
      BY <2>1, <2>3, <2>5, <2>7 DEF OnItsOwn, Active
    <3> QED
      BY <2>1, <2>4, <2>7, <3>1, <3>2, <3>3, <3>4 DEF OnItsOwn, Active, Superseded
  <2> QED
    BY <2>1, <2>2, <2>6, <2>7 DEF LoneInv
<1>6. CASE UNCHANGED vars
  BY <1>6 DEF vars, LoneInv, OnItsOwn, Active, Superseded
<1> HIDE DEF Goal
<1> QED
  BY <1>2, <1>3, <1>4, <1>5, <1>6 DEF Next

LEMMA InitLone == Init => Orderly /\ LoneInv
BY UpdateAssumption
   DEF Init, Orderly, LoneInv, NotStarted, Unreserved, UpdateAssumption, Gens

(* An invocation that comes alone after all leases have run out is never   *)
(* turned away: it meets at most one claim, retires it, and takes the free *)
(* place, as long as there is a generation to reserve and promotion may be *)
(* tried twice (promoteOperationClaim tries eight times).                  *)
THEOREM LoneInvocationsAreServed ==
  ASSUME Attempts > 1
  PROVE  Spec => []LoneInvocationServed
<1>1. TypeOK /\ ClaimInv /\ FenceInv /\ Orderly /\ LoneInv /\ [Next]_vars
        => Orderly' /\ LoneInv'
  BY OrderlyKept, NextKeepsLoneInv
<1>2. LoneInv => LoneInvocationServed
  BY DEF LoneInv, LoneInvocationServed, Answered, InProgress, At
<1> QED
  BY <1>1, <1>2, InitLone, FenceInductive, PTL DEF Spec
=============================================================================
