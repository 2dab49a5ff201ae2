--------------------------- MODULE WorkflowRouter ---------------------------
(***************************************************************************)
(* The search for an automatic route of the readable workflow contract     *)
(* (renderers/workflow/workflow-compiler.mjs): every pair of sides that    *)
(* the author left open, nine families of routes for each of them, the     *)
(* corridor to the right of everything pushed out until it fits and pulled *)
(* back as far as it still does, and, where nothing fits, what the router  *)
(* asks of the next layout.                                                *)
(*                                                                         *)
(* A query is [from, to, primary, feasible, weight, fits, right, start,    *)
(* growth, rank, lane, blocked]: the authored sides ("none" if open), the  *)
(* pair the layout would take, the <<pair, family>> that pass every gate, the cost  *)
(* of a family, the positions at which the outer corridor passes them, the *)
(* position where it does not, the first to be probed and the first step,  *)
(* whether the facing pair is short of rank gap, the lanes of lane gap,    *)
(* and the pairs whose routes another edge's pin is found to block.        *)
(* Positions are in thousandths of a pixel, as the code rounds them.       *)
(***************************************************************************)
EXTENDS WorkflowLayout, TLC

LOCAL Nearest(S) == CHOOSE n \in S : \A m \in S : n <= m

SideOrder == <<"right", "bottom", "left", "top">>
Families == 1..9
OutsideRight == 7

-----------------------------------------------------------------------------
(* Each pair of sides once, the primary one first.                         *)
Open(side) == IF side = "none" THEN SideOrder ELSE <<side>>
Authored(q, pair) ==
  /\ q.from \in {"none", pair[1]}
  /\ q.to \in {"none", pair[2]}
SidePairs(q) ==
  LET product == [i \in 1..(Len(Open(q.from)) * Len(Open(q.to))) |->
                    <<Open(q.from)[(i - 1) \div Len(Open(q.to)) + 1],
                      Open(q.to)[((i - 1) % Len(Open(q.to))) + 1]>>]
  IN FoldLeft(LAMBDA seen, pair : IF pair \in Range(seen) THEN seen ELSE Append(seen, pair),
              << >>, SelectSeq(<<q.primary>> \o product, LAMBDA p : Authored(q, p)))

Candidates(q, pair) == {f \in Families : <<pair, f>> \in q.feasible}

-----------------------------------------------------------------------------
(* The outer corridor: seven probes with doubling steps, then halving of   *)
(* what lies between the last that failed and the first that fitted.       *)
ProbeAt(q, k) == q.start + q.growth * (2^k - 1)
Probes(q) == {k \in 0..6 : ProbeAt(q, k) > q.right}
FittingProbes(q) == {k \in Probes(q) : ProbeAt(q, k) \in q.fits}

(* Mutant: the half that is given up is the one that holds the edge.       *)
OtherHalf(lo, mid, hi, fitting) == IF fitting THEN <<mid, hi>> ELSE <<lo, mid>>

KeptHalf(lo, mid, hi, fitting) == IF fitting THEN <<lo, mid>> ELSE <<mid, hi>>

PulledBack(q, failed, fitted) ==
  LET least[p \in (q.right..fitted) \X (q.right..fitted)] ==
        LET mid == (p[1] + p[2] + 1) \div 2 IN
        IF p[2] - p[1] <= 1 \/ mid >= p[2] THEN p[2]
        ELSE least[KeptHalf(p[1], mid, p[2], mid \in q.fits)]
  IN least[<<failed, fitted>>]

Expanded(q) ==
  {LET failed == {ProbeAt(q, j) : j \in {i \in Probes(q) : i < k}} \cup {q.right} IN
   PulledBack(q, CHOOSE x \in failed : \A y \in failed : y <= x, ProbeAt(q, k))
     : k \in {n \in FittingProbes(q) : \A m \in FittingProbes(q) : n <= m}}

-----------------------------------------------------------------------------
(* The plans of all pairs; a pair without a candidate has the outer        *)
(* corridor if that can be made to fit, and otherwise says why not.        *)
Ordinal(i, f) == (i - 1) * 9 + f - 1
Plans(q) ==
  LET pairs == SidePairs(q) IN
  UNION {
    IF Candidates(q, pairs[i]) # {}
    THEN {[pair |-> pairs[i], family |-> f, x |-> q.right,
           cost |-> q.weight[f], ordinal |-> Ordinal(i, f)] : f \in Candidates(q, pairs[i])}
    ELSE {[pair |-> pairs[i], family |-> OutsideRight, x |-> x,
           cost |-> q.weight[OutsideRight], ordinal |-> Ordinal(i, OutsideRight)]
            : x \in Expanded(q)}
    : i \in DOMAIN pairs}
Cheaper(p, r) == p.cost < r.cost \/ (p.cost = r.cost /\ p.ordinal <= r.ordinal)

Facing(q, pair) == pair = <<"right", "left">>
Wanted(q, pair) ==
  CASE pair \in q.blocked -> "pin"
    [] pair \notin q.blocked /\ Facing(q, pair) /\ q.rank -> "rank"
    [] pair \notin q.blocked /\ ~(Facing(q, pair) /\ q.rank) -> IF q.lane THEN "lane" ELSE "none"

(* A gap between ranks is asked for before a gap between lanes, and either *)
(* before the failure is put down to the authored sides or to a pair.      *)
AutomaticRoute(q) ==
  LET wanted == [i \in DOMAIN SidePairs(q) |-> Wanted(q, SidePairs(q)[i])]
      asked == Range(wanted) \cap {"rank", "lane"} IN
  CASE Plans(q) # {} -> {p \in Plans(q) : \A r \in Plans(q) : Cheaper(p, r)}
    [] Plans(q) = {} /\ "rank" \in asked -> {"rank"}
    [] Plans(q) = {} /\ asked = {"lane"} -> {"lane"}
    [] Plans(q) = {} /\ asked = {} /\ {q.from, q.to} # {"none"} -> {"sides"}
    [] Plans(q) = {} /\ asked = {} /\ {q.from, q.to} = {"none"} -> {wanted[1]}

-----------------------------------------------------------------------------
(* What an edge without a route asks of the layout, and the rounds that    *)
(* come of it when some edge finds no route in each of them.               *)
EdgeGap(d, e, x) ==
  LET a == Node(d, e.from)  b == Node(d, e.to) IN
  (IF x[a.col] < x[b.col] THEN x[b.col] - x[a.col] ELSE x[a.col] - x[b.col])
     - (a.w + b.w) \div 2
AsksFor(d, e, x, gap) ==
  LET a == Node(d, e.from)  b == Node(d, e.to) IN
  IF a.col # b.col /\ EdgeGap(d, e, x) \in 1..31
  THEN {[kind |-> "rank", from |-> Earlier(d, e).col, to |-> Later(d, e).col,
         least |-> (a.w + b.w) \div 2 + 32]}
  ELSE IF a.lane # b.lane /\ gap < 32 THEN {[kind |-> "lane", least |-> 32]} ELSE {}

(* The feedback and the requests of the rounds, as long as there are any.  *)
Asked(d, failing) ==
  FoldLeft(LAMBDA h, e :
             LET fb == h.fb
                 asks == AsksFor(d, e, Columns(d, fb.rank), LaneGap(fb.lane))
             IN IF h.over \/ asks = {} THEN [h EXCEPT !.over = TRUE]
                ELSE LET r == CHOOSE r \in asks : TRUE IN
                     [h EXCEPT !.wasted = @ \/ ~Grows(fb, r), !.fb = Granted(fb, r),
                               !.requests = Append(@, <<e, r>>)],
           [fb |-> NoFeedback, requests |-> << >>, over |-> FALSE, wasted |-> FALSE], failing)

-----------------------------------------------------------------------------
(* The search keeps what the author fixed, tries every other pair exactly  *)
(* once, and its choice does not depend on how equal costs are sorted; it  *)
(* gives up, or asks for room, only when no pair has a plan.               *)
SearchExact(q) ==
  LET pairs == SidePairs(q) IN
  /\ Cardinality(AutomaticRoute(q)) = 1
  /\ Authored(q, q.primary) => pairs[1] = q.primary
  /\ Cardinality(Range(pairs)) = Len(pairs)
  /\ Range(pairs) = {p \in Range(SideOrder) \X Range(SideOrder) : Authored(q, p)}
  /\ \A p, r \in Plans(q) : p.ordinal = r.ordinal => p = r
  /\ (\E pair \in Range(pairs) : Candidates(q, pair) # {}) => Plans(q) # {}

(* The corridor that is drawn passes the gates and stands as far left as   *)
(* they let it: a step further in it does not.  And where everything from  *)
(* some position on passes, within the reach of the probes, one is found.  *)
CorridorTight(q) ==
  q.right \notin q.fits =>
    /\ \A x \in Expanded(q) : x \in q.fits /\ x - 1 \notin q.fits /\ x > q.right
    /\ (ProbeAt(q, 6) > q.right /\ ProbeAt(q, 6) \in q.fits) => Expanded(q) # {}

(* No round of layout is wasted: what the router asks for is always more   *)
(* than it was granted, and an edge that was given its gap between ranks   *)
(* does not ask for it again.                                              *)
RoundsProgress(d, failing) ==
  LET h == Asked(d, failing) IN
  /\ ~h.wasted
  /\ \A i, j \in DOMAIN h.requests :
       i < j /\ h.requests[i][1] = h.requests[j][1] => h.requests[i][2] # h.requests[j][2]
=============================================================================
