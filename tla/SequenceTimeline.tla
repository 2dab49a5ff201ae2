-------------------------- MODULE SequenceTimeline --------------------------
(***************************************************************************)
(* The timeline of a sequence diagram                                      *)
(* (renderers/sequence/render-sequence.mjs): the boxes of messages and     *)
(* their labels, the gates that keep them readable, and the search for a   *)
(* free place for the label of a segment.                                  *)
(*                                                                         *)
(* A diagram is [width, height, spread, participants, messages, segments]: *)
(* participants a sequence of ids, messages a sequence of [from, to, y,    *)
(* text], segments of [from, to, text]; text is the width of the label.    *)
(***************************************************************************)
EXTENDS Integers, Sequences, FiniteSets, SequencesExt, FiniteSetsExt, TLC

LOCAL Length(a, b) == IF a < b THEN b - a ELSE a - b
LOCAL Clamp(low, high, n) == Max({low, Min({high, n})})

-----------------------------------------------------------------------------
(* Columns of a fixed width, or spread over the canvas.                    *)
Count(s) == Max({1, Len(s.participants)})
ParticipantW(s) == IF s.spread THEN Clamp(86, 190, (s.width - 124) \div Count(s) - 24) ELSE 86
ColGap(s) ==
  IF s.spread /\ Count(s) > 1
  THEN Max({108, (s.width - 102 - ParticipantW(s)) \div (Count(s) - 1)}) ELSE 108
LeftX(s) == IF s.spread THEN 62 + ParticipantW(s) \div 2 ELSE 62
LifelineTop == 142
LifelineBottom(s) == s.height - 65

Known(s, id) == id \in Range(s.participants)
CenterOf(s, id) ==
  LeftX(s) + ColGap(s) * ((CHOOSE i \in DOMAIN s.participants :
    s.participants[i] = id /\ \A j \in DOMAIN s.participants : s.participants[j] = id => j <= i) - 1)

Drawn(s) == {i \in DOMAIN s.messages : Known(s, s.messages[i].from) /\ Known(s, s.messages[i].to)}
Left(s, m) == Min({CenterOf(s, m.from), CenterOf(s, m.to)})
Right(s, m) == Max({CenterOf(s, m.from), CenterOf(s, m.to)})

LabelBox(s, m) ==
  LET width == Max({34, m.text + 12}) IN
  [x |-> (Left(s, m) + Right(s, m) - width) \div 2, y |-> m.y - 20, w |-> width, h |-> 16]
RouteBox(s, m) ==
  [x |-> Left(s, m) + 7, y |-> m.y - 2, w |-> Right(s, m) - Left(s, m) - 14, h |-> 4]

Meet(a, b, gap) ==
  ~ \/ a.x + a.w + gap <= b.x \/ b.x + b.w + gap <= a.x
    \/ a.y + a.h + gap <= b.y \/ b.y + b.h + gap <= a.y

-----------------------------------------------------------------------------
(* The label of a segment moves up past what it would cover, four times at *)
(* most.                                                                   *)
Occupied(s) == UNION {{LabelBox(s, s.messages[i]), RouteBox(s, s.messages[i])} : i \in Drawn(s)}
Covers(s, box) == \E r \in Occupied(s) : Meet(box, r, 2)
LabelAttempt(segment, n) ==
  [x |-> 56, y |-> segment.from - 22 - 22 * n, w |-> Max({42, segment.text + 14}), h |-> 18]
SegmentLabelBox(s, segment) ==
  LabelAttempt(segment,
    Min({n \in 0..3 : ~Covers(s, LabelAttempt(segment, n))} \cup {4}))

-----------------------------------------------------------------------------
(* The gates of validateSequence on messages, labels and segments; those   *)
(* on routes are gates of Geometry and left out here.                      *)
Misplaced(s) ==
  {i \in DOMAIN s.messages : LET m == s.messages[i] IN
     \/ i \notin Drawn(s)
     \/ m.y < LifelineTop + 18 \/ m.y > LifelineBottom(s) - 18
     \/ Length(CenterOf(s, m.from), CenterOf(s, m.to)) < 60}

(* Mutant: the sweep takes the messages in the order they are written.     *)
AsWritten(messages) == messages
ByHeight(messages) == SortSeq(messages, LAMBDA m, n : m.y < n.y)

(* A sweep down the timeline, which leaves off at the first message that   *)
(* is far enough below.                                                    *)
Crowded(s) ==
  LET placed == ByHeight([k \in 1..Cardinality(Drawn(s)) |->
                  s.messages[CHOOSE i \in Drawn(s) : Cardinality({j \in Drawn(s) : j <= i}) = k]])
      Near(i, j) == \A k \in (i + 1)..j : placed[k].y - placed[i].y < 28
      Share(m, n) == Left(s, m) < Right(s, n) /\ Left(s, n) < Right(s, m)
  IN {p \in (DOMAIN placed) \X (DOMAIN placed) :
        p[1] < p[2] /\ Near(p[1], p[2]) /\ Share(placed[p[1]], placed[p[2]])}
LabelsMeet(s) ==
  {p \in Drawn(s) \X Drawn(s) :
     p[1] < p[2] /\ Meet(LabelBox(s, s.messages[p[1]]), LabelBox(s, s.messages[p[2]]), -2)}
BadSegments(s) ==
  {i \in DOMAIN s.segments : LET g == s.segments[i]  box == SegmentLabelBox(s, g) IN
     \/ g.to <= g.from \/ g.from < 72 \/ g.to > LifelineBottom(s) + 20
     \/ box.x + box.w > s.width - 48}
BadCanvas(s) ==
  \/ Cardinality(Range(s.participants)) # Len(s.participants)
  \/ LifelineBottom(s) - LifelineTop < 120
  \/ /\ s.participants # << >>
     /\ CenterOf(s, Last(s.participants)) + ParticipantW(s) \div 2 > s.width - 40

Accepted(s) ==
  /\ ~BadCanvas(s) /\ Misplaced(s) = {} /\ Crowded(s) = {}
  /\ LabelsMeet(s) = {} /\ BadSegments(s) = {}

-----------------------------------------------------------------------------
(* In a diagram that is accepted no two arrows over one stretch of the     *)
(* canvas are closer than 28 pixels, no label lies on an arrow over that   *)
(* stretch, nothing leaves the timeline, and columns stay apart: although  *)
(* the sweep looks at neighbours only and no gate compares a label with an *)
(* arrow.                                                                  *)
TimelineReadable(s) ==
  Accepted(s) =>
    /\ \A i, j \in Drawn(s) :
         LET m == s.messages[i]  n == s.messages[j] IN
         (i # j /\ Left(s, m) < Right(s, n) /\ Left(s, n) < Right(s, m)) =>
           Length(m.y, n.y) >= 28
    /\ \A i, j \in Drawn(s) :
         LET m == s.messages[i]  n == s.messages[j] IN
         (Left(s, m) < Right(s, n) /\ Left(s, n) < Right(s, m)) =>
           ~Meet(LabelBox(s, m), RouteBox(s, n), 0)
    /\ \A i, j \in DOMAIN s.participants : i # j =>
         Length(CenterOf(s, s.participants[i]), CenterOf(s, s.participants[j])) >= ParticipantW(s) + 22
    /\ \A i \in DOMAIN s.segments :
         LET box == SegmentLabelBox(s, s.segments[i]) IN
         Covers(s, box) => box = LabelAttempt(s.segments[i], 4)
=============================================================================
