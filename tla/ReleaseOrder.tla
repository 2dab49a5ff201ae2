---------------------------- MODULE ReleaseOrder ----------------------------
(***************************************************************************)
(* The order of release versions that decides whether an update is offered *)
(* (scripts/update-contract.mjs).  Version numbers are compared as they    *)
(* are spelt, without ever becoming numbers.                               *)
(*                                                                         *)
(* A version is [core, prerelease]: three identifiers, and those of the    *)
(* prerelease, none if it is a release.  An identifier is the sequence of  *)
(* its characters in the order of their codes, 0..9 the digits.  Build     *)
(* identifiers have no part in the order.                                  *)
(***************************************************************************)
EXTENDS Integers, Sequences, SequencesExt

Numeric(id) == \A i \in DOMAIN id : id[i] \in 0..9
(* parseSemver: no number is spelt with a zero in front.                   *)
Parses(v) ==
  \A id \in Range(v.core) \cup {i \in Range(v.prerelease) : Numeric(i)} :
    Numeric(id) /\ (Len(id) > 1 => id[1] # 0)

(* The order of strings: character by character, a prefix first.           *)
SpeltBefore(a, b) ==
  \/ \E i \in DOMAIN a \cap DOMAIN b : a[i] < b[i] /\ \A j \in 1..(i - 1) : a[j] = b[j]
  \/ Len(a) < Len(b) /\ \A j \in DOMAIN a : a[j] = b[j]
AsSpelt(a, b) == IF a = b THEN 0 ELSE IF SpeltBefore(a, b) THEN -1 ELSE 1

(* The shorter of two numbers is the smaller one.  Mutant: AsSpelt alone.  *)
CompareNumericIdentifiers(a, b) ==
  IF Len(a) # Len(b) THEN (IF Len(a) < Len(b) THEN -1 ELSE 1) ELSE AsSpelt(a, b)

CompareIdentifiers(a, b) ==
  IF Numeric(a) /\ Numeric(b) THEN CompareNumericIdentifiers(a, b)
  ELSE IF Numeric(a) # Numeric(b) THEN (IF Numeric(a) THEN -1 ELSE 1)
  ELSE AsSpelt(a, b)

FirstOther(s) ==
  LET other == {i \in DOMAIN s : s[i] # 0} IN
  IF other = {} THEN 0 ELSE s[CHOOSE i \in other : \A j \in other : i <= j]

(* A release comes after all its prereleases, a longer prerelease after    *)
(* the one that it continues.                                              *)
ComparePrerelease(a, b) ==
  LET shared == FirstOther([i \in DOMAIN a \cap DOMAIN b |-> CompareIdentifiers(a[i], b[i])]) IN
  IF a = << >> \/ b = << >> THEN (IF a = b THEN 0 ELSE IF a = << >> THEN 1 ELSE -1)
  ELSE IF shared # 0 THEN shared
  ELSE IF Len(a) = Len(b) THEN 0 ELSE IF Len(a) < Len(b) THEN -1 ELSE 1

CompareSemver(a, b) ==
  LET core == FirstOther([i \in 1..3 |-> CompareNumericIdentifiers(a.core[i], b.core[i])]) IN
  IF core # 0 THEN core ELSE ComparePrerelease(a.prerelease, b.prerelease)

-----------------------------------------------------------------------------
ReleaseVersions == [core : [1..3 -> Seq(Nat)], prerelease : Seq(Seq(Nat))]

(* A total order, whatever the versions.                                   *)
TotallyOrdered(a, b, c) ==
  /\ CompareSemver(a, b) = -CompareSemver(b, a)
  /\ CompareSemver(a, b) = 0 <=> a = b
  /\ (CompareSemver(a, b) < 0 /\ CompareSemver(b, c) < 0) => CompareSemver(a, c) < 0

Value(id) == FoldLeft(LAMBDA n, digit : 10 * n + digit, 0, id)

OrderedByNumber(a, b) ==
  \A i \in 1..3 :
    (Value(a.core[i]) < Value(b.core[i]) /\ \A j \in 1..(i - 1) : a.core[j] = b.core[j])
      => CompareSemver(a, b) < 0

(* Versions are totally ordered, and by their numbers: no chain of updates *)
(* leads back to a version that was left.                                  *)
VersionsOrdered(a, b, c) ==
  (Parses(a) /\ Parses(b) /\ Parses(c)) => TotallyOrdered(a, b, c) /\ OrderedByNumber(a, b)
=============================================================================
