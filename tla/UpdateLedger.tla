---------------------------- MODULE UpdateLedger ----------------------------
(***************************************************************************)
(* What the update notifier of archify owes its user, with no word about   *)
(* directories, leases or processes: one ledger of what has been offered   *)
(* and what has been acknowledged.  A digest is never forgotten, and what  *)
(* has been acknowledged stays so.                                         *)
(***************************************************************************)
CONSTANTS Digests, Newer, None

VARIABLE ledger    \* [candidate, offered, acked]

Entry(candidate, offered, acked) ==
  [candidate |-> candidate, offered |-> offered, acked |-> acked]

Blank == Entry(None, {}, {})

(* A newer release that nobody has acknowledged becomes an offer.          *)
Offer(d) ==
  /\ d \in Newer \ ledger.acked
  /\ ledger' = Entry(d, ledger.offered \cup {d}, ledger.acked)

(* Any other release is only kept in mind.                                 *)
Keep(d) ==
  /\ d \in Newer => d \in ledger.acked
  /\ ledger' = Entry(d, ledger.offered, ledger.acked)

Acknowledge(d) ==
  /\ d \in ledger.offered \cup ledger.acked
  /\ ledger' = Entry(ledger.candidate, ledger.offered \ {d}, ledger.acked \cup {d})

Withdraw == ledger' = Entry(None, ledger.offered, ledger.acked)

LedgerNext ==
  /\ ledger' # ledger
  /\ \/ \E d \in Digests : Offer(d) \/ Keep(d) \/ Acknowledge(d)
     \/ Withdraw

LedgerSpec == ledger = Blank /\ [][LedgerNext]_ledger
=============================================================================
