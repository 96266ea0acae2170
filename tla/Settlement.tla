----------------------------- MODULE Settlement -----------------------------
(***************************************************************************)
(* What recharging promises, with none of its machinery: an order's        *)
(* payment is recorded, then its value is credited, once, then the order   *)
(* is settled.  An order may be reopened once, by its own creation; what   *)
(* is recorded and credited stays so.                                      *)
(***************************************************************************)
EXTENDS Naturals

CONSTANT Recharges  \* the orders that credit a balance

VARIABLES
  recorded,  \* orders whose payment is on record
  credited,  \* number of credits each order gave
  settled,   \* orders closed as completed
  reopened   \* orders that were reopened

ledger == <<recorded, credited, settled, reopened>>

Init ==
  /\ recorded = {}
  /\ credited = [o \in Recharges |-> 0]
  /\ settled = {}
  /\ reopened = {}

Record(o) ==
  /\ recorded' = recorded \cup {o}
  /\ UNCHANGED <<credited, settled, reopened>>

Credit(o) ==
  /\ o \in recorded
  /\ credited[o] = 0
  /\ credited' = [credited EXCEPT ![o] = 1]
  /\ UNCHANGED <<recorded, settled, reopened>>

Settle(o) ==
  /\ credited[o] = 1
  /\ settled' = settled \cup {o}
  /\ UNCHANGED <<recorded, credited, reopened>>

Reopen(o) ==
  /\ o \in recorded \ reopened
  /\ reopened' = reopened \cup {o}
  /\ settled' = settled \ {o}
  /\ UNCHANGED <<recorded, credited>>

Next ==
  \E o \in Recharges : Record(o) \/ Credit(o) \/ Settle(o) \/ Reopen(o)

Spec == Init /\ [][Next]_ledger
=============================================================================
