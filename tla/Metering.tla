------------------------------ MODULE Metering ------------------------------
(***************************************************************************)
(* What billing promises of a user's balance, with none of its machinery:  *)
(* of the requests with one id one is charged, once, what its answer may   *)
(* cost; a recharge is added once; and an edit, which decides on a balance *)
(* it noted, replaces the balance once and never by a change below zero.   *)
(***************************************************************************)
EXTENDS Integers

CONSTANTS
  Requests,
  Id,         \* per request: its id
  Bills,      \* per request: the fingerprints its answer may give it
  Cost,       \* per fingerprint: what the request costs
  Recharges,
  Edits,
  Amount,     \* per recharge or edit: the change of the balance
  Initial,
  None

VARIABLES
  balance,
  charged,    \* requests that have been charged
  settled,    \* recharges and edits that have been made
  noted       \* per edit under way: the balance it decides on

account == <<balance, charged, settled, noted>>

Init ==
  /\ balance = Initial
  /\ charged = {}
  /\ settled = {}
  /\ noted = [e \in Edits |-> None]

Charge(r) ==
  /\ r \notin charged
  /\ charged' = charged \cup {r}
  /\ \A s \in charged : Id[s] # Id[r]
  /\ \E p \in Bills[r] : balance' = balance - Cost[p]
  /\ UNCHANGED <<settled, noted>>

Recharge(e) ==
  /\ e \notin settled
  /\ balance' = balance + Amount[e]
  /\ settled' = settled \cup {e}
  /\ UNCHANGED <<charged, noted>>

Note(e) ==
  /\ noted[e] = None /\ e \notin settled
  /\ noted' = [noted EXCEPT ![e] = balance]
  /\ UNCHANGED <<balance, charged, settled>>

Edit(e) ==
  /\ noted[e] # None /\ e \notin settled
  /\ Amount[e] # 0 => noted[e] + Amount[e] >= 0
  /\ balance' = noted[e] + Amount[e]
  /\ settled' = settled \cup {e}
  /\ noted' = [noted EXCEPT ![e] = None]
  /\ UNCHANGED charged

Abandon(e) ==
  /\ noted[e] # None
  /\ noted' = [noted EXCEPT ![e] = None]
  /\ UNCHANGED <<balance, charged, settled>>

Next ==
  \/ \E r \in Requests : Charge(r)
  \/ \E e \in Recharges : Recharge(e)
  \/ \E e \in Edits : Note(e) \/ Edit(e) \/ Abandon(e)

Spec == Init /\ [][Next]_account
=============================================================================
