------------------------- MODULE UsageBillingProofs -------------------------
(***************************************************************************)
(* Proofs about UsageBilling: its types; that of the requests with one id  *)
(* at most one is charged, and that what is logged was charged; that the   *)
(* balance is what was paid in less what was charged; that the cached      *)
(* balance follows it; and that all of it implements Metering.  The ledger *)
(* and the cache need the laws of sums (Sums), the ledger also that only   *)
(* finitely many requests have been charged at any time.                   *)
(***************************************************************************)
EXTENDS UsageBilling, Sums

\* What the proofs use of the constants.
LEMMA Constants ==
  /\ Id \in [Requests -> Ids] /\ Cost \in [Prints -> Nat]
  /\ \A r \in Requests : Bills[r] \subseteq Prints
  /\ Changes = Recharges \cup Edits /\ Recharges \cap Edits = {}
  /\ Silent \subseteq Recharges
  /\ Amount \in [Changes -> Int] /\ Initial \in Int /\ MaxFaults \in Nat
  /\ None \notin Requests /\ None \notin Prints /\ None \notin Int
BY BillingAssumption DEF Changes, Prints

-----------------------------------------------------------------------------
LEMMA InitType == Init => TypeOK
PROOF
<1> SUFFICES ASSUME Init PROVE TypeOK
  OBVIOUS
<1>1. balance \in Int /\ faults \in 0 .. MaxFaults /\ applied = {} /\ queued = {} /\ clean = {}
  BY Constants DEF Init
<1>2. dedup \in [Ids -> Requests \cup {None}] /\ archive \in [Ids -> Requests \cup {None}]
  BY DEF Init
<1>3. pc \in [Requests -> Labels] /\ \A r \in Requests : pc[r] = "idle"
  BY DEF Init, Labels
<1>8. print \in [Requests -> Prints \cup {None}]
  BY DEF Init
<1>4. cache = None /\ leader = None /\ read \in [Requests -> Int \cup {None}]
  BY DEF Init
<1>5. change \in [Changes -> {"idle", "read", "invalidate", "done", "rejected"}]
  BY DEF Init
<1>6. seen \in [Edits -> Int]
  BY DEF Init
<1>7. stale \in BOOLEAN /\ unseen \subseteq Silent /\ overwritten \in BOOLEAN
  BY DEF Init
<1> QED
  BY <1>1, <1>2, <1>3, <1>4, <1>5, <1>6, <1>7, <1>8 DEF TypeOK

LEMMA StepType ==
  ASSUME TypeOK, [Next]_vars
  PROVE  TypeOK'
PROOF
<1>1. ASSUME NEW r \in Requests, Hit(r) PROVE TypeOK'
  BY <1>1, Constants DEF Hit, Eligible, Goto, At, database, cached, changes, TypeOK, Labels
<1>2. ASSUME NEW r \in Requests, Load(r) PROVE TypeOK'
  BY <1>2, Constants DEF Load, Miss, Fault, Goto, At, database, cached, changes, TypeOK, Labels
<1>3. ASSUME NEW r \in Requests, Join(r) PROVE TypeOK'
  BY <1>3, Constants DEF Join, Miss, Fault, Goto, At, database, cached, changes, TypeOK, Labels
<1>4. ASSUME NEW r \in Requests, Submit(r) PROVE TypeOK'
  BY <1>4, Constants DEF Submit, Goto, At, database, cached, changes, TypeOK, Labels
<1>5. ASSUME NEW r \in Requests, Fails(r) PROVE TypeOK'
  BY <1>5, Constants DEF Fails, Fault, Goto, At, database, cached, changes, TypeOK, Labels
<1>6. ASSUME NEW r \in Requests, Insert(r) PROVE TypeOK'
  BY <1>6, Constants DEF Insert, Claimed, Goto, At, database, cached, changes, TypeOK, Labels
<1>7. ASSUME NEW r \in Requests, CompareRow(r) PROVE TypeOK'
  BY <1>7, Constants DEF CompareRow, Compared, Goto, At, database, cached, changes, TypeOK, Labels
<1>8. ASSUME NEW r \in Requests, CompareArchived(r) PROVE TypeOK'
  BY <1>8, Constants DEF CompareArchived, Compared, Archived, Goto, At, database, cached, changes, TypeOK, Labels
<1>9. ASSUME NEW r \in Requests, Commit(r) PROVE TypeOK'
  BY <1>9, Constants DEF Commit, Charged, Fault, Goto, At, database, cached, changes, TypeOK, Labels
<1>10. ASSUME NEW r \in Requests, Finalize(r) PROVE TypeOK'
  <2>1. queued' \subseteq Requests /\ leader' = leader /\ read' = read
    BY <1>10 DEF Finalize, Fault, database, TypeOK
  <2>2. pc' \in [Requests -> Labels]
    BY <1>10 DEF Finalize, Goto, TypeOK, Labels
  <2>3. leader # None => pc'[leader] = "loading"
    BY <1>10 DEF Finalize, Goto, At, TypeOK
  <2>4. \A s \in Requests : pc'[s] = "loading" => pc[s] = "loading"
    BY <1>10 DEF Finalize, Goto, TypeOK
  <2>5. faults' \in 0 .. MaxFaults
    BY <1>10, Constants DEF Finalize, Fault, TypeOK
  <2>6. \A s \in Requests :
          (pc'[s] \notin {"idle", "loading", "served", "over"} \/ s \in applied' \cup queued') => print'[s] # None
    BY <1>10 DEF Finalize, Goto, At, database, TypeOK
  <2> QED
    BY <1>10, <2>1, <2>2, <2>3, <2>4, <2>5, <2>6 DEF Finalize, database, changes, TypeOK
<1>11. ASSUME NEW r \in Requests, SetCache(r) PROVE TypeOK'
  <2>1. cache' \in Int \cup {None} /\ stale' \in BOOLEAN /\ unseen' \subseteq Silent
    BY <1>11 DEF SetCache, TypeOK
  <2>2. read' \in [Requests -> Int \cup {None}] /\ clean' \subseteq Requests
    BY <1>11 DEF SetCache, Forget, TypeOK
  <2>3. leader # None => read'[leader] # None
    BY <1>11 DEF SetCache, Forget, TypeOK
  <2>4. faults' \in 0 .. MaxFaults
    BY <1>11, Constants DEF SetCache, Fault, TypeOK
  <2> QED
    BY <1>11, <2>1, <2>2, <2>3, <2>4 DEF SetCache, database, changes, TypeOK
<1>12. ASSUME NEW r \in Requests, DeductCache(r) PROVE TypeOK'
  <2>1. cache' \in Int \cup {None}
    <3>1. CASE cache' = cache
      BY <3>1 DEF TypeOK
    <3>2. CASE cache = None /\ cache' = None
      BY <3>2
    <3>3. CASE cache # None /\ cache' = cache - Cost[print[r]]
      <4>1. print[r] \in Prints
        BY <1>12 DEF DeductCache, TypeOK
      <4>2. Cost[print[r]] \in Nat /\ cache \in Int
        BY <4>1, <3>3, Constants DEF TypeOK
      <4> QED
        BY <3>3, <4>2
    <3> QED
      BY <1>12, <3>1, <3>2, <3>3 DEF DeductCache, Deducted
  <2>2. queued' \subseteq Requests
    BY <1>12 DEF DeductCache, TypeOK
  <2>3. faults' \in 0 .. MaxFaults
    BY <1>12, Constants DEF DeductCache, Fault, TypeOK
  <2> QED
    BY <1>12, <2>1, <2>2, <2>3 DEF DeductCache, database, changes, TypeOK
<1>13. ASSUME NEW e \in Changes, Recharge(e) PROVE TypeOK'
  BY <1>13, Constants DEF Recharge, Turn, database, cached, changes, TypeOK, Labels
<1>14. ASSUME NEW e \in Changes, ReadUser(e) PROVE TypeOK'
  BY <1>14, Constants DEF ReadUser, Turn, database, cached, changes, TypeOK, Labels
<1>15. ASSUME NEW e \in Changes, WriteUser(e) PROVE TypeOK'
  BY <1>15, Constants DEF WriteUser, Turn, Fault, database, cached, changes, TypeOK, Labels
<1>16. ASSUME NEW e \in Changes, Reject(e) PROVE TypeOK'
  BY <1>16, Constants DEF Reject, Turn, Fault, database, cached, changes, TypeOK, Labels
<1>17. ASSUME NEW e \in Changes, Invalidate(e) PROVE TypeOK'
  <2>1. cache' \in Int \cup {None} /\ stale' \in BOOLEAN /\ unseen' \subseteq Silent
    BY <1>17 DEF Invalidate, Dropped, TypeOK
  <2>2. change' \in [Changes -> {"idle", "read", "invalidate", "done", "rejected"}]
    BY <1>17 DEF Invalidate, Turn, TypeOK
  <2>3. faults' \in 0 .. MaxFaults
    BY <1>17, Constants DEF Invalidate, Fault, TypeOK
  <2> QED
    BY <1>17, <2>1, <2>2, <2>3 DEF Invalidate, database, TypeOK
<1>18. ASSUME NEW i \in Ids, Cleanup(i) PROVE TypeOK'
  BY <1>18, Constants DEF Cleanup, database, cached, changes, TypeOK, Labels
<1>19. ASSUME Loaded PROVE TypeOK'
  <2>1. leader' = None /\ \A s \in Requests : pc'[s] # "loading"
    BY <1>19 DEF Loaded, Resumed, Eligible, At, TypeOK
  <2>2. pc' \in [Requests -> Labels]
    BY <1>19 DEF Loaded, Resumed, Eligible, At, TypeOK, Labels
  <2>3. read' \in [Requests -> Int \cup {None}] /\ clean' \subseteq Requests
    BY <1>19 DEF Loaded, Forget, TypeOK
  <2>4. faults' \in 0 .. MaxFaults
    BY <1>19, Constants DEF Loaded, Fault, TypeOK
  <2>5. \A s \in Requests : pc'[s] = pc[s] \/ pc'[s] \in {"served", "over"}
    BY <1>19 DEF Loaded, Resumed, Eligible, TypeOK
  <2>6. \A s \in Requests :
          (pc'[s] \notin {"idle", "loading", "served", "over"} \/ s \in applied' \cup queued') => print'[s] # None
    BY <1>19, <2>5 DEF Loaded, database, TypeOK
  <2>7. balance' = balance /\ dedup' = dedup /\ archive' = archive /\ print' = print /\ applied' = applied
    BY <1>19 DEF Loaded, database
  <2>8. cache' = cache /\ stale' = stale /\ unseen' = unseen /\ overwritten' = overwritten
        /\ queued' = queued
    BY <1>19 DEF Loaded, database
  <2>9. change' = change /\ seen' = seen
    BY <1>19 DEF Loaded, changes
  <2> QED
    BY <2>1, <2>2, <2>3, <2>4, <2>6, <2>7, <2>8, <2>9 DEF TypeOK
<1>20. ASSUME Expire PROVE TypeOK'
  BY <1>20, Constants DEF Expire, Dropped, database, cached, changes, TypeOK, Labels
<1>21. CASE UNCHANGED vars
  BY <1>21 DEF vars, TypeOK, Labels
<1> QED
  BY <1>1, <1>2, <1>3, <1>4, <1>5, <1>6, <1>7, <1>8, <1>9, <1>10, <1>11, <1>12, <1>13, <1>14, <1>15, <1>16, <1>17, <1>18, <1>19, <1>20, <1>21 DEF Next, Handle, Alter

-----------------------------------------------------------------------------
Claiming(r) == pc[r] \in {"claimed", "effects"}

\* Every charged request is recorded under its id, in the table or the archive;
\* a request that may still charge has its id to itself.
RowInv ==
  /\ \A i \in Ids : dedup[i] # None =>
       dedup[i] \in applied /\ Id[dedup[i]] = i /\ archive[i] = None
  /\ \A i \in Ids : archive[i] # None => archive[i] \in applied /\ Id[archive[i]] = i
  /\ \A r \in applied : dedup[Id[r]] = r \/ archive[Id[r]] = r

ClaimInv ==
  /\ \A r \in Requests : Claiming(r) => dedup[Id[r]] = None
  /\ \A r \in Requests : pc[r] = "effects" => archive[Id[r]] = None
  /\ \A r, s \in Requests : Claiming(r) /\ Claiming(s) /\ Id[r] = Id[s] => r = s

LoggedInv ==
  /\ \A r \in Requests : pc[r] = "finalize" => r \in applied
  /\ \A r \in applied : pc[r] \in {"finalize", "done", "over"}
  /\ LoggedIsBilled

LEMMA InitClaim == Init => RowInv /\ ClaimInv /\ LoggedInv
BY Constants DEF Init, RowInv, ClaimInv, LoggedInv, LoggedIsBilled, Claiming, At

LEMMA StepRow ==
  ASSUME TypeOK, RowInv, ClaimInv, [Next]_vars
  PROVE  RowInv'
PROOF
<1>1. ASSUME NEW r \in Requests, Hit(r) PROVE RowInv'
  BY <1>1, Constants DEF Hit, Eligible, Goto, At, database, cached, changes, RowInv, ClaimInv, TypeOK, Claiming
<1>2. ASSUME NEW r \in Requests, Load(r) PROVE RowInv'
  BY <1>2, Constants DEF Load, Miss, Fault, Goto, At, database, cached, changes, RowInv, ClaimInv, TypeOK, Claiming
<1>3. ASSUME NEW r \in Requests, Join(r) PROVE RowInv'
  BY <1>3, Constants DEF Join, Miss, Fault, Goto, At, database, cached, changes, RowInv, ClaimInv, TypeOK, Claiming
<1>4. ASSUME NEW r \in Requests, Submit(r) PROVE RowInv'
  BY <1>4, Constants DEF Submit, Goto, At, database, cached, changes, RowInv, ClaimInv, TypeOK, Claiming
<1>5. ASSUME NEW r \in Requests, Fails(r) PROVE RowInv'
  BY <1>5, Constants DEF Fails, Fault, Goto, At, database, cached, changes, RowInv, ClaimInv, TypeOK, Claiming
<1>6. ASSUME NEW r \in Requests, Insert(r) PROVE RowInv'
  BY <1>6, Constants DEF Insert, Claimed, Goto, At, database, cached, changes, RowInv, ClaimInv, TypeOK, Claiming
<1>7. ASSUME NEW r \in Requests, CompareRow(r) PROVE RowInv'
  BY <1>7, Constants DEF CompareRow, Compared, Goto, At, database, cached, changes, RowInv, ClaimInv, TypeOK, Claiming
<1>8. ASSUME NEW r \in Requests, CompareArchived(r) PROVE RowInv'
  BY <1>8, Constants DEF CompareArchived, Compared, Archived, Goto, At, database, cached, changes, RowInv, ClaimInv, TypeOK, Claiming
<1>9. ASSUME NEW r \in Requests, Commit(r) PROVE RowInv'
  BY <1>9, Constants DEF Commit, Charged, Fault, Goto, At, database, cached, changes, RowInv, ClaimInv, TypeOK, Claiming
<1>10. ASSUME NEW r \in Requests, Finalize(r) PROVE RowInv'
  BY <1>10, Constants DEF Finalize, Fault, Goto, At, database, cached, changes, RowInv, ClaimInv, TypeOK, Claiming
<1>11. ASSUME NEW r \in Requests, SetCache(r) PROVE RowInv'
  BY <1>11, Constants DEF SetCache, Forget, Fault, database, cached, changes, RowInv, ClaimInv, TypeOK, Claiming
<1>12. ASSUME NEW r \in Requests, DeductCache(r) PROVE RowInv'
  BY <1>12, Constants DEF DeductCache, Deducted, Fault, database, cached, changes, RowInv, ClaimInv, TypeOK, Claiming
<1>13. ASSUME NEW e \in Changes, Recharge(e) PROVE RowInv'
  BY <1>13, Constants DEF Recharge, Turn, database, cached, changes, RowInv, ClaimInv, TypeOK, Claiming
<1>14. ASSUME NEW e \in Changes, ReadUser(e) PROVE RowInv'
  BY <1>14, Constants DEF ReadUser, Turn, database, cached, changes, RowInv, ClaimInv, TypeOK, Claiming
<1>15. ASSUME NEW e \in Changes, WriteUser(e) PROVE RowInv'
  BY <1>15, Constants DEF WriteUser, Turn, Fault, database, cached, changes, RowInv, ClaimInv, TypeOK, Claiming
<1>16. ASSUME NEW e \in Changes, Reject(e) PROVE RowInv'
  BY <1>16, Constants DEF Reject, Turn, Fault, database, cached, changes, RowInv, ClaimInv, TypeOK, Claiming
<1>17. ASSUME NEW e \in Changes, Invalidate(e) PROVE RowInv'
  BY <1>17, Constants DEF Invalidate, Turn, Dropped, Fault, database, cached, changes, RowInv, ClaimInv, TypeOK, Claiming
<1>18. ASSUME NEW i \in Ids, Cleanup(i) PROVE RowInv'
  BY <1>18, Constants DEF Cleanup, database, cached, changes, RowInv, ClaimInv, TypeOK, Claiming
<1>19. ASSUME Loaded PROVE RowInv'
  BY <1>19, Constants DEF Loaded, Resumed, Eligible, Forget, Pending, Fault, database, cached, changes, RowInv, ClaimInv, TypeOK, Claiming
<1>20. ASSUME Expire PROVE RowInv'
  BY <1>20, Constants DEF Expire, Dropped, database, cached, changes, RowInv, ClaimInv, TypeOK, Claiming
<1>21. CASE UNCHANGED vars
  BY <1>21 DEF vars, RowInv, ClaimInv, TypeOK, Claiming
<1> QED
  BY <1>1, <1>2, <1>3, <1>4, <1>5, <1>6, <1>7, <1>8, <1>9, <1>10, <1>11, <1>12, <1>13, <1>14, <1>15, <1>16, <1>17, <1>18, <1>19, <1>20, <1>21 DEF Next, Handle, Alter

LEMMA StepClaim ==
  ASSUME TypeOK, RowInv, ClaimInv, [Next]_vars
  PROVE  ClaimInv'
PROOF
<1>1. ASSUME NEW r \in Requests, Hit(r) PROVE ClaimInv'
  BY <1>1, Constants DEF Hit, Eligible, Goto, At, database, cached, changes, RowInv, ClaimInv, TypeOK, Claiming
<1>2. ASSUME NEW r \in Requests, Load(r) PROVE ClaimInv'
  BY <1>2, Constants DEF Load, Miss, Fault, Goto, At, database, cached, changes, RowInv, ClaimInv, TypeOK, Claiming
<1>3. ASSUME NEW r \in Requests, Join(r) PROVE ClaimInv'
  BY <1>3, Constants DEF Join, Miss, Fault, Goto, At, database, cached, changes, RowInv, ClaimInv, TypeOK, Claiming
<1>4. ASSUME NEW r \in Requests, Submit(r) PROVE ClaimInv'
  BY <1>4, Constants DEF Submit, Goto, At, database, cached, changes, RowInv, ClaimInv, TypeOK, Claiming
<1>5. ASSUME NEW r \in Requests, Fails(r) PROVE ClaimInv'
  BY <1>5, Constants DEF Fails, Fault, Goto, At, database, cached, changes, RowInv, ClaimInv, TypeOK, Claiming
<1>6. ASSUME NEW r \in Requests, Insert(r) PROVE ClaimInv'
  BY <1>6, Constants DEF Insert, Claimed, Goto, At, database, cached, changes, RowInv, ClaimInv, TypeOK, Claiming
<1>7. ASSUME NEW r \in Requests, CompareRow(r) PROVE ClaimInv'
  BY <1>7, Constants DEF CompareRow, Compared, Goto, At, database, cached, changes, RowInv, ClaimInv, TypeOK, Claiming
<1>8. ASSUME NEW r \in Requests, CompareArchived(r) PROVE ClaimInv'
  BY <1>8, Constants DEF CompareArchived, Compared, Archived, Goto, At, database, cached, changes, RowInv, ClaimInv, TypeOK, Claiming
<1>9. ASSUME NEW r \in Requests, Commit(r) PROVE ClaimInv'
  BY <1>9, Constants DEF Commit, Charged, Fault, Goto, At, database, cached, changes, RowInv, ClaimInv, TypeOK, Claiming
<1>10. ASSUME NEW r \in Requests, Finalize(r) PROVE ClaimInv'
  BY <1>10, Constants DEF Finalize, Fault, Goto, At, database, cached, changes, RowInv, ClaimInv, TypeOK, Claiming
<1>11. ASSUME NEW r \in Requests, SetCache(r) PROVE ClaimInv'
  BY <1>11, Constants DEF SetCache, Forget, Fault, database, cached, changes, RowInv, ClaimInv, TypeOK, Claiming
<1>12. ASSUME NEW r \in Requests, DeductCache(r) PROVE ClaimInv'
  BY <1>12, Constants DEF DeductCache, Deducted, Fault, database, cached, changes, RowInv, ClaimInv, TypeOK, Claiming
<1>13. ASSUME NEW e \in Changes, Recharge(e) PROVE ClaimInv'
  BY <1>13, Constants DEF Recharge, Turn, database, cached, changes, RowInv, ClaimInv, TypeOK, Claiming
<1>14. ASSUME NEW e \in Changes, ReadUser(e) PROVE ClaimInv'
  BY <1>14, Constants DEF ReadUser, Turn, database, cached, changes, RowInv, ClaimInv, TypeOK, Claiming
<1>15. ASSUME NEW e \in Changes, WriteUser(e) PROVE ClaimInv'
  BY <1>15, Constants DEF WriteUser, Turn, Fault, database, cached, changes, RowInv, ClaimInv, TypeOK, Claiming
<1>16. ASSUME NEW e \in Changes, Reject(e) PROVE ClaimInv'
  BY <1>16, Constants DEF Reject, Turn, Fault, database, cached, changes, RowInv, ClaimInv, TypeOK, Claiming
<1>17. ASSUME NEW e \in Changes, Invalidate(e) PROVE ClaimInv'
  BY <1>17, Constants DEF Invalidate, Turn, Dropped, Fault, database, cached, changes, RowInv, ClaimInv, TypeOK, Claiming
<1>18. ASSUME NEW i \in Ids, Cleanup(i) PROVE ClaimInv'
  BY <1>18, Constants DEF Cleanup, database, cached, changes, RowInv, ClaimInv, TypeOK, Claiming
<1>19. ASSUME Loaded PROVE ClaimInv'
  BY <1>19, Constants DEF Loaded, Resumed, Eligible, Forget, Pending, Fault, database, cached, changes, RowInv, ClaimInv, TypeOK, Claiming
<1>20. ASSUME Expire PROVE ClaimInv'
  BY <1>20, Constants DEF Expire, Dropped, database, cached, changes, RowInv, ClaimInv, TypeOK, Claiming
<1>21. CASE UNCHANGED vars
  BY <1>21 DEF vars, RowInv, ClaimInv, TypeOK, Claiming
<1> QED
  BY <1>1, <1>2, <1>3, <1>4, <1>5, <1>6, <1>7, <1>8, <1>9, <1>10, <1>11, <1>12, <1>13, <1>14, <1>15, <1>16, <1>17, <1>18, <1>19, <1>20, <1>21 DEF Next, Handle, Alter

LEMMA StepLogged ==
  ASSUME TypeOK, RowInv, LoggedInv, [Next]_vars
  PROVE  LoggedInv'
PROOF
<1>1. ASSUME NEW r \in Requests, Hit(r) PROVE LoggedInv'
  BY <1>1, Constants DEF Hit, Eligible, Goto, At, database, cached, changes, RowInv, LoggedInv, LoggedIsBilled, TypeOK, At
<1>2. ASSUME NEW r \in Requests, Load(r) PROVE LoggedInv'
  BY <1>2, Constants DEF Load, Miss, Fault, Goto, At, database, cached, changes, RowInv, LoggedInv, LoggedIsBilled, TypeOK, At
<1>3. ASSUME NEW r \in Requests, Join(r) PROVE LoggedInv'
  BY <1>3, Constants DEF Join, Miss, Fault, Goto, At, database, cached, changes, RowInv, LoggedInv, LoggedIsBilled, TypeOK, At
<1>4. ASSUME NEW r \in Requests, Submit(r) PROVE LoggedInv'
  BY <1>4, Constants DEF Submit, Goto, At, database, cached, changes, RowInv, LoggedInv, LoggedIsBilled, TypeOK, At
<1>5. ASSUME NEW r \in Requests, Fails(r) PROVE LoggedInv'
  BY <1>5, Constants DEF Fails, Fault, Goto, At, database, cached, changes, RowInv, LoggedInv, LoggedIsBilled, TypeOK, At
<1>6. ASSUME NEW r \in Requests, Insert(r) PROVE LoggedInv'
  BY <1>6, Constants DEF Insert, Claimed, Goto, At, database, cached, changes, RowInv, LoggedInv, LoggedIsBilled, TypeOK, At
<1>7. ASSUME NEW r \in Requests, CompareRow(r) PROVE LoggedInv'
  <2>1. r \in Requests /\ applied' = applied /\ Id[r] \in Ids
    BY <1>7, Constants DEF CompareRow, database
  <2>2. \A s \in Requests \ {r} : pc'[s] = pc[s]
    BY <1>7 DEF CompareRow, Goto, TypeOK
  <2>3. pc'[r] # "finalize"
    BY <1>7 DEF CompareRow, Compared, Goto, TypeOK
  <2>4. ASSUME pc'[r] = "done"
        PROVE  \E s \in applied : Id[s] = Id[r] /\ print[s] = print[r]
    <3>1. dedup[Id[r]] # None /\ print[r] = print[dedup[Id[r]]]
      BY <1>7, <2>4 DEF CompareRow, Compared, Archived, Goto, TypeOK
    <3>2. dedup[Id[r]] \in applied /\ Id[dedup[Id[r]]] = Id[r]
      BY <2>1, <3>1 DEF RowInv
    <3> QED
      BY <3>1, <3>2, <2>1, Constants DEF TypeOK
  <2>5. r \notin applied /\ print' = print
    BY <1>7 DEF CompareRow, At, LoggedInv
  <2>6. \A s \in Requests : pc'[s] = "finalize" => s \in applied'
    BY <2>1, <2>2, <2>3 DEF LoggedInv
  <2>7. \A s \in applied' : pc'[s] \in {"finalize", "done", "over"}
    BY <2>1, <2>2, <2>5 DEF LoggedInv, TypeOK
  <2>8. LoggedIsBilled'
    BY <2>1, <2>2, <2>4, <2>5 DEF LoggedInv, LoggedIsBilled, At
  <2> QED
    BY <2>6, <2>7, <2>8 DEF LoggedInv
<1>8. ASSUME NEW r \in Requests, CompareArchived(r) PROVE LoggedInv'
  <2>1. r \in Requests /\ applied' = applied /\ Id[r] \in Ids
    BY <1>8, Constants DEF CompareArchived, database
  <2>2. \A s \in Requests \ {r} : pc'[s] = pc[s]
    BY <1>8 DEF CompareArchived, Goto, TypeOK
  <2>3. pc'[r] # "finalize"
    BY <1>8 DEF CompareArchived, Compared, Goto, TypeOK
  <2>4. ASSUME pc'[r] = "done"
        PROVE  \E s \in applied : Id[s] = Id[r] /\ print[s] = print[r]
    <3>1. archive[Id[r]] # None /\ print[r] = print[archive[Id[r]]]
      BY <1>8, <2>4 DEF CompareArchived, Compared, Archived, Goto, TypeOK
    <3>2. archive[Id[r]] \in applied /\ Id[archive[Id[r]]] = Id[r]
      BY <2>1, <3>1 DEF RowInv
    <3> QED
      BY <3>1, <3>2, <2>1, Constants DEF TypeOK
  <2>5. r \notin applied /\ print' = print
    BY <1>8 DEF CompareArchived, At, LoggedInv
  <2>6. \A s \in Requests : pc'[s] = "finalize" => s \in applied'
    BY <2>1, <2>2, <2>3 DEF LoggedInv
  <2>7. \A s \in applied' : pc'[s] \in {"finalize", "done", "over"}
    BY <2>1, <2>2, <2>5 DEF LoggedInv, TypeOK
  <2>8. LoggedIsBilled'
    BY <2>1, <2>2, <2>4, <2>5 DEF LoggedInv, LoggedIsBilled, At
  <2> QED
    BY <2>6, <2>7, <2>8 DEF LoggedInv
<1>9. ASSUME NEW r \in Requests, Commit(r) PROVE LoggedInv'
  BY <1>9, Constants DEF Commit, Charged, Fault, Goto, At, database, cached, changes, RowInv, LoggedInv, LoggedIsBilled, TypeOK, At
<1>10. ASSUME NEW r \in Requests, Finalize(r) PROVE LoggedInv'
  BY <1>10, Constants DEF Finalize, Fault, Goto, At, database, cached, changes, RowInv, LoggedInv, LoggedIsBilled, TypeOK, At
<1>11. ASSUME NEW r \in Requests, SetCache(r) PROVE LoggedInv'
  BY <1>11, Constants DEF SetCache, Forget, Fault, database, cached, changes, RowInv, LoggedInv, LoggedIsBilled, TypeOK, At
<1>12. ASSUME NEW r \in Requests, DeductCache(r) PROVE LoggedInv'
  BY <1>12, Constants DEF DeductCache, Deducted, Fault, database, cached, changes, RowInv, LoggedInv, LoggedIsBilled, TypeOK, At
<1>13. ASSUME NEW e \in Changes, Recharge(e) PROVE LoggedInv'
  BY <1>13, Constants DEF Recharge, Turn, database, cached, changes, RowInv, LoggedInv, LoggedIsBilled, TypeOK, At
<1>14. ASSUME NEW e \in Changes, ReadUser(e) PROVE LoggedInv'
  BY <1>14, Constants DEF ReadUser, Turn, database, cached, changes, RowInv, LoggedInv, LoggedIsBilled, TypeOK, At
<1>15. ASSUME NEW e \in Changes, WriteUser(e) PROVE LoggedInv'
  BY <1>15, Constants DEF WriteUser, Turn, Fault, database, cached, changes, RowInv, LoggedInv, LoggedIsBilled, TypeOK, At
<1>16. ASSUME NEW e \in Changes, Reject(e) PROVE LoggedInv'
  BY <1>16, Constants DEF Reject, Turn, Fault, database, cached, changes, RowInv, LoggedInv, LoggedIsBilled, TypeOK, At
<1>17. ASSUME NEW e \in Changes, Invalidate(e) PROVE LoggedInv'
  BY <1>17, Constants DEF Invalidate, Turn, Dropped, Fault, database, cached, changes, RowInv, LoggedInv, LoggedIsBilled, TypeOK, At
<1>18. ASSUME NEW i \in Ids, Cleanup(i) PROVE LoggedInv'
  BY <1>18, Constants DEF Cleanup, database, cached, changes, RowInv, LoggedInv, LoggedIsBilled, TypeOK, At
<1>19. ASSUME Loaded PROVE LoggedInv'
  BY <1>19, Constants DEF Loaded, Resumed, Eligible, Forget, Pending, Fault, database, cached, changes, RowInv, LoggedInv, LoggedIsBilled, TypeOK, At
<1>20. ASSUME Expire PROVE LoggedInv'
  BY <1>20, Constants DEF Expire, Dropped, database, cached, changes, RowInv, LoggedInv, LoggedIsBilled, TypeOK, At
<1>21. CASE UNCHANGED vars
  BY <1>21 DEF vars, RowInv, LoggedInv, LoggedIsBilled, TypeOK, At
<1> QED
  BY <1>1, <1>2, <1>3, <1>4, <1>5, <1>6, <1>7, <1>8, <1>9, <1>10, <1>11, <1>12, <1>13, <1>14, <1>15, <1>16, <1>17, <1>18, <1>19, <1>20, <1>21 DEF Next, Handle, Alter

-----------------------------------------------------------------------------
\* The types are right, for any requests, changes of the balance and failures.
THEOREM BillingTypeCorrect == Spec => []TypeOK
BY InitType, StepType, PTL DEF Spec

LEMMA Recorded == Spec => [](TypeOK /\ RowInv /\ ClaimInv /\ LoggedInv)
BY InitType, StepType, InitClaim, StepRow, StepClaim, StepLogged, PTL DEF Spec

\* Of the requests with one id at most one is charged: each is recorded in the row
\* of its id, and the table and the archive never have a row of one id together.
THEOREM OneCharge == Spec => []BilledOnce
PROOF
<1>1. TypeOK /\ RowInv => BilledOnce
  BY Constants DEF TypeOK, RowInv, BilledOnce
<1> QED
  BY <1>1, Recorded, PTL

\* A request whose usage is logged was charged, itself or as the one it repeats.
THEOREM LoggedWasCharged == Spec => []LoggedIsBilled
PROOF
<1>1. LoggedInv => LoggedIsBilled
  BY DEF LoggedInv
<1> QED
  BY <1>1, Recorded, PTL

-----------------------------------------------------------------------------
\* The ledger: every change of the balance is a charge, a recharge or an edit.

FiniteInv == IsFiniteSet(applied) /\ IsFiniteSet(Settled)

LedgerInv ==
  ~overwritten =>
    balance = Initial - SumVia(Cost, print, applied) + Sum(Amount, Settled)

\* What a step does to the ledger.
Idles ==
  /\ UNCHANGED <<balance, applied, overwritten>>
  /\ Settled' = Settled
  /\ \A r \in applied : print'[r] = print[r]
Charges(r) ==
  /\ r \notin applied
  /\ balance' = balance - Cost[print[r]]
  /\ applied' = applied \cup {r}
  /\ Settled' = Settled
  /\ UNCHANGED <<print, overwritten>>
Settles(e) ==
  /\ e \notin Settled
  /\ Settled' = Settled \cup {e}
  /\ ~overwritten' => ~overwritten /\ balance' = balance + Amount[e]
  /\ UNCHANGED <<print, applied>>

LEMMA SettledSame ==
  ASSUME TypeOK, NEW e \in Changes, NEW l, Turn(e, l)
  PROVE  /\ \/ change[e] \in {"invalidate", "done"}
                 /\ l \in {"invalidate", "done"}
            \/ change[e] \notin {"invalidate", "done"}
                 /\ l \notin {"invalidate", "done"}
            => Settled' = Settled
         /\ /\ change[e] \notin {"invalidate", "done"}
            /\ l \in {"invalidate", "done"}
            => e \notin Settled /\ Settled' = Settled \cup {e}
<1>1. /\ change'[e] = l
      /\ \A d \in Changes : d # e => change'[d] = change[d]
  BY DEF TypeOK, Turn
<1>. QED
  BY <1>1 DEF Settled

LEMMA LedgerStep ==
  ASSUME TypeOK, LoggedInv, [Next]_vars
  PROVE  \/ Idles
         \/ \E r \in Requests : Charges(r)
         \/ \E e \in Changes : Settles(e)
<1>1. ASSUME NEW r \in Requests,
             \/ Hit(r) \/ Load(r) \/ Join(r) \/ Fails(r) \/ Insert(r)
             \/ CompareRow(r) \/ CompareArchived(r) \/ Finalize(r)
             \/ SetCache(r) \/ DeductCache(r)
      PROVE  Idles
  <2>1. UNCHANGED <<balance, applied, overwritten, change, print>>
    BY <1>1 DEF Hit, Load, Join, Fails, Insert, CompareRow, CompareArchived,
        Finalize, SetCache, DeductCache, database, changes
  <2>. QED
    BY <2>1 DEF Idles, Settled
<1>2. ASSUME NEW r \in Requests, Submit(r)
      PROVE  Idles
  <2>1. r \notin applied
    BY <1>2 DEF Submit, At, LoggedInv
  <2>2. /\ UNCHANGED <<balance, applied, overwritten, change>>
        /\ \A s \in Requests : s # r => print'[s] = print[s]
    BY <1>2 DEF Submit, database, changes, TypeOK
  <2>. QED
    BY <2>1, <2>2 DEF Idles, Settled, TypeOK
<1>3. ASSUME NEW r \in Requests, Commit(r)
      PROVE  Idles \/ Charges(r)
  <2>1. r \notin applied
    BY <1>3 DEF Commit, At, LoggedInv
  <2>2. UNCHANGED <<print, overwritten, change>>
    BY <1>3 DEF Commit, changes
  <2>3. \/ balance' = balance - Cost[print[r]] /\ applied' = applied \cup {r}
        \/ balance' = balance /\ applied' = applied
    BY <1>3 DEF Commit, Charged
  <2>. QED
    BY <2>1, <2>2, <2>3 DEF Idles, Charges, Settled
<1>4. ASSUME NEW e \in Changes, Recharge(e)
      PROVE  Settles(e)
  <2>1. e \notin Settled /\ Settled' = Settled \cup {e}
    BY <1>4, SettledSame DEF Recharge
  <2>. QED
    BY <1>4, <2>1 DEF Recharge, Settles
<1>5. ASSUME NEW e \in Changes, WriteUser(e)
      PROVE  Settles(e)
  <2>1. e \notin Settled /\ Settled' = Settled \cup {e}
    BY <1>5, SettledSame DEF WriteUser
  <2>2. ~overwritten' => ~overwritten /\ balance = seen[e]
    BY <1>5 DEF WriteUser
  <2>. QED
    BY <1>5, <2>1, <2>2 DEF WriteUser, Settles
<1>6. ASSUME NEW e \in Changes, ReadUser(e) \/ Reject(e) \/ Invalidate(e)
      PROVE  Idles
  <2>1. Settled' = Settled
    BY <1>6, SettledSame DEF ReadUser, Reject, Invalidate
  <2>2. UNCHANGED <<balance, applied, overwritten, print>>
    BY <1>6 DEF ReadUser, Reject, Invalidate, database
  <2>. QED
    BY <2>1, <2>2 DEF Idles
<1>7. CASE \/ \E i \in Ids : Cleanup(i)
           \/ Loaded \/ Expire \/ UNCHANGED vars
  <2>1. UNCHANGED <<balance, applied, overwritten, change, print>>
    BY <1>7 DEF Cleanup, Loaded, Expire, vars, database, changes
  <2>. QED
    BY <2>1 DEF Idles, Settled
<1>. QED
  BY <1>1, <1>2, <1>3, <1>4, <1>5, <1>6, <1>7 DEF Next, Handle, Alter

LEMMA Priced ==
  ASSUME TypeOK
  PROVE  \A r \in applied \cup queued : Cost[print[r]] \in Nat
BY Constants DEF TypeOK

LEMMA StepFinite ==
  ASSUME TypeOK, LoggedInv, FiniteInv, [Next]_vars
  PROVE  FiniteInv'
<1>1. CASE Idles
  BY <1>1 DEF Idles, FiniteInv
<1>2. ASSUME NEW r \in Requests, Charges(r) PROVE FiniteInv'
  BY <1>2, FS_AddElement DEF Charges, FiniteInv
<1>3. ASSUME NEW e \in Changes, Settles(e) PROVE FiniteInv'
  BY <1>3, FS_AddElement DEF Settles, FiniteInv
<1>. QED
  BY <1>1, <1>2, <1>3, LedgerStep

LEMMA StepLedger ==
  ASSUME TypeOK, TypeOK', LoggedInv, FiniteInv, FiniteInv', LedgerInv,
         [Next]_vars
  PROVE  LedgerInv'
<1>. SUFFICES ASSUME ~overwritten'
              PROVE  balance' = Initial - SumVia(Cost, print', applied')
                                  + Sum(Amount, Settled')
  BY DEF LedgerInv
<1>in. /\ balance \in Int /\ Initial \in Int
       /\ IsFiniteSet(applied) /\ IsFiniteSet(applied')
       /\ IsFiniteSet(Settled) /\ IsFiniteSet(Settled')
  BY Constants DEF TypeOK, FiniteInv
<1>co. /\ \A r \in applied : Cost[print[r]] \in Int
       /\ \A r \in applied' : Cost[print'[r]] \in Int
  BY Priced, Constants DEF TypeOK
<1>am. \A e \in Settled \cup Settled' : Amount[e] \in Int
  BY Constants DEF Settled
<1>sa. SumVia(Cost, print, applied) \in Int
  BY <1>in, <1>co, SumViaLaws
<1>ss. Sum(Amount, Settled) \in Int
  BY <1>in, <1>am, SumLaws
<1>1. CASE Idles
  <2>1. SumVia(Cost, print', applied) = SumVia(Cost, print, applied)
    BY <1>1, <1>in, <1>co, SumViaSame DEF Idles
  <2>. QED
    BY <1>1, <2>1 DEF Idles, LedgerInv
<1>2. ASSUME NEW r \in Requests, Charges(r)
      PROVE  balance' = Initial - SumVia(Cost, print', applied')
                          + Sum(Amount, Settled')
  <2>1. /\ r \in applied' /\ applied' \ {r} = applied
        /\ print' = print /\ Settled' = Settled
        /\ balance' = balance - Cost[print[r]]
        /\ ~overwritten
    BY <1>2 DEF Charges
  <2>2. SumVia(Cost, print', applied')
          = SumVia(Cost, print', applied' \ {r}) + Cost[print'[r]]
    BY <1>in, <1>co, <2>1, SumViaLaws
  <2>3. SumVia(Cost, print', applied')
          = SumVia(Cost, print, applied) + Cost[print[r]]
    BY <2>1, <2>2
  <2>4. Cost[print[r]] \in Int
    BY <1>co, <2>1
  <2>5. balance = Initial - SumVia(Cost, print, applied) + Sum(Amount, Settled)
    BY <2>1 DEF LedgerInv
  <2>. QED
    BY <1>in, <1>sa, <1>ss, <2>1, <2>3, <2>4, <2>5
<1>3. ASSUME NEW e \in Changes, Settles(e)
      PROVE  balance' = Initial - SumVia(Cost, print', applied')
                          + Sum(Amount, Settled')
  <2>1. /\ e \in Settled' /\ Settled' \ {e} = Settled
        /\ print' = print /\ applied' = applied
        /\ balance' = balance + Amount[e]
        /\ ~overwritten
    BY <1>3 DEF Settles
  <2>2. Sum(Amount, Settled') = Sum(Amount, Settled' \ {e}) + Amount[e]
    BY <1>in, <1>am, <2>1, SumLaws
  <2>3. Sum(Amount, Settled') = Sum(Amount, Settled) + Amount[e]
    BY <2>1, <2>2
  <2>4. Amount[e] \in Int
    BY <1>am, <2>1
  <2>5. balance = Initial - SumVia(Cost, print, applied) + Sum(Amount, Settled)
    BY <2>1 DEF LedgerInv
  <2>. QED
    BY <1>in, <1>sa, <1>ss, <2>1, <2>3, <2>4, <2>5
<1>. QED
  BY <1>1, <1>2, <1>3, LedgerStep

\* What the cached balance has not seen was settled.
UnseenInv == unseen \subseteq Settled

LEMMA StepUnseen ==
  ASSUME TypeOK, UnseenInv, [Next]_vars
  PROVE  UnseenInv'
<1>0. ASSUME unseen' \subseteq unseen, Settled \subseteq Settled'
      PROVE  UnseenInv'
  BY <1>0 DEF UnseenInv
<1>1. ASSUME NEW r \in Requests, Handle(r)
      PROVE  UnseenInv'
  <2>1. UNCHANGED change /\ unseen' \subseteq unseen
    BY <1>1 DEF Handle, Hit, Load, Join, Submit, Fails, Insert, CompareRow,
        CompareArchived, Commit, Finalize, SetCache, DeductCache, cached, changes
  <2>. QED
    BY <1>0, <2>1 DEF Settled
<1>2. ASSUME NEW e \in Changes, Recharge(e)
      PROVE  UnseenInv'
  <2>1. Settled' = Settled \cup {e}
    BY <1>2, SettledSame DEF Recharge
  <2>2. unseen' \subseteq unseen \cup {e}
    BY <1>2 DEF Recharge
  <2>. QED
    BY <2>1, <2>2 DEF UnseenInv
<1>3. ASSUME NEW e \in Changes, ReadUser(e) \/ WriteUser(e) \/ Reject(e)
      PROVE  UnseenInv'
  <2>1. Settled \subseteq Settled'
    BY <1>3, SettledSame DEF ReadUser, WriteUser, Reject
  <2>2. unseen' = unseen
    BY <1>3 DEF ReadUser, WriteUser, Reject, cached
  <2>. QED
    BY <1>0, <2>1, <2>2
<1>4. ASSUME NEW e \in Changes, Invalidate(e)
      PROVE  UnseenInv'
  <2>1. Settled' = Settled
    BY <1>4, SettledSame DEF Invalidate
  <2>2. unseen' \subseteq unseen
    BY <1>4 DEF Invalidate, Dropped
  <2>. QED
    BY <1>0, <2>1, <2>2
<1>5. CASE \/ \E i \in Ids : Cleanup(i)
           \/ Loaded \/ Expire \/ UNCHANGED vars
  <2>1. UNCHANGED change /\ unseen' \subseteq unseen
    BY <1>5 DEF Cleanup, Loaded, Expire, Dropped, vars, cached, changes
  <2>. QED
    BY <1>0, <2>1 DEF Settled
<1>. QED
  BY <1>1, <1>2, <1>3, <1>4, <1>5 DEF Next, Alter

LEMMA InitLedger == Init => FiniteInv /\ LedgerInv /\ UnseenInv
<1>. SUFFICES ASSUME Init PROVE FiniteInv /\ LedgerInv /\ UnseenInv
  OBVIOUS
<1>1. applied = {} /\ Settled = {}
  BY DEF Init, Settled
<1>2. FiniteInv
  BY <1>1, FS_EmptySet DEF FiniteInv
<1>3. SumVia(Cost, print, {}) = 0 /\ Sum(Amount, {}) = 0
  BY FS_EmptySet, SumLaws, SumViaLaws
<1>4. balance = Initial /\ Initial \in Int
  BY Constants DEF Init
<1>5. LedgerInv
  BY <1>1, <1>3, <1>4 DEF LedgerInv
<1>6. UnseenInv
  BY DEF Init, UnseenInv
<1>. QED
  BY <1>2, <1>5, <1>6

LEMMA Balanced ==
  Spec => [](TypeOK /\ LoggedInv /\ FiniteInv /\ LedgerInv /\ UnseenInv)
<1>1. TypeOK /\ LoggedInv /\ (TypeOK /\ LoggedInv)' /\ FiniteInv /\ LedgerInv /\ UnseenInv
        /\ [Next]_vars
        => FiniteInv' /\ LedgerInv' /\ UnseenInv'
  BY StepFinite, StepLedger, StepUnseen
<1>. QED
  BY <1>1, InitLedger, Recorded, PTL DEF Spec

\* Whatever requests, repetitions, recharges, edits and failures there are, the
\* balance is the initial one plus what came in less what the charged requests
\* cost, unless an edit wrote back a balance that had changed since it read it.
THEOREM LedgerBalances == Spec => []BalanceIsLedger
<1>1. LedgerInv => BalanceIsLedger
  BY DEF LedgerInv, BalanceIsLedger, Settled, Total, Sum, SumVia
<1>. QED
  BY <1>1, Balanced, PTL

-----------------------------------------------------------------------------
\* The cached balance.

\* A deduction that waits is that of a charged request.
QueuedInv == \A r \in queued : r \in applied /\ pc[r] = "done"

\* A load that nothing has made outdated read the balance as it is, while no
\* deduction was under way.
CleanInv ==
  /\ clean # {} => Deducting = {}
  /\ \A r \in clean : read[r] = balance

\* CacheFollowsBalance, with the sum in the form its laws are stated for.
Trusted ==
  /\ cache # None /\ ~stale /\ ~overwritten /\ faults = 0
  /\ \A e \in Changes : change[e] # "invalidate"
Expected == balance + SumVia(Cost, print, Deducting) - Sum(Amount, unseen)
CacheInv == Trusted => cache = Expected

\* A step that leaves the cache and what it should hold alone, and neither
\* mends a failed call nor forgets an invalidation.
Steady ==
  /\ UNCHANGED <<balance, cache, stale, unseen, overwritten>>
  /\ Deducting' = Deducting
  /\ \A r \in Deducting : print'[r] = print[r]
  /\ Trusted' => Trusted

\* Who is about to deduct is known from the requests charged, their labels and
\* the queue.
LEMMA DeductingSame ==
  ASSUME UNCHANGED <<applied, queued>>,
         \A r \in applied : pc'[r] = "finalize" <=> pc[r] = "finalize"
  PROVE  Deducting' = Deducting
BY DEF Deducting, At

LEMMA DeductingIsFinite ==
  ASSUME FiniteInv, QueuedInv
  PROVE  Deducting \subseteq applied /\ IsFiniteSet(Deducting)
<1>1. Deducting \subseteq applied
  BY DEF Deducting, QueuedInv
<1>. QED
  BY <1>1, FS_Subset DEF FiniteInv

LEMMA StepQueued ==
  ASSUME TypeOK, LoggedInv, QueuedInv, [Next]_vars
  PROVE  QueuedInv'
<1>1. ASSUME NEW r \in Requests,
             \/ Hit(r) \/ Load(r) \/ Join(r) \/ Submit(r) \/ Fails(r)
             \/ Insert(r) \/ CompareRow(r) \/ CompareArchived(r) \/ Commit(r)
             \/ SetCache(r) \/ DeductCache(r)
      PROVE  QueuedInv'
  <2>1. /\ pc[r] # "done" \/ pc' = pc
        /\ \A s \in Requests : s # r => pc'[s] = pc[s]
    BY <1>1 DEF Hit, Load, Join, Submit, Fails, Insert, CompareRow,
        CompareArchived, Commit, SetCache, DeductCache, At, Goto, TypeOK
  <2>2. queued' \subseteq queued /\ applied \subseteq applied'
    BY <1>1 DEF Hit, Load, Join, Submit, Fails, Insert, CompareRow,
        CompareArchived, Commit, SetCache, DeductCache, database, cached
  <2>. QED
    BY <2>1, <2>2 DEF QueuedInv, TypeOK
<1>2. ASSUME NEW r \in Requests, Finalize(r)
      PROVE  QueuedInv'
  <2>1. r \in applied /\ pc[r] = "finalize"
    BY <1>2 DEF Finalize, At, LoggedInv
  <2>2. /\ applied' = applied
        /\ \A s \in Requests : s # r => pc'[s] = pc[s]
        /\ \/ queued' = queued
           \/ queued' = queued \cup {r} /\ pc'[r] = "done"
    BY <1>2 DEF Finalize, Goto, database, TypeOK
  <2>. QED
    BY <2>1, <2>2 DEF QueuedInv, TypeOK
<1>3. ASSUME NEW e \in Changes, Alter(e)
      PROVE  QueuedInv'
  BY <1>3 DEF Alter, Recharge, ReadUser, WriteUser, Reject, Invalidate,
      QueuedInv, database, cached
<1>4. ASSUME Loaded
      PROVE  QueuedInv'
  <2>1. \A r \in Requests : pc[r] = "done" => pc'[r] = "done"
    BY <1>4 DEF Loaded, Resumed, At
  <2>. QED
    BY <1>4, <2>1 DEF Loaded, QueuedInv, database, TypeOK
<1>5. CASE \/ \E i \in Ids : Cleanup(i)
           \/ Expire \/ UNCHANGED vars
  BY <1>5 DEF Cleanup, Expire, vars, QueuedInv, database, cached
<1>. QED
  BY <1>1, <1>2, <1>3, <1>4, <1>5 DEF Next, Handle

\* The steps that neither charge nor touch the deductions.
LEMMA DeductingStep ==
  ASSUME TypeOK, LoggedInv, QueuedInv, [Next]_vars
  PROVE  \/ Deducting' = Deducting
         \/ \E r \in Requests : Commit(r) \/ Finalize(r) \/ DeductCache(r)
<1>1. ASSUME NEW r \in Requests,
             \/ Hit(r) \/ Load(r) \/ Join(r) \/ Submit(r) \/ Fails(r)
             \/ Insert(r) \/ CompareRow(r) \/ CompareArchived(r)
             \/ SetCache(r)
      PROVE  Deducting' = Deducting
  <2>1. UNCHANGED <<applied, queued>>
    BY <1>1 DEF Hit, Load, Join, Submit, Fails, Insert, CompareRow,
        CompareArchived, SetCache, database, cached
  <2>2. \/ pc' = pc
        \/ /\ pc[r] # "finalize" /\ pc'[r] # "finalize"
           /\ \A s \in Requests : s # r => pc'[s] = pc[s]
    BY <1>1 DEF Hit, Load, Join, Submit, Fails, Insert, CompareRow,
        CompareArchived, SetCache, Eligible, Compared, At, Goto, TypeOK
  <2>. QED
    BY <2>1, <2>2, DeductingSame DEF TypeOK
<1>2. ASSUME NEW e \in Changes, Alter(e)
      PROVE  Deducting' = Deducting
  BY <1>2, DeductingSame DEF Alter, Recharge, ReadUser, WriteUser, Reject,
      Invalidate, database, cached
<1>3. ASSUME Loaded
      PROVE  Deducting' = Deducting
  <2>1. \A r \in Requests : pc'[r] = "finalize" <=> pc[r] = "finalize"
    BY <1>3 DEF Loaded, Resumed, Eligible, At, TypeOK
  <2>. QED
    BY <1>3, <2>1, DeductingSame DEF Loaded, database, TypeOK
<1>4. CASE \/ \E i \in Ids : Cleanup(i)
           \/ Expire \/ UNCHANGED vars
  BY <1>4, DeductingSame DEF Cleanup, Expire, vars, database, cached
<1>. QED
  BY <1>1, <1>2, <1>3, <1>4 DEF Next, Handle

LEMMA StepClean ==
  ASSUME TypeOK, LoggedInv, QueuedInv, CleanInv, [Next]_vars
  PROVE  CleanInv'
<1>bi. balance # None
  BY Constants DEF TypeOK
<1>0. ASSUME clean' \subseteq clean, Deducting' \subseteq Deducting,
             balance' = balance,
             \A r \in clean' : read'[r] = read[r]
      PROVE  CleanInv'
  BY <1>0 DEF CleanInv
<1>1. ASSUME NEW r \in Requests, Load(r)
      PROVE  CleanInv'
  <2>1. /\ Deducting' = Deducting
        /\ balance' = balance
        /\ read'[r] = balance
        /\ \A s \in Requests : s # r => read'[s] = read[s]
        /\ \/ clean' = clean
           \/ Deducting = {} /\ clean' = clean \cup {r}
    <3>1. pc' = [pc EXCEPT ![r] = "loading"] /\ pc[r] = "idle"
      BY <1>1 DEF Load, At, Goto
    <3>2. \A s \in applied : pc'[s] = "finalize" <=> pc[s] = "finalize"
      BY <3>1 DEF TypeOK
    <3>3. Deducting' = Deducting
      BY <1>1, <3>2, DeductingSame DEF Load, database
    <3>. QED
      BY <1>1, <3>3 DEF Load, database, TypeOK
  <2>. QED
    BY <2>1 DEF CleanInv, TypeOK
<1>2. ASSUME NEW r \in Requests, Commit(r)
      PROVE  CleanInv'
  <2>1. CASE clean' = {}
    BY <2>1 DEF CleanInv
  <2>2. CASE clean' # {}
    <3>1. /\ UNCHANGED <<balance, applied, queued, clean, read>>
          /\ pc[r] = "effects" /\ pc' = [pc EXCEPT ![r] = "over"]
      BY <1>2, <2>2 DEF Commit, Charged, At, Goto
    <3>2. Deducting' = Deducting
      BY <3>1, DeductingSame DEF TypeOK
    <3>. QED
      BY <1>0, <3>1, <3>2
  <2>. QED
    BY <2>1, <2>2
<1>3. ASSUME NEW r \in Requests, Finalize(r)
      PROVE  CleanInv'
  <2>1. r \in Deducting
    BY <1>3 DEF Finalize, At, Deducting, LoggedInv
  <2>2. clean = {} /\ clean' = clean
    BY <1>3, <2>1 DEF Finalize, CleanInv
  <2>. QED
    BY <2>2 DEF CleanInv
<1>4. ASSUME NEW r \in Requests, DeductCache(r)
      PROVE  CleanInv'
  <2>1. r \in Deducting
    BY <1>4 DEF DeductCache, Deducting
  <2>2. clean = {} /\ clean' = clean
    BY <1>4, <2>1 DEF DeductCache, CleanInv
  <2>. QED
    BY <2>2 DEF CleanInv
<1>5. ASSUME NEW e \in Changes, Recharge(e) \/ WriteUser(e)
      PROVE  CleanInv'
  BY <1>5 DEF Recharge, WriteUser, CleanInv
<1>6. ASSUME NEW r \in Requests,
             \/ Hit(r) \/ Join(r) \/ Submit(r) \/ Fails(r) \/ Insert(r)
             \/ CompareRow(r) \/ CompareArchived(r)
      PROVE  UNCHANGED <<clean, read, balance>>
  BY <1>6 DEF Hit, Join, Submit, Fails, Insert, CompareRow, CompareArchived,
      database, cached
<1>7. ASSUME NEW e \in Changes, ReadUser(e) \/ Reject(e) \/ Invalidate(e)
      PROVE  UNCHANGED <<clean, read, balance>>
  BY <1>7 DEF ReadUser, Reject, Invalidate, database, cached
<1>8. ASSUME NEW r \in Requests, SetCache(r)
      PROVE  /\ clean' \subseteq clean /\ balance' = balance
             /\ \A s \in clean' : read'[s] = read[s]
  BY <1>8 DEF SetCache, Forget, database, TypeOK
<1>9. ASSUME Loaded
      PROVE  /\ clean' \subseteq clean /\ balance' = balance
             /\ \A s \in clean' : read'[s] = read[s]
  BY <1>9 DEF Loaded, Forget, database, TypeOK
<1>10. CASE \/ \E i \in Ids : Cleanup(i)
            \/ Expire \/ UNCHANGED vars
  <2>1. UNCHANGED <<clean, read, balance>>
    BY <1>10 DEF Cleanup, Expire, vars, database, cached
  <2>2. Deducting' = Deducting
    BY <1>10, DeductingSame DEF Cleanup, Expire, vars, database, cached
  <2>. QED
    BY <1>0, <2>1, <2>2
<1>. QED
  BY <1>0, <1>1, <1>2, <1>3, <1>4, <1>5, <1>6, <1>7, <1>8, <1>9, <1>10,
      DeductingStep DEF Next, Handle, Alter

LEMMA StepCache ==
  ASSUME TypeOK, TypeOK', LoggedInv, FiniteInv, FiniteInv', QueuedInv, QueuedInv',
         UnseenInv, UnseenInv', CleanInv, CacheInv, [Next]_vars
  PROVE  CacheInv'
<1>de. /\ Deducting \subseteq applied /\ IsFiniteSet(Deducting)
       /\ Deducting' \subseteq applied' /\ IsFiniteSet(Deducting')
  <2>1. Deducting \subseteq applied /\ IsFiniteSet(Deducting)
    BY DeductingIsFinite
  <2>2. \A r \in queued' : r \in applied'
    BY DEF QueuedInv
  <2>3. Deducting' \subseteq applied'
    BY <2>2 DEF Deducting
  <2>4. IsFiniteSet(Deducting')
    BY <2>3, FS_Subset DEF FiniteInv
  <2>. QED
    BY <2>1, <2>3, <2>4
<1>co. /\ \A r \in Deducting : Cost[print[r]] \in Int
       /\ \A r \in Deducting' : Cost[print'[r]] \in Int
  BY <1>de, Constants DEF TypeOK
<1>fa. faults \in Nat /\ faults' \in Nat /\ (Fault => faults' # 0)
  <2>1. faults \in Nat /\ faults' \in Nat
    BY Constants DEF TypeOK
  <2>. QED
    BY <2>1 DEF Fault
<1>su. SumVia(Cost, print, Deducting) \in Int
  BY <1>de, <1>co, SumViaLaws
<1>un. /\ IsFiniteSet(unseen) /\ IsFiniteSet(unseen')
       /\ \A e \in unseen \cup unseen' : Amount[e] \in Int
       /\ Sum(Amount, unseen) \in Int
  <2>1. IsFiniteSet(unseen) /\ IsFiniteSet(unseen')
    BY FS_Subset DEF UnseenInv, FiniteInv
  <2>2. \A e \in unseen \cup unseen' : Amount[e] \in Int
    BY Constants DEF UnseenInv, Settled
  <2>. QED
    BY <2>1, <2>2, SumLaws
<1>ch. \A e \in Changes : \A l : Turn(e, l) =>
         /\ change'[e] = l
         /\ \A d \in Changes : d # e => change'[d] = change[d]
  BY DEF Turn, TypeOK
<1>0. ASSUME Steady PROVE CacheInv'
  <2>1. SumVia(Cost, print', Deducting) = SumVia(Cost, print, Deducting)
    BY <1>0, <1>de, <1>co, SumViaSame DEF Steady
  <2>. QED
    BY <1>0, <2>1 DEF Steady, CacheInv, Expected
<1>1. ASSUME NEW r \in Requests,
             \/ Hit(r) \/ Load(r) \/ Join(r) \/ Submit(r) \/ Fails(r)
             \/ Insert(r) \/ CompareRow(r) \/ CompareArchived(r)
      PROVE  CacheInv'
  <2>1. Deducting' = Deducting
    <3>1. UNCHANGED <<applied, queued>>
      BY <1>1 DEF Hit, Load, Join, Submit, Fails, Insert, CompareRow,
          CompareArchived, database, cached
    <3>2. /\ pc[r] # "finalize" /\ pc'[r] # "finalize"
          /\ \A s \in Requests : s # r => pc'[s] = pc[s]
      BY <1>1 DEF Hit, Load, Join, Submit, Fails, Insert, CompareRow,
          CompareArchived, Eligible, Compared, At, Goto, TypeOK
    <3>. QED
      BY <3>1, <3>2, DeductingSame DEF TypeOK
  <2>2. UNCHANGED <<balance, cache, stale, unseen, overwritten, change>>
    BY <1>1 DEF Hit, Load, Join, Submit, Fails, Insert, CompareRow,
        CompareArchived, database, cached, changes
  <2>3. \A s \in Deducting : print'[s] = print[s]
    <3>1. CASE Submit(r)
      BY <1>de, <3>1 DEF Submit, At, LoggedInv, TypeOK
    <3>. QED
      BY <1>1, <3>1 DEF Hit, Load, Join, Fails, Insert, CompareRow,
          CompareArchived
  <2>4. faults' = faults \/ Fault
    BY <1>1 DEF Hit, Load, Join, Miss, Submit, Fails, Insert, CompareRow,
        CompareArchived
  <2>5. Trusted' => Trusted
    BY <1>fa, <2>2, <2>4 DEF Trusted
  <2>. QED
    BY <1>0, <2>1, <2>2, <2>3, <2>5 DEF Steady
<1>2. ASSUME NEW r \in Requests, Commit(r)
      PROVE  CacheInv'
  <2>1. CASE Fault
    BY <1>fa, <2>1 DEF CacheInv, Trusted
  <2>2. CASE ~Fault
    <3>1. /\ pc[r] = "effects"
          /\ pc' = [pc EXCEPT ![r] = "finalize"]
          /\ balance' = balance - Cost[print[r]]
          /\ applied' = applied \cup {r}
          /\ UNCHANGED <<faults, print, queued, cache, stale, unseen, overwritten,
                         change>>
      BY <1>2, <2>2 DEF Commit, Charged, At, Goto, changes
    <3>2. r \notin applied
      BY <3>1 DEF LoggedInv
    <3>3. r \notin Deducting /\ Deducting' = Deducting \cup {r}
      BY <1>de, <3>1, <3>2 DEF Deducting, At, TypeOK
    <3>4. r \in Deducting' /\ Deducting' \ {r} = Deducting
      BY <3>3
    <3>5. SumVia(Cost, print', Deducting')
            = SumVia(Cost, print', Deducting' \ {r}) + Cost[print'[r]]
      BY <1>de, <1>co, <3>4, SumViaLaws
    <3>6. SumVia(Cost, print', Deducting')
            = SumVia(Cost, print, Deducting) + Cost[print[r]]
      BY <3>1, <3>4, <3>5
    <3>7. Cost[print[r]] \in Int /\ balance \in Int
      BY <1>co, <3>1, <3>4 DEF TypeOK
    <3>8. Trusted' => Trusted /\ cache' = cache
      BY <3>1 DEF Trusted
    <3>9. ASSUME Trusted'
          PROVE  cache' = Expected'
      <4>1. cache' = balance + SumVia(Cost, print, Deducting) - Sum(Amount, unseen)
        BY <3>8, <3>9 DEF CacheInv, Expected
      <4>2. Expected' = balance - Cost[print[r]] + (SumVia(Cost, print, Deducting) + Cost[print[r]])
                          - Sum(Amount, unseen)
        BY <3>1, <3>6 DEF Expected
      <4>. QED
        BY <1>su, <1>un, <3>7, <4>1, <4>2
    <3>. QED
      BY <3>9 DEF CacheInv
  <2>. QED
    BY <2>1, <2>2
<1>3. ASSUME NEW r \in Requests, Finalize(r)
      PROVE  CacheInv'
  <2>1. CASE Fault
    BY <1>fa, <2>1 DEF CacheInv, Trusted
  <2>2. CASE ~Fault
    <3>1. /\ pc[r] = "finalize"
          /\ pc' = [pc EXCEPT ![r] = "done"]
          /\ queued' = queued \cup {r}
          /\ UNCHANGED <<balance, applied, overwritten, faults, print, cache,
                         stale, unseen, change>>
      BY <1>3, <2>2 DEF Finalize, At, Goto, database, changes
    <3>2. r \in applied
      BY <3>1 DEF LoggedInv
    <3>3. Deducting' = Deducting
      BY <3>1, <3>2 DEF Deducting, At, TypeOK
    <3>. QED
      BY <1>0, <3>1, <3>3 DEF Steady, Trusted
  <2>. QED
    BY <2>1, <2>2
<1>4. ASSUME NEW r \in Requests, SetCache(r)
      PROVE  CacheInv'
  <2>1. CASE Fault
    BY <1>fa, <2>1 DEF CacheInv, Trusted
  <2>2. CASE ~Fault
    <3>1. /\ cache' = read[r]
          /\ stale' = (r \notin clean) /\ unseen' = {}
          /\ UNCHANGED <<balance, applied, pc, queued>>
      BY <1>4, <2>2 DEF SetCache, database
    <3>2. Deducting' = Deducting
      BY <3>1, DeductingSame
    <3>3. CASE r \notin clean
      BY <3>1, <3>3 DEF CacheInv, Trusted
    <3>4. CASE r \in clean
      <4>1. cache' = balance' /\ Deducting' = {} /\ balance' \in Int
        BY <3>1, <3>2, <3>4 DEF CleanInv, TypeOK
      <4>2. SumVia(Cost, print', {}) = 0 /\ Sum(Amount, {}) = 0
        BY FS_EmptySet, SumViaLaws, SumLaws
      <4>3. cache' = Expected'
        BY <3>1, <4>1, <4>2 DEF Expected
      <4>. QED
        BY <4>3 DEF CacheInv
    <3>. QED
      BY <3>3, <3>4
  <2>. QED
    BY <2>1, <2>2
<1>5. ASSUME NEW r \in Requests, DeductCache(r)
      PROVE  CacheInv'
  <2>1. CASE Fault
    BY <1>fa, <2>1 DEF CacheInv, Trusted
  <2>2. CASE ~Fault
    <3>1. /\ r \in queued /\ queued' = queued \ {r}
          /\ cache' = IF cache = None THEN None ELSE cache - Cost[print[r]]
          /\ UNCHANGED <<faults, balance, applied, pc, overwritten, print,
                         stale, unseen, change>>
      BY <1>5, <2>2 DEF DeductCache, Deducted, database, changes
    <3>2. pc[r] = "done" /\ r \in Deducting
      BY <3>1 DEF QueuedInv, Deducting
    <3>3. Deducting' = Deducting \ {r}
      BY <3>1, <3>2 DEF Deducting, At
    <3>4. SumVia(Cost, print, Deducting)
            = SumVia(Cost, print', Deducting') + Cost[print[r]]
      BY <1>de, <1>co, <3>1, <3>2, <3>3, SumViaLaws
    <3>5. SumVia(Cost, print', Deducting') \in Int
      BY <1>de, <1>co, SumViaLaws
    <3>6. Cost[print[r]] \in Int /\ balance \in Int
      BY <1>co, <3>2 DEF TypeOK
    <3>7. ASSUME Trusted'
          PROVE  cache' = Expected'
      <4>1. cache # None /\ Trusted
        BY <3>1, <3>7 DEF Trusted
      <4>2. cache = balance + (SumVia(Cost, print', Deducting') + Cost[print[r]])
                      - Sum(Amount, unseen)
        BY <3>4, <4>1 DEF CacheInv, Expected
      <4>3. cache' = cache - Cost[print[r]]
        BY <3>1, <4>1
      <4>4. Expected' = balance + SumVia(Cost, print', Deducting') - Sum(Amount, unseen)
        BY <3>1 DEF Expected
      <4>. QED
        BY <1>un, <3>5, <3>6, <4>2, <4>3, <4>4
    <3>. QED
      BY <3>7 DEF CacheInv
  <2>. QED
    BY <2>1, <2>2
<1>6. ASSUME NEW e \in Changes, Recharge(e)
      PROVE  CacheInv'
  <2>1. /\ balance' = balance + Amount[e] /\ e \in Recharges /\ change[e] = "idle"
        /\ UNCHANGED <<applied, pc, queued, faults, print, cache, stale, overwritten>>
    BY <1>6 DEF Recharge
  <2>2. CASE e \notin Silent
    <3>1. change'[e] = "invalidate"
      BY <1>6, <1>ch, <2>2 DEF Recharge
    <3>. QED
      BY <3>1 DEF CacheInv, Trusted
  <2>3. CASE cache = None
    BY <2>1, <2>3 DEF CacheInv, Trusted
  <2>4. CASE e \in Silent /\ cache # None
    <3>1. unseen' = unseen \cup {e} /\ e \notin unseen
      BY <1>6, <2>1, <2>4 DEF Recharge, UnseenInv, Settled
    <3>2. \A d \in Changes : change'[d] # "invalidate" => change[d] # "invalidate"
      BY <1>6, <1>ch, <2>1 DEF Recharge
    <3>3. Trusted' => Trusted
      BY <2>1, <3>2 DEF Trusted
    <3>4. Deducting' = Deducting
      BY <2>1, DeductingSame
    <3>5. e \in unseen' /\ unseen' \ {e} = unseen
      BY <3>1
    <3>6. Sum(Amount, unseen') = Sum(Amount, unseen' \ {e}) + Amount[e]
      BY <1>un, <3>5, SumLaws
    <3>7. Sum(Amount, unseen') = Sum(Amount, unseen) + Amount[e] /\ Amount[e] \in Int
      BY <1>un, <3>5, <3>6
    <3>8. Expected' = balance + Amount[e] + SumVia(Cost, print, Deducting)
                        - (Sum(Amount, unseen) + Amount[e])
      BY <2>1, <3>4, <3>7 DEF Expected
    <3>9. balance \in Int
      BY DEF TypeOK
    <3>10. Expected' = Expected
      BY <1>su, <1>un, <3>7, <3>8, <3>9 DEF Expected
    <3>. QED
      BY <2>1, <3>3, <3>10 DEF CacheInv
  <2>. QED
    BY <2>2, <2>3, <2>4
<1>7. ASSUME NEW e \in Changes, WriteUser(e)
      PROVE  CacheInv'
  <2>1. CASE Fault
    BY <1>fa, <2>1 DEF CacheInv, Trusted
  <2>2. CASE Amount[e] # 0 /\ ~Fault
    <3>1. change'[e] = "invalidate"
      BY <1>7, <1>ch, <2>2 DEF WriteUser
    <3>. QED
      BY <3>1 DEF CacheInv, Trusted
  <2>3. CASE Amount[e] = 0 /\ ~Fault
    <3>1. /\ change[e] = "read" /\ Turn(e, "done")
          /\ balance' = seen[e] + 0
          /\ UNCHANGED <<applied, pc, queued, faults, print, cache, stale, unseen>>
      BY <1>7, <2>3 DEF WriteUser
    <3>2. Deducting' = Deducting
      BY <3>1, DeductingSame
    <3>3. e \in Edits /\ seen[e] \in Int
      BY <1>7 DEF WriteUser, TypeOK
    <3>4. ASSUME ~overwritten' PROVE ~overwritten /\ balance' = balance
      <4>1. ~overwritten /\ balance = seen[e]
        BY <1>7, <3>4 DEF WriteUser
      <4>. QED
        BY <3>1, <3>3, <4>1
    <3>5. \A d \in Changes : change'[d] # "invalidate" => change[d] # "invalidate"
      BY <1>ch, <3>1
    <3>6. ASSUME Trusted' PROVE Trusted /\ balance' = balance
      BY <3>1, <3>4, <3>5, <3>6 DEF Trusted
    <3>. QED
      BY <3>1, <3>2, <3>6 DEF CacheInv, Expected
  <2>. QED
    BY <2>1, <2>2, <2>3
<1>8. ASSUME NEW e \in Changes, ReadUser(e) \/ Reject(e)
      PROVE  CacheInv'
  <2>1. UNCHANGED <<balance, applied, overwritten, pc, queued, cache, stale, unseen,
                    print>>
    BY <1>8 DEF ReadUser, Reject, database, cached
  <2>2. Deducting' = Deducting
    BY <2>1, DeductingSame
  <2>3. \A d \in Changes : change'[d] # "invalidate" => change[d] # "invalidate"
    BY <1>8, <1>ch DEF ReadUser, Reject
  <2>4. faults' = faults \/ Fault
    BY <1>8 DEF ReadUser, Reject
  <2>5. Trusted' => Trusted
    BY <1>fa, <2>1, <2>3, <2>4 DEF Trusted
  <2>. QED
    BY <1>0, <2>1, <2>2, <2>5 DEF Steady
<1>9. ASSUME NEW e \in Changes, Invalidate(e)
      PROVE  CacheInv'
  <2>1. cache' = None \/ Fault
    BY <1>9 DEF Invalidate, Dropped
  <2>. QED
    BY <1>fa, <2>1 DEF CacheInv, Trusted
<1>10. ASSUME NEW i \in Ids, Cleanup(i)
       PROVE  CacheInv'
  <2>1. UNCHANGED <<balance, applied, overwritten, pc, queued, cache, stale, unseen,
                    print, change, faults>>
    BY <1>10 DEF Cleanup, cached, changes
  <2>. QED
    BY <1>0, <2>1, DeductingSame DEF Steady, Trusted
<1>11. ASSUME Loaded
       PROVE  CacheInv'
  <2>1. UNCHANGED <<balance, applied, overwritten, queued, cache, stale, unseen, print,
                    change>>
    BY <1>11 DEF Loaded, database, changes
  <2>2. \A r \in Requests : pc'[r] = "finalize" <=> pc[r] = "finalize"
    BY <1>11 DEF Loaded, Resumed, Eligible, At, TypeOK
  <2>3. Deducting' = Deducting
    BY <2>1, <2>2, DeductingSame DEF TypeOK
  <2>4. faults' = faults \/ Fault
    BY <1>11 DEF Loaded
  <2>5. Trusted' => Trusted
    BY <1>fa, <2>1, <2>4 DEF Trusted
  <2>. QED
    BY <1>0, <2>1, <2>3, <2>5 DEF Steady
<1>12. ASSUME Expire
       PROVE  CacheInv'
  BY <1>12 DEF Expire, Dropped, CacheInv, Trusted
<1>13. CASE UNCHANGED vars
  BY <1>0, <1>13, DeductingSame DEF vars, Steady, Trusted
<1>. QED
  BY <1>1, <1>2, <1>3, <1>4, <1>5, <1>6, <1>7, <1>8, <1>9, <1>10, <1>11,
      <1>12, <1>13 DEF Next, Handle, Alter

LEMMA InitCache == Init => QueuedInv /\ CleanInv /\ CacheInv
BY DEF Init, QueuedInv, CleanInv, CacheInv, Trusted

\* However loads, deductions, invalidations and expiries of the cache are
\* ordered, a cached balance that no outdated load has left behind is the balance
\* plus the deductions under way, less exactly the refunds made since it was
\* loaded, which nothing invalidates it after, as long as no call fails, no edit overwrites the
\* balance, and no invalidation is still to come.
THEOREM CacheAgrees == Spec => []CacheFollowsBalance
<1>1. TypeOK /\ LoggedInv /\ FiniteInv /\ UnseenInv
        /\ (TypeOK /\ LoggedInv /\ FiniteInv /\ UnseenInv)'
        /\ QueuedInv /\ CleanInv /\ CacheInv /\ [Next]_vars
        => QueuedInv' /\ CleanInv' /\ CacheInv'
  BY StepQueued, StepClean, StepCache
<1>2. CacheInv => CacheFollowsBalance
  BY DEF CacheInv, Expected, Trusted, CacheFollowsBalance, Total, Sum, SumVia
<1>. QED
  BY <1>1, <1>2, InitCache, Balanced, PTL DEF Spec

-----------------------------------------------------------------------------
\* The refinement: Metering is implemented.

\* What a request is billed is one of its bills.
PrintInv == \A r \in Requests : print[r] # None => print[r] \in Bills[r]

LEMMA InitPrint == Init => PrintInv
BY DEF Init, PrintInv

LEMMA StepPrint ==
  ASSUME TypeOK, PrintInv, [Next]_vars
  PROVE  PrintInv'
<1>1. CASE UNCHANGED print
  BY <1>1 DEF PrintInv
<1>2. ASSUME NEW r \in Requests, Submit(r) PROVE PrintInv'
  BY <1>2 DEF Submit, PrintInv, TypeOK
<1>. QED
  BY <1>1, <1>2 DEF Next, Handle, Alter, Hit, Load, Join, Fails, Insert,
      CompareRow, CompareArchived, Commit, Finalize, SetCache, DeductCache,
      Recharge, ReadUser, WriteUser, Reject, Invalidate, Cleanup, Loaded,
      Expire, vars

\* What the edits under way have read.
Noted == [e \in Edits |-> IF change[e] = "read" THEN seen[e] ELSE None]

LEMMA NotedTurn ==
  ASSUME TypeOK, NEW e \in Changes, NEW l, Turn(e, l)
  PROVE  /\ change[e] # "read" /\ l # "read" /\ UNCHANGED seen => Noted' = Noted
         /\ \A v : /\ e \in Edits /\ l = "read"
                  /\ seen' = [seen EXCEPT ![e] = v]
                  => Noted' = [Noted EXCEPT ![e] = v]
         /\ \A v : /\ e \in Edits /\ l # "read"
                  /\ seen' = [seen EXCEPT ![e] = v]
                  => Noted' = [Noted EXCEPT ![e] = None]
<1>. DEFINE View(c, s, d) == IF c[d] = "read" THEN s[d] ELSE None
<1>1. /\ change'[e] = l
      /\ \A d \in Edits : d # e => change'[d] = change[d]
  BY Constants DEF TypeOK, Turn
<1>2. ASSUME change[e] # "read", l # "read", UNCHANGED seen
      PROVE  Noted' = Noted
  <2>1. \A d \in Edits : View(change', seen', d) = View(change, seen, d)
    BY <1>1, <1>2
  <2>. QED
    BY <2>1 DEF Noted
<1>3. ASSUME NEW v, e \in Edits, l = "read", seen' = [seen EXCEPT ![e] = v]
      PROVE  Noted' = [Noted EXCEPT ![e] = v]
  <2>1. View(change', seen', e) = v
    BY <1>1, <1>3 DEF TypeOK
  <2>2. \A d \in Edits : d # e => View(change', seen', d) = View(change, seen, d)
    BY <1>1, <1>3 DEF TypeOK
  <2>. QED
    BY <2>1, <2>2, <1>3 DEF Noted
<1>4. ASSUME NEW v, e \in Edits, l # "read", seen' = [seen EXCEPT ![e] = v]
      PROVE  Noted' = [Noted EXCEPT ![e] = None]
  <2>1. View(change', seen', e) = None
    BY <1>1, <1>4
  <2>2. \A d \in Edits : d # e => View(change', seen', d) = View(change, seen, d)
    BY <1>1, <1>4 DEF TypeOK
  <2>. QED
    BY <2>1, <2>2, <1>4 DEF Noted
<1>. QED
  BY <1>2, <1>3, <1>4

\* A step of the machinery is a step of Metering, or none.
LEMMA MeterStep ==
  ASSUME TypeOK, LoggedInv, PrintInv, BilledOnce', [Next]_vars
  PROVE  [Meter!Next]_(Meter!account)
<1>. DEFINE Still == UNCHANGED <<balance, applied, Settled, Noted>>
<1>1. Still => UNCHANGED Meter!account
  BY DEF Meter!account, Noted
<1>2. CASE UNCHANGED <<balance, applied, change, seen>>
  <2>1. Still
    BY <1>2 DEF Settled, Noted
  <2>. QED
    BY <1>1, <2>1
<1>3. ASSUME NEW r \in Requests, Commit(r)
      PROVE  [Meter!Next]_(Meter!account)
  <2>1. UNCHANGED <<change, seen, print>>
    BY <1>3 DEF Commit, changes
  <2>2. CASE balance' = Charged(r, TRUE) /\ applied' = applied \cup {r}
    <3>1. r \notin applied
      BY <1>3 DEF Commit, At, LoggedInv
    <3>2. \A s \in applied : Id[s] # Id[r]
      BY <2>2, <3>1 DEF BilledOnce
    <3>3. print[r] \in Bills[r]
      BY <1>3 DEF Commit, At, TypeOK, PrintInv
    <3>4. \E p \in Bills[r] : balance' = balance - Cost[p]
      BY <2>2, <3>3 DEF Charged
    <3>5. Meter!Charge(r)
      BY <2>1, <2>2, <3>1, <3>2, <3>4 DEF Meter!Charge, Settled
    <3>. QED
      BY <3>5 DEF Meter!Next
  <2>3. CASE balance' = Charged(r, FALSE) /\ applied' = applied
    BY <1>2, <2>1, <2>3 DEF Charged
  <2>. QED
    BY <1>3, <2>2, <2>3 DEF Commit
<1>4. ASSUME NEW e \in Changes, Recharge(e)
      PROVE  [Meter!Next]_(Meter!account)
  <2>1. e \in Recharges /\ balance' = balance + Amount[e] /\ UNCHANGED applied
    BY <1>4 DEF Recharge
  <2>2. e \notin Settled /\ Settled' = Settled \cup {e}
    BY <1>4, SettledSame DEF Recharge
  <2>3. Noted' = Noted
    BY <1>4, NotedTurn DEF Recharge
  <2>4. Meter!Recharge(e)
    BY <2>1, <2>2, <2>3 DEF Meter!Recharge, Noted
  <2>. QED
    BY <2>1, <2>4 DEF Meter!Next
<1>5. ASSUME NEW e \in Changes, ReadUser(e)
      PROVE  [Meter!Next]_(Meter!account)
  <2>1. e \in Edits /\ change[e] = "idle" /\ UNCHANGED <<balance, applied>>
    BY <1>5 DEF ReadUser, database
  <2>2. e \notin Settled /\ Settled' = Settled
    BY <1>5, <2>1, SettledSame DEF ReadUser, Settled
  <2>3. Noted' = [Noted EXCEPT ![e] = balance]
    BY <1>5, <2>1, NotedTurn DEF ReadUser
  <2>4. Noted[e] = None
    BY <2>1 DEF Noted
  <2>5. Meter!Note(e)
    BY <2>1, <2>2, <2>3, <2>4 DEF Meter!Note, Noted
  <2>. QED
    BY <2>1, <2>5 DEF Meter!Next
<1>6. ASSUME NEW e \in Changes, WriteUser(e)
      PROVE  [Meter!Next]_(Meter!account)
  <2>1. /\ e \in Edits /\ change[e] = "read" /\ UNCHANGED applied
        /\ balance' = seen[e] + Amount[e]
        /\ Amount[e] # 0 => seen[e] + Amount[e] >= 0
    BY <1>6 DEF WriteUser
  <2>2. e \notin Settled /\ Settled' = Settled \cup {e}
    BY <1>6, SettledSame DEF WriteUser
  <2>3. Noted' = [Noted EXCEPT ![e] = None]
    <3>1. PICK l \in {"done", "invalidate"} : Turn(e, l)
      BY <1>6 DEF WriteUser
    <3>2. seen' = [seen EXCEPT ![e] = 0] /\ l # "read"
      BY <1>6 DEF WriteUser
    <3>. QED
      BY <2>1, <3>1, <3>2, NotedTurn
  <2>4. Noted[e] = seen[e] /\ Noted[e] # None
    BY <2>1, Constants DEF Noted, TypeOK
  <2>5. Meter!Edit(e)
    BY <2>1, <2>2, <2>3, <2>4 DEF Meter!Edit, Noted
  <2>. QED
    BY <2>1, <2>5 DEF Meter!Next
<1>7. ASSUME NEW e \in Changes, Reject(e)
      PROVE  [Meter!Next]_(Meter!account)
  <2>1. e \in Edits /\ change[e] = "read" /\ UNCHANGED <<balance, applied>>
    BY <1>7 DEF Reject, database
  <2>2. Settled' = Settled
    BY <1>7, SettledSame DEF Reject
  <2>3. Noted' = [Noted EXCEPT ![e] = None]
    <3>1. PICK l \in {"rejected"} : Turn(e, l)
      BY <1>7 DEF Reject
    <3>2. seen' = [seen EXCEPT ![e] = 0] /\ l # "read"
      BY <1>7 DEF Reject
    <3>. QED
      BY <2>1, <3>1, <3>2, NotedTurn
  <2>4. Noted[e] # None
    BY <2>1, Constants DEF Noted, TypeOK
  <2>5. Meter!Abandon(e)
    BY <2>1, <2>2, <2>3, <2>4 DEF Meter!Abandon, Noted
  <2>. QED
    BY <2>1, <2>5 DEF Meter!Next
<1>8. ASSUME NEW e \in Changes, Invalidate(e)
      PROVE  [Meter!Next]_(Meter!account)
  <2>1. UNCHANGED <<balance, applied, seen>>
    BY <1>8 DEF Invalidate, database
  <2>2. Settled' = Settled
    BY <1>8, SettledSame DEF Invalidate
  <2>3. Noted' = Noted
    BY <1>8, <2>1, NotedTurn DEF Invalidate
  <2>. QED
    BY <1>1, <2>1, <2>2, <2>3
<1>. HIDE DEF Still
<1>9. ASSUME NEW r \in Requests, Handle(r)
      PROVE  Commit(r) \/ UNCHANGED <<balance, applied, change, seen>>
  BY <1>9 DEF Handle, Hit, Load, Join, Submit, Fails, Insert, CompareRow,
      CompareArchived, Finalize, SetCache, DeductCache, database, changes
<1>10. CASE \/ \E i \in Ids : Cleanup(i)
            \/ Loaded \/ Expire \/ UNCHANGED vars
  BY <1>2, <1>10 DEF Cleanup, Loaded, Expire, vars, database, changes
<1>. QED
  BY <1>2, <1>3, <1>4, <1>5, <1>6, <1>7, <1>8, <1>9, <1>10 DEF Next, Alter

LEMMA MeterInit == Init => Meter!Init
<1>. SUFFICES ASSUME Init PROVE Meter!Init
  OBVIOUS
<1>1. \A e \in Changes : change[e] = "idle"
  BY DEF Init
<1>2. Settled = {}
  BY <1>1 DEF Settled
<1>3. Noted = [e \in Edits |-> None]
  BY <1>1 DEF Noted, Changes
<1>. QED
  BY <1>2, <1>3 DEF Init, Meter!Init, Noted

\* Whatever requests, repetitions, edits and failures there are, billing is an
\* atomic meter: of the requests with one id one is charged, once, one of the
\* prices its answer may have; a recharge counts once; and only an edit can undo
\* what happened since it read the balance.
THEOREM MeteringRefinement == Spec => ImplementsMetering
<1>1. TypeOK /\ LoggedInv /\ PrintInv /\ BilledOnce' /\ [Next]_vars
        => [Meter!Next]_(Meter!account)
  BY MeterStep
<1>2. TypeOK /\ PrintInv /\ [Next]_vars => PrintInv'
  BY StepPrint
<1>. QED
  BY <1>1, <1>2, InitPrint, MeterInit, Recorded, OneCharge, PTL
     DEF Spec, ImplementsMetering, Meter!Spec
=============================================================================
