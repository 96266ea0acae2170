----------------------- MODULE GatewayAdmissionProofs -----------------------
(***************************************************************************)
(* Type correctness and the safety of GatewayAdmission, for every number   *)
(* of requests and processes, every limit and every number of failures.    *)
(* The wait counters need processes that serve one after the other.        *)
(***************************************************************************)
EXTENDS GatewayAdmission, FiniteSetTheorems, TLAPS

LEMMA Constants ==
  /\ IsFiniteSet(Requests)
  /\ Home \in [Requests -> Lives]
  /\ Slow \subseteq Requests
  /\ MaxFaults \in Nat /\ MaxLapsed \in Nat
  /\ Limit \in [Pools -> Nat]
  /\ MaxWaiting \in [Pools -> Nat]
  /\ Free \notin Requests /\ Orphan \notin Requests /\ Free # Orphan
BY AdmissionAssumption DEF AdmissionAssumption, Limit, MaxWaiting, Pools

LEMMA InitType == Init => TypeOK
BY Constants DEF Init, TypeOK, Labels

LEMMA StepType ==
  ASSUME TypeOK, [Next]_vars
  PROVE  TypeOK'
PROOF
<1>1. ASSUME NEW l \in Lives, Start(l) PROVE TypeOK'
  BY <1>1, Constants DEF Start, Counter, At, Goto, Hold, Fault, redis, Wait, Got, Leave, Labels, Pools, TypeOK
<1>2. ASSUME NEW l \in Lives, Die(l) PROVE TypeOK'
  BY <1>2, Constants DEF Die, At, Goto, Hold, Fault, redis, Wait, Got, Leave, Labels, Pools, TypeOK
<1>3. ASSUME NEW r \in Requests, Arrive(r) PROVE TypeOK'
  BY <1>3, Constants DEF Arrive, Enqueue, Refused, QueueHasRoom, Incremented, At, Goto, Hold, Fault, redis, Wait, Got, Leave, Labels, Pools, TypeOK
<1>4. ASSUME NEW r \in Requests, Select(r) PROVE TypeOK'
  BY <1>4, Constants DEF Select, Refused, HasRoom, Taken, OneLeak, At, Goto, Hold, Fault, redis, Wait, Got, Leave, Labels, Pools, TypeOK
<1>5. ASSUME NEW r \in Requests, Plan(r) PROVE TypeOK'
  BY <1>5, Constants DEF Plan, Enqueue, Refused, QueueHasRoom, Incremented, At, Goto, Hold, Fault, redis, Wait, Got, Leave, Labels, Pools, TypeOK
<1>6. ASSUME NEW r \in Requests, TakeLock(r) PROVE TypeOK'
  BY <1>6, Constants DEF TakeLock, At, Goto, Hold, Fault, redis, Wait, Got, Leave, Labels, Pools, TypeOK
<1>7. ASSUME NEW r \in Requests, Answered(r) PROVE TypeOK'
  BY <1>7, Constants DEF Answered, At, Goto, Hold, Fault, redis, Wait, Got, Leave, Labels, Pools, TypeOK
<1>8. ASSUME NEW r \in Requests, Return(r) PROVE TypeOK'
  BY <1>8, Constants DEF Return, At, Goto, Hold, Fault, redis, Wait, Got, Leave, Labels, Pools, TypeOK
<1>9. ASSUME NEW r \in Requests, ReleaseLock(r) PROVE TypeOK'
  BY <1>9, Constants DEF ReleaseLock, ReleasedLock, At, Goto, Hold, Fault, redis, Wait, Got, Leave, Labels, Pools, TypeOK
<1>10. ASSUME NEW r \in Requests, NEW p \in Pools, Acquire(r, p) PROVE TypeOK'
  BY <1>10, Constants DEF Acquire, HasRoom, Taken, OneLeak, At, Goto, Hold, Fault, redis, Wait, Got, Leave, Labels, Pools, TypeOK
<1>11. ASSUME NEW r \in Requests, NEW p \in Pools, GiveUp(r, p) PROVE TypeOK'
  BY <1>11, Constants DEF GiveUp, At, Goto, Hold, Fault, redis, Wait, Got, Leave, Labels, Pools, TypeOK
<1>12. ASSUME NEW r \in Requests, NEW p \in Pools, Decrement(r, p) PROVE TypeOK'
  BY <1>12, Constants DEF Decrement, Decremented, At, Goto, Hold, Fault, redis, Wait, Got, Leave, Labels, Pools, TypeOK
<1>13. ASSUME NEW r \in Requests, NEW p \in Pools, ReleaseSlot(r, p) PROVE TypeOK'
  BY <1>13, Constants DEF ReleaseSlot, Freed, OneLeak, At, Goto, Hold, Fault, redis, Wait, Got, Leave, Labels, Pools, TypeOK
<1>14. ASSUME NEW r \in Requests, Cancel(r) PROVE TypeOK'
  BY <1>14, Constants DEF Cancel, At, Goto, Hold, Fault, redis, Wait, Got, Leave, Labels, Pools, TypeOK
<1>15. ASSUME LockLapses PROVE TypeOK'
  BY <1>15, Constants DEF LockLapses, At, Goto, Hold, Fault, redis, Wait, Got, Leave, Labels, Pools, TypeOK
<1>16. ASSUME NEW p \in Pools, LeakLapses(p) PROVE TypeOK'
  BY <1>16, Constants DEF LeakLapses, OneLeak, At, Goto, Hold, Fault, redis, Wait, Got, Leave, Labels, Pools, TypeOK
<1>17. ASSUME NEW p \in Pools, CounterLapses(p) PROVE TypeOK'
  BY <1>17, Constants DEF CounterLapses, At, Goto, Hold, Fault, redis, Wait, Got, Leave, Labels, Pools, TypeOK
<1>18. ASSUME NEW r \in Requests, NEW p \in Pools, SlotLapses(p, r) PROVE TypeOK'
  BY <1>18, Constants DEF SlotLapses, Freed, At, Goto, Hold, Fault, redis, Wait, Got, Leave, Labels, Pools, TypeOK
<1>19. ASSUME UNCHANGED vars PROVE TypeOK'
  BY <1>19, Constants DEF vars, TypeOK
<1> QED
  BY <1>1, <1>2, <1>3, <1>4, <1>5, <1>6, <1>7, <1>8, <1>9, <1>10, <1>11, <1>12, <1>13, <1>14, <1>15, <1>16, <1>17, <1>18, <1>19 DEF Next, Handle, Lapse

\* What a request may hold, by where it is.
StageOf(r, p) ==
  \/ Using(r, p)
  \/ p = "user" /\ pc[r] = "done"
  \/ p = "account" /\ pc[r] = "after"

LifeInv ==
  /\ \A r \in Requests : pc[r] \notin {"idle", "lost"} => life[Home[r]] = "up"
  /\ ~Overlap => \A l, m \in Lives : life[l] = "up" /\ life[m] = "up" => l = m

LockInv ==
  \A r \in Requests :
    "lock" \in held[r] =>
      /\ pc[r] \in {"forward", "after"}
      /\ r \notin Slow => lock = r

HeldInv ==
  \A r \in Requests, p \in Pools :
    /\ p \in held[r] => StageOf(r, p)
    /\ Using(r, p) /\ r \notin cancelled => p \in held[r]
    /\ r \in slots[p] /\ pc[r] # "lost" => p \in held[r]

KeptInv ==
  \A r \in Requests \ Slow, p \in Pools : p \in held[r] => r \in slots[p]

LEMMA InitInv == Init => LifeInv /\ LockInv /\ HeldInv /\ KeptInv
BY Constants DEF Init, LifeInv, LockInv, HeldInv, KeptInv, Using, StageOf, Pools

LEMMA StepLife ==
  ASSUME TypeOK, LifeInv, [Next]_vars
  PROVE  LifeInv'
PROOF
<1>1. ASSUME NEW l \in Lives, Start(l) PROVE LifeInv'
  BY <1>1, Constants DEF Start, Counter, At, Goto, Hold, Fault, redis, Wait, Got, Leave, Labels, Pools, TypeOK, LifeInv
<1>2. ASSUME NEW l \in Lives, Die(l) PROVE LifeInv'
  BY <1>2, Constants DEF Die, At, Goto, Hold, Fault, redis, Wait, Got, Leave, Labels, Pools, TypeOK, LifeInv
<1>3. ASSUME NEW r \in Requests, Arrive(r) PROVE LifeInv'
  BY <1>3, Constants DEF Arrive, Enqueue, Refused, QueueHasRoom, Incremented, At, Goto, Hold, Fault, redis, Wait, Got, Leave, Labels, Pools, TypeOK, LifeInv
<1>4. ASSUME NEW r \in Requests, Select(r) PROVE LifeInv'
  BY <1>4, Constants DEF Select, Refused, HasRoom, Taken, OneLeak, At, Goto, Hold, Fault, redis, Wait, Got, Leave, Labels, Pools, TypeOK, LifeInv
<1>5. ASSUME NEW r \in Requests, Plan(r) PROVE LifeInv'
  BY <1>5, Constants DEF Plan, Enqueue, Refused, QueueHasRoom, Incremented, At, Goto, Hold, Fault, redis, Wait, Got, Leave, Labels, Pools, TypeOK, LifeInv
<1>6. ASSUME NEW r \in Requests, TakeLock(r) PROVE LifeInv'
  BY <1>6, Constants DEF TakeLock, At, Goto, Hold, Fault, redis, Wait, Got, Leave, Labels, Pools, TypeOK, LifeInv
<1>7. ASSUME NEW r \in Requests, Answered(r) PROVE LifeInv'
  BY <1>7, Constants DEF Answered, At, Goto, Hold, Fault, redis, Wait, Got, Leave, Labels, Pools, TypeOK, LifeInv
<1>8. ASSUME NEW r \in Requests, Return(r) PROVE LifeInv'
  BY <1>8, Constants DEF Return, At, Goto, Hold, Fault, redis, Wait, Got, Leave, Labels, Pools, TypeOK, LifeInv
<1>9. ASSUME NEW r \in Requests, ReleaseLock(r) PROVE LifeInv'
  BY <1>9, Constants DEF ReleaseLock, ReleasedLock, At, Goto, Hold, Fault, redis, Wait, Got, Leave, Labels, Pools, TypeOK, LifeInv
<1>10. ASSUME NEW r \in Requests, NEW p \in Pools, Acquire(r, p) PROVE LifeInv'
  BY <1>10, Constants DEF Acquire, HasRoom, Taken, OneLeak, At, Goto, Hold, Fault, redis, Wait, Got, Leave, Labels, Pools, TypeOK, LifeInv
<1>11. ASSUME NEW r \in Requests, NEW p \in Pools, GiveUp(r, p) PROVE LifeInv'
  BY <1>11, Constants DEF GiveUp, At, Goto, Hold, Fault, redis, Wait, Got, Leave, Labels, Pools, TypeOK, LifeInv
<1>12. ASSUME NEW r \in Requests, NEW p \in Pools, Decrement(r, p) PROVE LifeInv'
  BY <1>12, Constants DEF Decrement, Decremented, At, Goto, Hold, Fault, redis, Wait, Got, Leave, Labels, Pools, TypeOK, LifeInv
<1>13. ASSUME NEW r \in Requests, NEW p \in Pools, ReleaseSlot(r, p) PROVE LifeInv'
  BY <1>13, Constants DEF ReleaseSlot, Freed, OneLeak, At, Goto, Hold, Fault, redis, Wait, Got, Leave, Labels, Pools, TypeOK, LifeInv
<1>14. ASSUME NEW r \in Requests, Cancel(r) PROVE LifeInv'
  BY <1>14, Constants DEF Cancel, At, Goto, Hold, Fault, redis, Wait, Got, Leave, Labels, Pools, TypeOK, LifeInv
<1>15. ASSUME LockLapses PROVE LifeInv'
  BY <1>15, Constants DEF LockLapses, At, Goto, Hold, Fault, redis, Wait, Got, Leave, Labels, Pools, TypeOK, LifeInv
<1>16. ASSUME NEW p \in Pools, LeakLapses(p) PROVE LifeInv'
  BY <1>16, Constants DEF LeakLapses, OneLeak, At, Goto, Hold, Fault, redis, Wait, Got, Leave, Labels, Pools, TypeOK, LifeInv
<1>17. ASSUME NEW p \in Pools, CounterLapses(p) PROVE LifeInv'
  BY <1>17, Constants DEF CounterLapses, At, Goto, Hold, Fault, redis, Wait, Got, Leave, Labels, Pools, TypeOK, LifeInv
<1>18. ASSUME NEW r \in Requests, NEW p \in Pools, SlotLapses(p, r) PROVE LifeInv'
  BY <1>18, Constants DEF SlotLapses, Freed, At, Goto, Hold, Fault, redis, Wait, Got, Leave, Labels, Pools, TypeOK, LifeInv
<1>19. ASSUME UNCHANGED vars PROVE LifeInv'
  BY <1>19, Constants DEF vars, TypeOK, LifeInv
<1> QED
  BY <1>1, <1>2, <1>3, <1>4, <1>5, <1>6, <1>7, <1>8, <1>9, <1>10, <1>11, <1>12, <1>13, <1>14, <1>15, <1>16, <1>17, <1>18, <1>19 DEF Next, Handle, Lapse

LEMMA StepLock ==
  ASSUME TypeOK, LockInv, [Next]_vars
  PROVE  LockInv'
PROOF
<1>1. ASSUME NEW l \in Lives, Start(l) PROVE LockInv'
  BY <1>1, Constants DEF Start, Counter, At, Goto, Hold, Fault, redis, Wait, Got, Leave, Labels, Pools, TypeOK, LockInv
<1>2. ASSUME NEW l \in Lives, Die(l) PROVE LockInv'
  BY <1>2, Constants DEF Die, At, Goto, Hold, Fault, redis, Wait, Got, Leave, Labels, Pools, TypeOK, LockInv
<1>3. ASSUME NEW r \in Requests, Arrive(r) PROVE LockInv'
  BY <1>3, Constants DEF Arrive, Enqueue, Refused, QueueHasRoom, Incremented, At, Goto, Hold, Fault, redis, Wait, Got, Leave, Labels, Pools, TypeOK, LockInv
<1>4. ASSUME NEW r \in Requests, Select(r) PROVE LockInv'
  BY <1>4, Constants DEF Select, Refused, HasRoom, Taken, OneLeak, At, Goto, Hold, Fault, redis, Wait, Got, Leave, Labels, Pools, TypeOK, LockInv
<1>5. ASSUME NEW r \in Requests, Plan(r) PROVE LockInv'
  BY <1>5, Constants DEF Plan, Enqueue, Refused, QueueHasRoom, Incremented, At, Goto, Hold, Fault, redis, Wait, Got, Leave, Labels, Pools, TypeOK, LockInv
<1>6. ASSUME NEW r \in Requests, TakeLock(r) PROVE LockInv'
  <2>1. pc' = [pc EXCEPT ![r] = "forward"]
    BY <1>6 DEF TakeLock, Goto
  <2>2. ASSUME NEW s \in Requests, "lock" \in held'[s]
        PROVE  /\ pc'[s] \in {"forward", "after"}
               /\ s \notin Slow => lock' = s
    <3>1. CASE lock = Free /\ lock' = r /\ Hold(r, "lock")
      <4>1. s # r => "lock" \in held[s]
        BY <2>2, <3>1 DEF Hold, TypeOK
      <4>2. s # r => s \in Slow /\ pc[s] \in {"forward", "after"}
        BY <4>1, <3>1, Constants DEF LockInv
      <4> QED
        BY <2>1, <3>1, <4>2 DEF TypeOK
    <3>2. CASE lock' = lock /\ held' = held
      BY <2>1, <2>2, <3>2 DEF TypeOK, LockInv
    <3>3. CASE lock = Free /\ held' = held
      <4>1. s \in Slow /\ pc[s] \in {"forward", "after"}
        BY <2>2, <3>3, Constants DEF LockInv
      <4> QED
        BY <2>1, <4>1 DEF TypeOK
    <3> QED
      BY <1>6, <3>1, <3>2, <3>3 DEF TakeLock
  <2> QED
    BY <2>2 DEF LockInv
<1>7. ASSUME NEW r \in Requests, Answered(r) PROVE LockInv'
  BY <1>7, Constants DEF Answered, At, Goto, Hold, Fault, redis, Wait, Got, Leave, Labels, Pools, TypeOK, LockInv
<1>8. ASSUME NEW r \in Requests, Return(r) PROVE LockInv'
  BY <1>8, Constants DEF Return, At, Goto, Hold, Fault, redis, Wait, Got, Leave, Labels, Pools, TypeOK, LockInv
<1>9. ASSUME NEW r \in Requests, ReleaseLock(r) PROVE LockInv'
  BY <1>9, Constants DEF ReleaseLock, ReleasedLock, At, Goto, Hold, Fault, redis, Wait, Got, Leave, Labels, Pools, TypeOK, LockInv
<1>10. ASSUME NEW r \in Requests, NEW p \in Pools, Acquire(r, p) PROVE LockInv'
  BY <1>10, Constants DEF Acquire, HasRoom, Taken, OneLeak, At, Goto, Hold, Fault, redis, Wait, Got, Leave, Labels, Pools, TypeOK, LockInv
<1>11. ASSUME NEW r \in Requests, NEW p \in Pools, GiveUp(r, p) PROVE LockInv'
  BY <1>11, Constants DEF GiveUp, At, Goto, Hold, Fault, redis, Wait, Got, Leave, Labels, Pools, TypeOK, LockInv
<1>12. ASSUME NEW r \in Requests, NEW p \in Pools, Decrement(r, p) PROVE LockInv'
  BY <1>12, Constants DEF Decrement, Decremented, At, Goto, Hold, Fault, redis, Wait, Got, Leave, Labels, Pools, TypeOK, LockInv
<1>13. ASSUME NEW r \in Requests, NEW p \in Pools, ReleaseSlot(r, p) PROVE LockInv'
  BY <1>13, Constants DEF ReleaseSlot, Freed, OneLeak, At, Goto, Hold, Fault, redis, Wait, Got, Leave, Labels, Pools, TypeOK, LockInv
<1>14. ASSUME NEW r \in Requests, Cancel(r) PROVE LockInv'
  BY <1>14, Constants DEF Cancel, At, Goto, Hold, Fault, redis, Wait, Got, Leave, Labels, Pools, TypeOK, LockInv
<1>15. ASSUME LockLapses PROVE LockInv'
  BY <1>15, Constants DEF LockLapses, At, Goto, Hold, Fault, redis, Wait, Got, Leave, Labels, Pools, TypeOK, LockInv
<1>16. ASSUME NEW p \in Pools, LeakLapses(p) PROVE LockInv'
  BY <1>16, Constants DEF LeakLapses, OneLeak, At, Goto, Hold, Fault, redis, Wait, Got, Leave, Labels, Pools, TypeOK, LockInv
<1>17. ASSUME NEW p \in Pools, CounterLapses(p) PROVE LockInv'
  BY <1>17, Constants DEF CounterLapses, At, Goto, Hold, Fault, redis, Wait, Got, Leave, Labels, Pools, TypeOK, LockInv
<1>18. ASSUME NEW r \in Requests, NEW p \in Pools, SlotLapses(p, r) PROVE LockInv'
  BY <1>18, Constants DEF SlotLapses, Freed, At, Goto, Hold, Fault, redis, Wait, Got, Leave, Labels, Pools, TypeOK, LockInv
<1>19. ASSUME UNCHANGED vars PROVE LockInv'
  BY <1>19, Constants DEF vars, TypeOK, LockInv
<1> QED
  BY <1>1, <1>2, <1>3, <1>4, <1>5, <1>6, <1>7, <1>8, <1>9, <1>10, <1>11, <1>12, <1>13, <1>14, <1>15, <1>16, <1>17, <1>18, <1>19 DEF Next, Handle, Lapse

LEMMA StepHeld ==
  ASSUME TypeOK, LockInv, HeldInv, [Next]_vars
  PROVE  HeldInv'
PROOF
<1>1. ASSUME NEW l \in Lives, Start(l) PROVE HeldInv'
  BY <1>1, Constants DEF Start, Counter, At, Goto, Hold, Fault, redis, Wait, Got, Leave, Labels, Pools, TypeOK, LockInv, HeldInv, Using, StageOf, Releasable
<1>2. ASSUME NEW l \in Lives, Die(l) PROVE HeldInv'
  BY <1>2, Constants DEF Die, At, Goto, Hold, Fault, redis, Wait, Got, Leave, Labels, Pools, TypeOK, LockInv, HeldInv, Using, StageOf, Releasable
<1>3. ASSUME NEW r \in Requests, Arrive(r) PROVE HeldInv'
  BY <1>3, Constants DEF Arrive, Enqueue, Refused, QueueHasRoom, Incremented, At, Goto, Hold, Fault, redis, Wait, Got, Leave, Labels, Pools, TypeOK, LockInv, HeldInv, Using, StageOf, Releasable
<1>4. ASSUME NEW r \in Requests, Select(r) PROVE HeldInv'
  BY <1>4, Constants DEF Select, Refused, HasRoom, Taken, OneLeak, At, Goto, Hold, Fault, redis, Wait, Got, Leave, Labels, Pools, TypeOK, LockInv, HeldInv, Using, StageOf, Releasable
<1>5. ASSUME NEW r \in Requests, Plan(r) PROVE HeldInv'
  BY <1>5, Constants DEF Plan, Enqueue, Refused, QueueHasRoom, Incremented, At, Goto, Hold, Fault, redis, Wait, Got, Leave, Labels, Pools, TypeOK, LockInv, HeldInv, Using, StageOf, Releasable
<1>6. ASSUME NEW r \in Requests, TakeLock(r) PROVE HeldInv'
  BY <1>6, Constants DEF TakeLock, At, Goto, Hold, Fault, redis, Wait, Got, Leave, Labels, Pools, TypeOK, LockInv, HeldInv, Using, StageOf, Releasable
<1>7. ASSUME NEW r \in Requests, Answered(r) PROVE HeldInv'
  BY <1>7, Constants DEF Answered, At, Goto, Hold, Fault, redis, Wait, Got, Leave, Labels, Pools, TypeOK, LockInv, HeldInv, Using, StageOf, Releasable
<1>8. ASSUME NEW r \in Requests, Return(r) PROVE HeldInv'
  BY <1>8, Constants DEF Return, At, Goto, Hold, Fault, redis, Wait, Got, Leave, Labels, Pools, TypeOK, LockInv, HeldInv, Using, StageOf, Releasable
<1>9. ASSUME NEW r \in Requests, ReleaseLock(r) PROVE HeldInv'
  BY <1>9, Constants DEF ReleaseLock, ReleasedLock, At, Goto, Hold, Fault, redis, Wait, Got, Leave, Labels, Pools, TypeOK, LockInv, HeldInv, Using, StageOf, Releasable
<1>10. ASSUME NEW r \in Requests, NEW p \in Pools, Acquire(r, p) PROVE HeldInv'
  BY <1>10, Constants DEF Acquire, HasRoom, Taken, OneLeak, At, Goto, Hold, Fault, redis, Wait, Got, Leave, Labels, Pools, TypeOK, LockInv, HeldInv, Using, StageOf, Releasable
<1>11. ASSUME NEW r \in Requests, NEW p \in Pools, GiveUp(r, p) PROVE HeldInv'
  BY <1>11, Constants DEF GiveUp, At, Goto, Hold, Fault, redis, Wait, Got, Leave, Labels, Pools, TypeOK, LockInv, HeldInv, Using, StageOf, Releasable
<1>12. ASSUME NEW r \in Requests, NEW p \in Pools, Decrement(r, p) PROVE HeldInv'
  BY <1>12, Constants DEF Decrement, Decremented, At, Goto, Hold, Fault, redis, Wait, Got, Leave, Labels, Pools, TypeOK, LockInv, HeldInv, Using, StageOf, Releasable
<1>13. ASSUME NEW r \in Requests, NEW p \in Pools, ReleaseSlot(r, p) PROVE HeldInv'
  BY <1>13, Constants DEF ReleaseSlot, Freed, OneLeak, At, Goto, Hold, Fault, redis, Wait, Got, Leave, Labels, Pools, TypeOK, LockInv, HeldInv, Using, StageOf, Releasable
<1>14. ASSUME NEW r \in Requests, Cancel(r) PROVE HeldInv'
  BY <1>14, Constants DEF Cancel, At, Goto, Hold, Fault, redis, Wait, Got, Leave, Labels, Pools, TypeOK, LockInv, HeldInv, Using, StageOf, Releasable
<1>15. ASSUME LockLapses PROVE HeldInv'
  BY <1>15, Constants DEF LockLapses, At, Goto, Hold, Fault, redis, Wait, Got, Leave, Labels, Pools, TypeOK, LockInv, HeldInv, Using, StageOf, Releasable
<1>16. ASSUME NEW p \in Pools, LeakLapses(p) PROVE HeldInv'
  BY <1>16, Constants DEF LeakLapses, OneLeak, At, Goto, Hold, Fault, redis, Wait, Got, Leave, Labels, Pools, TypeOK, LockInv, HeldInv, Using, StageOf, Releasable
<1>17. ASSUME NEW p \in Pools, CounterLapses(p) PROVE HeldInv'
  BY <1>17, Constants DEF CounterLapses, At, Goto, Hold, Fault, redis, Wait, Got, Leave, Labels, Pools, TypeOK, LockInv, HeldInv, Using, StageOf, Releasable
<1>18. ASSUME NEW r \in Requests, NEW p \in Pools, SlotLapses(p, r) PROVE HeldInv'
  BY <1>18, Constants DEF SlotLapses, Freed, At, Goto, Hold, Fault, redis, Wait, Got, Leave, Labels, Pools, TypeOK, LockInv, HeldInv, Using, StageOf, Releasable
<1>19. ASSUME UNCHANGED vars PROVE HeldInv'
  BY <1>19, Constants DEF vars, TypeOK, LockInv, HeldInv, Using, StageOf, Releasable
<1> QED
  BY <1>1, <1>2, <1>3, <1>4, <1>5, <1>6, <1>7, <1>8, <1>9, <1>10, <1>11, <1>12, <1>13, <1>14, <1>15, <1>16, <1>17, <1>18, <1>19 DEF Next, Handle, Lapse

LEMMA StepKept ==
  ASSUME TypeOK, LifeInv, LockInv, HeldInv, KeptInv, ~Overlap, [Next]_vars
  PROVE  KeptInv'
PROOF
<1>1. ASSUME NEW l \in Lives, Start(l) PROVE KeptInv'
  BY <1>1, Constants DEF Start, Counter, At, Goto, Hold, Fault, redis, Wait, Got, Leave, Labels, Pools, TypeOK, LifeInv, LockInv, HeldInv, KeptInv, Using, StageOf
<1>2. ASSUME NEW l \in Lives, Die(l) PROVE KeptInv'
  BY <1>2, Constants DEF Die, At, Goto, Hold, Fault, redis, Wait, Got, Leave, Labels, Pools, TypeOK, LifeInv, LockInv, HeldInv, KeptInv, Using, StageOf
<1>3. ASSUME NEW r \in Requests, Arrive(r) PROVE KeptInv'
  BY <1>3, Constants DEF Arrive, Enqueue, Refused, QueueHasRoom, Incremented, At, Goto, Hold, Fault, redis, Wait, Got, Leave, Labels, Pools, TypeOK, LifeInv, LockInv, HeldInv, KeptInv, Using, StageOf
<1>4. ASSUME NEW r \in Requests, Select(r) PROVE KeptInv'
  BY <1>4, Constants DEF Select, Refused, HasRoom, Taken, OneLeak, At, Goto, Hold, Fault, redis, Wait, Got, Leave, Labels, Pools, TypeOK, LifeInv, LockInv, HeldInv, KeptInv, Using, StageOf
<1>5. ASSUME NEW r \in Requests, Plan(r) PROVE KeptInv'
  BY <1>5, Constants DEF Plan, Enqueue, Refused, QueueHasRoom, Incremented, At, Goto, Hold, Fault, redis, Wait, Got, Leave, Labels, Pools, TypeOK, LifeInv, LockInv, HeldInv, KeptInv, Using, StageOf
<1>6. ASSUME NEW r \in Requests, TakeLock(r) PROVE KeptInv'
  BY <1>6, Constants DEF TakeLock, At, Goto, Hold, Fault, redis, Wait, Got, Leave, Labels, Pools, TypeOK, LifeInv, LockInv, HeldInv, KeptInv, Using, StageOf
<1>7. ASSUME NEW r \in Requests, Answered(r) PROVE KeptInv'
  BY <1>7, Constants DEF Answered, At, Goto, Hold, Fault, redis, Wait, Got, Leave, Labels, Pools, TypeOK, LifeInv, LockInv, HeldInv, KeptInv, Using, StageOf
<1>8. ASSUME NEW r \in Requests, Return(r) PROVE KeptInv'
  BY <1>8, Constants DEF Return, At, Goto, Hold, Fault, redis, Wait, Got, Leave, Labels, Pools, TypeOK, LifeInv, LockInv, HeldInv, KeptInv, Using, StageOf
<1>9. ASSUME NEW r \in Requests, ReleaseLock(r) PROVE KeptInv'
  BY <1>9, Constants DEF ReleaseLock, ReleasedLock, At, Goto, Hold, Fault, redis, Wait, Got, Leave, Labels, Pools, TypeOK, LifeInv, LockInv, HeldInv, KeptInv, Using, StageOf
<1>10. ASSUME NEW r \in Requests, NEW p \in Pools, Acquire(r, p) PROVE KeptInv'
  BY <1>10, Constants DEF Acquire, HasRoom, Taken, OneLeak, At, Goto, Hold, Fault, redis, Wait, Got, Leave, Labels, Pools, TypeOK, LifeInv, LockInv, HeldInv, KeptInv, Using, StageOf
<1>11. ASSUME NEW r \in Requests, NEW p \in Pools, GiveUp(r, p) PROVE KeptInv'
  BY <1>11, Constants DEF GiveUp, At, Goto, Hold, Fault, redis, Wait, Got, Leave, Labels, Pools, TypeOK, LifeInv, LockInv, HeldInv, KeptInv, Using, StageOf
<1>12. ASSUME NEW r \in Requests, NEW p \in Pools, Decrement(r, p) PROVE KeptInv'
  BY <1>12, Constants DEF Decrement, Decremented, At, Goto, Hold, Fault, redis, Wait, Got, Leave, Labels, Pools, TypeOK, LifeInv, LockInv, HeldInv, KeptInv, Using, StageOf
<1>13. ASSUME NEW r \in Requests, NEW p \in Pools, ReleaseSlot(r, p) PROVE KeptInv'
  BY <1>13, Constants DEF ReleaseSlot, Freed, OneLeak, At, Goto, Hold, Fault, redis, Wait, Got, Leave, Labels, Pools, TypeOK, LifeInv, LockInv, HeldInv, KeptInv, Using, StageOf
<1>14. ASSUME NEW r \in Requests, Cancel(r) PROVE KeptInv'
  BY <1>14, Constants DEF Cancel, At, Goto, Hold, Fault, redis, Wait, Got, Leave, Labels, Pools, TypeOK, LifeInv, LockInv, HeldInv, KeptInv, Using, StageOf
<1>15. ASSUME LockLapses PROVE KeptInv'
  BY <1>15, Constants DEF LockLapses, At, Goto, Hold, Fault, redis, Wait, Got, Leave, Labels, Pools, TypeOK, LifeInv, LockInv, HeldInv, KeptInv, Using, StageOf
<1>16. ASSUME NEW p \in Pools, LeakLapses(p) PROVE KeptInv'
  BY <1>16, Constants DEF LeakLapses, OneLeak, At, Goto, Hold, Fault, redis, Wait, Got, Leave, Labels, Pools, TypeOK, LifeInv, LockInv, HeldInv, KeptInv, Using, StageOf
<1>17. ASSUME NEW p \in Pools, CounterLapses(p) PROVE KeptInv'
  BY <1>17, Constants DEF CounterLapses, At, Goto, Hold, Fault, redis, Wait, Got, Leave, Labels, Pools, TypeOK, LifeInv, LockInv, HeldInv, KeptInv, Using, StageOf
<1>18. ASSUME NEW r \in Requests, NEW p \in Pools, SlotLapses(p, r) PROVE KeptInv'
  BY <1>18, Constants DEF SlotLapses, Freed, At, Goto, Hold, Fault, redis, Wait, Got, Leave, Labels, Pools, TypeOK, LifeInv, LockInv, HeldInv, KeptInv, Using, StageOf
<1>19. ASSUME UNCHANGED vars PROVE KeptInv'
  BY <1>19, Constants DEF vars, TypeOK, LifeInv, LockInv, HeldInv, KeptInv, Using, StageOf
<1> QED
  BY <1>1, <1>2, <1>3, <1>4, <1>5, <1>6, <1>7, <1>8, <1>9, <1>10, <1>11, <1>12, <1>13, <1>14, <1>15, <1>16, <1>17, <1>18, <1>19 DEF Next, Handle, Lapse

-----------------------------------------------------------------------------
\* Counting.

LEMMA Counting ==
  ASSUME NEW S \in SUBSET Requests, NEW r \in Requests
  PROVE  /\ Cardinality(S) \in Nat
         /\ Cardinality(S \ {r}) \in Nat
         /\ Cardinality(S \cup {r}) \in Nat
         /\ Cardinality(S \ {r}) = IF r \in S THEN Cardinality(S) - 1 ELSE Cardinality(S)
         /\ Cardinality(S \cup {r}) = IF r \in S THEN Cardinality(S) ELSE Cardinality(S) + 1
PROOF
<1>1. IsFiniteSet(S)
  BY Constants, FS_Subset
<1>2. Cardinality(S) \in Nat
  BY <1>1, FS_CardinalityType
<1>3. Cardinality(S \ {r}) = IF r \in S THEN Cardinality(S) - 1 ELSE Cardinality(S)
  BY <1>1, FS_RemoveElement
<1>4. Cardinality(S \cup {r}) = IF r \in S THEN Cardinality(S) ELSE Cardinality(S) + 1
  BY <1>1, FS_AddElement
<1>5. IsFiniteSet(S \ {r}) /\ IsFiniteSet(S \cup {r})
  BY <1>1, FS_RemoveElement, FS_AddElement
<1>6. Cardinality(S \ {r}) \in Nat /\ Cardinality(S \cup {r}) \in Nat
  BY <1>5, FS_CardinalityType
<1> QED
  BY <1>2, <1>3, <1>4, <1>6

LEMMA Fewer ==
  ASSUME NEW T \in SUBSET Requests, NEW S \in SUBSET T
  PROVE  /\ Cardinality(S) \in Nat /\ Cardinality(T) \in Nat
         /\ Cardinality(S) <= Cardinality(T)
PROOF
<1>1. IsFiniteSet(T)
  BY Constants, FS_Subset
<1>2. IsFiniteSet(S) /\ Cardinality(S) <= Cardinality(T)
  BY <1>1, FS_Subset
<1> QED
  BY <1>1, <1>2, FS_CardinalityType

-----------------------------------------------------------------------------
\* The sorted sets never hold more than the limit.

CapInv == \A p \in Pools : Cardinality(slots[p]) + leaked[p] <= Limit[p]

LEMMA InitCap == Init => CapInv
PROOF
<1> SUFFICES ASSUME Init, NEW p \in Pools PROVE Cardinality(slots[p]) + leaked[p] <= Limit[p]
  BY DEF CapInv
<1>1. slots[p] = {} /\ leaked[p] = 0
  BY DEF Init
<1>2. Cardinality({}) = 0
  BY FS_EmptySet
<1> QED
  BY <1>1, <1>2, Constants

\* Every step of a pool's set keeps it within the limit.
LEMMA CapSteps ==
  ASSUME TypeOK, TypeOK', CapInv, NEW p \in Pools, NEW q \in Pools, NEW r \in Requests,
         \/ UNCHANGED <<slots, leaked>>
         \/ HasRoom(p) /\ slots' = Taken(r, p) /\ UNCHANGED leaked
         \/ HasRoom(p) /\ UNCHANGED slots /\ leaked' = OneLeak(p)
         \/ slots' = Freed(r, p) /\ UNCHANGED leaked
         \/ r \in slots[p] /\ slots' = Freed(r, p) /\ leaked' = OneLeak(p)
         \/ UNCHANGED slots /\ leaked[p] > 0 /\ leaked' = [leaked EXCEPT ![p] = @ - 1]
  PROVE  Cardinality(slots'[q]) + leaked'[q] <= Limit[q]
PROOF
<1> DEFINE n == Cardinality(slots[p])
<1>1. slots[p] \in SUBSET Requests
  BY DEF TypeOK
<1>2. /\ n \in Nat /\ leaked[p] \in Nat /\ leaked'[p] \in Nat /\ Limit[p] \in Nat
      /\ n + leaked[p] <= Limit[p]
  BY <1>1, Counting, Constants DEF TypeOK, CapInv
<1>3. /\ Cardinality(slots[p] \ {r}) = IF r \in slots[p] THEN n - 1 ELSE n
      /\ Cardinality(slots[p] \cup {r}) = IF r \in slots[p] THEN n ELSE n + 1
  BY <1>1, Counting
<1>4. ASSUME q # p PROVE slots'[q] = slots[q] /\ leaked'[q] = leaked[q]
  BY <1>4 DEF TypeOK, Taken, OneLeak, Freed
<1>5. CASE q # p
  BY <1>4, <1>5 DEF CapInv
<1>6. CASE q = p
  <2>1. CASE UNCHANGED <<slots, leaked>>
    BY <1>2, <1>6, <2>1
  <2>2. CASE HasRoom(p) /\ slots' = Taken(r, p) /\ UNCHANGED leaked
    <3>1. slots'[p] = slots[p] \cup {r} /\ n + leaked[p] < Limit[p]
      BY <2>2 DEF Taken, HasRoom, TypeOK
    <3> QED
      BY <1>2, <1>3, <1>6, <2>2, <3>1
  <2>3. CASE HasRoom(p) /\ UNCHANGED slots /\ leaked' = OneLeak(p)
    <3>1. leaked'[p] = leaked[p] + 1 /\ n + leaked[p] < Limit[p]
      BY <2>3 DEF OneLeak, HasRoom, TypeOK
    <3> QED
      BY <1>2, <1>6, <2>3, <3>1
  <2>4. CASE slots' = Freed(r, p) /\ UNCHANGED leaked
    <3>1. slots'[p] = slots[p] \ {r}
      BY <2>4 DEF Freed, TypeOK
    <3> QED
      BY <1>2, <1>3, <1>6, <2>4, <3>1
  <2>5. CASE r \in slots[p] /\ slots' = Freed(r, p) /\ leaked' = OneLeak(p)
    <3>1. slots'[p] = slots[p] \ {r} /\ leaked'[p] = leaked[p] + 1
      BY <2>5 DEF Freed, OneLeak, TypeOK
    <3> QED
      BY <1>2, <1>3, <1>6, <2>5, <3>1
  <2>6. CASE UNCHANGED slots /\ leaked[p] > 0 /\ leaked' = [leaked EXCEPT ![p] = @ - 1]
    <3>1. leaked'[p] = leaked[p] - 1
      BY <2>6 DEF TypeOK
    <3> QED
      BY <1>2, <1>6, <2>6, <3>1
  <2> QED
    BY <2>1, <2>2, <2>3, <2>4, <2>5, <2>6
<1> QED
  BY <1>5, <1>6

LEMMA StepCap ==
  ASSUME TypeOK, TypeOK', CapInv, [Next]_vars
  PROVE  CapInv'
PROOF
<1> SUFFICES ASSUME NEW q \in Pools
             PROVE  Cardinality(slots'[q]) + leaked'[q] <= Limit[q]
  BY DEF CapInv
<1>1. ASSUME NEW l \in Lives, Start(l) PROVE Cardinality(slots'[q]) + leaked'[q] <= Limit[q]
  <2>1. slots'[q] \subseteq slots[q] /\ leaked'[q] \in {0, leaked[q]}
    BY <1>1 DEF Start, TypeOK
  <2>2. slots[q] \in SUBSET Requests /\ leaked[q] \in Nat /\ Limit[q] \in Nat
    BY Constants DEF TypeOK
  <2>3. /\ Cardinality(slots'[q]) \in Nat /\ Cardinality(slots[q]) \in Nat
        /\ Cardinality(slots'[q]) <= Cardinality(slots[q])
    BY <2>1, <2>2, Fewer
  <2>4. Cardinality(slots[q]) + leaked[q] <= Limit[q]
    BY DEF CapInv
  <2> QED
    BY <2>1, <2>2, <2>3, <2>4
<1>2. CASE UNCHANGED <<slots, leaked>>
  BY <1>2 DEF CapInv
<1>3. ASSUME NEW r \in Requests, NEW p \in Pools,
             Acquire(r, p) \/ ReleaseSlot(r, p) \/ SlotLapses(p, r)
      PROVE  Cardinality(slots'[q]) + leaked'[q] <= Limit[q]
  BY <1>3, CapSteps DEF Acquire, ReleaseSlot, SlotLapses
<1>4. ASSUME NEW r \in Requests, Select(r) PROVE Cardinality(slots'[q]) + leaked'[q] <= Limit[q]
  <2>1. "account" \in Pools
    BY DEF Pools
  <2> QED
    BY <1>4, <2>1, CapSteps DEF Select
<1>5. ASSUME NEW p \in Pools, LeakLapses(p) PROVE Cardinality(slots'[q]) + leaked'[q] <= Limit[q]
  <2>1. slots[q] \in SUBSET Requests /\ slots'[q] = slots[q] /\ Limit[q] \in Nat
    BY <1>5, Constants DEF LeakLapses, TypeOK
  <2>2. leaked'[q] <= leaked[q] /\ leaked[q] \in Nat /\ leaked'[q] \in Nat
    BY <1>5 DEF LeakLapses, TypeOK
  <2>3. Cardinality(slots[q]) \in Nat
    BY <2>1, Fewer
  <2>4. Cardinality(slots[q]) + leaked[q] <= Limit[q]
    BY DEF CapInv
  <2> QED
    BY <2>1, <2>2, <2>3, <2>4
<1> QED
  BY <1>1, <1>2, <1>3, <1>4, <1>5
     DEF Next, Handle, Lapse, vars, redis, Die, Arrive, Plan, Enqueue, TakeLock, Answered, Return,
         ReleaseLock, GiveUp, Decrement, Cancel, LockLapses, CounterLapses

-----------------------------------------------------------------------------
\* Leaks.

Ended == {r \in cancelled : pc[r] \in {"done", "lost"}}

LeakInv == leaked["user"] + leaked["account"] <= faults + Cardinality(Ended)

LEMMA InitLeak == Init => LeakInv
PROOF
<1> SUFFICES ASSUME Init PROVE LeakInv
  OBVIOUS
<1>1. Ended = {} /\ leaked["user"] = 0 /\ leaked["account"] = 0 /\ faults = 0
  BY DEF Init, Ended, Pools
<1>2. Cardinality({}) = 0
  BY FS_EmptySet
<1> QED
  BY <1>1, <1>2 DEF LeakInv

\* What has ended stays ended.
LEMMA StepEnded ==
  ASSUME TypeOK, [Next]_vars
  PROVE  Ended \subseteq Ended'
PROOF
<1> SUFFICES ASSUME NEW s \in Ended PROVE s \in cancelled' /\ pc'[s] \in {"done", "lost"}
  BY DEF Ended
<1>1. s \in Requests /\ s \in cancelled /\ pc[s] \in {"done", "lost"}
  BY DEF Ended, TypeOK
<1>2. s \in cancelled'
  BY <1>1 DEF Next, Handle, Lapse, vars, redis, Start, Die, Arrive, Plan, Enqueue, Select, TakeLock,
     Answered, Return, ReleaseLock, Acquire, GiveUp, Decrement, ReleaseSlot, Cancel, LockLapses,
     LeakLapses, CounterLapses, SlotLapses
<1>3. CASE UNCHANGED pc
  BY <1>1, <1>2, <1>3
<1>4. ASSUME NEW l \in Lives, Die(l) PROVE pc'[s] \in {"done", "lost"}
  BY <1>1, <1>4 DEF Die
<1>5. ASSUME NEW r \in Requests,
             \/ Arrive(r) \/ Select(r) \/ Plan(r) \/ TakeLock(r) \/ Answered(r) \/ Return(r)
      PROVE  pc'[s] = pc[s]
  BY <1>1, <1>5 DEF Arrive, Select, Plan, TakeLock, Answered, Return, Enqueue, At, Goto, TypeOK
<1>6. ASSUME NEW r \in Requests, NEW p \in Pools,
             Acquire(r, p) \/ GiveUp(r, p) \/ Decrement(r, p)
      PROVE  pc'[s] = pc[s]
  BY <1>1, <1>6 DEF Acquire, GiveUp, Decrement, At, Goto, Wait, Got, Leave, Pools, TypeOK
<1> QED
  BY <1>1, <1>2, <1>3, <1>4, <1>5, <1>6
     DEF Next, Handle, Lapse, vars, redis, Start, ReleaseLock, ReleaseSlot, Cancel, LockLapses,
         LeakLapses, CounterLapses, SlotLapses

\* What a step adds to the leaks it takes from the faults or from a client.
LEMMA StepLeak ==
  ASSUME TypeOK, TypeOK', LeakInv, [Next]_vars
  PROVE  LeakInv'
PROOF
<1> DEFINE sum == leaked["user"] + leaked["account"]
<1>1. /\ Ended \in SUBSET Requests /\ Ended' \in SUBSET Requests
      /\ Ended \in SUBSET Ended'
  BY StepEnded DEF Ended, TypeOK
<1>2. /\ Cardinality(Ended) \in Nat /\ Cardinality(Ended') \in Nat
      /\ Cardinality(Ended) <= Cardinality(Ended')
  BY <1>1, Fewer
<1>3. /\ leaked["user"] \in Nat /\ leaked["account"] \in Nat /\ faults \in Nat
      /\ leaked'["user"] \in Nat /\ leaked'["account"] \in Nat /\ faults' \in Nat
  BY Constants DEF TypeOK, Pools
<1>4. sum <= faults + Cardinality(Ended)
  BY DEF LeakInv
<1>5. ASSUME leaked'["user"] <= leaked["user"], leaked'["account"] <= leaked["account"], faults <= faults'
      PROVE  LeakInv'
  BY <1>2, <1>3, <1>4, <1>5 DEF LeakInv
<1>6. ASSUME NEW p \in Pools, leaked' = OneLeak(p), faults' = faults + 1
      PROVE  LeakInv'
  <2>1. leaked'["user"] + leaked'["account"] = sum + 1
    BY <1>3, <1>6 DEF OneLeak, TypeOK, Pools
  <2> QED
    BY <1>2, <1>3, <1>4, <1>6, <2>1 DEF LeakInv
<1>7. ASSUME UNCHANGED leaked, UNCHANGED faults \/ Fault PROVE LeakInv'
  BY <1>3, <1>5, <1>7 DEF Fault
<1>8. ASSUME NEW l \in Lives, Start(l) PROVE LeakInv'
  <2>1. leaked'["user"] \in {0, leaked["user"]} /\ leaked'["account"] \in {0, leaked["account"]}
    BY <1>8 DEF Start, Pools
  <2>2. faults <= faults'
    BY <1>3, <1>8 DEF Start, Fault
  <2> QED
    BY <1>3, <1>5, <2>1, <2>2
<1>9. ASSUME NEW r \in Requests, NEW p \in Pools, Acquire(r, p) \/ ReleaseSlot(r, p)
      PROVE  LeakInv'
  BY <1>6, <1>7, <1>9 DEF Acquire, ReleaseSlot, Fault
<1>10. ASSUME NEW r \in Requests, Select(r) PROVE LeakInv'
  <2>1. "account" \in Pools
    BY DEF Pools
  <2>2. CASE leaked' = OneLeak("account") /\ UNCHANGED faults
    <3>1. r \in cancelled /\ At(r, "select") /\ pc'[r] = "done" /\ cancelled' = cancelled
      BY <1>3, <1>10, <2>2, <2>1 DEF Select, Refused, Fault, OneLeak, Goto, TypeOK
    <3>2. r \notin Ended /\ r \in Ended'
      BY <3>1 DEF Ended, At
    <3>3. Ended \cup {r} \in SUBSET Ended'
      BY <1>1, <3>2
    <3>4. Cardinality(Ended \cup {r}) <= Cardinality(Ended')
      BY <1>1, <3>3, Fewer
    <3>5. Cardinality(Ended \cup {r}) = Cardinality(Ended) + 1
      BY <1>1, <3>2, Counting
    <3>6. leaked'["user"] + leaked'["account"] = sum + 1
      BY <1>3, <2>2 DEF OneLeak, TypeOK, Pools
    <3> QED
      BY <1>2, <1>3, <1>4, <2>2, <3>4, <3>5, <3>6 DEF LeakInv
  <2> QED
    BY <1>6, <1>7, <1>10, <2>1, <2>2 DEF Select, Refused, Fault
<1>11. ASSUME NEW p \in Pools, LeakLapses(p) PROVE LeakInv'
  <2>1. leaked'["user"] <= leaked["user"] /\ leaked'["account"] <= leaked["account"] /\ faults' = faults
    BY <1>3, <1>11 DEF LeakLapses, TypeOK, Pools
  <2> QED
    BY <1>3, <1>5, <2>1
<1>12. ASSUME NEW r \in Requests, Arrive(r) \/ Plan(r) PROVE LeakInv'
  BY <1>7, <1>12 DEF Arrive, Plan, Enqueue, Refused
<1>13. ASSUME NEW r \in Requests, ReleaseLock(r) \/ TakeLock(r) PROVE LeakInv'
  BY <1>7, <1>13 DEF ReleaseLock, TakeLock
<1>14. ASSUME NEW r \in Requests, NEW p \in Pools, Decrement(r, p) PROVE LeakInv'
  BY <1>7, <1>14 DEF Decrement
<1>15. CASE UNCHANGED <<leaked, faults>>
  BY <1>7, <1>15
<1> QED
  BY <1>8, <1>9, <1>10, <1>11, <1>12, <1>13, <1>14, <1>15
     DEF Next, Handle, Lapse, vars, redis, Die, Answered, Return, GiveUp, Cancel, LockLapses,
         CounterLapses, SlotLapses

-----------------------------------------------------------------------------
\* The wait counters.

\* The disconnected clients whose request can no longer get a slot: each may have
\* been let in by an increment that was refused.
Spent ==
  {r \in cancelled :
     pc[r] \in {"done", "lost"} \cup {Wait[p] : p \in Pools} \cup {Leave[p] : p \in Pools}}
\* What the counters may miss: failed calls, such clients, and lapsed counts.
Slack == faults + Cardinality(Spent) + lapsed

WaitInv ==
  \A p \in Pools : /\ waiting[p] <= MaxWaiting[p]
                   /\ Cardinality(Waiters(p)) <= waiting[p] + Slack

ExactInv ==
  (faults = 0 /\ \E l \in Lives : life[l] = "up") =>
    \A p \in Pools : waiting[p] <= Cardinality(Waiters(p))

LEMMA InitWait == Init => WaitInv /\ ExactInv
PROOF
<1> SUFFICES ASSUME Init PROVE WaitInv /\ ExactInv
  OBVIOUS
<1>1. \A p \in Pools : Waiters(p) = {} /\ waiting[p] = 0 /\ MaxWaiting[p] \in Nat
  BY Constants DEF Init, Waiters, Counted, Wait, Got, Leave, Pools
<1>2. faults = 0 /\ lapsed = 0 /\ \A l \in Lives : life[l] # "up"
  BY DEF Init
<1>3. Cardinality({}) = 0
  BY FS_EmptySet
<1>4. Spent = {}
  BY DEF Init, Spent
<1>5. Slack = 0
  BY <1>2, <1>3, <1>4 DEF Slack
<1> QED
  BY <1>1, <1>2, <1>3, <1>5 DEF WaitInv, ExactInv

\* A step gives nothing of the slack back.
LEMMA StepSpent ==
  ASSUME TypeOK, [Next]_vars
  PROVE  Spent \subseteq Spent'
PROOF
<1> DEFINE Over == {"done", "lost", "userWait", "accountWait", "userLeave", "accountLeave"}
<1>1. /\ Spent = {r \in cancelled : pc[r] \in Over}
      /\ Spent' = {r \in cancelled' : pc'[r] \in Over}
  <2>1. {"done", "lost"} \cup {Wait[p] : p \in Pools} \cup {Leave[p] : p \in Pools} = Over
    BY DEF Wait, Leave, Pools
  <2> QED
    BY <2>1 DEF Spent
<1> SUFFICES ASSUME NEW s \in Spent PROVE s \in cancelled' /\ pc'[s] \in Over
  BY <1>1
<1>2. s \in Requests /\ s \in cancelled /\ pc[s] \in Over
  BY <1>1 DEF TypeOK
<1>3. s \in cancelled'
  BY <1>2 DEF Next, Handle, Lapse, vars, redis, Start, Die, Arrive, Plan, Enqueue, Select, TakeLock,
     Answered, Return, ReleaseLock, Acquire, GiveUp, Decrement, ReleaseSlot, Cancel, LockLapses,
     LeakLapses, CounterLapses, SlotLapses
<1>4. CASE UNCHANGED pc
  BY <1>2, <1>3, <1>4
<1>5. ASSUME NEW l \in Lives, Die(l) PROVE pc'[s] \in Over
  BY <1>2, <1>5 DEF Die
<1>6. ASSUME NEW r \in Requests,
             \/ Arrive(r) \/ Select(r) \/ Plan(r) \/ TakeLock(r) \/ Answered(r) \/ Return(r)
      PROVE  pc'[s] = pc[s]
  BY <1>2, <1>6 DEF Arrive, Select, Plan, TakeLock, Answered, Return, Enqueue, At, Goto, TypeOK
<1>7. ASSUME NEW r \in Requests, NEW p \in Pools, Acquire(r, p) PROVE pc'[s] = pc[s]
  BY <1>2, <1>7 DEF Acquire, Goto, TypeOK
<1>8. ASSUME NEW r \in Requests, NEW p \in Pools, GiveUp(r, p) \/ Decrement(r, p)
      PROVE  pc'[s] \in Over
  <2>1. \/ pc' = [pc EXCEPT ![r] = "done"]
        \/ pc' = [pc EXCEPT ![r] = Leave[p]]
        \/ pc[r] = Got[p] /\ pc' = [pc EXCEPT ![r] = [user |-> "select", account |-> "queue"][p]]
    BY <1>8 DEF GiveUp, Decrement, At, Goto
  <2>2. Leave[p] \in Over /\ Got[p] \notin Over
    BY DEF Leave, Got, Pools
  <2> QED
    BY <1>2, <2>1, <2>2 DEF TypeOK
<1> QED
  BY <1>2, <1>3, <1>4, <1>5, <1>6, <1>7, <1>8
     DEF Next, Handle, Lapse, vars, redis, Start, ReleaseLock, ReleaseSlot, Cancel, LockLapses,
         LeakLapses, CounterLapses, SlotLapses

LEMMA StepFaults ==
  ASSUME TypeOK, TypeOK', [Next]_vars
  PROVE  faults \in Nat /\ faults' \in Nat /\ faults <= faults'
PROOF
<1>1. faults \in Nat /\ faults' \in Nat
  BY Constants DEF TypeOK
<1>2. (UNCHANGED faults \/ Fault) => faults <= faults'
  BY <1>1 DEF Fault
<1>3. ASSUME NEW r \in Requests, NEW p \in Pools, Acquire(r, p) \/ Decrement(r, p) \/ ReleaseSlot(r, p)
      PROVE  UNCHANGED faults \/ Fault
  BY <1>3 DEF Acquire, Decrement, ReleaseSlot
<1>4. ASSUME NEW r \in Requests, Arrive(r) \/ Plan(r) \/ Select(r) \/ TakeLock(r) \/ ReleaseLock(r)
      PROVE  UNCHANGED faults \/ Fault
  BY <1>4 DEF Arrive, Plan, Enqueue, Refused, Select, TakeLock, ReleaseLock
<1>5. ASSUME NEW l \in Lives, Start(l) PROVE UNCHANGED faults \/ Fault
  BY <1>5 DEF Start
<1> QED
  BY <1>1, <1>2, <1>3, <1>4, <1>5
     DEF Next, Handle, Lapse, vars, redis, Die, Answered, Return, GiveUp, Cancel, LockLapses,
         LeakLapses, CounterLapses, SlotLapses

\* Only a lapsing counter adds to what has lapsed.
LEMMA StepLapsed ==
  ASSUME TypeOK, TypeOK', [Next]_vars
  PROVE  lapsed \in Nat /\ lapsed' \in Nat /\ lapsed <= lapsed'
PROOF
<1>1. lapsed \in Nat /\ lapsed' \in Nat
  BY Constants DEF TypeOK
<1>2. ASSUME NEW p \in Pools, CounterLapses(p) PROVE lapsed <= lapsed'
  <2>1. waiting[p] \in Nat
    BY DEF TypeOK
  <2> QED
    BY <1>1, <1>2, <2>1 DEF CounterLapses
<1>3. lapsed' = lapsed \/ \E p \in Pools : CounterLapses(p)
  BY DEF Next, Handle, Lapse, vars, Start, Die, Arrive, Plan, Enqueue, Select, TakeLock,
     Answered, Return, ReleaseLock, Acquire, GiveUp, Decrement, ReleaseSlot, Cancel, LockLapses,
     LeakLapses, SlotLapses
<1> QED
  BY <1>1, <1>2, <1>3

LEMMA StepSlack ==
  ASSUME TypeOK, TypeOK', [Next]_vars
  PROVE  /\ Slack \in Nat /\ Slack' \in Nat /\ Slack <= Slack'
         /\ faults' = faults + 1 => Slack + 1 <= Slack'
         /\ \A r \in Requests : r \notin Spent /\ r \in Spent' => Slack + 1 <= Slack'
PROOF
<1>1. Spent \in SUBSET Requests /\ Spent' \in SUBSET Requests /\ Spent \in SUBSET Spent'
  BY StepSpent DEF Spent, TypeOK
<1>2. /\ Cardinality(Spent) \in Nat /\ Cardinality(Spent') \in Nat
      /\ Cardinality(Spent) <= Cardinality(Spent')
  BY <1>1, Fewer
<1>3. /\ faults \in Nat /\ faults' \in Nat /\ faults <= faults'
      /\ lapsed \in Nat /\ lapsed' \in Nat /\ lapsed <= lapsed'
  BY StepFaults, StepLapsed
<1>4. ASSUME NEW r \in Requests, r \notin Spent, r \in Spent'
      PROVE  Cardinality(Spent) + 1 <= Cardinality(Spent')
  <2>1. Spent \cup {r} \in SUBSET Spent'
    BY <1>1, <1>4
  <2>2. Cardinality(Spent \cup {r}) <= Cardinality(Spent')
    BY <1>1, <2>1, Fewer
  <2> QED
    BY <1>1, <1>4, <2>2, Counting
<1> QED
  BY <1>2, <1>3, <1>4 DEF Slack

LEMMA WaitTypes ==
  ASSUME TypeOK, NEW q \in Pools
  PROVE  /\ Waiters(q) \in SUBSET Requests
         /\ Cardinality(Waiters(q)) \in Nat
         /\ waiting[q] \in Nat /\ MaxWaiting[q] \in Nat /\ faults \in Nat
         /\ Cardinality(Spent) \in Nat /\ lapsed \in Nat /\ Slack \in Nat
PROOF
<1>1. Waiters(q) \in SUBSET Requests /\ Spent \in SUBSET Requests
  BY DEF Waiters, Spent, TypeOK
<1>2. Cardinality(Waiters(q)) \in Nat /\ Cardinality(Spent) \in Nat
  BY <1>1, Fewer
<1>3. waiting[q] \in Nat /\ MaxWaiting[q] \in Nat /\ faults \in Nat /\ lapsed \in Nat
  BY Constants DEF TypeOK
<1> QED
  BY <1>1, <1>2, <1>3 DEF Slack

\* A request moves to label l.
LEMMA Moves ==
  ASSUME TypeOK, NEW r \in Requests, NEW l, NEW q \in Pools, Goto(r, l)
  PROVE  Waiters(q)' = IF l \in {Wait[q], Got[q], Leave[q]}
                         THEN Waiters(q) \cup {r} ELSE Waiters(q) \ {r}
BY DEF TypeOK, Goto, Waiters, Counted

\* Nobody waits while no process serves.
LEMMA NobodyServed ==
  ASSUME TypeOK, LifeInv, \A l \in Lives : life[l] # "up", NEW q \in Pools
  PROVE  Waiters(q) = {} /\ Cardinality(Waiters(q)) = 0
PROOF
<1>1. \A r \in Requests : pc[r] \in {"idle", "lost"}
  BY Constants DEF LifeInv, TypeOK
<1>2. Waiters(q) = {}
  BY <1>1 DEF Waiters, Counted, Wait, Got, Leave, Pools
<1> QED
  BY <1>2, FS_EmptySet

\* The counter and the waiters of a pool move together, or slack is spent.
Together(q) ==
  \/ waiting'[q] = waiting[q] /\ Waiters(q)' = Waiters(q)
  \/ \E r \in Requests :
       \/ /\ r \notin Waiters(q) /\ Waiters(q)' = Waiters(q) \cup {r}
          /\ waiting[q] < MaxWaiting[q] /\ waiting'[q] = waiting[q] + 1
       \/ /\ r \notin Waiters(q) /\ Waiters(q)' = Waiters(q) \cup {r}
          /\ waiting'[q] = waiting[q] /\ Slack + 1 <= Slack'
       \/ /\ r \in Waiters(q) /\ Waiters(q)' = Waiters(q) \ {r}
          /\ waiting'[q] = IF waiting[q] > 0 THEN waiting[q] - 1 ELSE waiting[q]
       \/ /\ r \in Waiters(q) /\ Waiters(q)' = Waiters(q) \ {r}
          /\ waiting'[q] = waiting[q] /\ faults' = faults + 1

LEMMA TogetherIsEnough ==
  ASSUME TypeOK, TypeOK', [Next]_vars, WaitInv, NEW q \in Pools, Together(q)
  PROVE  /\ waiting'[q] <= MaxWaiting[q]
         /\ Cardinality(Waiters(q)') <= waiting'[q] + Slack'
         /\ (waiting[q] <= Cardinality(Waiters(q)) /\ faults' = 0) =>
              waiting'[q] <= Cardinality(Waiters(q)')
PROOF
<1> DEFINE n == Cardinality(Waiters(q))
<1> HIDE DEF n
<1>1. /\ Waiters(q) \in SUBSET Requests
      /\ n \in Nat /\ waiting[q] \in Nat /\ MaxWaiting[q] \in Nat
      /\ waiting'[q] \in Nat
      /\ faults \in Nat /\ faults' \in Nat
      /\ Slack \in Nat /\ Slack' \in Nat /\ Slack <= Slack'
  BY WaitTypes, StepFaults, StepSlack DEF TypeOK, n
<1>2. waiting[q] <= MaxWaiting[q] /\ n <= waiting[q] + Slack
  BY DEF WaitInv, n
<1>3. CASE waiting'[q] = waiting[q] /\ Waiters(q)' = Waiters(q)
  BY <1>1, <1>2, <1>3 DEF n
<1>4. ASSUME NEW r \in Requests, r \notin Waiters(q), Waiters(q)' = Waiters(q) \cup {r},
             \/ waiting[q] < MaxWaiting[q] /\ waiting'[q] = waiting[q] + 1
             \/ waiting'[q] = waiting[q] /\ Slack + 1 <= Slack'
      PROVE  /\ waiting'[q] <= MaxWaiting[q]
             /\ Cardinality(Waiters(q)') <= waiting'[q] + Slack'
             /\ waiting[q] <= n => waiting'[q] <= Cardinality(Waiters(q)')
  <2>1. Cardinality(Waiters(q)') = n + 1
    BY <1>1, <1>4, Counting DEF n
  <2> QED
    BY <1>1, <1>2, <1>4, <2>1
<1>5. ASSUME NEW r \in Requests, r \in Waiters(q), Waiters(q)' = Waiters(q) \ {r},
             \/ waiting'[q] = IF waiting[q] > 0 THEN waiting[q] - 1 ELSE waiting[q]
             \/ waiting'[q] = waiting[q] /\ faults' = faults + 1
      PROVE  /\ waiting'[q] <= MaxWaiting[q]
             /\ Cardinality(Waiters(q)') <= waiting'[q] + Slack'
             /\ (waiting[q] <= n /\ faults' = 0) => waiting'[q] <= Cardinality(Waiters(q)')
  <2>1. Cardinality(Waiters(q)') = n - 1 /\ Cardinality(Waiters(q) \ {r}) \in Nat
    BY <1>1, <1>5, Counting DEF n
  <2>2. n >= 1
    BY <1>1, <1>5, <2>1
  <2> QED
    BY <1>1, <1>2, <1>5, <2>1, <2>2
<1> QED
  BY <1>3, <1>4, <1>5 DEF Together, n

LEMMA EnqueueTogether ==
  ASSUME TypeOK, TypeOK', [Next]_vars, NEW q \in Pools, NEW p \in Pools, NEW r \in Requests,
         pc[r] \in {"idle", "plan"}, Enqueue(r, p)
  PROVE  Together(q)
PROOF
<1>1. r \notin Waiters(q)
  BY DEF Waiters, Counted, Wait, Got, Leave, Pools
<1>2. /\ Goto(r, Wait[p]) => Waiters(q)' = IF p = q THEN Waiters(q) \cup {r} ELSE Waiters(q)
      /\ Goto(r, "done") => Waiters(q)' = Waiters(q)
  BY <1>1, Moves DEF Wait, Got, Leave, Pools
<1>3. waiting[q] \in Nat
  BY WaitTypes
<1>4. CASE QueueHasRoom(p) /\ waiting' = Incremented(p) /\ Goto(r, Wait[p])
  <2>1. waiting[p] < MaxWaiting[p] /\ waiting'[q] = IF p = q THEN waiting[q] + 1 ELSE waiting[q]
    BY <1>4 DEF QueueHasRoom, Incremented, TypeOK
  <2> QED
    BY <1>1, <1>2, <1>3, <1>4, <2>1 DEF Together
<1>5. CASE Goto(r, "done") /\ UNCHANGED waiting
  BY <1>2, <1>3, <1>5 DEF Together
<1>6. CASE Refused(r) /\ Goto(r, Wait[p]) /\ UNCHANGED waiting
  <2>1. Slack + 1 <= Slack'
    <3>1. CASE r \in cancelled
      <4>1. r \notin Spent
        BY DEF Spent, Wait, Leave, Pools
      <4>2. pc'[r] = Wait[p] /\ cancelled' = cancelled
        BY <1>6 DEF Goto, TypeOK, Enqueue
      <4>3. r \in Spent'
        BY <3>1, <4>2 DEF Spent
      <4> QED
        BY <4>1, <4>3, StepSlack
    <3>2. CASE r \notin cancelled
      BY <1>6, <3>2, StepSlack DEF Refused, Fault
    <3> QED
      BY <3>1, <3>2
  <2> QED
    BY <1>1, <1>2, <1>3, <1>6, <2>1 DEF Together
<1> QED
  BY <1>4, <1>5, <1>6 DEF Enqueue

LEMMA DecrementTogether ==
  ASSUME TypeOK, TypeOK', [Next]_vars, NEW q \in Pools, NEW p \in Pools, NEW r \in Requests,
         Decrement(r, p)
  PROVE  Together(q)
PROOF
<1>1. r \in Waiters(q) <=> p = q
  BY DEF Decrement, At, Waiters, Counted, Wait, Got, Leave, Pools
<1>2. Waiters(q)' = Waiters(q) \ {r}
  <2>1. PICK l \in {"select", "queue", "done"} : Goto(r, l)
    BY DEF Decrement, Pools
  <2> QED
    BY <2>1, Moves DEF Wait, Got, Leave, Pools
<1>3. waiting[q] \in Nat
  BY WaitTypes
<1>4. Decremented(p)[q] = IF p = q THEN (IF waiting[q] > 0 THEN waiting[q] - 1 ELSE waiting[q])
                                   ELSE waiting[q]
  BY DEF Decremented, TypeOK
<1>5. CASE waiting' = Decremented(p)
  BY <1>1, <1>2, <1>3, <1>4, <1>5 DEF Together
<1>6. CASE waiting' = waiting /\ Fault
  BY <1>1, <1>2, <1>3, <1>6 DEF Together, Fault
<1> QED
  BY <1>5, <1>6 DEF Decrement

\* Steps that touch no counter and neither begin nor end a wait.
LEMMA OtherTogether ==
  ASSUME TypeOK, TypeOK', [Next]_vars, NEW q \in Pools, NEW r \in Requests, NEW p \in Pools,
         \/ Acquire(r, p) \/ GiveUp(r, p) \/ Select(r) \/ TakeLock(r) \/ Answered(r)
         \/ Return(r) \/ ReleaseSlot(r, p) \/ ReleaseLock(r) \/ Cancel(r)
  PROVE  Together(q)
PROOF
<1>1. waiting' = waiting
  BY DEF Acquire, GiveUp, Select, TakeLock, Answered, Return, ReleaseSlot, ReleaseLock, Cancel, redis
<1>2. Waiters(q)' = Waiters(q)
  <2>1. CASE UNCHANGED pc
    BY <2>1 DEF Waiters, Counted
  <2>2. CASE Acquire(r, p) \/ GiveUp(r, p)
    <3>1. pc[r] = Wait[p] /\ (Goto(r, Got[p]) \/ Goto(r, Leave[p]))
      BY <2>2 DEF Acquire, GiveUp, At
    <3>2. r \in Waiters(q) <=> p = q
      BY <3>1 DEF Waiters, Counted, Wait, Got, Leave, Pools
    <3> QED
      BY <3>1, <3>2, Moves DEF Wait, Got, Leave, Pools
  <2>3. CASE Select(r) \/ TakeLock(r) \/ Answered(r) \/ Return(r)
    <3>1. /\ pc[r] \in {"select", "queue", "forward", "after"}
          /\ \E l \in {"queue", "plan", "done", "forward", "after", "select"} : Goto(r, l)
      BY <2>3 DEF Select, TakeLock, Answered, Return, At
    <3>2. r \notin Waiters(q)
      BY <3>1 DEF Waiters, Counted, Wait, Got, Leave, Pools
    <3> QED
      BY <3>1, <3>2, Moves DEF Wait, Got, Leave, Pools
  <2> QED
    BY <2>1, <2>2, <2>3 DEF ReleaseSlot, ReleaseLock, Cancel
<1> QED
  BY <1>1, <1>2 DEF Together

LEMMA SpentClients ==
  ASSUME TypeOK
  PROVE  Cardinality(cancelled) \in Nat /\ Cardinality(Spent) <= Cardinality(cancelled)
PROOF
<1>1. cancelled \in SUBSET Requests /\ Spent \in SUBSET cancelled
  BY DEF Spent, TypeOK
<1> QED
  BY <1>1, Fewer

LEMMA StepWait ==
  ASSUME TypeOK, TypeOK', LifeInv, WaitInv, ExactInv, ~Overlap, [Next]_vars
  PROVE  WaitInv' /\ ExactInv'
PROOF
<1>1. ASSUME \A q \in Pools : Together(q), UNCHANGED life PROVE WaitInv' /\ ExactInv'
  <2>1. faults \in Nat /\ faults' \in Nat /\ faults <= faults'
    BY StepFaults
  <2>2. faults' = 0 => faults = 0
    BY <2>1
  <2>3. WaitInv'
    BY <1>1, TogetherIsEnough DEF WaitInv
  <2>4. ExactInv'
    BY <1>1, <2>2, TogetherIsEnough DEF ExactInv
  <2> QED
    BY <2>3, <2>4
<1>2. ASSUME NEW l \in Lives, Start(l) PROVE WaitInv' /\ ExactInv'
  <2>1. \A m \in Lives : life[m] # "up"
    BY <1>2 DEF Start
  <2>2. ASSUME NEW q \in Pools
        PROVE  /\ Waiters(q)' = Waiters(q) /\ Cardinality(Waiters(q)) = 0
               /\ waiting'[q] \in {0, waiting[q]} /\ faults' \in Nat
               /\ faults' = 0 => waiting'[q] = 0
    <3>1. Cardinality(Waiters(q)) = 0
      BY <2>1, NobodyServed
    <3>2. Waiters(q)' = Waiters(q)
      BY <1>2 DEF Start, Waiters, Counted
    <3>3. faults \in Nat /\ faults' \in Nat
      BY Constants DEF TypeOK
    <3>4. PICK reset \in {{}, {"account"}, Pools} :
            /\ IF reset = Pools THEN UNCHANGED faults ELSE Fault
            /\ waiting' = [p \in Pools |-> Counter(p, reset)]
      BY <1>2 DEF Start
    <3>5. waiting'[q] \in {0, waiting[q]}
      BY <3>4 DEF Counter
    <3>6. faults' = 0 => reset = Pools
      BY <3>3, <3>4 DEF Fault
    <3>7. faults' = 0 => waiting'[q] = 0
      BY <3>4, <3>6 DEF Counter
    <3> QED
      BY <3>1, <3>2, <3>3, <3>5, <3>7
  <2>3. WaitInv'
    <3>1. Slack' \in Nat
      BY StepSlack
    <3> QED
      BY <2>2, <3>1, WaitTypes DEF WaitInv
  <2> QED
    BY <2>2, <2>3 DEF ExactInv
<1>3. ASSUME NEW l \in Lives, Die(l) PROVE WaitInv' /\ ExactInv'
  <2>1. \A m \in Lives : life'[m] # "up"
    BY <1>3 DEF Die, LifeInv, TypeOK
  <2>2. ASSUME NEW q \in Pools
        PROVE  waiting'[q] <= MaxWaiting[q] /\ Cardinality(Waiters(q)') <= waiting'[q] + Slack'
    <3>1. Waiters(q)' \in SUBSET Waiters(q)
      BY <1>3 DEF Die, Waiters, Counted, Wait, Got, Leave, Pools, TypeOK
    <3>2. waiting' = waiting /\ Slack \in Nat /\ Slack' \in Nat /\ Slack <= Slack'
      BY <1>3, StepSlack DEF Die, redis
    <3>3. Cardinality(Waiters(q)') <= Cardinality(Waiters(q)) /\ Cardinality(Waiters(q)') \in Nat
      BY <3>1, WaitTypes, Fewer
    <3> QED
      BY <3>2, <3>3, WaitTypes DEF WaitInv
  <2> QED
    BY <2>1, <2>2 DEF WaitInv, ExactInv
<1>4. ASSUME NEW r \in Requests, Arrive(r) \/ Plan(r) PROVE WaitInv' /\ ExactInv'
  <2>1. pc[r] \in {"idle", "plan"} /\ UNCHANGED life
    BY <1>4 DEF Arrive, Plan, At, Enqueue
  <2>2. \E p \in Pools : Enqueue(r, p)
    BY <1>4 DEF Arrive, Plan, Pools
  <2> QED
    BY <1>1, <2>1, <2>2, EnqueueTogether
<1>5. ASSUME NEW r \in Requests, NEW p \in Pools, Decrement(r, p) PROVE WaitInv' /\ ExactInv'
  BY <1>1, <1>5, DecrementTogether DEF Decrement
<1>6. ASSUME NEW r \in Requests, NEW p \in Pools,
             \/ Acquire(r, p) \/ GiveUp(r, p) \/ Select(r) \/ TakeLock(r) \/ Answered(r)
             \/ Return(r) \/ ReleaseSlot(r, p) \/ ReleaseLock(r) \/ Cancel(r)
      PROVE  WaitInv' /\ ExactInv'
  <2>1. UNCHANGED life
    BY <1>6 DEF Acquire, GiveUp, Select, TakeLock, Answered, Return, ReleaseSlot, ReleaseLock, Cancel
  <2> QED
    BY <1>1, <1>6, <2>1, OtherTogether
<1>7. ASSUME NEW p \in Pools, CounterLapses(p) PROVE WaitInv' /\ ExactInv'
  <2>1. /\ \A q \in Pools : Waiters(q)' = Waiters(q)
        /\ \A q \in Pools : waiting'[q] = IF q = p THEN 0 ELSE waiting[q]
        /\ UNCHANGED <<life, faults, cancelled>>
    BY <1>7 DEF CounterLapses, Waiters, Counted, TypeOK
  <2>2. Slack' \in Nat /\ Slack <= Slack'
    BY StepSlack
  \* Whoever was in the counter is now in the slack.
  <2>3. Cardinality(Waiters(p)) <= Slack'
    <3>1. CASE Waiters(p) = {}
      BY <2>2, <3>1, FS_EmptySet
    <3>2. CASE lapsed' = lapsed + waiting[p]
      <4>1. Spent' = Spent
        BY <1>7 DEF CounterLapses, Spent
      <4>2. Slack' = Slack + waiting[p]
        <5>1. /\ faults \in Nat /\ lapsed \in Nat /\ waiting[p] \in Nat
              /\ Cardinality(Spent) \in Nat
          BY WaitTypes
        <5>2. Slack' = faults + Cardinality(Spent) + (lapsed + waiting[p])
          BY <2>1, <3>2, <4>1 DEF Slack
        <5> QED
          BY <5>1, <5>2 DEF Slack
      <4>3. Cardinality(Waiters(p)) <= waiting[p] + Slack /\ waiting[p] \in Nat /\ Slack \in Nat
        BY WaitTypes DEF WaitInv
      <4> QED
        BY <4>2, <4>3
    <3> QED
      BY <1>7, <3>1, <3>2 DEF CounterLapses
  <2>4. WaitInv'
    <3> SUFFICES ASSUME NEW q \in Pools
                 PROVE  /\ waiting'[q] <= MaxWaiting[q]
                        /\ Cardinality(Waiters(q)') <= waiting'[q] + Slack'
      BY DEF WaitInv
    <3>1. CASE q = p
      BY <2>1, <2>2, <2>3, <3>1, WaitTypes
    <3>2. CASE q # p
      BY <2>1, <2>2, <3>2, WaitTypes DEF WaitInv
    <3> QED
      BY <3>1, <3>2
  <2>5. \A q \in Pools : waiting[q] \in Nat /\ Cardinality(Waiters(q)) \in Nat
    BY WaitTypes
  <2> QED
    BY <2>1, <2>4, <2>5 DEF ExactInv
<1>8. CASE UNCHANGED <<waiting, pc, faults, life>>
  <2>1. \A q \in Pools : Together(q)
    BY <1>8 DEF Waiters, Counted, Together
  <2> QED
    BY <1>1, <1>8, <2>1
<1>9. \E p \in Pools : TRUE
  BY DEF Pools
<1> QED
  BY <1>2, <1>3, <1>4, <1>5, <1>6, <1>7, <1>8, <1>9
     DEF Next, Handle, Lapse, vars, LockLapses, LeakLapses, SlotLapses

-----------------------------------------------------------------------------
\* Theorems.

\* Every reachable state of the gateway's admission is well typed.
THEOREM AdmissionTypeCorrect == Spec => []TypeOK
BY InitType, StepType, PTL DEF Spec

\* Message locks exclude each other, whatever fails, lapses or restarts.
THEOREM MessageExclusion == Spec => []MessagesSerialized
PROOF
<1>1. LockInv => MessagesSerialized
  BY Constants DEF LockInv, MessagesSerialized
<1>2. TypeOK /\ LockInv /\ [Next]_vars => LockInv'
  BY StepLock
<1> QED
  BY <1>1, <1>2, InitInv, AdmissionTypeCorrect, PTL DEF Spec

\* Every slot has an owner who releases it once; every other one is owed to a
\* failed call, a disconnected client or a dead process.
THEOREM SlotOwnership == Spec => []SlotsAreOwned
PROOF
<1>1. TypeOK /\ LockInv /\ HeldInv /\ LeakInv => SlotsAreOwned
  <2> SUFFICES ASSUME TypeOK, LockInv, HeldInv, LeakInv PROVE SlotsAreOwned
    OBVIOUS
  <2>1. ASSUME NEW p \in Pools, NEW r \in Requests, r \in slots[p], ~At(r, "lost")
        PROVE  /\ p \in held[r]
               /\ Using(r, p) \/ Releasable(r, p) \/ (At(r, "after") /\ "lock" \in held[r])
    <3>1. p \in held[r] /\ StageOf(r, p)
      BY <2>1 DEF HeldInv, At
    <3> QED
      BY <3>1 DEF StageOf, Releasable, At
  <2>2. Cardinality(Ended) <= Cardinality(cancelled) /\ Cardinality(Ended) \in Nat
        /\ Cardinality(cancelled) \in Nat
    <3>1. cancelled \in SUBSET Requests /\ Ended \in SUBSET cancelled
      BY DEF Ended, TypeOK
    <3> QED
      BY <3>1, Fewer
  <2>3. leaked["user"] + leaked["account"] <= faults + Cardinality(cancelled)
    <3>1. leaked["user"] \in Nat /\ leaked["account"] \in Nat /\ faults \in Nat
      BY Constants DEF TypeOK, Pools
    <3> QED
      BY <2>2, <3>1 DEF LeakInv
  <2> QED
    BY <2>1, <2>3 DEF SlotsAreOwned
<1>2. TypeOK /\ LockInv /\ HeldInv /\ [Next]_vars => LockInv' /\ HeldInv'
  BY StepLock, StepHeld
<1>3. TypeOK /\ TypeOK' /\ LeakInv /\ [Next]_vars => LeakInv'
  BY StepLeak
<1> QED
  BY <1>1, <1>2, <1>3, InitInv, InitLeak, AdmissionTypeCorrect, PTL DEF Spec

\* No more requests are served than the user's and the account's limits admit,
\* as long as one process serves at a time.
THEOREM LimitsHold == ~Overlap => (Spec => []WithinLimit)
PROOF
<1> SUFFICES ASSUME ~Overlap PROVE Spec => []WithinLimit
  OBVIOUS
<1>1. TypeOK /\ HeldInv /\ KeptInv /\ CapInv => WithinLimit
  <2> SUFFICES ASSUME TypeOK, HeldInv, KeptInv, CapInv, NEW p \in Pools
               PROVE  Cardinality(Users(p)) <= Limit[p]
    BY DEF WithinLimit
  <2>1. Users(p) \in SUBSET slots[p] /\ slots[p] \in SUBSET Requests
    BY DEF Users, HeldInv, KeptInv, TypeOK
  <2>2. Cardinality(Users(p)) <= Cardinality(slots[p])
        /\ Cardinality(Users(p)) \in Nat /\ Cardinality(slots[p]) \in Nat
    BY <2>1, Fewer
  <2>3. leaked[p] \in Nat /\ Limit[p] \in Nat
    BY Constants DEF TypeOK
  <2> QED
    BY <2>2, <2>3 DEF CapInv
<1>2. TypeOK /\ TypeOK' /\ LifeInv /\ LockInv /\ HeldInv /\ KeptInv /\ CapInv /\ [Next]_vars
        => LifeInv' /\ LockInv' /\ HeldInv' /\ KeptInv' /\ CapInv'
  BY StepLife, StepLock, StepHeld, StepKept, StepCap
<1> QED
  BY <1>1, <1>2, InitInv, InitCap, AdmissionTypeCorrect, PTL DEF Spec

\* No more requests wait than the queue admits, but for one per failed call, per
\* disconnected client and per request that outlived its counter, as long as one
\* process serves at a time.
THEOREM QueueBound == ~Overlap => (Spec => []WaitersWithinBound)
PROOF
<1> SUFFICES ASSUME ~Overlap PROVE Spec => []WaitersWithinBound
  OBVIOUS
<1>1. TypeOK /\ WaitInv => WaitersWithinBound
  BY SpentClients, WaitTypes DEF WaitInv, WaitersWithinBound, Slack
<1>2. TypeOK /\ TypeOK' /\ LifeInv /\ WaitInv /\ ExactInv /\ [Next]_vars
        => LifeInv' /\ WaitInv' /\ ExactInv'
  BY StepLife, StepWait
<1> QED
  BY <1>1, <1>2, InitInv, InitWait, AdmissionTypeCorrect, PTL DEF Spec

\* Without failed calls the counters count waiting requests only, across restarts
\* and although they may lapse at any time; they miss no more than the requests of
\* disconnected clients and those that were counted when one lapsed.
THEOREM CountersExact == ~Overlap => (Spec => []CountersAreExact)
PROOF
<1> SUFFICES ASSUME ~Overlap PROVE Spec => []CountersAreExact
  OBVIOUS
<1>1. TypeOK /\ WaitInv /\ ExactInv => CountersAreExact
  BY SpentClients, WaitTypes DEF WaitInv, ExactInv, CountersAreExact, Slack
<1>2. TypeOK /\ TypeOK' /\ LifeInv /\ WaitInv /\ ExactInv /\ [Next]_vars
        => LifeInv' /\ WaitInv' /\ ExactInv'
  BY StepLife, StepWait
<1> QED
  BY <1>1, <1>2, InitInv, InitWait, AdmissionTypeCorrect, PTL DEF Spec

=============================================================================
