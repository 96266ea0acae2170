--------------------- MODULE SystemOperationLockProofs ---------------------
(***************************************************************************)
(* Proofs about SystemOperationLock, for any calls and any lease.  The     *)
(* lock excludes as long as operations end within their lease: LockInv     *)
(* says why, a running operation leaves a row that neither a reclaim nor   *)
(* the cleanup can take.  The retries of one operation exclude each other  *)
(* however long they run: RenewInv says why, their renewals are never      *)
(* refused, and each that fails costs the lease one interval.              *)
(***************************************************************************)
EXTENDS SystemOperationLock, TLAPS

-----------------------------------------------------------------------------
\* Type correctness.

Calls == [pc : {"idle", "get", "reclaim", "run", "release", "end"},
          now : Nat, id : Nat, status : Statuses]

LEMMA TypeNext == TypeOK /\ [Next]_vars => TypeOK'
<1>. SUFFICES ASSUME TypeOK, [Next]_vars PROVE TypeOK'
  OBVIOUS
<1>t. /\ row \in Rows /\ lastId \in Nat /\ clock \in Nat
      /\ op \in [Ops -> Calls]
      /\ loop \in [Ops -> {"off", "on", "last"}]
      /\ renewed \in [Ops -> Nat]
      /\ faults \in 0 .. MaxFaults
      /\ {Lease, TTL, MaxFaults} \subseteq Nat
  BY LockAssumption DEF TypeOK, Calls, LockAssumption
<1>f. ASSUME Fault PROVE faults' \in 0 .. MaxFaults
  BY <1>t, <1>f DEF Fault
<1>row. /\ row.id \in Nat
        /\ row.status \in Statuses
        /\ \A o \in Ops : op[o].now \in Nat /\ op[o].id \in Nat
        /\ \A o \in Ops : OperationId[o] \in Ids
  BY <1>t DEF Rows, Calls, Ids
<1>1. ASSUME NEW o \in Ops, Acquire(o) PROVE TypeOK'
  <2>1. CASE Exists(row)
    <3>1. op' \in [Ops -> Calls]
      <4>1. op' = [op EXCEPT ![o] = [op[o] EXCEPT !.pc = "get", !.now = clock]]
        BY <1>1, <2>1 DEF Acquire
      <4>2. [op[o] EXCEPT !.pc = "get", !.now = clock] \in Calls
        BY <1>t DEF Calls
      <4>. QED
        BY <1>t, <4>1, <4>2
    <3>2. UNCHANGED <<row, lastId, clock, loop, renewed, faults>>
      BY <1>1, <2>1 DEF Acquire
    <3>. QED
      BY <1>t, <3>1, <3>2 DEF TypeOK, Calls
  <2>2. CASE ~Exists(row)
    <3>1. op' \in [Ops -> Calls] /\ lastId' \in Nat
      <4>1. op' = [op EXCEPT ![o] = [@ EXCEPT !.pc = "run", !.now = clock,
                                              !.id = lastId + 1]]
        BY <1>1, <2>2 DEF Acquire
      <4>2. lastId + 1 \in Nat /\ lastId' = lastId + 1
        BY <1>1, <1>t, <2>2 DEF Acquire
      <4>. QED
        BY <4>1, <4>2, <1>t DEF Calls
    <3>2. row' \in Rows
      <4>1. row' = Inserted(lastId + 1, OperationId[o], clock + Lease, clock + TTL)
        BY <1>1, <2>2 DEF Acquire
      <4>2. lastId + 1 \in Nat /\ clock + Lease \in Nat /\ clock + TTL \in Nat
        BY <1>t
      <4>. QED
        BY <4>1, <4>2, <1>row DEF Inserted, Rows, Statuses
    <3>. QED
      BY <1>1, <1>t, <2>2, <3>1, <3>2 DEF Acquire, Hold, TypeOK, Calls
  <2>. QED
    BY <2>1, <2>2
<1>2. ASSUME NEW o \in Ops, GetExisting(o) PROVE TypeOK'
  <2>1. op' \in [Ops -> Calls]
    <3>1. \/ op' = [op EXCEPT ![o].pc = "end"]
          \/ op' = [op EXCEPT ![o] = [@ EXCEPT !.pc = "reclaim", !.id = row.id,
                                               !.status = row.status]]
      BY <1>2 DEF GetExisting, Goto
    <3>2. op[o] \in Calls
      BY <1>t
    <3>3. /\ [op[o] EXCEPT !.pc = "end"] \in Calls
          /\ [op[o] EXCEPT !.pc = "reclaim", !.id = row.id,
                           !.status = row.status] \in Calls
      BY <1>row, <3>2 DEF Calls
    <3>. QED
      BY <1>t, <3>1, <3>3
  <2>. QED
    BY <1>2, <1>t, <2>1 DEF GetExisting, TypeOK, Calls
<1>3. ASSUME NEW o \in Ops, Reclaim(o) PROVE TypeOK'
  <2>1. op' \in [Ops -> Calls]
    BY <1>3, <1>t DEF Reclaim, Goto, Calls
  <2>2. row' \in Rows
    <3>1. op[o].now + Lease \in Nat /\ op[o].now + TTL \in Nat
      BY <1>t, <1>row
    <3>. QED
      BY <1>3, <1>t, <3>1 DEF Reclaim, Reclaimed, Rows, Statuses
  <2>3. loop' \in [Ops -> {"off", "on", "last"}] /\ renewed' \in [Ops -> Nat]
    BY <1>3, <1>t DEF Reclaim, Hold
  <2>4. lastId' = lastId /\ clock' = clock /\ faults' \in 0 .. MaxFaults
    BY <1>3, <1>t, <1>f DEF Reclaim
  <2>. QED
    BY <1>t, <2>1, <2>2, <2>3, <2>4 DEF TypeOK, Calls
<1>4. ASSUME NEW o \in Ops, Renew(o) PROVE TypeOK'
  <2>1. row' \in Rows
    <3>1. clock + Lease \in Nat /\ clock + TTL \in Nat
      BY <1>t
    <3>. QED
      BY <1>4, <1>t, <3>1 DEF Renew, Extended, Rows, Statuses
  <2>2. loop' \in [Ops -> {"off", "on", "last"}] /\ faults' \in 0 .. MaxFaults
    BY <1>4, <1>t, <1>f DEF Renew
  <2>. QED
    BY <1>4, <1>t, <2>1, <2>2 DEF Renew, TypeOK, Calls
<1>5. ASSUME NEW o \in Ops, Finish(o) PROVE TypeOK'
  <2>1. op' \in [Ops -> Calls] /\ loop' \in [Ops -> {"off", "on", "last"}]
    BY <1>5, <1>t DEF Finish, Goto, Calls
  <2>. QED
    BY <1>5, <1>t, <2>1 DEF Finish, TypeOK, Calls
<1>6. ASSUME NEW o \in Ops, Release(o) PROVE TypeOK'
  <2>1. op' \in [Ops -> Calls]
    BY <1>6, <1>t DEF Release, Goto, Calls
  <2>2. row' \in Rows /\ faults' \in 0 .. MaxFaults
    <3>1. clock + TTL \in Nat
      BY <1>t
    <3>. QED
      <4>1. /\ Succeeded(row, op[o].id, Nothing, clock + TTL) \in Rows
            /\ Failed(row, op[o].id, clock, clock + TTL) \in Rows
        BY <1>t, <3>1 DEF Succeeded, Failed, Rows, Statuses
      <4>. QED
        BY <1>6, <1>t, <1>f, <4>1 DEF Release
  <2>. QED
    BY <1>6, <1>t, <2>1, <2>2 DEF Release, TypeOK, Calls
<1>7. ASSUME NEW o \in Ops, Crash(o) PROVE TypeOK'
  <2>1. op' \in [Ops -> Calls] /\ loop' \in [Ops -> {"off", "on", "last"}]
    BY <1>7, <1>t DEF Crash, Goto, Calls
  <2>. QED
    BY <1>7, <1>t, <2>1 DEF Crash, TypeOK, Calls
<1>8. CASE DeleteExpired
  BY <1>8, <1>t DEF DeleteExpired, TypeOK, Calls, Rows, Absent, Statuses
<1>9. CASE Tick
  BY <1>9, <1>t DEF Tick, TypeOK, Calls
<1>10. CASE UNCHANGED vars
  BY <1>10 DEF vars, TypeOK
<1>. QED
  BY <1>1, <1>2, <1>3, <1>4, <1>5, <1>6, <1>7, <1>8, <1>9, <1>10 DEF Next

\* The variables of the lock keep their types.
THEOREM LockTypeCorrect == Spec => []TypeOK
<1>1. Init => TypeOK
  BY LockAssumption DEF LockAssumption, Init, TypeOK, Absent, Rows, Statuses
<1>. QED
  BY <1>1, TypeNext, PTL DEF Spec

-----------------------------------------------------------------------------
\* Mutual exclusion.

\* A call's clock reading lies at most MaxLag back when it tries to reclaim.
LagInv ==
  \A o \in Ops :
    /\ op[o].now <= clock
    /\ Acquiring(o) => clock <= op[o].now + MaxLag
    /\ At(o, "reclaim") => op[o].id # 0

\* The row of a running operation is processing, its lease has not lapsed and
\* its expiry lies behind the lease.
HolderInv ==
  \A o \in Ops : Holding(o) =>
    /\ op[o].id # 0
    /\ row.id = op[o].id
    /\ row.status = "processing"
    /\ op[o].now + Lease <= row.lockedUntil
    /\ row.lockedUntil <= row.expiresAt
    /\ clock < row.lockedUntil

LockInv == TypeOK /\ LagInv /\ HolderInv /\ MutualExclusion

\* What the proof needs of the types.
LEMMA Numbers ==
  ASSUME TypeOK
  PROVE  /\ {Lease, TTL, MaxLag, MaxRun} \subseteq Nat
         /\ MaxLag < Lease /\ Lease <= TTL
         /\ clock \in Nat /\ lastId \in Nat
         /\ row.id \in Nat /\ row.lockedUntil \in Nat /\ row.expiresAt \in Nat
         /\ \A o \in Ops : op[o].now \in Nat /\ op[o].id \in Nat
BY LockAssumption DEF LockAssumption, TypeOK, Rows

\* An operation in progress blocks every reclaim.
LEMMA HolderBlocks ==
  ASSUME LockInv, NEW p \in Ops, Holding(p), NEW o \in Ops, At(o, "reclaim")
  PROVE  ~CanReclaim(row, op[o].id, op[o].status, op[o].now)
BY Numbers DEF LockInv, LagInv, HolderInv, CanReclaim

\* The calls other than the one that steps keep their record.
Others(o) == \A p \in Ops \ {o} : op'[p] = op[p]

\* A call that starts to run when nobody does keeps the invariant.
LEMMA StartKeeps ==
  ASSUME LockInv, NEW o \in Ops, Others(o),
         \A p \in Ops : ~Holding(p),
         op'[o].pc = "run", op'[o].now \in Nat, op'[o].id # 0,
         op'[o].now <= clock, clock <= op'[o].now + MaxLag,
         row'.id = op'[o].id, row'.status = "processing",
         row'.lockedUntil = op'[o].now + Lease,
         row'.expiresAt = op'[o].now + TTL,
         clock' = clock
  PROVE  LagInv' /\ HolderInv' /\ MutualExclusion'
<1>1. \A p \in Ops \ {o} : ~Holding(p)'
  BY DEF Others, Holding
<1>2. LagInv'
  BY DEF LockInv, LagInv, Others, Acquiring, At
<1>3. HolderInv'
  BY <1>1, Numbers DEF LockInv, HolderInv, Holding
<1>. QED
  BY <1>1, <1>2, <1>3 DEF MutualExclusion

\* A call that ends, or that only moves on while it acquires, keeps it when the
\* row and the clock stay.
LEMMA MoveKeeps ==
  ASSUME LockInv, NEW o \in Ops, Others(o),
         ~Holding(o)' \/ (Holding(o) /\ op'[o].id = op[o].id
                                      /\ op'[o].now = op[o].now),
         op'[o].now <= clock,
         Acquiring(o)' => clock <= op'[o].now + MaxLag,
         At(o, "reclaim")' => op'[o].id # 0,
         UNCHANGED <<row, clock>>
  PROVE  LagInv' /\ HolderInv' /\ MutualExclusion'
<1>1. \A p \in Ops : Holding(p)' => /\ Holding(p)
                                   /\ op'[p].id = op[p].id
                                   /\ op'[p].now = op[p].now
  BY DEF Others, Holding
<1>2. LagInv'
  BY DEF LockInv, LagInv, Others, Acquiring, At
<1>3. HolderInv'
  BY <1>1 DEF LockInv, HolderInv
<1>. QED
  BY <1>1, <1>2, <1>3 DEF LockInv, MutualExclusion

LEMMA LockInit == Init => LockInv
BY LockAssumption DEF LockAssumption, Init, LockInv, TypeOK, LagInv, HolderInv,
   MutualExclusion, Holding, Acquiring, At, Absent, Rows, Statuses

LEMMA LockNext ==
  ASSUME MaxRun <= Lease, LockInv, [Next]_vars
  PROVE  LockInv'
<1>0. TypeOK'
  BY TypeNext DEF LockInv
<1>n. /\ {Lease, TTL, MaxLag, MaxRun} \subseteq Nat
      /\ MaxLag < Lease /\ Lease <= TTL
      /\ clock \in Nat /\ lastId \in Nat
      /\ row.id \in Nat /\ row.lockedUntil \in Nat /\ row.expiresAt \in Nat
      /\ \A o \in Ops : op[o].now \in Nat /\ op[o].id \in Nat
  BY Numbers DEF LockInv
<1>op. /\ op \in [Ops -> Calls]
       /\ row \in Rows
  BY DEF LockInv, TypeOK, Calls
<1>. SUFFICES LagInv' /\ HolderInv' /\ MutualExclusion'
  BY <1>0 DEF LockInv
<1>1. ASSUME NEW o \in Ops, Acquire(o)
      PROVE  LagInv' /\ HolderInv' /\ MutualExclusion'
  <2>1. CASE Exists(row)
    <3>1. /\ op'[o].pc = "get" /\ op'[o].now = clock
          /\ Others(o) /\ UNCHANGED <<row, clock>>
      BY <1>1, <1>op, <2>1 DEF Acquire, Others, Calls
    <3>. QED
      BY <1>n, <3>1, MoveKeeps DEF Holding, Acquiring, At
  <2>2. CASE ~Exists(row)
    <3>1. /\ op'[o].pc = "run" /\ op'[o].now = clock /\ op'[o].id = lastId + 1
          /\ Others(o) /\ clock' = clock
          /\ row' = Inserted(lastId + 1, OperationId[o], clock + Lease, clock + TTL)
      BY <1>1, <1>op, <2>2 DEF Acquire, Others, Calls
    <3>2. /\ row'.id = op'[o].id /\ row'.status = "processing"
          /\ row'.lockedUntil = op'[o].now + Lease
          /\ row'.expiresAt = op'[o].now + TTL
      BY <3>1 DEF Inserted
    <3>3. \A p \in Ops : ~Holding(p)
      BY <2>2 DEF LockInv, HolderInv, Exists
    <3>4. op'[o].id # 0 /\ op'[o].now \in Nat /\ clock <= op'[o].now + MaxLag
      BY <1>n, <3>1
    <3>. QED
      BY <1>n, <3>1, <3>2, <3>3, <3>4, StartKeeps
  <2>. QED
    BY <2>1, <2>2
<1>2. ASSUME NEW o \in Ops, GetExisting(o)
      PROVE  LagInv' /\ HolderInv' /\ MutualExclusion'
  <2>1. /\ op'[o].pc \in {"end", "reclaim"} /\ op'[o].now = op[o].now
        /\ op'[o].pc = "reclaim" => op'[o].id # 0
        /\ Others(o) /\ UNCHANGED <<row, clock>>
    <3>1. CASE op' = [op EXCEPT ![o].pc = "end"]
      BY <1>2, <1>op, <3>1 DEF GetExisting, Others, Calls
    <3>2. CASE /\ row.id # 0
               /\ op' = [op EXCEPT ![o] = [@ EXCEPT !.pc = "reclaim", !.id = row.id,
                                                    !.status = row.status]]
      BY <1>2, <1>op, <3>2 DEF GetExisting, Others, Calls
    <3>. QED
      BY <1>2, <3>1, <3>2 DEF GetExisting, Goto, Exists
  <2>2. clock <= op[o].now + MaxLag /\ op[o].now <= clock
    BY <1>2 DEF GetExisting, At, LockInv, LagInv, Acquiring
  <2>. QED
    BY <2>1, <2>2, MoveKeeps DEF Holding, Acquiring, At
<1>3. ASSUME NEW o \in Ops, Reclaim(o)
      PROVE  LagInv' /\ HolderInv' /\ MutualExclusion'
  <2>0. /\ At(o, "reclaim") /\ op[o].id # 0 /\ op[o].now <= clock
        /\ clock <= op[o].now + MaxLag
    BY <1>3 DEF Reclaim, At, LockInv, LagInv, Acquiring
  <2>1. CASE CanReclaim(row, op[o].id, op[o].status, op[o].now)
    <3>1. /\ op'[o].pc = "run" /\ op'[o].now = op[o].now /\ op'[o].id = op[o].id
          /\ Others(o) /\ clock' = clock
          /\ row' = Reclaimed(row, op[o].now + Lease, op[o].now + TTL)
      BY <1>3, <1>op, <2>1 DEF Reclaim, Goto, Others, Calls
    <3>2. /\ row'.id = row.id /\ row'.status = "processing"
          /\ row'.lockedUntil = op'[o].now + Lease
          /\ row'.expiresAt = op'[o].now + TTL
      BY <1>op, <3>1 DEF Reclaimed, Rows
    <3>3. row.id = op[o].id
      BY <2>1 DEF CanReclaim
    <3>4. \A p \in Ops : ~Holding(p)
      BY <2>0, <2>1, HolderBlocks
    <3>. QED
      BY <1>n, <2>0, <3>1, <3>2, <3>3, <3>4, StartKeeps
  <2>2. CASE ~CanReclaim(row, op[o].id, op[o].status, op[o].now)
    <3>1. /\ op'[o].pc = "end" /\ op'[o].now = op[o].now
          /\ Others(o) /\ UNCHANGED <<row, clock>>
      BY <1>3, <1>op, <2>2 DEF Reclaim, Goto, Others, Calls
    <3>. QED
      BY <2>0, <3>1, MoveKeeps DEF Holding, Acquiring, At
  <2>. QED
    BY <2>1, <2>2
<1>4. ASSUME NEW o \in Ops, Renew(o)
      PROVE  LagInv' /\ HolderInv' /\ MutualExclusion'
  <2>1. LagInv' /\ MutualExclusion'
    <3>1. op' = op /\ clock' = clock
      BY <1>4 DEF Renew
    <3>. QED
      BY <3>1 DEF LockInv, LagInv, MutualExclusion, Acquiring, Holding, At
  <2>2. row' = row \/ row' = Extended(row, clock + Lease, clock + TTL)
    BY <1>4 DEF Renew
  <2>3. CASE row' = row
    <3>1. op' = op /\ clock' = clock
      BY <1>4 DEF Renew
    <3>2. HolderInv'
      BY <2>3, <3>1 DEF LockInv, HolderInv, Holding
    <3>. QED
      BY <2>1, <3>2
  <2>4. CASE row' = Extended(row, clock + Lease, clock + TTL)
    <3>1. /\ row'.id = row.id /\ row'.status = row.status
          /\ row'.lockedUntil = clock + Lease /\ row'.expiresAt = clock + TTL
      BY <1>op, <2>4 DEF Extended, Rows
    <3>2. \A p \in Ops : op[p].now <= clock
      BY DEF LockInv, LagInv
    <3>3. clock' = clock /\ op' = op
      BY <1>4 DEF Renew
    <3>4. /\ clock < clock + Lease
          /\ clock + Lease <= clock + TTL
          /\ \A p \in Ops : op[p].now + Lease <= clock + Lease
      BY <1>n, <3>2
    <3>5. HolderInv'
      BY <3>1, <3>3, <3>4 DEF LockInv, HolderInv, Holding
    <3>. QED
      BY <2>1, <3>5
  <2>. QED
    BY <2>1, <2>2, <2>3, <2>4
<1>5. ASSUME NEW o \in Ops, Finish(o)
      PROVE  LagInv' /\ HolderInv' /\ MutualExclusion'
  <2>1. /\ op[o].pc = "run" /\ op'[o].pc = "release"
        /\ op'[o].now = op[o].now /\ op'[o].id = op[o].id
        /\ Others(o) /\ UNCHANGED <<row, clock>>
    BY <1>5, <1>op DEF Finish, At, Goto, Others, Calls
  <2>2. op[o].now <= clock
    BY DEF LockInv, LagInv
  <2>. QED
    BY <2>1, <2>2, MoveKeeps DEF Holding, Acquiring, At
<1>6. ASSUME NEW o \in Ops, Release(o)
      PROVE  LagInv' /\ HolderInv' /\ MutualExclusion'
  <2>1. /\ op[o].pc = "release" /\ op'[o].pc = "end" /\ op'[o].now = op[o].now
        /\ Others(o) /\ clock' = clock
    BY <1>6, <1>op DEF Release, At, Goto, Others, Calls
  <2>2. \A p \in Ops : ~Holding(p)'
    BY <2>1 DEF LockInv, MutualExclusion, Holding, Others
  <2>3. LagInv'
    BY <2>1 DEF LockInv, LagInv, Others, Acquiring, At
  <2>. QED
    BY <2>2, <2>3 DEF HolderInv, MutualExclusion
<1>7. ASSUME NEW o \in Ops, Crash(o)
      PROVE  LagInv' /\ HolderInv' /\ MutualExclusion'
  <2>1. /\ op'[o].pc = "end" /\ op'[o].now = op[o].now
        /\ Others(o) /\ UNCHANGED <<row, clock>>
    BY <1>7, <1>op DEF Crash, Goto, Others, Calls
  <2>2. op[o].now <= clock
    BY DEF LockInv, LagInv
  <2>. QED
    BY <2>1, <2>2, MoveKeeps DEF Holding, Acquiring, At
<1>8. CASE DeleteExpired
  <2>1. row.expiresAt <= clock
    BY <1>8 DEF DeleteExpired, Expired
  <2>2. \A p \in Ops : ~Holding(p)
    BY <1>n, <2>1 DEF LockInv, HolderInv
  <2>3. UNCHANGED <<op, clock>>
    BY <1>8 DEF DeleteExpired
  <2>. QED
    BY <2>2, <2>3 DEF LockInv, LagInv, HolderInv, MutualExclusion, Holding,
        Acquiring, At
<1>9. CASE Tick
  <2>1. clock' = clock + 1 /\ UNCHANGED <<op, row>>
    BY <1>9 DEF Tick
  <2>2. LagInv'
    BY <1>9, <1>n, <2>1 DEF Tick, LockInv, LagInv, Acquiring, At
  <2>3. ASSUME NEW o \in Ops, Holding(o)
        PROVE  clock + 1 < row.lockedUntil
    <3>1. clock + 1 < op[o].now + MaxRun
      BY <1>9, <2>3 DEF Tick
    <3>2. op[o].now + Lease <= row.lockedUntil
      BY <2>3 DEF LockInv, HolderInv
    <3>. QED
      BY <1>n, <3>1, <3>2
  <2>4. HolderInv'
    BY <2>1, <2>3 DEF LockInv, HolderInv, Holding
  <2>. QED
    BY <2>1, <2>2, <2>4 DEF LockInv, MutualExclusion, Holding
<1>10. CASE UNCHANGED vars
  BY <1>10 DEF vars, LockInv, LagInv, HolderInv, MutualExclusion, Holding,
      Acquiring, At
<1>. QED
  BY <1>1, <1>2, <1>3, <1>4, <1>5, <1>6, <1>7, <1>8, <1>9, <1>10 DEF Next

\* Two operations never run at the same time as long as each ends within the
\* lease it took, whatever crashes, retries, refused renewals and cleanups.
THEOREM ShortRunsExclude ==
  ASSUME MaxRun <= Lease
  PROVE  Spec => []MutualExclusion
<1>1. LockInv /\ [Next]_vars => LockInv'
  BY LockNext
<1>2. LockInv => MutualExclusion
  BY DEF LockInv
<1>. QED
  BY LockInit, <1>1, <1>2, PTL DEF Spec

\* As long as operations are that short, nothing but their holder ends a lock.
THEOREM ShortRunsKeepTheirLease ==
  ASSUME MaxRun <= Lease
  PROVE  Spec => []LeaseIsRenewed
<1>1. LockInv /\ [Next]_vars => LockInv'
  BY LockNext
<1>2. LockInv => LeaseIsRenewed
  <2>. SUFFICES ASSUME LockInv PROVE LeaseIsRenewed
    OBVIOUS
  <2>1. \A o \in Ops : At(o, "run") => Holding(o)
    BY DEF At, Holding
  <2>. QED
    BY <2>1, Numbers DEF LockInv, HolderInv, LeaseIsRenewed
<1>. QED
  BY LockInit, <1>1, <1>2, PTL DEF Spec

-----------------------------------------------------------------------------
\* Operations of any length, under the renewals.

\* All calls carry one operation id (retries of one operation), and the lease
\* covers a renewal interval more than the renewals that may fail and the lag of
\* the claim, whose clock reading the first lease starts from.
RetriesOfOne == \A o, p \in Ops : OperationId[o] = OperationId[p]
LeaseCovers == MaxLag + MaxFaults + 1 < Lease

\* The row was inserted under that id, so no renewal is refused.
IdInv == Exists(row) => \A o \in Ops : row.fingerprint = OperationId[o]

\* The row of a running operation.
HeldInv ==
  \A o \in Ops : Holding(o) =>
    /\ op[o].id # 0
    /\ row.id = op[o].id
    /\ row.status = "processing"
    /\ clock < row.lockedUntil
    /\ row.lockedUntil <= row.expiresAt

\* Its renewal loop runs and is at most one interval late; every call of the
\* database that failed cost the lease at most one interval.
LoopInv ==
  \A o \in Ops :
    /\ renewed[o] <= clock
    /\ At(o, "run") =>
         /\ loop[o] = "on"
         /\ clock <= renewed[o] + 1
         /\ renewed[o] + Lease <= row.lockedUntil + MaxLag + faults

RenewInv == TypeOK /\ LagInv /\ IdInv /\ HeldInv /\ LoopInv /\ MutualExclusion
RenewStep == LagInv' /\ IdInv' /\ HeldInv' /\ LoopInv' /\ MutualExclusion'

LEMMA Counts ==
  ASSUME TypeOK
  PROVE  /\ MaxFaults \in Nat /\ faults \in Nat /\ faults <= MaxFaults
         /\ renewed \in [Ops -> Nat]
         /\ loop \in [Ops -> {"off", "on", "last"}]
         /\ op \in [Ops -> Calls] /\ row \in Rows
BY LockAssumption DEF LockAssumption, TypeOK, Calls

\* An operation in progress blocks every reclaim.
LEMMA HeldBlocks ==
  ASSUME RenewInv, NEW p \in Ops, Holding(p), NEW o \in Ops, At(o, "reclaim")
  PROVE  ~CanReclaim(row, op[o].id, op[o].status, op[o].now)
BY Numbers DEF RenewInv, LagInv, HeldInv, CanReclaim

\* A call that starts to run when nobody does keeps the invariant.
LEMMA StartRenews ==
  ASSUME LeaseCovers, RenewInv, NEW o \in Ops, Others(o),
         \A p \in Ops : ~Holding(p),
         op'[o].pc = "run", op'[o].now \in Nat, op'[o].id # 0,
         op'[o].now <= clock, clock <= op'[o].now + MaxLag,
         row'.id = op'[o].id, row'.status = "processing",
         row'.lockedUntil = op'[o].now + Lease,
         row'.expiresAt = op'[o].now + TTL,
         \A p \in Ops : row'.fingerprint = OperationId[p],
         Hold(o), UNCHANGED <<clock, faults>>
  PROVE  RenewStep
<1>n. /\ {Lease, TTL, MaxLag, MaxFaults} \subseteq Nat /\ Lease <= TTL
      /\ MaxLag < Lease
      /\ clock \in Nat /\ faults \in Nat
      /\ renewed \in [Ops -> Nat] /\ loop \in [Ops -> {"off", "on", "last"}]
  BY Numbers, Counts DEF RenewInv
<1>1. \A p \in Ops \ {o} : ~Holding(p)'
  BY DEF Others, Holding
<1>2. LagInv'
  BY DEF RenewInv, LagInv, Others, Acquiring, At
<1>3. HeldInv'
  <2>1. clock < row'.lockedUntil /\ row'.lockedUntil <= row'.expiresAt
    BY <1>n
  <2>. QED
    BY <1>1, <2>1 DEF HeldInv, Holding
<1>4. LoopInv'
  <2>1. renewed'[o] = clock /\ loop'[o] = "on"
    BY <1>n DEF Hold
  <2>2. \A p \in Ops : renewed'[p] <= clock
    BY <1>n, <2>1 DEF Hold, RenewInv, LoopInv
  <2>3. clock + Lease <= row'.lockedUntil + MaxLag + faults
    BY <1>n
  <2>4. \A p \in Ops : At(p, "run")' => p = o
    BY <1>1 DEF Holding, At
  <2>. QED
    BY <1>n, <2>1, <2>2, <2>3, <2>4 DEF LoopInv
<1>5. IdInv' /\ MutualExclusion'
  BY <1>1 DEF IdInv, MutualExclusion
<1>. QED
  BY <1>2, <1>3, <1>4, <1>5 DEF RenewStep

\* A call that ends, or only moves on, keeps it when the row and the clock stay.
LEMMA MoveRenews ==
  ASSUME RenewInv, NEW o \in Ops, Others(o),
         ~Holding(o)' \/ (Holding(o) /\ op'[o].id = op[o].id),
         op'[o].now <= clock,
         Acquiring(o)' => clock <= op'[o].now + MaxLag,
         At(o, "reclaim")' => op'[o].id # 0,
         ~At(o, "run")',
         \A p \in Ops \ {o} : loop'[p] = loop[p],
         UNCHANGED <<row, clock, renewed, faults>>
  PROVE  RenewStep
<1>1. \A p \in Ops : Holding(p)' => Holding(p) /\ op'[p].id = op[p].id
  BY DEF Others, Holding
<1>2. LagInv'
  BY DEF RenewInv, LagInv, Others, Acquiring, At
<1>3. HeldInv'
  BY <1>1 DEF RenewInv, HeldInv
<1>4. LoopInv'
  BY DEF RenewInv, LoopInv, Others, At
<1>5. IdInv' /\ MutualExclusion'
  BY <1>1 DEF RenewInv, IdInv, Exists, MutualExclusion
<1>. QED
  BY <1>2, <1>3, <1>4, <1>5 DEF RenewStep

LEMMA RenewInit == Init => RenewInv
BY LockAssumption DEF LockAssumption, Init, RenewInv, TypeOK, LagInv, IdInv, HeldInv,
   LoopInv, MutualExclusion, Exists, Holding, Acquiring, At, Absent, Rows, Statuses

LEMMA RenewNext ==
  ASSUME RetriesOfOne, LeaseCovers, RenewInv, [Next]_vars
  PROVE  RenewInv'
<1>0. TypeOK'
  BY TypeNext DEF RenewInv
<1>n. /\ {Lease, TTL, MaxLag, MaxFaults} \subseteq Nat
      /\ MaxLag < Lease /\ Lease <= TTL /\ MaxLag + MaxFaults + 1 < Lease
      /\ clock \in Nat /\ lastId \in Nat
      /\ row.id \in Nat /\ row.lockedUntil \in Nat /\ row.expiresAt \in Nat
      /\ \A o \in Ops : op[o].now \in Nat /\ op[o].id \in Nat
      /\ faults \in Nat /\ faults <= MaxFaults
  BY Numbers, Counts DEF RenewInv, LeaseCovers
<1>op. /\ op \in [Ops -> Calls] /\ row \in Rows
       /\ loop \in [Ops -> {"off", "on", "last"}] /\ renewed \in [Ops -> Nat]
  BY Counts DEF RenewInv
<1>. SUFFICES RenewStep
  BY <1>0 DEF RenewInv, RenewStep
<1>1. ASSUME NEW o \in Ops, Acquire(o) PROVE RenewStep
  <2>1. CASE Exists(row)
    <3>1. /\ op'[o].pc = "get" /\ op'[o].now = clock
          /\ Others(o) /\ UNCHANGED <<row, clock, loop, renewed, faults>>
      BY <1>1, <1>op, <2>1 DEF Acquire, Others, Calls
    <3>2. clock <= clock /\ clock <= clock + MaxLag
      BY <1>n
    <3>. QED
      BY <3>1, <3>2, MoveRenews DEF Holding, Acquiring, At
  <2>2. CASE ~Exists(row)
    <3>1. /\ op'[o].pc = "run" /\ op'[o].now = clock /\ op'[o].id = lastId + 1
          /\ Others(o) /\ UNCHANGED <<clock, faults>> /\ Hold(o)
          /\ row' = Inserted(lastId + 1, OperationId[o], clock + Lease, clock + TTL)
      BY <1>1, <1>op, <2>2 DEF Acquire, Others, Calls
    <3>2. /\ row'.id = op'[o].id /\ row'.status = "processing"
          /\ row'.lockedUntil = op'[o].now + Lease
          /\ row'.expiresAt = op'[o].now + TTL
          /\ \A p \in Ops : row'.fingerprint = OperationId[p]
      BY <3>1 DEF Inserted, RetriesOfOne
    <3>3. \A p \in Ops : ~Holding(p)
      BY <2>2 DEF RenewInv, HeldInv, Exists
    <3>4. op'[o].id # 0 /\ op'[o].now \in Nat /\ clock <= op'[o].now + MaxLag
      BY <1>n, <3>1
    <3>. QED
      BY <1>n, <3>1, <3>2, <3>3, <3>4, StartRenews
  <2>. QED
    BY <2>1, <2>2
<1>2. ASSUME NEW o \in Ops, GetExisting(o) PROVE RenewStep
  <2>1. /\ op'[o].pc \in {"end", "reclaim"} /\ op'[o].now = op[o].now
        /\ op'[o].pc = "reclaim" => op'[o].id # 0
        /\ Others(o) /\ UNCHANGED <<row, clock, loop, renewed, faults>>
    <3>1. CASE op' = [op EXCEPT ![o].pc = "end"]
      BY <1>2, <1>op, <3>1 DEF GetExisting, Others, Calls
    <3>2. CASE /\ row.id # 0
               /\ op' = [op EXCEPT ![o] = [@ EXCEPT !.pc = "reclaim", !.id = row.id,
                                                    !.status = row.status]]
      BY <1>2, <1>op, <3>2 DEF GetExisting, Others, Calls
    <3>. QED
      BY <1>2, <3>1, <3>2 DEF GetExisting, Goto, Exists
  <2>2. clock <= op[o].now + MaxLag /\ op[o].now <= clock
    BY <1>2 DEF GetExisting, At, RenewInv, LagInv, Acquiring
  <2>. QED
    BY <2>1, <2>2, MoveRenews DEF Holding, Acquiring, At
<1>3. ASSUME NEW o \in Ops, Reclaim(o) PROVE RenewStep
  <2>0. /\ At(o, "reclaim") /\ op[o].id # 0 /\ op[o].now <= clock
        /\ clock <= op[o].now + MaxLag
    BY <1>3 DEF Reclaim, At, RenewInv, LagInv, Acquiring
  <2>1. CASE CanReclaim(row, op[o].id, op[o].status, op[o].now)
    <3>1. /\ op'[o].pc = "run" /\ op'[o].now = op[o].now /\ op'[o].id = op[o].id
          /\ Others(o) /\ UNCHANGED <<clock, faults>> /\ Hold(o)
          /\ row' = Reclaimed(row, op[o].now + Lease, op[o].now + TTL)
      BY <1>3, <1>op, <2>1 DEF Reclaim, Goto, Others, Calls
    <3>2. /\ row'.id = row.id /\ row'.status = "processing"
          /\ row'.lockedUntil = op'[o].now + Lease
          /\ row'.expiresAt = op'[o].now + TTL
          /\ row'.fingerprint = row.fingerprint
      BY <1>op, <3>1 DEF Reclaimed, Rows
    <3>3. row.id = op[o].id
      BY <2>1 DEF CanReclaim
    <3>4. \A p \in Ops : ~Holding(p)
      BY <2>0, <2>1, HeldBlocks
    <3>5. \A p \in Ops : row'.fingerprint = OperationId[p]
      BY <2>0, <3>2, <3>3 DEF RenewInv, IdInv, Exists
    <3>. QED
      BY <1>n, <2>0, <3>1, <3>2, <3>3, <3>4, <3>5, StartRenews
  <2>2. CASE ~CanReclaim(row, op[o].id, op[o].status, op[o].now)
    <3>1. /\ op'[o].pc = "end" /\ op'[o].now = op[o].now
          /\ Others(o) /\ UNCHANGED <<row, clock, loop, renewed, faults>>
      BY <1>3, <1>op, <2>2 DEF Reclaim, Goto, Others, Calls
    <3>. QED
      BY <2>0, <3>1, MoveRenews DEF Holding, Acquiring, At
  <2>. QED
    BY <2>1, <2>2
<1>4. ASSUME NEW o \in Ops, Renew(o) PROVE RenewStep
  <2>0. /\ op' = op /\ clock' = clock
        /\ renewed' = [renewed EXCEPT ![o] = clock]
    BY <1>4 DEF Renew
  <2>1. LagInv' /\ MutualExclusion'
    BY <2>0 DEF RenewInv, LagInv, MutualExclusion, Acquiring, Holding, At
  <2>2. \A p \in Ops : renewed'[p] <= clock /\ (p # o => renewed'[p] = renewed[p])
    BY <1>n, <1>op, <2>0 DEF RenewInv, LoopInv
  <2>3. renewed'[o] = clock
    BY <1>op, <2>0
  \* A call that fails costs an interval of the lease, not the loop.
  <2>4. CASE /\ faults' = faults + 1 /\ row' = row
             /\ loop' = [loop EXCEPT ![o] = IF @ = "last" THEN "off" ELSE @]
    <3>1. IdInv' /\ HeldInv'
      BY <2>0, <2>4 DEF RenewInv, IdInv, HeldInv, Exists, Holding
    <3>2. ASSUME NEW p \in Ops, At(p, "run")
          PROVE  /\ loop'[p] = "on"
                 /\ clock <= renewed'[p] + 1
                 /\ renewed'[p] + Lease <= row.lockedUntil + MaxLag + (faults + 1)
      <4>1. /\ loop[p] = "on" /\ clock <= renewed[p] + 1
            /\ renewed[p] + Lease <= row.lockedUntil + MaxLag + faults
            /\ renewed[p] \in Nat
        BY <1>op, <3>2 DEF RenewInv, LoopInv
      <4>2. loop'[p] = "on"
        BY <1>op, <2>4, <4>1
      <4>3. renewed'[p] = renewed[p] \/ renewed'[p] = clock
        BY <2>2, <2>3
      <4>. QED
        BY <1>n, <4>1, <4>2, <4>3
    <3>3. LoopInv'
      BY <2>0, <2>2, <2>4, <3>2 DEF LoopInv, At
    <3>. QED
      BY <2>1, <3>1, <3>3 DEF RenewStep
  <2>5. CASE /\ row' = Extended(row, clock + Lease, clock + TTL) /\ faults' = faults
             /\ loop' = [loop EXCEPT ![o] = IF @ = "last" THEN "off" ELSE @]
    <3>1. /\ row'.id = row.id /\ row'.status = row.status
          /\ row'.fingerprint = row.fingerprint
          /\ row'.lockedUntil = clock + Lease /\ row'.expiresAt = clock + TTL
      BY <1>op, <2>5 DEF Extended, Rows
    <3>2. clock < clock + Lease /\ clock + Lease <= clock + TTL
      BY <1>n
    <3>3. IdInv' /\ HeldInv'
      BY <2>0, <3>1, <3>2 DEF RenewInv, IdInv, HeldInv, Exists, Holding
    <3>4. ASSUME NEW p \in Ops, At(p, "run")
          PROVE  /\ loop'[p] = "on"
                 /\ clock <= renewed'[p] + 1
                 /\ renewed'[p] + Lease <= row'.lockedUntil + MaxLag + faults
      <4>1. loop[p] = "on" /\ clock <= renewed[p] + 1 /\ renewed[p] \in Nat
        BY <1>op, <3>4 DEF RenewInv, LoopInv
      <4>2. loop'[p] = "on"
        BY <1>op, <2>5, <4>1
      <4>3. /\ renewed'[p] = renewed[p] \/ renewed'[p] = clock
            /\ renewed'[p] <= clock
        BY <2>2, <2>3
      <4>. QED
        BY <1>n, <3>1, <4>1, <4>2, <4>3
    <3>5. LoopInv'
      BY <2>0, <2>2, <2>5, <3>4 DEF LoopInv, At
    <3>. QED
      BY <2>1, <3>3, <3>5 DEF RenewStep
  \* Only the late firing of a loop whose operation is over is refused.
  <2>6. CASE /\ ~CanExtend(row, op[o].id, OperationId[o])
             /\ loop' = [loop EXCEPT ![o] = "off"] /\ UNCHANGED <<row, faults>>
    <3>1. ~At(o, "run")
      <4>1. At(o, "run") => /\ op[o].id # 0 /\ row.id = op[o].id
                            /\ row.status = "processing"
        BY DEF RenewInv, HeldInv, Holding, At
      <4>. QED
        BY <2>6, <4>1 DEF RenewInv, IdInv, Exists, CanExtend
    <3>2. IdInv' /\ HeldInv'
      BY <2>0, <2>6 DEF RenewInv, IdInv, HeldInv, Exists, Holding
    <3>3. \A p \in Ops : At(p, "run") => p # o /\ loop'[p] = loop[p]
      BY <1>op, <2>6, <3>1
    <3>4. LoopInv'
      BY <2>0, <2>2, <2>6, <3>3 DEF RenewInv, LoopInv, At
    <3>. QED
      BY <2>1, <3>2, <3>4 DEF RenewStep
  <2>. QED
    BY <1>4, <2>4, <2>5, <2>6 DEF Renew, Fault
<1>5. ASSUME NEW o \in Ops, Finish(o) PROVE RenewStep
  <2>1. /\ op[o].pc = "run" /\ op'[o].pc = "release"
        /\ op'[o].now = op[o].now /\ op'[o].id = op[o].id
        /\ Others(o) /\ UNCHANGED <<row, clock, renewed, faults>>
        /\ \A p \in Ops \ {o} : loop'[p] = loop[p]
    BY <1>5, <1>op DEF Finish, At, Goto, Others, Calls
  <2>2. op[o].now <= clock
    BY DEF RenewInv, LagInv
  <2>. QED
    BY <2>1, <2>2, MoveRenews DEF Holding, Acquiring, At
<1>6. ASSUME NEW o \in Ops, Release(o) PROVE RenewStep
  <2>1. /\ op[o].pc = "release" /\ op'[o].pc = "end" /\ op'[o].now = op[o].now
        /\ Others(o) /\ UNCHANGED <<clock, loop, renewed>>
    BY <1>6, <1>op DEF Release, At, Goto, Others, Calls
  <2>2. \A p \in Ops : ~Holding(p)'
    BY <2>1 DEF RenewInv, MutualExclusion, Holding, Others
  <2>3. LagInv'
    BY <2>1 DEF RenewInv, LagInv, Others, Acquiring, At
  <2>4. row' \in {row, Succeeded(row, op[o].id, Nothing, clock + TTL),
                  Failed(row, op[o].id, clock, clock + TTL)}
    BY <1>6 DEF Release
  <2>5. row'.id = row.id /\ row'.fingerprint = row.fingerprint
    BY <1>op, <2>4 DEF Succeeded, Failed, Rows
  <2>6. IdInv'
    BY <2>5 DEF RenewInv, IdInv, Exists
  <2>7. LoopInv' /\ HeldInv' /\ MutualExclusion'
    BY <2>1, <2>2 DEF RenewInv, LoopInv, HeldInv, MutualExclusion, Holding, At
  <2>. QED
    BY <2>3, <2>6, <2>7 DEF RenewStep
<1>7. ASSUME NEW o \in Ops, Crash(o) PROVE RenewStep
  <2>1. /\ op'[o].pc = "end" /\ op'[o].now = op[o].now
        /\ Others(o) /\ UNCHANGED <<row, clock, renewed, faults>>
        /\ \A p \in Ops \ {o} : loop'[p] = loop[p]
    BY <1>7, <1>op DEF Crash, Goto, Others, Calls
  <2>2. op[o].now <= clock
    BY DEF RenewInv, LagInv
  <2>. QED
    BY <2>1, <2>2, MoveRenews DEF Holding, Acquiring, At
<1>8. CASE DeleteExpired
  <2>1. row.expiresAt <= clock /\ row'.id = 0
    BY <1>8 DEF DeleteExpired, Expired, Absent
  <2>2. \A p \in Ops : ~Holding(p)
    BY <1>n, <2>1 DEF RenewInv, HeldInv
  <2>3. UNCHANGED <<op, clock, loop, renewed, faults>>
    BY <1>8 DEF DeleteExpired
  <2>. QED
    BY <2>1, <2>2, <2>3 DEF RenewStep, RenewInv, LagInv, IdInv, HeldInv, LoopInv,
        MutualExclusion, Exists, Holding, Acquiring, At
<1>9. CASE Tick
  <2>1. clock' = clock + 1 /\ UNCHANGED <<op, row, loop, renewed, faults>>
    BY <1>9 DEF Tick
  <2>2. LagInv'
    BY <1>9, <1>n, <2>1 DEF Tick, RenewInv, LagInv, Acquiring, At
  <2>3. ASSUME NEW o \in Ops, Holding(o)
        PROVE  At(o, "run") /\ clock <= renewed[o] /\ clock + 1 < row.lockedUntil
    <3>1. At(o, "run") /\ (loop[o] = "on" => clock <= renewed[o])
      BY <1>9, <2>3 DEF Tick, Holding, At
    <3>2. loop[o] = "on" /\ renewed[o] + Lease <= row.lockedUntil + MaxLag + faults
      BY <3>1 DEF RenewInv, LoopInv
    <3>3. renewed[o] \in Nat
      BY <1>op
    <3>. QED
      BY <1>n, <3>1, <3>2, <3>3
  <2>4. HeldInv'
    BY <2>1, <2>3 DEF RenewInv, HeldInv, Holding
  <2>5. LoopInv'
    <3>1. \A o \in Ops : renewed[o] <= clock + 1
      BY <1>n, <1>op DEF RenewInv, LoopInv
    <3>2. \A o \in Ops : At(o, "run") => clock + 1 <= renewed[o] + 1
      BY <1>n, <1>op, <2>3 DEF Holding, At
    <3>. QED
      BY <2>1, <3>1, <3>2 DEF RenewInv, LoopInv, At
  <2>. QED
    BY <2>1, <2>2, <2>4, <2>5
       DEF RenewStep, RenewInv, IdInv, MutualExclusion, Exists, Holding
<1>10. CASE UNCHANGED vars
  BY <1>10 DEF vars, RenewStep, RenewInv, LagInv, IdInv, HeldInv, LoopInv,
      MutualExclusion, Exists, Holding, Acquiring, At
<1>. QED
  BY <1>1, <1>2, <1>3, <1>4, <1>5, <1>6, <1>7, <1>8, <1>9, <1>10 DEF Next

\* The retries of one operation exclude each other however long each runs, as
\* long as the renewals that fail leave the lease an interval.
THEOREM RetriesExclude ==
  ASSUME RetriesOfOne, LeaseCovers
  PROVE  Spec => []MutualExclusion
<1>1. RenewInv /\ [Next]_vars => RenewInv'
  BY RenewNext
<1>2. RenewInv => MutualExclusion
  BY DEF RenewInv
<1>. QED
  BY RenewInit, <1>1, <1>2, PTL DEF Spec

\* And nobody but its holder ends the lock of one of them.
THEOREM RetriesKeepTheirLease ==
  ASSUME RetriesOfOne, LeaseCovers
  PROVE  Spec => []LeaseIsRenewed
<1>1. RenewInv /\ [Next]_vars => RenewInv'
  BY RenewNext
<1>2. RenewInv => LeaseIsRenewed
  <2>. SUFFICES ASSUME RenewInv PROVE LeaseIsRenewed
    OBVIOUS
  <2>1. \A o \in Ops : At(o, "run") => Holding(o)
    BY DEF At, Holding
  <2>. QED
    BY <2>1, Numbers DEF RenewInv, HeldInv, LeaseIsRenewed
<1>. QED
  BY RenewInit, <1>1, <1>2, PTL DEF Spec
=============================================================================
