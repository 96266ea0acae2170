------------------------ MODULE SystemOperationLock ------------------------
(***************************************************************************)
(* The lock that lets one system operation (update, rollback, restart) run *)
(* at a time: a row of the idempotency table used as a lease.  Whoever     *)
(* inserts or reclaims the row runs; a renewal loop extends the lease; the *)
(* release marks the row succeeded or failed.                              *)
(*                                                                         *)
(* One unit of time is the renewal interval (10 s).  Timing is assumed,    *)
(* never enforced by the lock: Tick waits for a due renewal, for the       *)
(* statements of Acquire (MaxLag), for an operation to end (MaxRun) and    *)
(* for a release, which has 2 s.                                           *)
(***************************************************************************)
EXTENDS IdempotencyStore

CONSTANTS
  Ops,          \* calls of a system operation
  OperationId,  \* the operation id of a call; retries share it
  Lease,        \* ProcessingTimeout
  TTL,          \* SystemOperationTTL
  MaxLag,       \* longest time between the clock reading of Acquire and its end
  MaxRun,       \* longest time from the clock reading to the release
  MaxClock,     \* bound on time
  MaxFaults     \* bound on failed database calls

ASSUME LockAssumption ==
  /\ {Lease, TTL, MaxLag, MaxRun, MaxClock, MaxFaults} \subseteq Nat
  /\ MaxLag < Lease
  /\ Lease <= TTL

VARIABLES
  row,     \* the row of the lock
  lastId,  \* the id sequence of the table
  clock,
  op,      \* per call: pc, the clock reading, the id and status it read
  loop,    \* per call: its renewal loop, off, on, or about to see stopCh
  renewed, \* per call: when its renewal ticker last fired
  faults

vars == <<row, lastId, clock, op, loop, renewed, faults>>

Ids == {OperationId[o] : o \in Ops}
Statuses == {"none", "processing", "succeeded", "failed_retryable"}
Rows == [id : Nat, fingerprint : Ids \cup {Nothing}, status : Statuses,
         lockedUntil : Nat, expiresAt : Nat, body : {Nothing}]

TypeOK ==
  /\ row \in Rows
  /\ lastId \in Nat
  /\ clock \in Nat
  /\ op \in [Ops -> [pc : {"idle", "get", "reclaim", "run", "release", "end"},
                     now : Nat, id : Nat, status : Statuses]]
  /\ loop \in [Ops -> {"off", "on", "last"}]
  /\ renewed \in [Ops -> Nat]
  /\ faults \in 0 .. MaxFaults

Init ==
  /\ row = Absent
  /\ lastId = 0
  /\ clock = 1
  /\ op = [o \in Ops |-> [pc |-> "idle", now |-> 0, id |-> 0, status |-> "none"]]
  /\ loop = [o \in Ops |-> "off"]
  /\ renewed = [o \in Ops |-> 0]
  /\ faults = 0

At(o, label) == op[o].pc = label
Goto(o, label) == op' = [op EXCEPT ![o].pc = label]
Fault == faults < MaxFaults /\ faults' = faults + 1

\* The call has the lock: its operation runs and its renewal loop starts.
Hold(o) ==
  /\ loop' = [loop EXCEPT ![o] = "on"]
  /\ renewed' = [renewed EXCEPT ![o] = clock]

-----------------------------------------------------------------------------
\* Acquire: read the clock and try to insert the row.
Acquire(o) ==
  /\ At(o, "idle")
  /\ IF Exists(row)
       THEN /\ op' = [op EXCEPT ![o] = [@ EXCEPT !.pc = "get", !.now = clock]]
            /\ UNCHANGED <<row, lastId, loop, renewed>>
       ELSE /\ lastId' = lastId + 1
            /\ row' = Inserted(lastId + 1, OperationId[o], clock + Lease,
                               clock + TTL)
            /\ op' = [op EXCEPT ![o] = [@ EXCEPT !.pc = "run", !.now = clock,
                                                 !.id = lastId + 1]]
            /\ Hold(o)
  /\ UNCHANGED <<clock, faults>>

\* A row that is gone, or processing under a live lease, ends the call.
GetExisting(o) ==
  /\ At(o, "get")
  /\ LET busy == row.status = "processing" /\ row.lockedUntil > op[o].now
     IN  IF ~Exists(row) \/ busy
           THEN Goto(o, "end")
           ELSE op' = [op EXCEPT ![o] = [@ EXCEPT !.pc = "reclaim",
                                                  !.id = row.id,
                                                  !.status = row.status]]
  /\ UNCHANGED <<row, lastId, clock, loop, renewed, faults>>

\* The row keeps the fingerprint of whoever inserted it.
Reclaim(o) ==
  /\ At(o, "reclaim")
  /\ IF CanReclaim(row, op[o].id, op[o].status, op[o].now)
       THEN /\ row' = Reclaimed(row, op[o].now + Lease, op[o].now + TTL)
            /\ Goto(o, "run")
            /\ Hold(o)
       ELSE /\ Goto(o, "end")
            /\ UNCHANGED <<row, loop, renewed>>
  /\ UNCHANGED <<lastId, clock, faults>>

\* One firing of the renewal ticker: an error is retried at the next one, a
\* refused extension ends the loop, and so does the closed stop channel, which
\* a firing already under way does not see.
Renew(o) ==
  /\ loop[o] # "off"
  /\ \/ /\ Fault
        /\ loop' = [loop EXCEPT ![o] = IF @ = "last" THEN "off" ELSE @]
        /\ UNCHANGED row
     \/ /\ IF CanExtend(row, op[o].id, OperationId[o])
             THEN /\ row' = Extended(row, clock + Lease, clock + TTL)
                  /\ loop' = [loop EXCEPT ![o] = IF @ = "last" THEN "off" ELSE @]
             ELSE /\ loop' = [loop EXCEPT ![o] = "off"]
                  /\ UNCHANGED row
        /\ UNCHANGED faults
  /\ renewed' = [renewed EXCEPT ![o] = clock]
  /\ UNCHANGED <<lastId, clock, op>>

\* The operation is over: Release closes the stop channel first.
Finish(o) ==
  /\ At(o, "run")
  /\ Goto(o, "release")
  /\ \E l \in {"off", "last"} :
       loop' = [loop EXCEPT ![o] = IF @ = "on" THEN l ELSE @]
  /\ UNCHANGED <<row, lastId, clock, renewed, faults>>

\* Then it marks the row; its error is ignored.
Release(o) ==
  /\ At(o, "release")
  /\ \/ /\ row' \in {Succeeded(row, op[o].id, Nothing, clock + TTL),
                     Failed(row, op[o].id, clock, clock + TTL)}
        /\ UNCHANGED faults
     \/ Fault /\ UNCHANGED row
  /\ Goto(o, "end")
  /\ UNCHANGED <<lastId, clock, loop, renewed>>

\* The process of the operation dies.
Crash(o) ==
  /\ op[o].pc \notin {"idle", "end"}
  /\ Goto(o, "end")
  /\ loop' = [loop EXCEPT ![o] = "off"]
  /\ UNCHANGED <<row, lastId, clock, renewed, faults>>

\* The cleanup service, whose rounds come at any time.
DeleteExpired ==
  /\ Expired(row, clock)
  /\ row' = Absent
  /\ UNCHANGED <<lastId, clock, op, loop, renewed, faults>>

-----------------------------------------------------------------------------
Acquiring(o) == op[o].pc \in {"get", "reclaim"}
Holding(o) == op[o].pc \in {"run", "release"}

Tick ==
  /\ clock < MaxClock
  /\ \A o \in Ops :
       /\ Acquiring(o) => clock < op[o].now + MaxLag
       /\ Holding(o) => clock + 1 < op[o].now + MaxRun
       /\ ~At(o, "release")
       /\ loop[o] = "on" => clock <= renewed[o]
       /\ loop[o] # "last"
  /\ clock' = clock + 1
  /\ UNCHANGED <<row, lastId, op, loop, renewed, faults>>

Next ==
  \/ \E o \in Ops :
       \/ Acquire(o) \/ GetExisting(o) \/ Reclaim(o)
       \/ Renew(o) \/ Finish(o) \/ Release(o) \/ Crash(o)
  \/ DeleteExpired
  \/ Tick

Spec == Init /\ [][Next]_vars

-----------------------------------------------------------------------------
\* Properties.

\* "Another system operation is in progress": two operations never run at the
\* same time, whatever crashes, retries, cleanups and late releases there are.
\* It needs operations that end within their lease, or that all carry the
\* operation id which inserted the row.
MutualExclusion == \A o, p \in Ops : Holding(o) /\ Holding(p) => o = p

\* Nobody but its holder ends a lock: while an operation runs, the row is its
\* row, in processing, and not yet up for reclaim or cleanup (Release and the
\* cleanup work by id and by time, without asking who holds the lock).
LeaseIsRenewed ==
  \A o \in Ops : At(o, "run") =>
    /\ row.id = op[o].id
    /\ row.status = "processing"
    /\ row.lockedUntil > clock
    /\ row.expiresAt > clock
=============================================================================
