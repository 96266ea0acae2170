-------------------------- MODULE GatewayAdmission --------------------------
(***************************************************************************)
(* How the gateway admits requests: a slot of the user, a slot of the      *)
(* upstream account and the account's message lock, all kept in Redis and  *)
(* shared by every process, with a counter of the requests that wait for a *)
(* slot.  The model has one user, one account and one process at a time; a *)
(* process that dies leaves everything its requests had taken.             *)
(*                                                                         *)
(* Times to live are not counted: what a request holds may lapse once the  *)
(* request is over or its process dead, and at any time for the Slow ones, *)
(* which outlive the slots' 15 minutes or the lock's 120 seconds.  A wait  *)
(* counter lapses at any time: it lives as long as the longest wait plan,  *)
(* from its last increment on, so whoever waits to the end outlives it.    *)
(***************************************************************************)
EXTENDS Naturals, FiniteSets

CONSTANTS
  Requests,
  Lives,         \* runs of the server process, each with its request-id prefix
  Home,          \* the life that serves a request
  Slow,          \* requests that outlive a time to live
  UserLimit,     \* concurrency of the user; zero is no limit and takes no slot
  AccountLimit,  \* concurrency of the account
  UserQueue,     \* requests that may wait for the user's slots
  AccountQueue,  \* requests that may wait for the account's slots
  Overlap,       \* whether a process may start while another one serves
  MaxFaults,     \* bound on failing Redis and database calls; an account deleted
                 \* under a request counts as one
  MaxLapsed,     \* bound on the requests that outlive the counter they are in
  Free, Orphan   \* the message lock: not held, held by nobody's id

ASSUME AdmissionAssumption ==
  /\ {UserLimit, AccountLimit} \subseteq Nat \ {0}
  /\ {UserQueue, AccountQueue, MaxFaults, MaxLapsed} \subseteq Nat
  /\ IsFiniteSet(Requests)
  /\ Home \in [Requests -> Lives]
  /\ Slow \subseteq Requests
  /\ Overlap \in BOOLEAN
  /\ Free \notin Requests /\ Orphan \notin Requests /\ Free # Orphan

Pools == {"user", "account"}
Limit == [user |-> UserLimit, account |-> AccountLimit]
MaxWaiting == [user |-> UserQueue, account |-> AccountQueue]

VARIABLES
  slots,      \* per pool: the requests whose slot is in the sorted set
  leaked,     \* per pool: slots in the sorted set that no request will release
  waiting,    \* per pool: the wait counter
  lock,       \* the request whose id holds the message lock
  life,       \* per life of the process: off, up, dead
  pc,
  held,       \* per request: the release functions it has not run yet
  cancelled,  \* requests whose client has disconnected
  lapsed,     \* how many requests were still in a counter when it lapsed
  faults

redis == <<slots, leaked, waiting, lock>>
vars == <<slots, leaked, waiting, lock, life, pc, held, cancelled, lapsed, faults>>

\* Where a request waits for a slot, has it, or has given up: counted as waiting.
Wait == [user |-> "userWait", account |-> "accountWait"]
Got == [user |-> "userGot", account |-> "accountGot"]
Leave == [user |-> "userLeave", account |-> "accountLeave"]
Labels == {"idle", "select", "plan", "queue", "forward", "after", "done", "lost"}
            \cup {Wait[p] : p \in Pools} \cup {Got[p] : p \in Pools}
            \cup {Leave[p] : p \in Pools}

TypeOK ==
  /\ slots \in [Pools -> SUBSET Requests]
  /\ leaked \in [Pools -> Nat]
  /\ waiting \in [Pools -> Nat]
  /\ lock \in Requests \cup {Free, Orphan}
  /\ life \in [Lives -> {"off", "up", "dead"}]
  /\ pc \in [Requests -> Labels]
  /\ held \in [Requests -> SUBSET (Pools \cup {"lock"})]
  /\ cancelled \subseteq Requests
  /\ lapsed \in 0 .. MaxLapsed
  /\ faults \in 0 .. MaxFaults

Init ==
  /\ slots = [p \in Pools |-> {}]
  /\ leaked = [p \in Pools |-> 0]
  /\ waiting = [p \in Pools |-> 0]
  /\ lock = Free
  /\ life = [l \in Lives |-> "off"]
  /\ pc = [r \in Requests |-> "idle"]
  /\ held = [r \in Requests |-> {}]
  /\ cancelled = {}
  /\ lapsed = 0
  /\ faults = 0

At(r, label) == pc[r] = label
Goto(r, label) == pc' = [pc EXCEPT ![r] = label]
Hold(r, x) == held' = [held EXCEPT ![r] = @ \cup {x}]
Fault == faults < MaxFaults /\ faults' = faults + 1

Counted(r, p) == pc[r] \in {Wait[p], Got[p], Leave[p]}
Waiters(p) == {r \in Requests : Counted(r, p)}

-----------------------------------------------------------------------------
\* The scripts.

\* Mutant: the count is compared after the fact.
OneMore(p) == Cardinality(slots[p]) + leaked[p] <= Limit[p]
HasRoom(p) == Cardinality(slots[p]) + leaked[p] < Limit[p]
Taken(r, p) == [slots EXCEPT ![p] = @ \cup {r}]
Freed(r, p) == [slots EXCEPT ![p] = @ \ {r}]
OneLeak(p) == [leaked EXCEPT ![p] = @ + 1]

\* Mutant: the limit is not compared.
AlwaysRoom(p) == TRUE
QueueHasRoom(p) == waiting[p] < MaxWaiting[p]
Incremented(p) == [waiting EXCEPT ![p] = @ + 1]
\* Mutant: the counter may go below zero.
Subtracted(p) == [waiting EXCEPT ![p] = @ - 1]
Decremented(p) == [waiting EXCEPT ![p] = IF @ > 0 THEN @ - 1 ELSE @]

\* Mutant: the counters outlive the process.
KeptCounter(p, reset) == waiting[p]
Counter(p, reset) == IF p \in reset THEN 0 ELSE waiting[p]

\* Mutant: the lock is deleted whoever holds it.
DeletedLock(r) == Free
ReleasedLock(r) == IF lock = r THEN Free ELSE lock

-----------------------------------------------------------------------------
\* The process.

\* CleanupStaleProcessSlots runs before the process serves: the slots of every
\* other prefix, then the wait counters; it stops at the first failing command.
Start(l) ==
  /\ life[l] = "off"
  /\ Overlap \/ \A m \in Lives : life[m] # "up"
  /\ life' = [life EXCEPT ![l] = "up"]
  /\ \E cleaned \in {{}, {"account"}, Pools}, reset \in {{}, {"account"}, Pools} :
       /\ reset # {} => cleaned = Pools
       /\ IF reset = Pools THEN UNCHANGED faults ELSE Fault
       /\ slots' = [p \in Pools |->
                      IF p \in cleaned THEN {r \in slots[p] : Home[r] = l}
                                       ELSE slots[p]]
       /\ leaked' = [p \in Pools |-> IF p \in cleaned THEN 0 ELSE leaked[p]]
       /\ waiting' = [p \in Pools |-> Counter(p, reset)]
  /\ UNCHANGED <<lock, pc, held, cancelled, lapsed>>

\* The process dies, and with it its requests: nothing of theirs is released.
Die(l) ==
  /\ life[l] = "up"
  /\ life' = [life EXCEPT ![l] = "dead"]
  /\ pc' = [r \in Requests |-> IF Home[r] = l THEN "lost" ELSE pc[r]]
  /\ held' = [r \in Requests |-> IF Home[r] = l THEN {} ELSE held[r]]
  /\ UNCHANGED <<redis, cancelled, lapsed, faults>>

-----------------------------------------------------------------------------
\* A request.

\* A command is not executed: it fails, or its context is already cancelled.
Refused(r) == IF r \in cancelled THEN UNCHANGED faults ELSE Fault

\* The wait counter is incremented, or refuses; an error counts as success.
Enqueue(r, p) ==
  /\ \/ /\ r \notin cancelled /\ QueueHasRoom(p)
        /\ waiting' = Incremented(p)
        /\ Goto(r, Wait[p])
        /\ UNCHANGED faults \/ Fault
     \/ /\ r \notin cancelled /\ ~QueueHasRoom(p)
        /\ Goto(r, "done")
        /\ UNCHANGED <<waiting, faults>>
     \/ /\ Refused(r)
        /\ Goto(r, Wait[p])
        /\ UNCHANGED waiting
  /\ UNCHANGED <<slots, leaked, lock, life, held, cancelled, lapsed>>

Arrive(r) == At(r, "idle") /\ life[Home[r]] = "up" /\ Enqueue(r, "user")

\* One attempt of AcquireUserSlotWithWait or AcquireAccountSlotWithWaitTimeout;
\* an attempt whose answer is lost has taken a slot under its own id.  A client
\* that disconnects ends the wait (GiveUp).
Acquire(r, p) ==
  /\ At(r, Wait[p]) /\ r \notin cancelled
  /\ \/ /\ HasRoom(p)
        /\ slots' = Taken(r, p)
        /\ Hold(r, p)
        /\ Goto(r, Got[p])
        /\ UNCHANGED <<leaked, faults>>
     \/ /\ Fault
        /\ \/ UNCHANGED leaked
           \/ HasRoom(p) /\ leaked' = OneLeak(p)
        /\ Goto(r, Leave[p])
        /\ UNCHANGED <<slots, held>>
  /\ UNCHANGED <<waiting, lock, life, cancelled, lapsed>>

\* The wait times out or its client is gone.
GiveUp(r, p) ==
  /\ At(r, Wait[p])
  /\ Goto(r, Leave[p])
  /\ UNCHANGED <<redis, life, held, cancelled, lapsed, faults>>

\* No longer waiting: the counter goes down, with a slot or without.
Decrement(r, p) ==
  /\ \/ At(r, Got[p]) /\ Goto(r, [user |-> "select", account |-> "queue"][p])
     \/ At(r, Leave[p]) /\ Goto(r, "done")
  /\ \/ waiting' = Decremented(p) /\ UNCHANGED faults
     \/ Fault /\ waiting' \in {waiting, Decremented(p)}
  /\ UNCHANGED <<slots, leaked, lock, life, held, cancelled, lapsed>>

\* SelectAccountWithLoadAwareness tries for a slot of the account, or plans to
\* wait: when there is none, when the attempt fails, or when what it knows of the
\* account's load, or its sessions, advises against.  The slot is lost when the
\* selected account cannot be read any more: the release function is dropped
\* with the error.
Select(r) ==
  /\ At(r, "select")
  /\ \/ /\ r \notin cancelled /\ HasRoom("account")
        /\ slots' = Taken(r, "account")
        /\ Hold(r, "account")
        /\ Goto(r, "queue")
        /\ UNCHANGED <<leaked, faults>>
     \/ /\ HasRoom("account")
        /\ IF r \in cancelled THEN UNCHANGED faults ELSE Fault
        /\ leaked' = OneLeak("account")
        /\ Goto(r, "done")
        /\ UNCHANGED <<slots, held>>
     \/ Goto(r, "plan") /\ UNCHANGED <<slots, leaked, held, faults>>
     \/ /\ Fault /\ HasRoom("account")
        /\ leaked' = OneLeak("account")
        /\ Goto(r, "plan")
        /\ UNCHANGED <<slots, held>>
     \/ \* no account, or not enough balance
        Goto(r, "done") /\ UNCHANGED <<slots, leaked, held, faults>>
  /\ UNCHANGED <<waiting, lock, life, cancelled, lapsed>>

\* The account seems full: wait for it.
Plan(r) == At(r, "plan") /\ Enqueue(r, "account")

\* The message lock; a request goes on without it when it needs none, when the
\* wait times out, the client is gone, the call fails or its answer is lost.
TakeLock(r) ==
  /\ At(r, "queue")
  /\ Goto(r, "forward")
  /\ \/ /\ r \notin cancelled /\ lock = Free
        /\ lock' = r /\ Hold(r, "lock") /\ UNCHANGED faults
     \/ UNCHANGED <<lock, held, faults>>
     \/ Fault /\ lock = Free /\ lock' = Orphan /\ UNCHANGED held
  /\ UNCHANGED <<slots, leaked, waiting, life, cancelled, lapsed>>

\* Forward returns.
Answered(r) ==
  /\ At(r, "forward")
  /\ Goto(r, "after")
  /\ UNCHANGED <<redis, life, held, cancelled, lapsed, faults>>

\* Mutant: a handler that returns early does not release the user's slot.
ReleasableAfter(r, x) == r \in cancelled \/ (x # "user" /\ pc[r] = "after")
\* When a release function runs, once: as soon as the client is gone, the lock
\* when the upstream accepts or answers, the account after it, the user last.
Releasable(r, x) ==
  \/ r \in cancelled /\ ~(x \in Pools /\ pc[r] = Got[x])
  \/ x = "lock" /\ pc[r] \in {"forward", "after"}
  \/ x = "account" /\ pc[r] = "after" /\ "lock" \notin held[r]
  \/ x = "user" /\ pc[r] = "done"

ReleaseSlot(r, p) ==
  /\ p \in held[r] /\ Releasable(r, p)
  /\ held' = [held EXCEPT ![r] = @ \ {p}]
  /\ slots' = Freed(r, p)
  /\ \/ UNCHANGED <<leaked, faults>>
     \/ Fault /\ r \in slots[p] /\ leaked' = OneLeak(p)
  /\ UNCHANGED <<waiting, lock, life, pc, cancelled, lapsed>>

ReleaseLock(r) ==
  /\ "lock" \in held[r] /\ Releasable(r, "lock")
  /\ held' = [held EXCEPT ![r] = @ \ {"lock"}]
  /\ \/ lock' = ReleasedLock(r) /\ UNCHANGED faults
     \/ Fault /\ lock' = IF lock = r THEN Orphan ELSE lock
  /\ UNCHANGED <<slots, leaked, waiting, life, pc, cancelled, lapsed>>

\* The handler ends, or selects again after a failure of the upstream.
Return(r) ==
  /\ At(r, "after")
  /\ held[r] \subseteq {"user"}
  /\ Goto(r, "done") \/ Goto(r, "select")
  /\ UNCHANGED <<redis, life, held, cancelled, lapsed, faults>>

\* The client disconnects.
Cancel(r) ==
  /\ pc[r] \notin {"done", "lost"} /\ r \notin cancelled
  /\ cancelled' = cancelled \cup {r}
  /\ UNCHANGED <<redis, life, pc, held, lapsed, faults>>

-----------------------------------------------------------------------------
\* Times to live.

SlotLapses(p, r) ==
  /\ r \in slots[p]
  /\ At(r, "lost") \/ r \in Slow
  /\ slots' = Freed(r, p)
  /\ UNCHANGED <<leaked, waiting, lock, life, pc, held, cancelled, lapsed, faults>>

LeakLapses(p) ==
  /\ leaked[p] > 0
  /\ leaked' = [leaked EXCEPT ![p] = @ - 1]
  /\ UNCHANGED <<slots, waiting, lock, life, pc, held, cancelled, lapsed, faults>>

LockLapses ==
  /\ lock # Free
  /\ \A r \in Requests : lock = r => At(r, "lost") \/ r \in Slow
  /\ lock' = Free
  /\ UNCHANGED <<slots, leaked, waiting, life, pc, held, cancelled, lapsed, faults>>

\* A counter lapses some time after its last increment, whoever still waits.
CounterLapses(p) ==
  /\ waiting[p] > 0
  /\ waiting' = [waiting EXCEPT ![p] = 0]
  /\ \/ Waiters(p) = {} /\ UNCHANGED lapsed
     \/ /\ Waiters(p) # {}
        /\ lapsed + waiting[p] <= MaxLapsed
        /\ lapsed' = lapsed + waiting[p]
  /\ UNCHANGED <<slots, leaked, lock, life, pc, held, cancelled, faults>>

-----------------------------------------------------------------------------
Handle(r) ==
  \/ Arrive(r) \/ Select(r) \/ Plan(r) \/ TakeLock(r) \/ Answered(r) \/ Return(r)
  \/ ReleaseLock(r)
  \/ \E p \in Pools : \/ Acquire(r, p) \/ GiveUp(r, p) \/ Decrement(r, p)
                      \/ ReleaseSlot(r, p)

Lapse ==
  \/ LockLapses
  \/ \E p \in Pools : \/ LeakLapses(p) \/ CounterLapses(p)
                      \/ \E r \in Requests : SlotLapses(p, r)

Next ==
  \/ \E l \in Lives : Start(l) \/ Die(l)
  \/ \E r \in Requests : Handle(r) \/ Cancel(r)
  \/ Lapse

Spec == Init /\ [][Next]_vars

-----------------------------------------------------------------------------
\* Properties.

\* A request that uses its slot; the slots of the account serve one attempt.
Using(r, p) ==
  \/ p = "user" /\ pc[r] \in {"userGot", "select", "plan", "accountWait", "accountGot",
                              "accountLeave", "queue", "forward", "after"}
  \/ p = "account" /\ pc[r] \in {"accountGot", "queue", "forward"}

\* The requests whose slot must still be there: the client waits for them and
\* no time to live has passed.
Users(p) == {r \in Requests \ (Slow \cup cancelled) : Using(r, p)}

\* "Concurrency": the requests served at the same time for a user or by an
\* account never exceed its limit, whatever fails, leaks, lapses or restarts.
WithinLimit == \A p \in Pools : Cardinality(Users(p)) <= Limit[p]

\* "Wait queue": no more requests wait than the queue admits, but for one per
\* failed call, per disconnected client and per request that outlived its counter.
\* An increment that fails counts as success and a counter may lapse under its
\* requests; the decrement that follows then takes somebody else's place.
WaitersWithinBound ==
  \A p \in Pools :
    Cardinality(Waiters(p)) <= MaxWaiting[p] + faults + Cardinality(cancelled) + lapsed

\* While no call has failed, the counter of a process that serves counts waiting
\* requests only: no restart and no late decrement leaves places that nobody
\* occupies.  It misses at most the requests whose client has disconnected and
\* those that outlived it.
CountersAreExact ==
  (faults = 0 /\ \E l \in Lives : life[l] = "up") =>
    \A p \in Pools :
      /\ waiting[p] <= Cardinality(Waiters(p))
      /\ Cardinality(Waiters(p)) <= waiting[p] + Cardinality(cancelled) + lapsed

\* Two messages of an account are never between lock and acceptance together,
\* but for one that outlives the lock; a late release does not open it to others.
MessagesSerialized ==
  \A r, s \in Requests \ Slow : "lock" \in held[r] /\ "lock" \in held[s] => r = s

\* A slot is in the set for a request that uses it or is about to release it,
\* once; what nobody will release is owed to a failed call or a disconnected
\* client, or to a dead process.
SlotsAreOwned ==
  /\ \A p \in Pools, r \in Requests :
       (r \in slots[p] /\ ~At(r, "lost")) =>
         /\ p \in held[r]
         /\ Using(r, p) \/ Releasable(r, p) \/ (At(r, "after") /\ "lock" \in held[r])
  /\ leaked["user"] + leaked["account"] <= faults + Cardinality(cancelled)

=============================================================================
