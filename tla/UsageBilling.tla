---------------------------- MODULE UsageBilling ----------------------------
(***************************************************************************)
(* How served requests are charged to a user's balance: the eligibility    *)
(* check on a balance cached in Redis, the record of the usage, billed in  *)
(* one PostgreSQL transaction that first claims the request's id, and the  *)
(* asynchronous upkeep of the cache; beside them recharges, which add to   *)
(* the balance, refunds, which change it and leave the cache as it is,     *)
(* edits of the user's row, which write back a balance they read before,   *)
(* and the job that archives old claims.  One user, in balance mode.       *)
(***************************************************************************)
EXTENDS Integers, FiniteSetsExt

CONSTANTS
  Requests,    \* requests to the gateway, each with one record of its usage
  Ids,         \* request ids, which clients may repeat
  Id,          \* per request: its id
  Bills,       \* per request: the fingerprints its answer may give it
  Cost,        \* per fingerprint: what the request costs
  Recharges,   \* atomic additions to the balance, refunds among them
  Silent,      \* those that do not invalidate the cache: refunds, rolled back or not
  Edits,       \* edits of the user: of the profile, or of the balance
  Amount,      \* per recharge or edit: the change of the balance, 0 of a profile
  Initial,     \* the balance at first
  Room,        \* cache writes that the queue and its workers hold
  MaxFaults,   \* bound on failing calls and dying processes
  None

Changes == Recharges \cup Edits
Prints == UNION {Bills[r] : r \in Requests}

ASSUME BillingAssumption ==
  /\ Id \in [Requests -> Ids]
  /\ Cost \in [Prints -> Nat]
  /\ Recharges \cap Edits = {} /\ Silent \subseteq Recharges
  /\ Amount \in [Changes -> Int]
  /\ Initial \in Int
  /\ Room \in Nat /\ MaxFaults \in Nat
  /\ None \notin Requests \cup Prints \cup Int

VARIABLES
  balance,      \* users.balance
  dedup,        \* per id: the request whose row is in usage_billing_dedup
  archive,      \* per id: the same in usage_billing_dedup_archive
  pc,           \* per request
  print,        \* per request: the fingerprint of what is to be billed
  applied,      \* requests whose transaction has committed
  cache,        \* the cached balance, or None
  leader,       \* the request whose load of the balance is under way, or None
  read,         \* per request: the balance it loaded and still has to cache
  queued,       \* requests whose deduction the cache workers still have to make
  change,       \* per recharge or edit: how far it is
  seen,         \* per edit under way: the balance it read
  faults,
  \* For the properties:
  clean,        \* loads that nothing has made outdated
  stale,        \* whether the cached balance comes from an outdated load
  unseen,       \* silent changes made since the cached balance was loaded
  overwritten   \* whether an edit wrote over a balance it had not read

database == <<balance, dedup, archive, applied, overwritten>>
cached == <<cache, stale, unseen, leader, read, clean, queued>>
changes == <<change, seen>>
vars == <<balance, dedup, archive, pc, print, applied, cache, leader, read, queued, change,
          seen, faults, clean, stale, unseen, overwritten>>

\* A request is done when its usage is logged; it may be over without that.
Labels == {"idle", "loading", "served", "insert", "exists", "claimed", "effects",
           "finalize", "done", "over"}

TypeOK ==
  /\ balance \in Int
  /\ dedup \in [Ids -> Requests \cup {None}]
  /\ archive \in [Ids -> Requests \cup {None}]
  /\ pc \in [Requests -> Labels]
  /\ print \in [Requests -> Prints \cup {None}]
  /\ \A r \in Requests :
       (pc[r] \notin {"idle", "loading", "served", "over"} \/ r \in applied \cup queued) =>
         print[r] # None
  /\ applied \subseteq Requests
  /\ cache \in Int \cup {None}
  /\ leader \in Requests \cup {None}
  /\ read \in [Requests -> Int \cup {None}]
  /\ leader # None => pc[leader] = "loading" /\ read[leader] # None
  /\ \A r \in Requests : pc[r] = "loading" => leader # None
  /\ queued \subseteq Requests
  /\ change \in [Changes -> {"idle", "read", "invalidate", "done", "rejected"}]
  /\ seen \in [Edits -> Int]
  /\ faults \in 0 .. MaxFaults
  /\ clean \subseteq Requests
  /\ stale \in BOOLEAN /\ unseen \subseteq Silent /\ overwritten \in BOOLEAN

Init ==
  /\ balance = Initial
  /\ dedup = [i \in Ids |-> None]
  /\ archive = [i \in Ids |-> None]
  /\ pc = [r \in Requests |-> "idle"]
  /\ print = [r \in Requests |-> None]
  /\ applied = {}
  /\ cache = None
  /\ leader = None
  /\ read = [r \in Requests |-> None]
  /\ queued = {}
  /\ change = [e \in Changes |-> "idle"]
  /\ seen = [e \in Edits |-> 0]
  /\ faults = 0
  /\ clean = {}
  /\ stale = FALSE
  /\ unseen = {}
  /\ overwritten = FALSE

At(r, label) == pc[r] = label
Goto(r, label) == pc' = [pc EXCEPT ![r] = label]
Fault == faults < MaxFaults /\ faults' = faults + 1
Total(S) == MapThenSumSet(LAMBDA r : Cost[print[r]], S)

\* Charged, and not yet deducted from the cached balance.
Deducting == {r \in applied : At(r, "finalize")} \cup queued

-----------------------------------------------------------------------------
\* The eligibility check of a request.

Eligible(value) == IF value > 0 THEN "served" ELSE "over"

Hit(r) ==
  /\ At(r, "idle") /\ cache # None
  /\ Goto(r, Eligible(cache))
  /\ UNCHANGED <<print, database, cached, changes, faults>>

\* The cache has no balance, or cannot be read.
Miss == IF cache = None THEN UNCHANGED faults ELSE Fault

\* The first request that misses loads the balance, the others join it.
Load(r) ==
  /\ At(r, "idle") /\ Miss /\ leader = None
  /\ leader' = r
  /\ read' = [read EXCEPT ![r] = balance]
  /\ clean' = IF Deducting = {} THEN clean \cup {r} ELSE clean
  /\ Goto(r, "loading")
  /\ UNCHANGED <<print, database, cache, stale, unseen, queued, changes>>

Join(r) ==
  /\ At(r, "idle") /\ Miss /\ leader # None
  /\ Goto(r, "loading")
  /\ UNCHANGED <<print, database, cached, changes>>

Forget(r) == read' = [read EXCEPT ![r] = None] /\ clean' = clean \ {r}

\* Mutant: those who joined are not resumed.
LeaderResumed(label) == [pc EXCEPT ![leader] = label]
Resumed(label) == [s \in Requests |-> IF At(s, "loading") THEN label ELSE pc[s]]

Pending == Cardinality({r \in Requests \ {leader} : read[r] # None}) + Cardinality(queued)

\* All of them go on with the balance loaded; caching it is queued, or dropped
\* when the queue is full.  A load that fails refuses them all.
Loaded ==
  /\ leader # None
  /\ \/ /\ pc' = Resumed(Eligible(read[leader]))
        /\ IF Pending < Room THEN UNCHANGED <<read, clean>> ELSE Forget(leader)
        /\ UNCHANGED faults
     \/ /\ Fault
        /\ pc' = Resumed("over")
        /\ Forget(leader)
  /\ leader' = None
  /\ UNCHANGED <<print, database, cache, stale, unseen, queued, changes>>

-----------------------------------------------------------------------------
\* The billing of a request.

\* The request is answered and its record handed to the worker pool, which may
\* drop it.
Submit(r) ==
  /\ At(r, "served")
  /\ \/ Goto(r, "insert") /\ \E p \in Bills[r] : print' = [print EXCEPT ![r] = p]
     \/ Goto(r, "over") /\ UNCHANGED print
  /\ UNCHANGED <<database, cached, changes, faults>>

\* A statement fails, or the process dies: the transaction is rolled back.
Fails(r) ==
  /\ pc[r] \in {"insert", "exists", "claimed"}
  /\ Fault
  /\ Goto(r, "over")
  /\ UNCHANGED <<print, database, cached, changes>>

\* Mutant: claims not yet committed are not waited for.
NotAwaited(i) == FALSE
Claimed(i) == \E s \in Requests : Id[s] = i /\ pc[s] \in {"claimed", "effects"}

\* INSERT ... ON CONFLICT DO NOTHING waits for a claim not yet committed.
Insert(r) ==
  /\ At(r, "insert") /\ ~Claimed(Id[r])
  /\ Goto(r, IF dedup[Id[r]] = None THEN "claimed" ELSE "exists")
  /\ UNCHANGED <<print, database, cached, changes, faults>>

\* Mutant: what has the request's id is taken for the request.
SameId(r, s) == "done"
\* A request billed before is recorded and not billed; another one is an error.
Compared(r, s) == IF print[r] = print[s] THEN "done" ELSE "over"

\* The row that made the insertion do nothing may be gone by now: an error.
CompareRow(r) ==
  /\ At(r, "exists")
  /\ LET s == dedup[Id[r]] IN Goto(r, IF s = None THEN "over" ELSE Compared(r, s))
  /\ UNCHANGED <<print, database, cached, changes, faults>>

\* Mutant: the archive is not consulted.
NotConsulted(i) == None
Archived(i) == archive[i]

CompareArchived(r) ==
  /\ At(r, "claimed")
  /\ LET s == Archived(Id[r]) IN Goto(r, IF s = None THEN "effects" ELSE Compared(r, s))
  /\ UNCHANGED <<print, database, cached, changes, faults>>

\* Mutant: the deduction is not part of the transaction.
DeductedAnyway(r, committed) == balance - Cost[print[r]]
Charged(r, committed) == IF committed THEN balance - Cost[print[r]] ELSE balance

\* The balance is charged and the transaction commits; its answer may be lost.
Commit(r) ==
  /\ At(r, "effects")
  /\ \/ /\ balance' = Charged(r, TRUE)
        /\ dedup' = [dedup EXCEPT ![Id[r]] = r]
        /\ applied' = applied \cup {r}
        /\ clean' = {}
        /\ \/ Goto(r, "finalize") /\ UNCHANGED faults
           \/ Goto(r, "over") /\ Fault
     \/ /\ Fault
        /\ balance' = Charged(r, FALSE)
        /\ Goto(r, "over")
        /\ UNCHANGED <<dedup, applied, clean>>
  /\ UNCHANGED <<print, archive, overwritten, cache, stale, unseen, leader, read, queued,
                 changes>>

\* The deduction from the cache is queued (made at once when the queue is full)
\* and the usage logged, unless the process dies.
Finalize(r) ==
  /\ At(r, "finalize")
  /\ \/ Goto(r, "done") /\ queued' = queued \cup {r} /\ UNCHANGED faults
     \/ Goto(r, "over") /\ Fault /\ UNCHANGED queued
  /\ UNCHANGED <<print, database, cache, stale, unseen, leader, read, clean, changes>>

\* Old rows move to the archive, in one statement.
Cleanup(i) ==
  /\ dedup[i] # None
  /\ archive' = [archive EXCEPT ![i] = IF @ = None THEN dedup[i] ELSE @]
  /\ dedup' = [dedup EXCEPT ![i] = None]
  /\ UNCHANGED <<print, balance, pc, applied, overwritten, cached, changes, faults>>

-----------------------------------------------------------------------------
\* The cache, whose writes several workers make in any order.

SetCache(r) ==
  /\ read[r] # None /\ leader # r
  /\ \/ /\ cache' = read[r] /\ stale' = (r \notin clean) /\ unseen' = {}
        /\ UNCHANGED faults
     \/ Fault /\ UNCHANGED <<cache, stale, unseen>>
  /\ Forget(r)
  /\ UNCHANGED <<print, database, pc, leader, queued, changes>>

\* Mutant: a balance that is not cached counts as zero.
FromZero(r) == (IF cache = None THEN 0 ELSE cache) - Cost[print[r]]
Deducted(r) == IF cache = None THEN None ELSE cache - Cost[print[r]]

DeductCache(r) ==
  /\ r \in queued
  /\ queued' = queued \ {r}
  /\ \/ cache' = Deducted(r) /\ UNCHANGED faults
     \/ Fault /\ UNCHANGED cache
  /\ UNCHANGED <<print, database, pc, stale, unseen, leader, read, clean, changes>>

Dropped == cache' = None /\ stale' = FALSE /\ unseen' = {}

Expire ==
  /\ cache # None
  /\ Dropped
  /\ UNCHANGED <<print, database, pc, leader, read, clean, queued, changes, faults>>

-----------------------------------------------------------------------------
\* Other changes of the user's balance.

Turn(e, label) == change' = [change EXCEPT ![e] = label]

\* A recharge adds to the balance; the cache is invalidated by a goroutine, but
\* for a refund, which deducts, and adds again when it is rolled back.
Recharge(e) ==
  /\ e \in Recharges /\ change[e] = "idle"
  /\ balance' = balance + Amount[e]
  /\ clean' = {}
  /\ Turn(e, IF e \in Silent THEN "done" ELSE "invalidate")
  /\ unseen' = IF e \in Silent /\ cache # None THEN unseen \cup {e} ELSE unseen
  /\ UNCHANGED <<print, dedup, archive, applied, overwritten, pc, cache, stale, leader,
                 read, queued, seen, faults>>

\* An edit reads the user ...
ReadUser(e) ==
  /\ e \in Edits /\ change[e] = "idle"
  /\ seen' = [seen EXCEPT ![e] = balance]
  /\ Turn(e, "read")
  /\ UNCHANGED <<print, database, pc, cached, faults>>

\* ... and writes back every field, the balance with them.
WriteUser(e) ==
  /\ e \in Edits /\ change[e] = "read"
  /\ Amount[e] # 0 => seen[e] + Amount[e] >= 0
  /\ balance' = seen[e] + Amount[e]
  /\ overwritten' = (overwritten \/ balance # seen[e])
  /\ clean' = {}
  /\ \/ Turn(e, IF Amount[e] = 0 THEN "done" ELSE "invalidate") /\ UNCHANGED faults
     \/ Turn(e, "done") /\ Fault
  /\ seen' = [seen EXCEPT ![e] = 0]
  /\ UNCHANGED <<print, dedup, archive, applied, pc, cache, stale, unseen, leader, read,
                 queued>>

\* The balance would be negative, or the update fails.
Reject(e) ==
  /\ e \in Edits /\ change[e] = "read"
  /\ \/ Amount[e] # 0 /\ seen[e] + Amount[e] < 0 /\ UNCHANGED faults
     \/ Fault
  /\ Turn(e, "rejected")
  /\ seen' = [seen EXCEPT ![e] = 0]
  /\ UNCHANGED <<print, database, pc, cached>>

Invalidate(e) ==
  /\ change[e] = "invalidate"
  /\ Turn(e, "done")
  /\ \/ Dropped /\ UNCHANGED faults
     \/ Fault /\ UNCHANGED <<cache, stale, unseen>>
  /\ UNCHANGED <<print, database, pc, leader, read, clean, queued, seen>>

-----------------------------------------------------------------------------
Handle(r) ==
  \/ Hit(r) \/ Load(r) \/ Join(r) \/ Submit(r) \/ Fails(r) \/ Insert(r)
  \/ CompareRow(r) \/ CompareArchived(r) \/ Commit(r) \/ Finalize(r)
  \/ SetCache(r) \/ DeductCache(r)

Alter(e) == Recharge(e) \/ ReadUser(e) \/ WriteUser(e) \/ Reject(e) \/ Invalidate(e)

Next ==
  \/ \E r \in Requests : Handle(r)
  \/ \E e \in Changes : Alter(e)
  \/ \E i \in Ids : Cleanup(i)
  \/ Loaded \/ Expire

Spec == Init /\ [][Next]_vars

-----------------------------------------------------------------------------
\* Properties.

\* "Idempotent billing": of the requests with one id at most one is ever charged,
\* whatever fails, is repeated or archived in between.
BilledOnce == \A r, s \in applied : Id[r] = Id[s] => r = s

\* A request whose usage is logged was charged, itself or as the earlier request
\* it repeats, at the same price.
LoggedIsBilled ==
  \A r \in Requests :
    At(r, "done") =>
      \E s \in applied : Id[s] = Id[r] /\ print[s] = print[r]

\* The recharges and edits that have changed the balance.
Settled == {e \in Changes : change[e] \in {"invalidate", "done"}}

\* Unless an edit wrote over a balance it had not read, the balance is what the
\* recharges and adjustments added less what the charged requests cost.
BalanceIsLedger ==
  ~overwritten =>
    balance = Initial - Total(applied)
              + MapThenSumSet(LAMBDA e : Amount[e], Settled)

\* The cached balance is the balance plus the deductions under way, less the refunds
\* made since it was loaded, which it never learns of: unless it was loaded across a
\* change of the balance or a deduction, a recharge is still to invalidate it, or a
\* call has failed.
CacheFollowsBalance ==
  (/\ cache # None /\ ~stale /\ ~overwritten /\ faults = 0
   /\ \A e \in Changes : change[e] # "invalidate") =>
     cache = balance + Total(Deducting) - MapThenSumSet(LAMBDA e : Amount[e], unseen)

\* The whole machinery - statements that wait and fail, lost commits, the archive,
\* the cache - implements Metering: nothing moves the balance but one charge per
\* id, each recharge once, and edits, the only changes made in two steps.
Meter == INSTANCE Metering WITH
  charged <- applied,
  settled <- Settled,
  noted <- [e \in Edits |-> IF change[e] = "read" THEN seen[e] ELSE None]
ImplementsMetering == Meter!Spec

=============================================================================
