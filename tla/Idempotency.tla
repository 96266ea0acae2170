---------------------------- MODULE Idempotency ----------------------------
(***************************************************************************)
(* The idempotency coordinator: requests that carry one Idempotency-Key    *)
(* and the row that remembers the key.  A request claims the key by        *)
(* inserting the row, by reclaiming it once it has expired, or by          *)
(* reclaiming it after a failure and its backoff; it then executes the     *)
(* business operation and marks the row.  Every other request is answered  *)
(* from the row.                                                           *)
(*                                                                         *)
(* The business operation is external: it succeeds and has its effect, or  *)
(* it reports an error, before or after an effect of its own, which the    *)
(* coordinator cannot tell apart.  Timing is assumed, never enforced by    *)
(* the code: Tick waits for the statements of a claim (MaxLag) and for an  *)
(* execution, which ends before its record expires.                        *)
(***************************************************************************)
EXTENDS IdempotencyStore, FiniteSets

CONSTANTS
  Requests,     \* requests that carry the key
  Fingerprint,  \* method, route, actor and payload of a request
  Large,        \* requests with a response longer than MaxStoredResponseLen
  Timeout,      \* ProcessingTimeout
  Backoff,      \* FailedRetryBackoff
  TTL,          \* time until the record expires
  MaxLag,       \* longest time between the clock reading of a request and its claim
  MaxClock,     \* bound on time
  MaxFaults     \* bound on failed database calls and crashes

\* A response cut off at MaxStoredResponseLen: it no longer parses.
Truncated == "truncated"

\* The answers that are not the response of the operation.
FixedAnswers == {"none", "ok", "failed", "conflict", "in_progress", "backoff",
                 "unavailable"}

ASSUME IdempotencyAssumption ==
  /\ {Timeout, Backoff, TTL, MaxLag, MaxClock, MaxFaults} \subseteq Nat
  /\ MaxLag < Timeout
  /\ Timeout <= TTL
  /\ Requests \cap (FixedAnswers \cup {Nothing, Truncated}) = {}

VARIABLES
  row,      \* the record of the key
  lastId,   \* the id sequence of the table
  clock,
  req,      \* per request: pc, clock reading, id and status it read, answer
  effects,  \* the effects of the operation: who had one, its clock reading, and
            \* whether the operation reported success
  faults

vars == <<row, lastId, clock, req, effects, faults>>

Bodies == Requests \cup {Nothing, Truncated}
Statuses == {"none", "processing", "succeeded", "failed_retryable"}
Rows == [id : Nat, fingerprint : {Fingerprint[r] : r \in Requests} \cup {Nothing},
         status : Statuses, lockedUntil : Nat, expiresAt : Nat, body : Bodies]
Answers == FixedAnswers \cup Bodies

TypeOK ==
  /\ row \in Rows
  /\ lastId \in Nat
  /\ clock \in Nat
  /\ req \in [Requests ->
                [pc : {"idle", "get", "expired", "again", "retry", "run",
                       "succeed", "fail", "done"},
                 now : Nat, id : Nat, status : Statuses, answer : Answers]]
  /\ effects \subseteq [by : Requests, at : Nat, ok : BOOLEAN]
  /\ faults \in 0 .. MaxFaults

Init ==
  /\ row = Absent
  /\ lastId = 0
  /\ clock = 1
  /\ req = [r \in Requests |-> [pc |-> "idle", now |-> 0, id |-> 0,
                                status |-> "none", answer |-> "none"]]
  /\ effects = {}
  /\ faults = 0

At(r, label) == req[r].pc = label
Goto(r, label) == req' = [req EXCEPT ![r].pc = label]
Answer(r, a) == req' = [req EXCEPT ![r] = [@ EXCEPT !.pc = "done", !.answer = a]]
Remember(r, label) ==
  req' = [req EXCEPT ![r] = [@ EXCEPT !.pc = label, !.id = row.id,
                                      !.status = row.status]]
Fault == faults < MaxFaults /\ faults' = faults + 1

\* marshalStoredResponse: the response of a request stands for its content.
Body(r) == IF r \in Large THEN Truncated ELSE r

-----------------------------------------------------------------------------
\* Execute: read the clock and try to insert the record.  When the statement
\* fails its outcome is unknown.
Submit(r) ==
  /\ At(r, "idle")
  /\ LET inserted == Inserted(lastId + 1, Fingerprint[r], clock + Timeout,
                              clock + TTL)
     IN  \/ /\ Exists(row)
            /\ req' = [req EXCEPT ![r] = [@ EXCEPT !.pc = "get", !.now = clock]]
            /\ UNCHANGED <<row, lastId, faults>>
         \/ /\ ~Exists(row)
            /\ row' = inserted
            /\ lastId' = lastId + 1
            /\ req' = [req EXCEPT ![r] = [@ EXCEPT !.pc = "run", !.now = clock,
                                                   !.id = lastId + 1]]
            /\ UNCHANGED faults
         \/ /\ Fault
            /\ \/ UNCHANGED <<row, lastId>>
               \/ ~Exists(row) /\ row' = inserted /\ lastId' = lastId + 1
            /\ Answer(r, "unavailable")
  /\ UNCHANGED <<clock, effects>>

\* The answer the record gives to a request that did not claim it.
AnswerFrom(r) ==
  \/ /\ row.status = "succeeded"
     /\ Answer(r, IF row.body = Truncated THEN "unavailable" ELSE row.body)
  \/ row.status = "processing" /\ Answer(r, "in_progress")
  \/ /\ row.status = "failed_retryable"
     /\ IF row.lockedUntil > req[r].now
          THEN Answer(r, "backoff")
          ELSE Remember(r, "retry")

\* Mutant: the fingerprint is not compared.
AnySameKey(r) == Exists(row)
\* The record is there and belongs to the same request.
SameRequest(r) == Exists(row) /\ row.fingerprint = Fingerprint[r]

\* GetByScopeAndKeyHash, after the insertion and after a lost reclaim.
GetExisting(r) ==
  /\ req[r].pc \in {"get", "again"}
  /\ \/ /\ UNCHANGED faults
        /\ \/ ~Exists(row) /\ Answer(r, "unavailable")
           \/ Exists(row) /\ ~SameRequest(r) /\ Answer(r, "conflict")
           \/ /\ SameRequest(r)
              /\ IF At(r, "get") /\ row.expiresAt <= req[r].now
                   THEN Remember(r, "expired")
                   ELSE AnswerFrom(r)
     \/ Fault /\ Answer(r, "unavailable")
  /\ UNCHANGED <<row, lastId, clock, effects>>

\* TryReclaim of an expired record or of a failed one.  When the statement
\* fails its outcome is unknown.
Reclaim(r) ==
  /\ req[r].pc \in {"expired", "retry"}
  /\ LET taken == CanReclaim(row, req[r].id, req[r].status, req[r].now)
         claimed == Reclaimed(row, req[r].now + Timeout, req[r].now + TTL)
     IN  \/ /\ taken
            /\ row' = claimed
            /\ Goto(r, "run")
            /\ UNCHANGED faults
         \/ /\ ~taken
            /\ IF At(r, "expired") THEN Goto(r, "again") ELSE Answer(r, "in_progress")
            /\ UNCHANGED <<row, faults>>
         \/ /\ Fault
            /\ row' \in {row} \cup (IF taken THEN {claimed} ELSE {})
            /\ Answer(r, "unavailable")
  /\ UNCHANGED <<lastId, clock, effects>>

Effect(r, ok) == [by |-> r, at |-> req[r].now, ok |-> ok]

\* The business operation.  One that reports an error may have committed, or
\* have stopped halfway (a loop that creates its rows one by one).
Run(r) ==
  /\ At(r, "run")
  /\ \/ effects' = effects \cup {Effect(r, TRUE)} /\ Goto(r, "succeed")
     \/ effects' \in {effects, effects \cup {Effect(r, FALSE)}} /\ Goto(r, "fail")
  /\ UNCHANGED <<row, lastId, clock, faults>>

\* MarkSucceeded; the caller learns of an error, the record of nothing.
MarkSucceeded(r) ==
  /\ At(r, "succeed")
  /\ LET marked == Succeeded(row, req[r].id, Body(r), req[r].now + TTL)
     IN  \/ row' = marked /\ Answer(r, "ok") /\ UNCHANGED faults
         \/ Fault /\ row' \in {row, marked} /\ Answer(r, "unavailable")
  /\ UNCHANGED <<lastId, clock, effects>>

\* MarkFailedRetryable; its error is only logged.
MarkFailed(r) ==
  /\ At(r, "fail")
  /\ LET marked == Failed(row, req[r].id, clock + Backoff, req[r].now + TTL)
     IN  \/ row' = marked /\ UNCHANGED faults
         \/ Fault /\ row' = row
  /\ Answer(r, "failed")
  /\ UNCHANGED <<lastId, clock, effects>>

\* The process of a request dies.
Crash(r) ==
  /\ req[r].pc \notin {"idle", "done"}
  /\ Fault
  /\ Goto(r, "done")
  /\ UNCHANGED <<row, lastId, clock, effects>>

\* The cleanup service, whose rounds come at any time.
DeleteExpired ==
  /\ Expired(row, clock)
  /\ row' = Absent
  /\ UNCHANGED <<lastId, clock, req, effects, faults>>

-----------------------------------------------------------------------------
Claiming(r) == req[r].pc \in {"get", "expired", "again", "retry"}
Executing(r) == req[r].pc \in {"run", "succeed", "fail"}

Tick ==
  /\ clock < MaxClock
  /\ \A r \in Requests :
       /\ Claiming(r) => clock < req[r].now + MaxLag
       /\ Executing(r) => clock + 1 < req[r].now + TTL
  /\ clock' = clock + 1
  /\ UNCHANGED <<row, lastId, req, effects, faults>>

Next ==
  \/ \E r \in Requests :
       \/ Submit(r) \/ GetExisting(r) \/ Reclaim(r)
       \/ Run(r) \/ MarkSucceeded(r) \/ MarkFailed(r) \/ Crash(r)
  \/ DeleteExpired
  \/ Tick

Spec == Init /\ [][Next]_vars

-----------------------------------------------------------------------------
\* Properties.

\* The requests of one key never execute at the same time, even when the record
\* expires, is deleted or is reclaimed, and statements fail.
OneExecutionAtATime ==
  \A r, s \in Requests : Executing(r) /\ Executing(s) => r = s

\* Two successful executions of one key belong to claims that lie at least the
\* lifetime of a record apart.
OneEffectPerWindow ==
  \A e, f \in effects :
    e.ok /\ f.ok /\ e # f => e.at + TTL <= f.at \/ f.at + TTL <= e.at

\* Before any record can have expired, an operation that has succeeded is never
\* executed again: nothing that retries of the key do, and no failure or crash
\* before or after the mark, adds an effect.  An operation that reported an error
\* may be repeated, whatever effect it had.
NoEffectAfterSuccess ==
  [][clock <= TTL /\ (\E e \in effects : e.ok) => effects' = effects]_vars

\* A replayed answer is the response of a successful execution of the same
\* request, claimed within the lifetime of the record.
ReplayIsFaithful ==
  \A r, s \in Requests : req[r].answer = s =>
    /\ Fingerprint[r] = Fingerprint[s]
    /\ \E e \in effects : e.ok /\ e.by = s /\ req[r].now < e.at + TTL
=============================================================================
