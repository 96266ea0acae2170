-------------------------- MODULE IdempotencyProofs --------------------------
(***************************************************************************)
(* Proofs about Idempotency, for any requests, lifetimes and failures:     *)
(* type correctness, that the requests of a key execute one at a time,     *)
(* that nothing executes after a success while no record expires, and that *)
(* what is replayed is the response of a successful execution.             *)
(***************************************************************************)
EXTENDS Idempotency, TLAPS

-----------------------------------------------------------------------------
\* Type correctness.

Records == [pc : {"idle", "get", "expired", "again", "retry", "run",
                  "succeed", "fail", "done"},
            now : Nat, id : Nat, status : Statuses, answer : Answers]

\* What every step uses of the types.
LEMMA Facts ==
  ASSUME TypeOK
  PROVE  /\ {Timeout, Backoff, TTL, MaxLag, MaxFaults} \subseteq Nat
         /\ MaxLag < Timeout /\ Timeout <= TTL
         /\ row \in Rows /\ lastId \in Nat /\ clock \in Nat
         /\ req \in [Requests -> Records]
         /\ effects \subseteq [by : Requests, at : Nat, ok : BOOLEAN]
         /\ faults \in 0 .. MaxFaults
         /\ row.id \in Nat /\ row.status \in Statuses /\ row.body \in Bodies
         /\ row.lockedUntil \in Nat /\ row.expiresAt \in Nat
         /\ \A r \in Requests : req[r].now \in Nat /\ req[r].id \in Nat
BY IdempotencyAssumption DEF IdempotencyAssumption, TypeOK, Rows, Records

\* The three ways a request moves keep its record well typed.
LEMMA AnswerType ==
  ASSUME TypeOK, NEW r \in Requests, NEW a \in Answers, Answer(r, a)
  PROVE  req' \in [Requests -> Records]
BY Facts DEF Answer, Records

LEMMA GotoType ==
  ASSUME TypeOK, NEW r \in Requests,
         NEW l \in {"expired", "again", "retry", "run", "succeed", "fail", "done"},
         Goto(r, l) \/ Remember(r, l)
  PROVE  req' \in [Requests -> Records]
<1>1. req[r] \in Records /\ row.id \in Nat /\ row.status \in Statuses
  BY Facts
<1>2. /\ [req[r] EXCEPT !.pc = l] \in Records
      /\ [req[r] EXCEPT !.pc = l, !.id = row.id, !.status = row.status] \in Records
  BY <1>1 DEF Records
<1>. QED
  BY <1>2, Facts DEF Goto, Remember

LEMMA FaultType == ASSUME TypeOK, Fault PROVE faults' \in 0 .. MaxFaults
BY Facts DEF Fault

LEMMA IdempotencyTypeNext == TypeOK /\ [Next]_vars => TypeOK'
<1>. SUFFICES ASSUME TypeOK, [Next]_vars PROVE TypeOK'
  OBVIOUS
<1>f. faults' = faults \/ Fault => faults' \in 0 .. MaxFaults
  BY Facts, FaultType
<1>1. ASSUME NEW r \in Requests, Submit(r) PROVE TypeOK'
  <2>1. /\ clock + Timeout \in Nat /\ clock + TTL \in Nat /\ lastId + 1 \in Nat
        /\ Fingerprint[r] \in {Fingerprint[s] : s \in Requests}
    BY Facts
  <2>2. Inserted(lastId + 1, Fingerprint[r], clock + Timeout, clock + TTL) \in Rows
    BY <2>1 DEF Inserted, Rows, Statuses, Bodies
  <2>3. row' \in Rows /\ lastId' \in Nat
    BY <1>1, <2>1, <2>2, Facts DEF Submit
  <2>4. req' \in [Requests -> Records]
    <3>1. CASE Answer(r, "unavailable")
      BY <3>1, AnswerType DEF Answers, FixedAnswers
    <3>2. CASE req' = [req EXCEPT ![r] = [@ EXCEPT !.pc = "get", !.now = clock]]
      BY <3>2, Facts DEF Records
    <3>3. CASE req' = [req EXCEPT ![r] = [@ EXCEPT !.pc = "run", !.now = clock,
                                                   !.id = lastId + 1]]
      <4>1. req[r] \in Records /\ req \in [Requests -> Records] /\ clock \in Nat
        BY Facts
      <4>2. [req[r] EXCEPT !.pc = "run", !.now = clock, !.id = lastId + 1] \in Records
        BY <2>1, <4>1 DEF Records
      <4>. QED
        BY <3>3, <4>1, <4>2
    <3>. QED
      BY <1>1, <3>1, <3>2, <3>3 DEF Submit
  <2>. QED
    BY <1>1, <1>f, <2>3, <2>4, Facts DEF Submit, TypeOK, Records
<1>2. ASSUME NEW r \in Requests, GetExisting(r) PROVE TypeOK'
  <2>1. req' \in [Requests -> Records]
    <3>1. \/ Remember(r, "expired") \/ Remember(r, "retry")
          \/ \E a \in {"unavailable", "conflict", "in_progress", "backoff", row.body} :
               Answer(r, a)
      BY <1>2 DEF GetExisting, AnswerFrom
    <3>2. {"unavailable", "conflict", "in_progress", "backoff", row.body}
            \subseteq Answers
      BY Facts DEF Answers, FixedAnswers
    <3>. QED
      BY <3>1, <3>2, AnswerType, GotoType
  <2>. QED
    BY <1>2, <1>f, <2>1, Facts DEF GetExisting, TypeOK, Records
<1>3. ASSUME NEW r \in Requests, Reclaim(r) PROVE TypeOK'
  <2>1. req[r].now + Timeout \in Nat /\ req[r].now + TTL \in Nat
    BY Facts
  <2>2. Reclaimed(row, req[r].now + Timeout, req[r].now + TTL) \in Rows
    BY <2>1, Facts DEF Reclaimed, Rows, Statuses
  <2>3. row' \in Rows
    BY <1>3, <2>2, Facts DEF Reclaim
  <2>4. req' \in [Requests -> Records]
    <3>1. \/ Goto(r, "run") \/ Goto(r, "again")
          \/ Answer(r, "in_progress") \/ Answer(r, "unavailable")
      BY <1>3 DEF Reclaim
    <3>. QED
      BY <3>1, AnswerType, GotoType DEF Answers, FixedAnswers
  <2>. QED
    BY <1>3, <1>f, <2>3, <2>4, Facts DEF Reclaim, TypeOK, Records
<1>4. ASSUME NEW r \in Requests, Run(r) PROVE TypeOK'
  <2>1. req' \in [Requests -> Records]
    BY <1>4, GotoType DEF Run
  <2>2. effects' \subseteq [by : Requests, at : Nat, ok : BOOLEAN]
    <3>1. \A ok \in BOOLEAN : Effect(r, ok) \in [by : Requests, at : Nat, ok : BOOLEAN]
      BY Facts DEF Effect
    <3>2. \E ok \in BOOLEAN : effects' \in {effects, effects \cup {Effect(r, ok)}}
      BY <1>4 DEF Run
    <3>. QED
      BY <3>1, <3>2, Facts
  <2>. QED
    BY <1>4, <2>1, <2>2, Facts DEF Run, TypeOK, Records
<1>5. ASSUME NEW r \in Requests, MarkSucceeded(r) PROVE TypeOK'
  <2>1. req[r].now + TTL \in Nat /\ Body(r) \in Bodies
    BY Facts DEF Body, Bodies
  <2>2. Succeeded(row, req[r].id, Body(r), req[r].now + TTL) \in Rows
    BY <2>1, Facts DEF Succeeded, Rows, Statuses
  <2>3. row' \in Rows /\ req' \in [Requests -> Records]
    BY <1>5, <2>2, AnswerType, Facts DEF MarkSucceeded, Answers, FixedAnswers
  <2>. QED
    BY <1>5, <1>f, <2>3, Facts DEF MarkSucceeded, TypeOK, Records
<1>6. ASSUME NEW r \in Requests, MarkFailed(r) PROVE TypeOK'
  <2>1. req[r].now + TTL \in Nat /\ clock + Backoff \in Nat
    BY Facts
  <2>2. Failed(row, req[r].id, clock + Backoff, req[r].now + TTL) \in Rows
    BY <2>1, Facts DEF Failed, Rows, Statuses
  <2>3. row' \in Rows /\ req' \in [Requests -> Records]
    BY <1>6, <2>2, AnswerType, Facts DEF MarkFailed, Answers, FixedAnswers
  <2>. QED
    BY <1>6, <1>f, <2>3, Facts DEF MarkFailed, TypeOK, Records
<1>7. ASSUME NEW r \in Requests, Crash(r) PROVE TypeOK'
  <2>1. req' \in [Requests -> Records]
    BY <1>7, GotoType DEF Crash
  <2>. QED
    BY <1>7, <1>f, <2>1, Facts DEF Crash, TypeOK, Records
<1>8. CASE DeleteExpired
  BY <1>8, Facts DEF DeleteExpired, Absent, Rows, Statuses, Bodies, TypeOK, Records
<1>9. CASE Tick
  BY <1>9, Facts DEF Tick, TypeOK, Records
<1>10. CASE UNCHANGED vars
  BY <1>10 DEF vars, TypeOK
<1>. QED
  BY <1>1, <1>2, <1>3, <1>4, <1>5, <1>6, <1>7, <1>8, <1>9, <1>10 DEF Next

LEMMA IdempotencyTypeInit == Init => TypeOK
<1>1. Absent \in Rows
  BY DEF Absent, Rows, Statuses, Bodies
<1>. QED
  BY <1>1, IdempotencyAssumption DEF IdempotencyAssumption, Init, TypeOK, Statuses,
     Answers, FixedAnswers

\* The variables of the coordinator keep their types.
THEOREM IdempotencyTypeCorrect == Spec => []TypeOK
BY IdempotencyTypeInit, IdempotencyTypeNext, PTL DEF Spec

-----------------------------------------------------------------------------
\* One execution at a time.

\* What a claiming request knows: its clock reading is recent, and what it means
\* to reclaim had an id and, on the retry path, had failed.
ClaimInv ==
  \A r \in Requests :
    /\ req[r].now <= clock
    /\ Claiming(r) => clock <= req[r].now + MaxLag
    /\ req[r].pc \in {"expired", "retry"} => req[r].id # 0
    /\ At(r, "retry") => req[r].status = "failed_retryable"

\* The record of an executing request is its own and has not expired.
ExecuteInv ==
  \A r \in Requests : Executing(r) =>
    /\ row.id = req[r].id
    /\ row.id # 0
    /\ row.status = "processing"
    /\ row.expiresAt = req[r].now + TTL
    /\ clock < row.expiresAt

\* A request that saw the record expired cannot take it from one that has
\* reclaimed it since: the new lock ends after the request's clock reading.
LateClaimInv ==
  \A r, s \in Requests :
    Executing(r) /\ At(s, "expired") => req[s].now < row.lockedUntil

KeyInv == TypeOK /\ ClaimInv /\ ExecuteInv /\ LateClaimInv /\ OneExecutionAtATime
KeyStep == ClaimInv' /\ ExecuteInv' /\ LateClaimInv' /\ OneExecutionAtATime'

Others(r) == \A s \in Requests \ {r} : req'[s] = req[s]

\* Nobody reclaims the record of an executing request.
LEMMA ExecutionBlocks ==
  ASSUME KeyInv, NEW r \in Requests, Executing(r), NEW s \in Requests,
         req[s].pc \in {"expired", "retry"}
  PROVE  ~CanReclaim(row, req[s].id, req[s].status, req[s].now)
<1>1. CASE At(s, "retry")
  BY <1>1 DEF KeyInv, ClaimInv, ExecuteInv, CanReclaim
<1>2. CASE At(s, "expired")
  BY <1>2, Facts DEF KeyInv, LateClaimInv, CanReclaim
<1>. QED
  BY <1>1, <1>2 DEF At

\* A claim by a request when nobody executes keeps the invariant.
LEMMA ClaimKeeps ==
  ASSUME KeyInv, NEW r \in Requests, Others(r),
         \A s \in Requests : ~Executing(s),
         req'[r].pc = "run", req'[r].now \in Nat, req'[r].now <= clock,
         clock <= req'[r].now + MaxLag, clock' = clock,
         row'.id = req'[r].id, row'.id # 0, row'.status = "processing",
         row'.lockedUntil = req'[r].now + Timeout,
         row'.expiresAt = req'[r].now + TTL
  PROVE  KeyStep
<1>1. \A s \in Requests \ {r} : ~Executing(s)'
  BY DEF Others, Executing
<1>2. ClaimInv'
  BY DEF KeyInv, ClaimInv, Others, Claiming, At
<1>3. clock < row'.lockedUntil /\ clock < row'.expiresAt
  BY Facts DEF KeyInv
<1>4. ExecuteInv'
  BY <1>1, <1>3 DEF ExecuteInv, Executing
<1>5. LateClaimInv'
  <2>1. ASSUME NEW s \in Requests, At(s, "expired")'
        PROVE  req'[s].now < row'.lockedUntil
    <3>1. req'[s].now = req[s].now /\ req[s].now <= clock
      BY <2>1 DEF At, Others, KeyInv, ClaimInv
    <3>. QED
      BY <1>3, <3>1, Facts DEF KeyInv
  <2>. QED
    BY <1>1, <2>1 DEF LateClaimInv
<1>. QED
  BY <1>1, <1>2, <1>4, <1>5 DEF KeyStep, OneExecutionAtATime

\* A move of a request that claims nothing and leaves the record alone keeps it.
LEMMA MoveKeeps ==
  ASSUME KeyInv, NEW r \in Requests, Others(r), UNCHANGED <<row, clock>>,
         ~Executing(r)' \/ (Executing(r) /\ req'[r].id = req[r].id
                                        /\ req'[r].now = req[r].now),
         req'[r].now <= clock,
         Claiming(r)' => clock <= req'[r].now + MaxLag,
         req'[r].pc \in {"expired", "retry"} => req'[r].id # 0,
         At(r, "retry")' => req'[r].status = "failed_retryable",
         At(r, "expired")' => \A s \in Requests : ~Executing(s)
  PROVE  KeyStep
<1>1. \A s \in Requests : Executing(s)' => /\ Executing(s)
                                          /\ req'[s].id = req[s].id
                                          /\ req'[s].now = req[s].now
  BY DEF Others, Executing
<1>2. ClaimInv'
  BY DEF KeyInv, ClaimInv, Others, Claiming, At
<1>3. ExecuteInv'
  BY <1>1 DEF KeyInv, ExecuteInv
<1>4. LateClaimInv'
  <2>1. ASSUME NEW q \in Requests, NEW s \in Requests,
               Executing(q)', At(s, "expired")'
        PROVE  req'[s].now < row'.lockedUntil
    <3>1. s # r
      BY <1>1, <2>1
    <3>2. req'[s] = req[s] /\ At(s, "expired")
      BY <2>1, <3>1 DEF Others, At
    <3>. QED
      BY <1>1, <2>1, <3>2 DEF KeyInv, LateClaimInv
  <2>. QED
    BY <2>1 DEF LateClaimInv
<1>. QED
  BY <1>1, <1>2, <1>3, <1>4 DEF KeyStep, KeyInv, OneExecutionAtATime

\* So does the end of a request during which nobody else executes.
LEMMA EndKeeps ==
  ASSUME KeyInv, NEW r \in Requests, Others(r), clock' = clock,
         req'[r].pc = "done", req'[r].now = req[r].now,
         \A s \in Requests \ {r} : ~Executing(s)
  PROVE  KeyStep
<1>1. \A s \in Requests : ~Executing(s)'
  BY DEF Others, Executing
<1>2. ClaimInv'
  BY DEF KeyInv, ClaimInv, Others, Claiming, At
<1>. QED
  BY <1>1, <1>2 DEF KeyStep, ExecuteInv, LateClaimInv, OneExecutionAtATime

\* What the two ways of moving a request do to its record.
LEMMA MoveEffect ==
  ASSUME TypeOK, NEW r \in Requests
  PROVE  /\ \A a : Answer(r, a) =>
              /\ req'[r].pc = "done" /\ req'[r].now = req[r].now
              /\ Others(r)
         /\ \A l : Goto(r, l) =>
              /\ req'[r].pc = l /\ req'[r].now = req[r].now
              /\ req'[r].id = req[r].id
              /\ Others(r)
         /\ \A l : Remember(r, l) =>
              /\ req'[r].pc = l /\ req'[r].now = req[r].now
              /\ req'[r].id = row.id /\ req'[r].status = row.status
              /\ Others(r)
<1>1. req \in [Requests -> Records]
  BY Facts
<1>2. ASSUME NEW a, Answer(r, a)
      PROVE  req'[r].pc = "done" /\ req'[r].now = req[r].now /\ Others(r)
  <2>1. req' = [req EXCEPT ![r] = [req[r] EXCEPT !.pc = "done", !.answer = a]]
    BY <1>2 DEF Answer
  <2>2. req'[r] = [req[r] EXCEPT !.pc = "done", !.answer = a] /\ Others(r)
    BY <1>1, <2>1 DEF Others
  <2>. QED
    BY <1>1, <2>2 DEF Records
<1>3. ASSUME NEW l, Goto(r, l)
      PROVE  req'[r].pc = l /\ req'[r].now = req[r].now /\ req'[r].id = req[r].id /\ Others(r)
  <2>1. req'[r] = [req[r] EXCEPT !.pc = l] /\ Others(r)
    BY <1>1, <1>3 DEF Goto, Others
  <2>. QED
    BY <1>1, <2>1 DEF Records
<1>4. ASSUME NEW l, Remember(r, l)
      PROVE  /\ req'[r].pc = l /\ req'[r].now = req[r].now
             /\ req'[r].id = row.id /\ req'[r].status = row.status
             /\ Others(r)
  <2>1. req' = [req EXCEPT ![r] = [req[r] EXCEPT !.pc = l, !.id = row.id, !.status = row.status]]
    BY <1>4 DEF Remember
  <2>2. /\ req'[r] = [req[r] EXCEPT !.pc = l, !.id = row.id, !.status = row.status]
        /\ Others(r)
    BY <1>1, <2>1 DEF Others
  <2>. QED
    BY <1>1, <2>2 DEF Records
<1>. QED
  BY <1>2, <1>3, <1>4

\* An answer given to a request that does not execute.
LEMMA AnswerKeeps ==
  ASSUME KeyInv, NEW r \in Requests, NEW a, Answer(r, a),
         UNCHANGED <<row, clock>>
  PROVE  KeyStep
<1>1. req'[r].pc = "done" /\ req'[r].now = req[r].now /\ Others(r)
  BY MoveEffect DEF KeyInv
<1>2. req[r].now <= clock
  BY DEF KeyInv, ClaimInv
<1>. QED
  BY <1>1, <1>2, MoveKeeps DEF Executing, Claiming, At

LEMMA KeyInit == Init => KeyInv
BY IdempotencyTypeInit
   DEF Init, KeyInv, ClaimInv, ExecuteInv, LateClaimInv, OneExecutionAtATime,
       Executing, Claiming, At

LEMMA KeyNext ==
  ASSUME KeyInv, [Next]_vars
  PROVE  KeyInv'
<1>0. TypeOK'
  BY IdempotencyTypeNext DEF KeyInv
<1>. SUFFICES KeyStep
  BY <1>0 DEF KeyInv, KeyStep
<1>t. TypeOK
  BY DEF KeyInv
<1>now. \A r \in Requests : req[r].now <= clock
  BY DEF KeyInv, ClaimInv
<1>lag. \A r \in Requests : Claiming(r) => clock <= req[r].now + MaxLag
  BY DEF KeyInv, ClaimInv
<1>1. ASSUME NEW r \in Requests, Submit(r) PROVE KeyStep
  <2>1. CASE req' = [req EXCEPT ![r] = [@ EXCEPT !.pc = "get", !.now = clock]]
             /\ row' = row
    <3>1. /\ req'[r].pc = "get" /\ req'[r].now = clock
          /\ Others(r) /\ UNCHANGED <<row, clock>>
      BY <1>1, <1>t, <2>1, Facts DEF Submit, Others, Records
    <3>2. clock <= clock /\ clock <= clock + MaxLag
      BY <1>t, Facts
    <3>. QED
      BY <3>1, <3>2, MoveKeeps DEF Executing, Claiming, At
  <2>2. CASE /\ ~Exists(row)
             /\ row' = Inserted(lastId + 1, Fingerprint[r], clock + Timeout,
                                clock + TTL)
             /\ req' = [req EXCEPT ![r] = [@ EXCEPT !.pc = "run", !.now = clock,
                                                    !.id = lastId + 1]]
    <3>1. /\ req'[r].pc = "run" /\ req'[r].now = clock /\ req'[r].id = lastId + 1
          /\ Others(r) /\ clock' = clock
      BY <1>1, <1>t, <2>2, Facts DEF Submit, Others, Records
    <3>2. /\ row'.id = lastId + 1 /\ row'.status = "processing"
          /\ row'.lockedUntil = clock + Timeout /\ row'.expiresAt = clock + TTL
      BY <2>2 DEF Inserted
    <3>3. \A s \in Requests : ~Executing(s)
      BY <2>2 DEF Exists, KeyInv, ExecuteInv
    <3>4. clock <= clock + MaxLag /\ clock \in Nat /\ lastId + 1 # 0
      BY <1>t, Facts
    <3>. QED
      BY <3>1, <3>2, <3>3, <3>4, ClaimKeeps
  <2>3. CASE Answer(r, "unavailable") /\ row' = row
    BY <1>1, <2>3, AnswerKeeps DEF Submit
  <2>4. CASE Answer(r, "unavailable") /\ ~Exists(row)
    <3>1. \A s \in Requests : ~Executing(s)
      BY <2>4 DEF Exists, KeyInv, ExecuteInv
    <3>. QED
      BY <1>1, <1>t, <2>4, <3>1, MoveEffect, EndKeeps DEF Submit
  <2>. QED
    BY <1>1, <2>1, <2>2, <2>3, <2>4 DEF Submit
<1>2. ASSUME NEW r \in Requests, GetExisting(r) PROVE KeyStep
  <2>0. UNCHANGED <<row, clock>> /\ Claiming(r)
    BY <1>2 DEF GetExisting, Claiming
  <2>1. CASE Exists(row) /\ Remember(r, "expired") /\ row.expiresAt <= req[r].now
    <3>1. /\ req'[r].pc = "expired" /\ req'[r].now = req[r].now
          /\ req'[r].id # 0 /\ Others(r)
      BY <1>t, <2>1, MoveEffect DEF Exists
    <3>2. \A s \in Requests : ~Executing(s)
      BY <1>now, <1>t, <2>1, Facts DEF KeyInv, ExecuteInv
    <3>. QED
      BY <1>now, <1>lag, <2>0, <3>1, <3>2, MoveKeeps DEF Executing, Claiming, At
  <2>2. CASE Exists(row) /\ Remember(r, "retry") /\ row.status = "failed_retryable"
    <3>1. /\ req'[r].pc = "retry" /\ req'[r].now = req[r].now
          /\ req'[r].id # 0 /\ req'[r].status = "failed_retryable" /\ Others(r)
      BY <1>t, <2>2, MoveEffect DEF Exists
    <3>. QED
      BY <1>now, <1>lag, <2>0, <3>1, MoveKeeps DEF Executing, Claiming, At
  <2>3. ASSUME NEW a, Answer(r, a) PROVE KeyStep
    BY <2>0, <2>3, AnswerKeeps
  <2>. QED
    BY <1>2, <2>1, <2>2, <2>3 DEF GetExisting, AnswerFrom, SameRequest
<1>3. ASSUME NEW r \in Requests, Reclaim(r) PROVE KeyStep
  <2>0. /\ req[r].pc \in {"expired", "retry"} /\ Claiming(r) /\ clock' = clock
        /\ req[r].now <= clock /\ clock <= req[r].now + MaxLag
    BY <1>3, <1>now, <1>lag DEF Reclaim, Claiming
  <2>1. CASE CanReclaim(row, req[r].id, req[r].status, req[r].now)
             /\ Answer(r, "unavailable")
    <3>1. \A s \in Requests : ~Executing(s)
      BY <2>0, <2>1, ExecutionBlocks
    <3>. QED
      BY <1>t, <2>0, <2>1, <3>1, MoveEffect, EndKeeps
  <2>2. CASE CanReclaim(row, req[r].id, req[r].status, req[r].now)
             /\ row' = Reclaimed(row, req[r].now + Timeout, req[r].now + TTL)
             /\ Goto(r, "run")
    <3>1. \A s \in Requests : ~Executing(s)
      BY <2>0, <2>2, ExecutionBlocks
    <3>2. /\ req'[r].pc = "run" /\ req'[r].now = req[r].now
          /\ req'[r].id = req[r].id /\ Others(r)
      BY <1>t, <2>2, MoveEffect
    <3>3. /\ row'.id = row.id /\ row'.status = "processing"
          /\ row'.lockedUntil = req[r].now + Timeout
          /\ row'.expiresAt = req[r].now + TTL
      BY <1>t, <2>2, Facts DEF Reclaimed, Rows
    <3>4. row.id = req[r].id /\ row.id # 0
      BY <2>0, <2>2 DEF CanReclaim, KeyInv, ClaimInv, At
    <3>. QED
      BY <1>t, <2>0, <3>1, <3>2, <3>3, <3>4, ClaimKeeps, Facts
  <2>3. CASE row' = row /\ Goto(r, "again")
    <3>1. req'[r].pc = "again" /\ req'[r].now = req[r].now /\ Others(r)
      BY <1>t, <2>3, MoveEffect
    <3>. QED
      BY <2>0, <2>3, <3>1, MoveKeeps DEF Executing, Claiming, At
  <2>4. ASSUME row' = row, NEW a, Answer(r, a) PROVE KeyStep
    BY <2>0, <2>4, AnswerKeeps
  <2>. QED
    BY <1>3, <2>1, <2>2, <2>3, <2>4 DEF Reclaim
<1>4. ASSUME NEW r \in Requests, Run(r) PROVE KeyStep
  <2>1. /\ req[r].pc = "run" /\ req'[r].pc \in {"succeed", "fail"}
        /\ req'[r].now = req[r].now /\ req'[r].id = req[r].id
        /\ Others(r) /\ UNCHANGED <<row, clock>>
    BY <1>4, <1>t, MoveEffect DEF Run, At
  <2>. QED
    BY <1>now, <2>1, MoveKeeps DEF Executing, Claiming, At
<1>5. ASSUME NEW r \in Requests, MarkSucceeded(r) \/ MarkFailed(r) PROVE KeyStep
  <2>1. Executing(r)
    BY <1>5 DEF MarkSucceeded, MarkFailed, At, Executing
  <2>2. \A s \in Requests \ {r} : ~Executing(s)
    BY <2>1 DEF KeyInv, OneExecutionAtATime
  <2>3. /\ req'[r].pc = "done" /\ req'[r].now = req[r].now
        /\ Others(r) /\ clock' = clock
    BY <1>5, <1>t, MoveEffect DEF MarkSucceeded, MarkFailed
  <2>. QED
    BY <2>2, <2>3, EndKeeps
<1>6. ASSUME NEW r \in Requests, Crash(r) PROVE KeyStep
  <2>1. /\ req'[r].pc = "done" /\ req'[r].now = req[r].now
        /\ Others(r) /\ UNCHANGED <<row, clock>>
    BY <1>6, <1>t, MoveEffect DEF Crash
  <2>. QED
    BY <1>now, <2>1, MoveKeeps DEF Executing, Claiming, At
<1>7. CASE DeleteExpired
  <2>1. row.expiresAt <= clock /\ UNCHANGED <<req, clock>>
    BY <1>7 DEF DeleteExpired, Expired
  <2>2. \A s \in Requests : ~Executing(s)
    BY <1>t, <2>1, Facts DEF KeyInv, ExecuteInv
  <2>. QED
    BY <2>1, <2>2 DEF KeyStep, KeyInv, ClaimInv, ExecuteInv, LateClaimInv,
        OneExecutionAtATime, Executing, Claiming, At
<1>8. CASE Tick
  <2>1. clock' = clock + 1 /\ UNCHANGED <<row, req>>
    BY <1>8 DEF Tick
  <2>2. ClaimInv'
    <3>1. \A r \in Requests : Claiming(r) => clock < req[r].now + MaxLag
      BY <1>8 DEF Tick
    <3>. QED
      BY <1>now, <1>t, <2>1, <3>1, Facts DEF KeyInv, ClaimInv, Claiming, At
  <2>3. ExecuteInv'
    <3>1. \A r \in Requests : Executing(r) => clock + 1 < req[r].now + TTL
      BY <1>8 DEF Tick
    <3>. QED
      BY <2>1, <3>1 DEF KeyInv, ExecuteInv, Executing
  <2>4. LateClaimInv' /\ OneExecutionAtATime'
    BY <2>1 DEF KeyInv, LateClaimInv, OneExecutionAtATime, Executing, At
  <2>. QED
    BY <2>2, <2>3, <2>4 DEF KeyStep
<1>9. CASE UNCHANGED vars
  BY <1>9 DEF vars, KeyStep, KeyInv, ClaimInv, ExecuteInv, LateClaimInv,
      OneExecutionAtATime, Executing, Claiming, At
<1>. QED
  BY <1>1, <1>2, <1>3, <1>4, <1>5, <1>6, <1>7, <1>8, <1>9 DEF Next

\* Requests with the same key execute one at a time, across expiry, cleanup and
\* any failures, as long as an execution ends before its record expires.
THEOREM ExecutionsExclude == Spec => []OneExecutionAtATime
<1>1. KeyInv /\ [Next]_vars => KeyInv'
  BY KeyNext
<1>2. KeyInv => OneExecutionAtATime
  BY DEF KeyInv
<1>. QED
  BY KeyInit, <1>1, <1>2, PTL DEF Spec

-----------------------------------------------------------------------------
\* Nothing executes after a success while no record expires.

\* Time starts at 1, so no record expires as long as the clock is at most TTL.
LifeInv ==
  /\ clock >= 1 /\ clock <= TTL
  /\ Exists(row) => row.expiresAt >= TTL + 1
  /\ \A r \in Requests :
       /\ ~At(r, "idle") /\ ~At(r, "done") => req[r].now >= 1
       /\ ~At(r, "expired")

Had == \E e \in effects : e.ok

\* The first success closes the key: its record stays processing or succeeded,
\* and nobody is about to execute or has just failed.
SingleInv ==
  /\ Had => Exists(row) /\ row.status \in {"processing", "succeeded"}
  /\ \A r \in Requests : req[r].pc \in {"run", "fail"} => ~Had

LEMMA LifeNext ==
  ASSUME KeyInv, LifeInv, [Next]_vars, clock' <= TTL
  PROVE  LifeInv'
<1>t. /\ TypeOK
      /\ {Timeout, TTL} \subseteq Nat /\ clock \in Nat /\ lastId \in Nat
      /\ row \in Rows /\ row.expiresAt \in Nat
      /\ req \in [Requests -> Records]
      /\ \A r \in Requests : req[r].now \in Nat /\ req[r].now <= clock
  BY Facts, IdempotencyAssumption DEF IdempotencyAssumption, KeyInv, ClaimInv
<1>1. ASSUME NEW r \in Requests, Others(r), clock' = clock,
             row' = row \/ ~Exists(row)' \/ row'.expiresAt >= TTL + 1,
             req'[r].pc # "expired",
             req'[r].pc # "done" => req'[r].now >= 1
      PROVE  LifeInv'
  <2>1. Exists(row)' => row'.expiresAt >= TTL + 1
    BY <1>1 DEF LifeInv, Exists
  <2>2. \A s \in Requests :
          /\ ~At(s, "idle")' /\ ~At(s, "done")' => req'[s].now >= 1
          /\ ~At(s, "expired")'
    BY <1>1 DEF LifeInv, Others, At
  <2>. QED
    BY <1>1, <2>1, <2>2 DEF LifeInv
<1>2. ASSUME NEW r \in Requests, Submit(r) PROVE LifeInv'
  <2>1. CASE Answer(r, "unavailable")
    <3>1. Exists(row)' => (row' = row \/ row'.expiresAt = clock + TTL)
      BY <1>2 DEF Submit, Inserted
    <3>2. clock + TTL >= TTL + 1
      BY <1>t DEF LifeInv
    <3>3. req'[r].pc = "done" /\ Others(r) /\ clock' = clock
      BY <1>2, <1>t, <2>1, MoveEffect DEF Submit
    <3>. QED
      BY <1>1, <3>1, <3>2, <3>3
  <2>2. CASE ~Answer(r, "unavailable")
    <3>1. row' = row \/ row' = Inserted(lastId + 1, Fingerprint[r],
                                       clock + Timeout, clock + TTL)
      BY <1>2, <2>2 DEF Submit
    <3>2. row' = row \/ row'.expiresAt = clock + TTL
      BY <3>1 DEF Inserted
    <3>3. /\ req'[r].pc \in {"get", "run"} /\ req'[r].now = clock
          /\ Others(r) /\ clock' = clock
      <4>1. CASE req' = [req EXCEPT ![r] = [req[r] EXCEPT !.pc = "get", !.now = clock]]
        <5>1. req'[r] = [req[r] EXCEPT !.pc = "get", !.now = clock] /\ Others(r)
          BY <1>t, <4>1 DEF Others
        <5>. QED
          BY <1>2, <1>t, <5>1 DEF Submit, Records
      <4>2. CASE req' = [req EXCEPT ![r] = [req[r] EXCEPT !.pc = "run", !.now = clock,
                                                          !.id = lastId + 1]]
        <5>1. /\ req'[r] = [req[r] EXCEPT !.pc = "run", !.now = clock, !.id = lastId + 1]
              /\ Others(r)
          BY <1>t, <4>2 DEF Others
        <5>. QED
          BY <1>2, <1>t, <5>1 DEF Submit, Records
      <4>. QED
        BY <1>2, <2>2, <4>1, <4>2 DEF Submit
    <3>4. clock >= 1 /\ clock + TTL >= TTL + 1
      BY <1>t DEF LifeInv
    <3>. QED
      BY <1>1, <3>2, <3>3, <3>4
  <2>. QED
    BY <2>1, <2>2
<1>3. ASSUME NEW r \in Requests, GetExisting(r) PROVE LifeInv'
  <2>0. UNCHANGED <<row, clock>> /\ req[r].now >= 1
    BY <1>3 DEF GetExisting, LifeInv, At
  <2>1. Exists(row) => ~(row.expiresAt <= req[r].now)
    BY <1>t DEF LifeInv
  <2>2. Remember(r, "retry") \/ \E a : Answer(r, a)
    BY <1>3, <2>1 DEF GetExisting, AnswerFrom, SameRequest
  <2>3. /\ req'[r].pc \in {"retry", "done"} /\ req'[r].now = req[r].now
        /\ Others(r)
    BY <1>t, <2>2, MoveEffect
  <2>. QED
    BY <1>1, <2>0, <2>3
<1>4. ASSUME NEW r \in Requests, Reclaim(r) PROVE LifeInv'
  <2>0. clock' = clock /\ req[r].now >= 1 /\ req[r].now + TTL >= TTL + 1
    BY <1>4, <1>t DEF Reclaim, LifeInv, At
  <2>1. row' = row \/ row' = Reclaimed(row, req[r].now + Timeout, req[r].now + TTL)
    BY <1>4 DEF Reclaim
  <2>2. row' = row \/ row'.expiresAt = req[r].now + TTL
    BY <1>t, <2>1 DEF Reclaimed, Rows
  <2>3. /\ req'[r].pc \in {"run", "again", "done"} /\ req'[r].now = req[r].now
        /\ Others(r)
    BY <1>4, <1>t, MoveEffect DEF Reclaim
  <2>. QED
    BY <1>1, <2>0, <2>2, <2>3
<1>5. ASSUME NEW r \in Requests, Run(r) PROVE LifeInv'
  <2>1. /\ req'[r].pc \in {"succeed", "fail"} /\ req'[r].now = req[r].now
        /\ Others(r) /\ UNCHANGED <<row, clock>>
    BY <1>5, <1>t, MoveEffect DEF Run
  <2>2. req[r].now >= 1
    BY <1>5 DEF Run, At, LifeInv
  <2>. QED
    BY <1>1, <2>1, <2>2
<1>6. ASSUME NEW r \in Requests, MarkSucceeded(r) \/ MarkFailed(r) PROVE LifeInv'
  <2>1. /\ req'[r].pc = "done" /\ Others(r) /\ clock' = clock
    BY <1>6, <1>t, MoveEffect DEF MarkSucceeded, MarkFailed
  <2>2. req[r].now + TTL >= TTL + 1
    BY <1>6, <1>t DEF MarkSucceeded, MarkFailed, At, LifeInv
  <2>3. row' \in {row, Succeeded(row, req[r].id, Body(r), req[r].now + TTL),
                  Failed(row, req[r].id, clock + Backoff, req[r].now + TTL)}
    BY <1>6 DEF MarkSucceeded, MarkFailed
  <2>4. row' = row \/ row'.expiresAt = req[r].now + TTL
    BY <1>t, <2>3 DEF Succeeded, Failed, Rows
  <2>. QED
    BY <1>1, <2>1, <2>2, <2>4
<1>7. ASSUME NEW r \in Requests, Crash(r) PROVE LifeInv'
  <2>1. /\ req'[r].pc = "done" /\ Others(r) /\ UNCHANGED <<row, clock>>
    BY <1>7, <1>t, MoveEffect DEF Crash
  <2>. QED
    BY <1>1, <2>1
<1>8. CASE DeleteExpired
  BY <1>8, <1>t DEF DeleteExpired, Expired, LifeInv
<1>9. CASE Tick
  <2>1. clock' = clock + 1 /\ UNCHANGED <<row, req>>
    BY <1>9 DEF Tick
  <2>2. clock' >= 1 /\ clock' <= TTL
    BY <1>t, <2>1 DEF LifeInv
  <2>. QED
    BY <2>1, <2>2 DEF LifeInv, Exists, At
<1>10. CASE UNCHANGED vars
  BY <1>10 DEF vars, LifeInv, Exists, At
<1>. QED
  BY <1>2, <1>3, <1>4, <1>5, <1>6, <1>7, <1>8, <1>9, <1>10 DEF Next

LEMMA SingleNext ==
  ASSUME KeyInv, LifeInv, SingleInv, [Next]_vars
  PROVE  SingleInv'
<1>t. /\ TypeOK
      /\ TTL \in Nat /\ clock \in Nat /\ lastId \in Nat
      /\ row \in Rows /\ row.expiresAt \in Nat
      /\ req \in [Requests -> Records]
  BY Facts, IdempotencyAssumption DEF IdempotencyAssumption, KeyInv
<1>1. ASSUME NEW r \in Requests, Others(r), Had' <=> Had,
             req'[r].pc \in {"run", "fail"} => ~Had,
             Had =>
               row'.id = row.id /\ row'.status \in {"processing", "succeeded"}
      PROVE  SingleInv'
  BY <1>1 DEF SingleInv, Others, Exists
<1>2. ASSUME NEW r \in Requests, Submit(r) PROVE SingleInv'
  <2>1. row' = row \/ ~Exists(row)
    BY <1>2 DEF Submit
  <2>2. /\ Others(r) /\ (Had' <=> Had)
        /\ req'[r].pc = "run" => ~Exists(row)
        /\ req'[r].pc # "fail"
    <3>1. CASE Answer(r, "unavailable")
      BY <1>2, <1>t, <3>1, MoveEffect DEF Submit, Had
    <3>2. CASE req' = [req EXCEPT ![r] = [@ EXCEPT !.pc = "get", !.now = clock]]
      BY <1>2, <1>t, <3>2 DEF Submit, Others, Records, Had
    <3>3. CASE /\ ~Exists(row)
               /\ req' = [req EXCEPT ![r] = [@ EXCEPT !.pc = "run", !.now = clock,
                                                      !.id = lastId + 1]]
      BY <1>2, <1>t, <3>3 DEF Submit, Others, Records, Had
    <3>. QED
      BY <1>2, <3>1, <3>2, <3>3 DEF Submit
  <2>. QED
    BY <1>1, <2>1, <2>2 DEF SingleInv
<1>3. ASSUME NEW r \in Requests, GetExisting(r) PROVE SingleInv'
  <2>1. Remember(r, "expired") \/ Remember(r, "retry") \/ \E a : Answer(r, a)
    BY <1>3 DEF GetExisting, AnswerFrom
  <2>2. req'[r].pc \in {"expired", "retry", "done"} /\ Others(r)
    BY <1>t, <2>1, MoveEffect
  <2>3. row' = row /\ (Had' <=> Had)
    BY <1>3 DEF GetExisting, Had
  <2>. QED
    BY <1>1, <2>2, <2>3 DEF SingleInv
<1>4. ASSUME NEW r \in Requests, Reclaim(r) PROVE SingleInv'
  <2>1. At(r, "retry") /\ req[r].status = "failed_retryable" /\ (Had' <=> Had)
    BY <1>4 DEF Reclaim, At, LifeInv, KeyInv, ClaimInv, Had
  <2>2. CanReclaim(row, req[r].id, req[r].status, req[r].now) => ~Had
    BY <2>1 DEF CanReclaim, SingleInv
  <2>3. /\ Others(r) /\ req'[r].pc # "fail"
        /\ req'[r].pc = "run" => ~Had
    BY <1>4, <1>t, <2>2, MoveEffect DEF Reclaim
  <2>4. row' = row \/ ~Had
    BY <1>4, <2>2 DEF Reclaim
  <2>. QED
    BY <1>1, <2>1, <2>3, <2>4 DEF SingleInv
<1>5. ASSUME NEW r \in Requests, Run(r) PROVE SingleInv'
  <2>1. ~Had /\ UNCHANGED row /\ Executing(r)
    BY <1>5 DEF Run, At, SingleInv, Executing
  <2>2. Exists(row) /\ row.status = "processing"
    BY <2>1 DEF KeyInv, ExecuteInv, Exists
  \* An effect of an execution that reports an error is not a success.
  <2>3. CASE Goto(r, "fail") /\ effects' \in {effects, effects \cup {Effect(r, FALSE)}}
    <3>1. Others(r)
      BY <1>t, <2>3, MoveEffect
    <3>2. ~Effect(r, FALSE).ok
      BY DEF Effect
    <3>3. ~Had'
      BY <2>1, <2>3, <3>2 DEF Had
    <3>. QED
      BY <1>1, <2>1, <3>1, <3>3
  <2>4. CASE Goto(r, "succeed")
    <3>1. req'[r].pc = "succeed" /\ Others(r)
      BY <1>t, <2>4, MoveEffect
    <3>2. \A s \in Requests \ {r} : ~Executing(s)
      BY <2>1 DEF KeyInv, OneExecutionAtATime
    <3>3. \A s \in Requests : req'[s].pc \notin {"run", "fail"}
      BY <3>1, <3>2 DEF Others, Executing
    <3>. QED
      BY <2>1, <2>2, <2>4, <3>3 DEF SingleInv, Exists
  <2>. QED
    BY <1>5, <2>3, <2>4 DEF Run
<1>6. ASSUME NEW r \in Requests, MarkSucceeded(r) PROVE SingleInv'
  <2>1. row' \in {row, Succeeded(row, req[r].id, Body(r), req[r].now + TTL)}
    BY <1>6 DEF MarkSucceeded
  <2>2. row'.id = row.id /\ (row'.status = row.status \/ row'.status = "succeeded")
    BY <1>t, <2>1 DEF Succeeded, Rows
  <2>3. req'[r].pc = "done" /\ Others(r) /\ (Had' <=> Had)
    BY <1>6, <1>t, MoveEffect DEF MarkSucceeded, Had
  <2>. QED
    BY <1>1, <2>2, <2>3 DEF SingleInv
<1>7. ASSUME NEW r \in Requests, MarkFailed(r) PROVE SingleInv'
  <2>1. req'[r].pc = "done" /\ Others(r) /\ (Had' <=> Had)
    BY <1>7, <1>t, MoveEffect DEF MarkFailed, Had
  <2>2. ~Had
    BY <1>7 DEF MarkFailed, At, SingleInv
  <2>. QED
    BY <1>1, <2>1, <2>2
<1>8. ASSUME NEW r \in Requests, Crash(r) PROVE SingleInv'
  <2>1. req'[r].pc = "done" /\ Others(r) /\ row' = row /\ (Had' <=> Had)
    BY <1>8, <1>t, MoveEffect DEF Crash, Had
  <2>. QED
    BY <1>1, <2>1 DEF SingleInv
<1>9. CASE DeleteExpired
  <2>1. Exists(row) /\ row.expiresAt <= clock
    BY <1>9 DEF DeleteExpired, Expired
  <2>. QED
    BY <1>t, <2>1 DEF LifeInv
<1>10. CASE Tick \/ UNCHANGED vars
  BY <1>10 DEF Tick, vars, SingleInv, Exists, Had
<1>. QED
  BY <1>2, <1>3, <1>4, <1>5, <1>6, <1>7, <1>8, <1>9, <1>10 DEF Next

\* The clock never goes back.
LEMMA ClockNext ==
  ASSUME TypeOK, [Next]_vars
  PROVE  clock <= clock'
<1>1. clock \in Nat
  BY DEF TypeOK
<1>2. clock' = clock \/ clock' = clock + 1
  BY DEF Next, Submit, GetExisting, Reclaim, Run, MarkSucceeded, MarkFailed, Crash,
     DeleteExpired, Tick, vars
<1>. QED
  BY <1>1, <1>2

\* Before any record can have expired, an operation that has succeeded is never
\* executed again, however often the request is retried and whatever fails,
\* although failed executions, with or without effects, are repeated.  Later it
\* is false: see the run that lets a record expire.
THEOREM EffectIsUnique == Spec => NoEffectAfterSuccess
<1> DEFINE KeptInv == clock <= TTL => LifeInv /\ SingleInv
<1> DEFINE Quiet == clock <= TTL /\ (\E e \in effects : e.ok) => effects' = effects
<1>1. Init => KeptInv
  BY IdempotencyAssumption DEF IdempotencyAssumption, Init, LifeInv, SingleInv, Had,
     Absent, Exists, At
<1>2. KeyInv /\ KeptInv /\ [Next]_vars => KeyInv' /\ KeptInv'
  <2> SUFFICES ASSUME KeyInv, KeptInv, [Next]_vars PROVE KeyInv' /\ KeptInv'
    OBVIOUS
  <2>1. KeyInv'
    BY KeyNext
  <2>2. ASSUME clock' <= TTL PROVE LifeInv' /\ SingleInv'
    <3>1. clock <= TTL
      <4>1. TTL \in Nat /\ clock \in Nat /\ clock' \in Nat
        BY <2>1, IdempotencyAssumption DEF IdempotencyAssumption, KeyInv, TypeOK
      <4>2. clock <= clock'
        BY ClockNext DEF KeyInv
      <4>. QED
        BY <2>2, <4>1, <4>2
    <3>. QED
      BY <2>2, <3>1, LifeNext, SingleNext
  <2>. QED
    BY <2>1, <2>2
\* Only Run adds an effect, and no request is about to run after a success.
<1>3. KeptInv /\ [Next]_vars => [Quiet]_vars
  <2> SUFFICES ASSUME KeptInv, [Next]_vars, clock <= TTL, \E e \in effects : e.ok
               PROVE  effects' = effects
    OBVIOUS
  <2>1. \A r \in Requests : ~Run(r)
    BY DEF SingleInv, Had, Run, At
  <2>. QED
    BY <2>1 DEF Next, Submit, GetExisting, Reclaim, MarkSucceeded, MarkFailed, Crash,
       DeleteExpired, Tick, vars
<1>4. [][Quiet]_vars => NoEffectAfterSuccess
  BY PTL DEF NoEffectAfterSuccess
<1> HIDE DEF KeptInv, Quiet
<1>. QED
  BY KeyInit, <1>1, <1>2, <1>3, <1>4, PTL DEF Spec

-----------------------------------------------------------------------------
\* A replayed answer is the response of a successful execution.

\* Whoever executes, or may still reclaim the record it has seen, carries the
\* request that the record was inserted for: ids are never given out twice.
OwnerInv ==
  /\ row.id <= lastId
  /\ \A r \in Requests :
       /\ req[r].id <= lastId
       /\ Executing(r) => row.fingerprint = Fingerprint[r]
       /\ req[r].pc \in {"expired", "retry"} /\ row.id = req[r].id =>
            row.fingerprint = Fingerprint[r]

HadEffect(s, expiry) == \E e \in effects : e.ok /\ e.by = s /\ expiry = e.at + TTL

\* A stored response is that of an effect, and the record lives as long as it.
BodyInv ==
  /\ \A r \in Requests : At(r, "succeed") => HadEffect(r, req[r].now + TTL)
  /\ row.status = "succeeded" =>
       /\ row.lockedUntil = 0
       /\ row.body \in Requests =>
            /\ row.fingerprint = Fingerprint[row.body]
            /\ HadEffect(row.body, row.expiresAt)

\* A request that found the record expired, and reads it again because somebody
\* was faster, no longer compares the expiry.  It need not: what has succeeded in
\* between outlives its clock reading.
ReaderInv ==
  \A r \in Requests :
    /\ ~At(r, "done") => req[r].answer = "none"
    /\ At(r, "expired") /\ row.status = "succeeded" =>
         \/ req[r].now < row.expiresAt
         \/ row.id = req[r].id /\ req[r].status = "succeeded"
    /\ At(r, "again") /\ row.status = "succeeded" => req[r].now < row.expiresAt

ReplayInv == OwnerInv /\ BodyInv /\ ReaderInv /\ ReplayIsFaithful

\* What the ways of moving a request do to its answer, and leave alone.
LEMMA MoveAnswer ==
  ASSUME TypeOK, NEW r \in Requests
  PROVE  /\ \A a : Answer(r, a) => req'[r].answer = a /\ req'[r].id = req[r].id
         /\ \A l : Goto(r, l) =>
              req'[r].answer = req[r].answer /\ req'[r].status = req[r].status
         /\ \A l : Remember(r, l) => req'[r].answer = req[r].answer
<1>1. req \in [Requests -> Records]
  BY Facts
<1>2. ASSUME NEW a, Answer(r, a)
      PROVE  req'[r].answer = a /\ req'[r].id = req[r].id
  <2>1. req' = [req EXCEPT ![r] = [req[r] EXCEPT !.pc = "done", !.answer = a]]
    BY <1>2 DEF Answer
  <2>2. req'[r] = [req[r] EXCEPT !.pc = "done", !.answer = a]
    BY <1>1, <2>1
  <2>. QED
    BY <1>1, <2>2 DEF Records
<1>3. ASSUME NEW l, Goto(r, l)
      PROVE  req'[r].answer = req[r].answer /\ req'[r].status = req[r].status
  <2>1. req'[r] = [req[r] EXCEPT !.pc = l]
    BY <1>1, <1>3 DEF Goto
  <2>. QED
    BY <1>1, <2>1 DEF Records
<1>4. ASSUME NEW l, Remember(r, l) PROVE req'[r].answer = req[r].answer
  <2>1. req' = [req EXCEPT ![r] = [req[r] EXCEPT !.pc = l, !.id = row.id,
                                                 !.status = row.status]]
    BY <1>4 DEF Remember
  <2>2. req'[r] = [req[r] EXCEPT !.pc = l, !.id = row.id, !.status = row.status]
    BY <1>1, <2>1
  <2>. QED
    BY <1>1, <2>2 DEF Records
<1>. QED
  BY <1>2, <1>3, <1>4

\* No answer but a response is a request.
LEMMA FixedIsNoRequest ==
  \A a \in FixedAnswers \cup {Nothing, Truncated} : a \notin Requests
BY IdempotencyAssumption DEF IdempotencyAssumption

\* A request that answers nothing, or answers something fixed, keeps what was
\* answered faithful as long as no effect is forgotten.
LEMMA FaithfulKeeps ==
  ASSUME TypeOK, ReaderInv, ReplayIsFaithful, NEW r \in Requests, Others(r),
         effects \subseteq effects',
         \/ req'[r].answer = req[r].answer
            /\ (req'[r].now = req[r].now \/ req[r].answer = "none")
         \/ req'[r].answer \notin Requests
  PROVE  ReplayIsFaithful'
<1>1. "none" \notin Requests
  BY FixedIsNoRequest DEF FixedAnswers
<1>2. ASSUME NEW q \in Requests, NEW s \in Requests, req'[q].answer = s
      PROVE  req[q].answer = s /\ req'[q].now = req[q].now
  BY <1>1, <1>2 DEF Others
<1>3. ASSUME NEW q \in Requests, NEW s \in Requests, req'[q].answer = s
      PROVE  /\ Fingerprint[q] = Fingerprint[s]
             /\ \E e \in effects' : e.ok /\ e.by = s /\ req'[q].now < e.at + TTL
  <2>1. req[q].answer = s /\ req'[q].now = req[q].now
    BY <1>2, <1>3
  <2>2. PICK e \in effects : e.ok /\ e.by = s /\ req[q].now < e.at + TTL
    BY <2>1 DEF ReplayIsFaithful
  <2>. QED
    BY <2>1, <2>2 DEF ReplayIsFaithful
<1>. QED
  BY <1>3 DEF ReplayIsFaithful

LEMMA OwnerNext ==
  ASSUME KeyInv, OwnerInv, [Next]_vars
  PROVE  OwnerInv'
<1>t. /\ TypeOK
      /\ lastId \in Nat /\ row \in Rows /\ row.id \in Nat
      /\ req \in [Requests -> Records]
      /\ \A r \in Requests : req[r].id \in Nat
  BY Facts DEF KeyInv
\* The record keeps its id and its owner.
<1>1. ASSUME NEW r \in Requests, Others(r), lastId' = lastId,
             row'.id = row.id, row'.fingerprint = row.fingerprint,
             req'[r].id \in {req[r].id, row.id},
             Executing(r)' => row.fingerprint = Fingerprint[r],
             req'[r].pc \in {"expired", "retry"} => row.fingerprint = Fingerprint[r]
      PROVE  OwnerInv'
  BY <1>1, <1>t DEF OwnerInv, Others, Executing
<1>2. ASSUME NEW r \in Requests, Submit(r) PROVE OwnerInv'
  <2>1. CASE row' = row /\ lastId' = lastId
    <3>1. /\ Others(r) /\ req'[r].id = req[r].id
          /\ req'[r].pc \in {"get", "done"}
      <4>1. CASE Answer(r, "unavailable")
        BY <1>t, <4>1, MoveEffect, MoveAnswer
      <4>2. CASE req' = [req EXCEPT ![r] = [@ EXCEPT !.pc = "get", !.now = clock]]
        BY <1>t, <4>2 DEF Others, Records
      <4>. QED
        BY <1>2, <1>t, <2>1, <4>1, <4>2 DEF Submit
    <3>. QED
      BY <1>1, <2>1, <3>1 DEF Executing
  <2>2. CASE /\ ~Exists(row) /\ lastId' = lastId + 1
             /\ row' = Inserted(lastId + 1, Fingerprint[r], clock + Timeout,
                                clock + TTL)
    <3>1. row'.id = lastId + 1 /\ row'.fingerprint = Fingerprint[r]
      BY <2>2 DEF Inserted
    <3>2. \A s \in Requests : ~Executing(s)
      BY <2>2 DEF Exists, KeyInv, ExecuteInv
    <3>3. /\ Others(r) /\ req'[r].id \in {req[r].id, lastId + 1}
          /\ req'[r].pc \notin {"expired", "retry"}
      <4>1. CASE Answer(r, "unavailable")
        BY <1>t, <4>1, MoveEffect, MoveAnswer
      <4>2. CASE req' = [req EXCEPT ![r] = [@ EXCEPT !.pc = "run", !.now = clock,
                                                     !.id = lastId + 1]]
        BY <1>t, <4>2 DEF Others, Records
      <4>. QED
        BY <1>2, <2>2, <4>1, <4>2 DEF Submit
    <3>4. \A s \in Requests : req[s].id # lastId + 1 /\ req[s].id <= lastId + 1
      BY <1>t DEF OwnerInv
    <3>. QED
      BY <1>t, <2>2, <3>1, <3>2, <3>3, <3>4 DEF OwnerInv, Others, Executing
  <2>. QED
    BY <1>2, <2>1, <2>2 DEF Submit
<1>3. ASSUME NEW r \in Requests, GetExisting(r) PROVE OwnerInv'
  <2>0. UNCHANGED <<row, lastId>> /\ ~Executing(r)
    BY <1>3 DEF GetExisting, Executing
  <2>1. ASSUME NEW a, Answer(r, a) PROVE OwnerInv'
    BY <1>1, <1>t, <2>0, <2>1, MoveEffect, MoveAnswer DEF Executing
  <2>2. CASE SameRequest(r) /\ (Remember(r, "expired") \/ Remember(r, "retry"))
    <3>1. /\ Others(r) /\ req'[r].id = row.id /\ req'[r].pc \in {"expired", "retry"}
      BY <1>t, <2>2, MoveEffect
    <3>. QED
      BY <1>1, <2>0, <2>2, <3>1 DEF SameRequest, Executing
  <2>. QED
    BY <1>3, <2>1, <2>2 DEF GetExisting, AnswerFrom
<1>4. ASSUME NEW r \in Requests, Reclaim(r) PROVE OwnerInv'
  <2>1. lastId' = lastId /\ row'.id = row.id /\ row'.fingerprint = row.fingerprint
    BY <1>4, <1>t DEF Reclaim, Reclaimed, Rows
  <2>2. CASE CanReclaim(row, req[r].id, req[r].status, req[r].now) /\ Goto(r, "run")
    <3>1. row.fingerprint = Fingerprint[r]
      BY <1>4, <2>2 DEF Reclaim, CanReclaim, OwnerInv
    <3>2. Others(r) /\ req'[r].id = req[r].id /\ req'[r].pc = "run"
      BY <1>t, <2>2, MoveEffect
    <3>. QED
      BY <1>1, <2>1, <3>1, <3>2
  <2>3. CASE Goto(r, "again")
    BY <1>1, <1>t, <2>1, <2>3, MoveEffect DEF Executing
  <2>4. ASSUME NEW a, Answer(r, a) PROVE OwnerInv'
    BY <1>1, <1>t, <2>1, <2>4, MoveEffect, MoveAnswer DEF Executing
  <2>. QED
    BY <1>4, <2>2, <2>3, <2>4 DEF Reclaim
<1>5. ASSUME NEW r \in Requests, Run(r) PROVE OwnerInv'
  <2>1. /\ UNCHANGED <<row, lastId>> /\ Executing(r)
        /\ Others(r) /\ req'[r].id = req[r].id /\ req'[r].pc \in {"succeed", "fail"}
    BY <1>5, <1>t, MoveEffect DEF Run, At, Executing
  <2>. QED
    BY <1>1, <2>1 DEF OwnerInv
<1>6. ASSUME NEW r \in Requests, MarkSucceeded(r) \/ MarkFailed(r) PROVE OwnerInv'
  <2>1. row' \in {row, Succeeded(row, req[r].id, Body(r), req[r].now + TTL),
                  Failed(row, req[r].id, clock + Backoff, req[r].now + TTL)}
    BY <1>6 DEF MarkSucceeded, MarkFailed
  <2>2. row'.id = row.id /\ row'.fingerprint = row.fingerprint
    BY <1>t, <2>1 DEF Succeeded, Failed, Rows
  <2>3. /\ lastId' = lastId /\ Others(r) /\ req'[r].id = req[r].id
        /\ req'[r].pc = "done"
    BY <1>6, <1>t, MoveEffect, MoveAnswer DEF MarkSucceeded, MarkFailed
  <2>. QED
    BY <1>1, <2>2, <2>3 DEF Executing
<1>7. ASSUME NEW r \in Requests, Crash(r) PROVE OwnerInv'
  <2>1. /\ UNCHANGED <<row, lastId>> /\ Others(r) /\ req'[r].id = req[r].id
        /\ req'[r].pc = "done"
    BY <1>7, <1>t, MoveEffect DEF Crash
  <2>. QED
    BY <1>1, <2>1 DEF Executing
<1>8. CASE DeleteExpired
  <2>1. \A s \in Requests : ~Executing(s)
    BY <1>8, <1>t, Facts DEF DeleteExpired, Expired, KeyInv, ExecuteInv
  <2>2. UNCHANGED <<req, lastId>> /\ row'.id = 0 /\ row.id # 0
    BY <1>8 DEF DeleteExpired, Absent, Expired, Exists
  <2>3. \A s \in Requests : req[s].pc \in {"expired", "retry"} => req[s].id # 0
    BY DEF KeyInv, ClaimInv
  <2>. QED
    BY <1>t, <2>1, <2>2, <2>3 DEF OwnerInv, Executing
<1>9. CASE Tick \/ UNCHANGED vars
  BY <1>9 DEF Tick, vars, OwnerInv, Executing
<1>. QED
  BY <1>2, <1>3, <1>4, <1>5, <1>6, <1>7, <1>8, <1>9 DEF Next

LEMMA BodyNext ==
  ASSUME KeyInv, OwnerInv, BodyInv, [Next]_vars
  PROVE  BodyInv' /\ effects \subseteq effects'
<1>t. /\ TypeOK /\ TTL \in Nat
      /\ row \in Rows /\ row.id \in Nat
      /\ req \in [Requests -> Records]
      /\ effects \subseteq [by : Requests, at : Nat, ok : BOOLEAN]
  BY Facts DEF KeyInv
\* The record is left alone, or ceases to have succeeded.
<1>1. ASSUME NEW r \in Requests, Others(r), effects' = effects,
             row' = row \/ row'.status # "succeeded",
             req'[r].pc # "succeed"
      PROVE  BodyInv' /\ effects \subseteq effects'
  BY <1>1 DEF BodyInv, HadEffect, Others, At
<1>2. ASSUME NEW r \in Requests, Submit(r) PROVE BodyInv' /\ effects \subseteq effects'
  <2>1. /\ effects' = effects
        /\ row' = row \/ row' = Inserted(lastId + 1, Fingerprint[r],
                                         clock + Timeout, clock + TTL)
    BY <1>2 DEF Submit
  <2>2. row' = row \/ row'.status # "succeeded"
    BY <2>1 DEF Inserted
  <2>3. Others(r) /\ req'[r].pc # "succeed"
    <3>1. CASE Answer(r, "unavailable")
      BY <1>t, <3>1, MoveEffect
    <3>2. CASE req' = [req EXCEPT ![r] = [@ EXCEPT !.pc = "get", !.now = clock]]
      BY <1>t, <3>2 DEF Others, Records
    <3>3. CASE req' = [req EXCEPT ![r] = [@ EXCEPT !.pc = "run", !.now = clock,
                                                   !.id = lastId + 1]]
      BY <1>t, <3>3 DEF Others, Records
    <3>. QED
      BY <1>2, <3>1, <3>2, <3>3 DEF Submit
  <2>. QED
    BY <1>1, <2>1, <2>2, <2>3
<1>3. ASSUME NEW r \in Requests, GetExisting(r)
      PROVE  BodyInv' /\ effects \subseteq effects'
  <2>1. Remember(r, "expired") \/ Remember(r, "retry") \/ \E a : Answer(r, a)
    BY <1>3 DEF GetExisting, AnswerFrom
  <2>2. req'[r].pc # "succeed" /\ Others(r)
    BY <1>t, <2>1, MoveEffect
  <2>. QED
    BY <1>1, <1>3, <2>2 DEF GetExisting
<1>4. ASSUME NEW r \in Requests, Reclaim(r)
      PROVE  BodyInv' /\ effects \subseteq effects'
  <2>1. row' = row \/ row' = Reclaimed(row, req[r].now + Timeout, req[r].now + TTL)
    BY <1>4 DEF Reclaim
  <2>2. row' = row \/ row'.status # "succeeded"
    BY <1>t, <2>1 DEF Reclaimed, Rows
  <2>3. Others(r) /\ req'[r].pc # "succeed" /\ effects' = effects
    BY <1>4, <1>t, MoveEffect DEF Reclaim
  <2>. QED
    BY <1>1, <2>2, <2>3
<1>5. ASSUME NEW r \in Requests, Run(r) PROVE BodyInv' /\ effects \subseteq effects'
  <2>1. /\ row' = row /\ row.status = "processing" /\ effects \subseteq effects'
    BY <1>5 DEF Run, At, KeyInv, ExecuteInv, Executing
  <2>2. Others(r) /\ req'[r].now = req[r].now
    BY <1>5, <1>t, MoveEffect DEF Run
  <2>3. req'[r].pc = "succeed" => Effect(r, TRUE) \in effects'
    <3>1. CASE Goto(r, "fail")
      BY <1>t, <3>1, MoveEffect
    <3>2. CASE effects' = effects \cup {Effect(r, TRUE)}
      BY <3>2
    <3>. QED
      BY <1>5, <3>1, <3>2 DEF Run
  <2>4. At(r, "succeed")' => HadEffect(r, req[r].now + TTL)'
    BY <2>2, <2>3 DEF At, HadEffect, Effect
  <2>5. \A s \in Requests \ {r} : (At(s, "succeed") => HadEffect(s, req[s].now + TTL))'
    BY <2>1, <2>2 DEF Others, At, BodyInv, HadEffect
  <2>. QED
    BY <2>1, <2>2, <2>4, <2>5 DEF BodyInv
<1>6. ASSUME NEW r \in Requests, MarkSucceeded(r)
      PROVE  BodyInv' /\ effects \subseteq effects'
  <2>1. /\ effects' = effects
        /\ row' = row \/ row' = Succeeded(row, req[r].id, Body(r), req[r].now + TTL)
    BY <1>6 DEF MarkSucceeded
  <2>2. Others(r) /\ req'[r].pc = "done"
    BY <1>6, <1>t, MoveEffect DEF MarkSucceeded
  <2>3. At(r, "succeed") /\ row.id = req[r].id
    BY <1>6 DEF MarkSucceeded, At, KeyInv, ExecuteInv, Executing
  <2>4. CASE row' = Succeeded(row, req[r].id, Body(r), req[r].now + TTL)
    <3>1. /\ row'.status = "succeeded" /\ row'.lockedUntil = 0
          /\ row'.body = Body(r) /\ row'.expiresAt = req[r].now + TTL
          /\ row'.fingerprint = row.fingerprint
      BY <1>t, <2>3, <2>4 DEF Succeeded, Rows
    <3>2. row.fingerprint = Fingerprint[r]
      BY <2>3 DEF OwnerInv, Executing, At
    <3>4. \E e \in effects : e.ok /\ e.by = r /\ req[r].now + TTL = e.at + TTL
      BY <2>3 DEF BodyInv, HadEffect
    <3>5. row'.body \in Requests => row'.body = r
      BY <3>1, FixedIsNoRequest DEF Body
    <3>6. \A s \in Requests : At(s, "succeed")' =>
            /\ s # r /\ req'[s] = req[s] /\ At(s, "succeed")
      BY <2>2 DEF Others, At
    <3>7. \A s \in Requests : At(s, "succeed")' => HadEffect(s, req[s].now + TTL)'
      BY <2>1, <3>6 DEF BodyInv, HadEffect
    <3>8. row'.body \in Requests =>
            /\ row'.fingerprint = Fingerprint[row'.body]
            /\ \E e \in effects' : e.ok /\ e.by = row'.body /\ row'.expiresAt = e.at + TTL
      BY <2>1, <3>1, <3>2, <3>4, <3>5
    <3>. QED
      BY <2>1, <3>1, <3>7, <3>8 DEF BodyInv, HadEffect
  <2>. QED
    BY <1>1, <2>1, <2>2, <2>4
<1>7. ASSUME NEW r \in Requests, MarkFailed(r)
      PROVE  BodyInv' /\ effects \subseteq effects'
  <2>1. /\ effects' = effects
        /\ row' = row \/ row' = Failed(row, req[r].id, clock + Backoff, req[r].now + TTL)
    BY <1>7 DEF MarkFailed
  <2>2. row' = row \/ row'.status # "succeeded"
    BY <1>t, <2>1 DEF Failed, Rows
  <2>3. Others(r) /\ req'[r].pc = "done"
    BY <1>7, <1>t, MoveEffect DEF MarkFailed
  <2>. QED
    BY <1>1, <2>1, <2>2, <2>3
<1>8. ASSUME NEW r \in Requests, Crash(r) PROVE BodyInv' /\ effects \subseteq effects'
  <2>1. UNCHANGED <<row, effects>> /\ Others(r) /\ req'[r].pc = "done"
    BY <1>8, <1>t, MoveEffect DEF Crash
  <2>. QED
    BY <1>1, <2>1
<1>9. CASE DeleteExpired
  BY <1>9 DEF DeleteExpired, Absent, BodyInv, HadEffect, At
<1>10. CASE Tick \/ UNCHANGED vars
  BY <1>10 DEF Tick, vars, BodyInv, HadEffect, At
<1>. QED
  BY <1>2, <1>3, <1>4, <1>5, <1>6, <1>7, <1>8, <1>9, <1>10 DEF Next

LEMMA ReaderNext ==
  ASSUME KeyInv, BodyInv, ReaderInv, [Next]_vars
  PROVE  ReaderInv'
<1>t. /\ TypeOK /\ TTL \in Nat /\ clock \in Nat
      /\ row \in Rows /\ row.expiresAt \in Nat
      /\ req \in [Requests -> Records]
      /\ \A r \in Requests : req[r].now \in Nat /\ req[r].now <= clock
  BY Facts DEF KeyInv, ClaimInv
\* What the step stores, if anything, lives on.
<1>1. ASSUME NEW r \in Requests, Others(r),
             \/ row' = row
             \/ row'.status # "succeeded"
             \/ row'.expiresAt \in Nat /\ clock < row'.expiresAt,
             req'[r].pc # "done" => req'[r].answer = "none",
             req'[r].pc = "expired" /\ row'.status = "succeeded" =>
               row'.id = req'[r].id /\ req'[r].status = "succeeded",
             req'[r].pc = "again" /\ row'.status = "succeeded" =>
               req'[r].now < row'.expiresAt
      PROVE  ReaderInv'
  <2>1. ASSUME NEW s \in Requests \ {r}
        PROVE  /\ ~At(s, "done")' => req'[s].answer = "none"
               /\ At(s, "expired")' /\ row'.status = "succeeded" =>
                    \/ req'[s].now < row'.expiresAt
                    \/ row'.id = req'[s].id /\ req'[s].status = "succeeded"
               /\ At(s, "again")' /\ row'.status = "succeeded" =>
                    req'[s].now < row'.expiresAt
    <3>1. req'[s] = req[s] /\ req[s].now \in Nat /\ req[s].now <= clock
      BY <1>1, <1>t DEF Others
    <3>2. row' = row \/ row'.status # "succeeded" \/ req[s].now < row'.expiresAt
      BY <1>1, <1>t, <3>1
    <3>. QED
      BY <3>1, <3>2 DEF ReaderInv, At
  <2>. QED
    BY <1>1, <2>1 DEF ReaderInv, At
<1>2. ASSUME NEW r \in Requests, Submit(r) PROVE ReaderInv'
  <2>1. row' = row \/ row' = Inserted(lastId + 1, Fingerprint[r],
                                     clock + Timeout, clock + TTL)
    BY <1>2 DEF Submit
  <2>2. row' = row \/ row'.status # "succeeded"
    BY <2>1 DEF Inserted
  <2>3. req[r].answer = "none"
    BY <1>2 DEF Submit, At, ReaderInv
  <2>4. /\ Others(r) /\ req'[r].pc \notin {"expired", "again"}
        /\ req'[r].pc # "done" => req'[r].answer = "none"
    <3>1. CASE Answer(r, "unavailable")
      BY <1>t, <3>1, MoveEffect
    <3>2. CASE req' = [req EXCEPT ![r] = [@ EXCEPT !.pc = "get", !.now = clock]]
      BY <1>t, <2>3, <3>2 DEF Others, Records
    <3>3. CASE req' = [req EXCEPT ![r] = [@ EXCEPT !.pc = "run", !.now = clock,
                                                   !.id = lastId + 1]]
      BY <1>t, <2>3, <3>3 DEF Others, Records
    <3>. QED
      BY <1>2, <3>1, <3>2, <3>3 DEF Submit
  <2>. QED
    BY <1>1, <2>2, <2>4
<1>3. ASSUME NEW r \in Requests, GetExisting(r) PROVE ReaderInv'
  <2>0. row' = row /\ req[r].answer = "none"
    BY <1>3 DEF GetExisting, At, ReaderInv
  <2>1. ASSUME NEW a, Answer(r, a) PROVE ReaderInv'
    BY <1>1, <1>t, <2>0, <2>1, MoveEffect
  <2>2. CASE Remember(r, "expired") \/ Remember(r, "retry")
    BY <1>1, <1>t, <2>0, <2>2, MoveEffect, MoveAnswer
  <2>. QED
    BY <1>3, <2>1, <2>2 DEF GetExisting, AnswerFrom
<1>4. ASSUME NEW r \in Requests, Reclaim(r) PROVE ReaderInv'
  <2>0. req[r].answer = "none"
    BY <1>4 DEF Reclaim, At, ReaderInv
  <2>1. row' = row \/ row' = Reclaimed(row, req[r].now + Timeout, req[r].now + TTL)
    BY <1>4 DEF Reclaim
  <2>2. row' = row \/ row'.status # "succeeded"
    BY <1>t, <2>1 DEF Reclaimed, Rows
  <2>3. ASSUME NEW a, Answer(r, a) PROVE ReaderInv'
    BY <1>1, <1>t, <2>2, <2>3, MoveEffect
  <2>4. CASE Goto(r, "run")
    BY <1>1, <1>t, <2>0, <2>2, <2>4, MoveEffect, MoveAnswer
  \* The record cannot have been as it was when it was seen: it would have been
  \* taken.
  <2>5. CASE /\ ~CanReclaim(row, req[r].id, req[r].status, req[r].now)
             /\ At(r, "expired") /\ Goto(r, "again") /\ row' = row
    <3>1. row.status = "succeeded" => row.lockedUntil = 0 /\ 0 <= req[r].now
      BY <1>t DEF BodyInv
    <3>2. row.status = "succeeded" => req[r].now < row.expiresAt
      BY <2>5, <3>1 DEF ReaderInv, CanReclaim
    <3>. QED
      BY <1>1, <1>t, <2>0, <2>5, <3>2, MoveEffect, MoveAnswer
  <2>. QED
    BY <1>4, <2>3, <2>4, <2>5 DEF Reclaim
<1>5. ASSUME NEW r \in Requests, Run(r) PROVE ReaderInv'
  <2>1. row' = row /\ req[r].answer = "none"
    BY <1>5 DEF Run, At, ReaderInv
  <2>2. /\ Others(r) /\ req'[r].pc \in {"succeed", "fail"}
        /\ req'[r].answer = req[r].answer
    BY <1>5, <1>t, MoveEffect, MoveAnswer DEF Run
  <2>. QED
    BY <1>1, <2>1, <2>2
<1>6. ASSUME NEW r \in Requests, MarkSucceeded(r) \/ MarkFailed(r) PROVE ReaderInv'
  <2>1. row' \in {row, Succeeded(row, req[r].id, Body(r), req[r].now + TTL),
                  Failed(row, req[r].id, clock + Backoff, req[r].now + TTL)}
    BY <1>6 DEF MarkSucceeded, MarkFailed
  <2>2. row' = row \/ row'.expiresAt = req[r].now + TTL
    BY <1>t, <2>1 DEF Succeeded, Failed, Rows
  <2>3. clock < req[r].now + TTL /\ req[r].now + TTL \in Nat
    BY <1>6, <1>t DEF MarkSucceeded, MarkFailed, At, KeyInv, ExecuteInv, Executing
  <2>4. Others(r) /\ req'[r].pc = "done"
    BY <1>6, <1>t, MoveEffect DEF MarkSucceeded, MarkFailed
  <2>. QED
    BY <1>1, <2>2, <2>3, <2>4
<1>7. ASSUME NEW r \in Requests, Crash(r) PROVE ReaderInv'
  <2>1. row' = row /\ Others(r) /\ req'[r].pc = "done"
    BY <1>7, <1>t, MoveEffect DEF Crash
  <2>. QED
    BY <1>1, <2>1
<1>8. CASE DeleteExpired
  BY <1>8 DEF DeleteExpired, Absent, ReaderInv, At
<1>9. CASE Tick \/ UNCHANGED vars
  BY <1>9 DEF Tick, vars, ReaderInv, At
<1>. QED
  BY <1>2, <1>3, <1>4, <1>5, <1>6, <1>7, <1>8, <1>9 DEF Next

LEMMA FaithfulNext ==
  ASSUME KeyInv, OwnerInv, BodyInv, ReaderInv, ReplayIsFaithful, [Next]_vars
  PROVE  ReplayIsFaithful'
<1>t. /\ TypeOK /\ TTL \in Nat
      /\ row \in Rows /\ row.expiresAt \in Nat
      /\ req \in [Requests -> Records]
      /\ effects \subseteq effects'
      /\ \A r \in Requests : req[r].now \in Nat
  BY Facts, BodyNext DEF KeyInv
<1>1. ASSUME NEW r \in Requests, NEW a \in FixedAnswers \cup {Nothing, Truncated},
             Answer(r, a)
      PROVE  ReplayIsFaithful'
  BY <1>1, <1>t, MoveEffect, MoveAnswer, FixedIsNoRequest, FaithfulKeeps
<1>2. ASSUME NEW r \in Requests, NEW l, Goto(r, l) \/ Remember(r, l)
      PROVE  ReplayIsFaithful'
  BY <1>2, <1>t, MoveEffect, MoveAnswer, FaithfulKeeps
<1>3. ASSUME NEW r \in Requests, Submit(r) PROVE ReplayIsFaithful'
  <2>0. req[r].answer = "none"
    BY <1>3 DEF Submit, At, ReaderInv
  <2>1. CASE Answer(r, "unavailable")
    BY <1>1, <2>1 DEF FixedAnswers
  <2>2. CASE req' = [req EXCEPT ![r] = [@ EXCEPT !.pc = "get", !.now = clock]]
    <3>1. Others(r) /\ req'[r].answer = req[r].answer
      BY <1>t, <2>2 DEF Others, Records
    <3>. QED
      BY <1>t, <2>0, <3>1, FaithfulKeeps
  <2>3. CASE req' = [req EXCEPT ![r] = [@ EXCEPT !.pc = "run", !.now = clock,
                                                 !.id = lastId + 1]]
    <3>1. Others(r) /\ req'[r].answer = req[r].answer
      BY <1>t, <2>3 DEF Others, Records
    <3>. QED
      BY <1>t, <2>0, <3>1, FaithfulKeeps
  <2>. QED
    BY <1>3, <2>1, <2>2, <2>3 DEF Submit
\* The step that replays.
<1>4. ASSUME NEW r \in Requests, SameRequest(r), row.status = "succeeded",
             Answer(r, row.body), req[r].now < row.expiresAt
      PROVE  ReplayIsFaithful'
  <2>1. CASE row.body \notin Requests
    BY <1>4, <1>t, <2>1, MoveEffect, MoveAnswer, FaithfulKeeps
  <2>2. CASE row.body \in Requests
    <3>1. Others(r) /\ req'[r].answer = row.body /\ req'[r].now = req[r].now
      BY <1>4, <1>t, MoveEffect, MoveAnswer
    <3>2. Fingerprint[r] = Fingerprint[row.body]
      BY <1>4, <2>2 DEF SameRequest, BodyInv
    <3>3. PICK e \in effects : e.ok /\ e.by = row.body /\ row.expiresAt = e.at + TTL
      BY <1>4, <2>2 DEF BodyInv, HadEffect
    <3>4. ASSUME NEW s \in Requests, req'[r].answer = s
          PROVE  /\ Fingerprint[r] = Fingerprint[s]
                 /\ \E f \in effects' : f.ok /\ f.by = s /\ req'[r].now < f.at + TTL
      BY <1>4, <1>t, <3>1, <3>2, <3>3, <3>4
    <3>5. ASSUME NEW q \in Requests \ {r}, NEW s \in Requests, req'[q].answer = s
          PROVE  /\ Fingerprint[q] = Fingerprint[s]
                 /\ \E f \in effects' : f.ok /\ f.by = s /\ req'[q].now < f.at + TTL
      <4>1. req'[q] = req[q]
        BY <3>1 DEF Others
      <4>. QED
        BY <1>t, <3>5, <4>1 DEF ReplayIsFaithful
    <3>. QED
      BY <3>4, <3>5 DEF ReplayIsFaithful
  <2>. QED
    BY <2>1, <2>2
<1>5. ASSUME NEW r \in Requests, GetExisting(r) PROVE ReplayIsFaithful'
  <2>1. CASE \E a \in FixedAnswers : Answer(r, a)
    BY <1>1, <2>1
  <2>2. CASE Remember(r, "expired") \/ Remember(r, "retry")
    BY <1>2, <2>2
  <2>3. CASE /\ SameRequest(r) /\ row.status = "succeeded" /\ Answer(r, row.body)
             /\ ~(At(r, "get") /\ row.expiresAt <= req[r].now)
    <3>1. CASE At(r, "get")
      BY <1>4, <1>t, <2>3, <3>1
    <3>2. CASE At(r, "again")
      BY <1>4, <2>3, <3>2 DEF ReaderInv
    <3>. QED
      BY <1>5, <3>1, <3>2 DEF GetExisting, At
  <2>. QED
    BY <1>5, <2>1, <2>2, <2>3 DEF GetExisting, AnswerFrom, FixedAnswers
<1>6. ASSUME NEW r \in Requests,
             Reclaim(r) \/ Run(r) \/ MarkSucceeded(r) \/ MarkFailed(r) \/ Crash(r)
      PROVE  ReplayIsFaithful'
  <2>1. (\E l : Goto(r, l)) \/ \E a \in FixedAnswers : Answer(r, a)
    BY <1>6 DEF Reclaim, Run, MarkSucceeded, MarkFailed, Crash, FixedAnswers
  <2>. QED
    BY <1>1, <1>2, <2>1
<1>7. CASE DeleteExpired \/ Tick \/ UNCHANGED vars
  BY <1>7 DEF DeleteExpired, Tick, vars, ReplayIsFaithful
<1>. QED
  BY <1>3, <1>5, <1>6, <1>7 DEF Next

\* Every replayed answer is the response of a successful execution of the same
\* request, claimed less than a record's lifetime before the reader read the
\* clock: whatever is repeated under the key, expires, is deleted or reclaimed,
\* and although marking and reclaiming address the record by its id.
THEOREM ReplaysAreFaithful == Spec => []ReplayIsFaithful
<1>1. Init => ReplayInv
  BY IdempotencyTypeInit, FixedIsNoRequest
     DEF Init, ReplayInv, OwnerInv, BodyInv, ReaderInv, ReplayIsFaithful, Absent,
         Executing, At, FixedAnswers
<1>2. KeyInv /\ ReplayInv /\ [Next]_vars => KeyInv' /\ ReplayInv'
  BY KeyNext, OwnerNext, BodyNext, ReaderNext, FaithfulNext DEF ReplayInv
<1>3. ReplayInv => ReplayIsFaithful
  BY DEF ReplayInv
<1>. QED
  BY KeyInit, <1>1, <1>2, <1>3, PTL DEF Spec
=============================================================================
