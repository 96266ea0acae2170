-------------------------- MODULE IdempotencyStore --------------------------
(***************************************************************************)
(* The statements of the idempotency repository on the row of one scope    *)
(* and key.  They are all that the coordinator (Idempotency) and the       *)
(* system operation lock (SystemOperationLock) share.  Each is one SQL     *)
(* statement, so each is atomic; its WHERE clause is an operator of its    *)
(* own.  Times are natural numbers; a NULL locked_until is 0, which lies   *)
(* before every clock reading.                                             *)
(***************************************************************************)
EXTENDS Naturals

\* request_fingerprint and response_body of a row that does not exist.
Nothing == "nothing"

Absent == [id |-> 0, fingerprint |-> Nothing, status |-> "none",
           lockedUntil |-> 0, expiresAt |-> 0, body |-> Nothing]

Exists(row) == row.id # 0

\* CreateProcessing: INSERT ... ON CONFLICT DO NOTHING.
Inserted(id, fingerprint, lockedUntil, expiresAt) ==
  [id |-> id, fingerprint |-> fingerprint, status |-> "processing",
   lockedUntil |-> lockedUntil, expiresAt |-> expiresAt, body |-> Nothing]

\* Mutant: the WHERE clause forgets locked_until.
UnlockedOrNot(row, id, from, now) == row.id = id /\ row.status = from
\* Mutant: it forgets the status instead.
StatusIgnored(row, id, from, now) == row.id = id /\ row.lockedUntil <= now
\* TryReclaim.
CanReclaim(row, id, from, now) ==
  /\ row.id = id
  /\ row.status = from
  /\ row.lockedUntil <= now

Reclaimed(row, lockedUntil, expiresAt) ==
  [row EXCEPT !.status = "processing", !.lockedUntil = lockedUntil,
              !.expiresAt = expiresAt]

\* Mutant: the WHERE clause compares the wrong way round.
NotTheOwner(row, id, fingerprint) ==
  row.id = id /\ row.status = "processing" /\ row.fingerprint # fingerprint
\* ExtendProcessingLock.
CanExtend(row, id, fingerprint) ==
  row.id = id /\ row.status = "processing" /\ row.fingerprint = fingerprint

\* Mutant: the extension forgets expires_at.
ExtendedLockOnly(row, lockedUntil, expiresAt) ==
  [row EXCEPT !.lockedUntil = lockedUntil]
Extended(row, lockedUntil, expiresAt) ==
  [row EXCEPT !.lockedUntil = lockedUntil, !.expiresAt = expiresAt]

\* MarkSucceeded and MarkFailedRetryable find their row by its id alone.
Succeeded(row, id, body, expiresAt) ==
  IF row.id = id
    THEN [row EXCEPT !.status = "succeeded", !.body = body,
                     !.lockedUntil = 0, !.expiresAt = expiresAt]
    ELSE row

\* Mutant: a status that no reader of the table knows.
FailedForGood(row, id, lockedUntil, expiresAt) ==
  IF row.id = id THEN [row EXCEPT !.status = "failed"] ELSE row
Failed(row, id, lockedUntil, expiresAt) ==
  IF row.id = id
    THEN [row EXCEPT !.status = "failed_retryable",
                     !.lockedUntil = lockedUntil, !.expiresAt = expiresAt]
    ELSE row

\* DeleteExpired.
Expired(row, now) == Exists(row) /\ row.expiresAt <= now
=============================================================================
