--------------------------- MODULE DeliveryOutbox ---------------------------
(***************************************************************************)
(* The notification outbox (notifications/services/delivery.py and         *)
(* scheduling.py): the NotificationDelivery rows of one notification on    *)
(* external channels, the worker processes that claim, send and mark them, *)
(* the administrators who retry them, and cancellation of the notification.*)
(*                                                                         *)
(* Every statement runs in autocommit except the two transaction.atomic    *)
(* blocks.  _claim_delivery locks its delivery AND the joined notification *)
(* row (select_for_update without "of"); cancel_scheduled_notification     *)
(* locks the notification and then updates the deliveries.  The two        *)
(* therefore serialise (or one of them is aborted as a deadlock victim,    *)
(* which Crash covers for a worker) and each is one step here.  What is    *)
(* not atomic stays apart: the clock is read before the lock, the provider *)
(* is called between the claim and the mark, and a mark or a retry         *)
(* overwrites the row without looking at it again.                         *)
(***************************************************************************)
EXTENDS Integers, FiniteSets

CONSTANTS
    Deliveries,     \* rows of one notification (recipients x external channels)
    Workers,        \* processes running dispatch_delivery: requests, cron runs
    Admins,         \* processes inside retry_delivery
    Schedules,      \* values scheduled_at may take
    Expiries,       \* values expires_at may take at creation (Never included)
    Batch,          \* NOTIFICATION_PROCESSING_BATCH_SIZE
    MaxAttempts,    \* NOTIFICATION_DEFAULT_MAX_ATTEMPTS
    RetryBase,      \* NOTIFICATION_RETRY_BASE_SECONDS
    RetryMax,       \* NOTIFICATION_RETRY_MAX_SECONDS
    LockTimeout,    \* NOTIFICATION_LOCK_TIMEOUT_SECONDS
    Inline,         \* TRUE for INLINE and HYBRID mode, FALSE for OUTBOX mode
    MaxTime,        \* bound: the clock stops here
    LastFault,      \* bound: no provider failure and no crash after this time
    MaxRetries      \* bound: manual retries per delivery

Never  == -1        \* NULL in a timestamp column
NoOne  == "none"    \* an administrator without a request

ASSUME OutboxAssumption ==
    /\ IsFiniteSet(Workers)
    /\ NoOne \notin Deliveries
    /\ Schedules \subseteq Nat
    /\ Expiries \subseteq Nat \cup {Never}
    /\ MaxAttempts \in Nat
    /\ RetryBase \in Nat
    /\ RetryMax \in Nat
    /\ LockTimeout \in Nat
    /\ Inline \in BOOLEAN

VARIABLES
    now,            \* the database and application clock
    row,            \* [Deliveries -> the columns the protocol reads]
    expires,        \* Notification.expires_at
    cancelled,      \* cancel_scheduled_notification has committed
    callbacks,      \* on_commit callbacks not yet run: sets of delivery ids
    job,            \* [Workers -> program counter and locals]
    retry,          \* [Admins -> the request past its status check, or none]
    retried,        \* [Deliveries -> manual retries begun]
    allowed,        \* ghost: first attempt + locks released + retries saved
    acknowledged,   \* ghost: sends the provider acknowledged
    refused,        \* ghost: deliveries that met a permanent error
    inHand          \* ghost: deliveries somebody was handling at cancellation

vars == <<now, row, expires, cancelled, callbacks, job, retry, retried,
          allowed, acknowledged, refused, inHand>>

Deliverable == {"PENDING", "RETRYING"}
Retriable   == {"FAILED", "CANCELLED", "SKIPPED"}
Statuses    == Deliverable \cup Retriable \cup {"PROCESSING", "SENT"}

Row == [status: Statuses, attempts: Nat, scheduled: Nat, next: Nat,
        lockedAt: Nat \cup {Never}]

\* Where a worker is: between runs, after the stale release, between two
\* deliveries, before the claim, inside provider.send, before either mark.
Stages == {"idle", "selecting", "running", "claiming", "sending",
           "accepted", "failing"}

Job == [stage: Stages, todo: SUBSET Deliveries, d: Deliveries \cup {NoOne},
        at: Nat, status: Statuses, next: Nat]

Idle == [stage |-> "idle", todo |-> {}, d |-> NoOne, at |-> 0,
         status |-> "PENDING", next |-> 0]

TypeOK ==
    /\ now \in Nat
    /\ row \in [Deliveries -> Row]
    /\ expires \in Nat \cup {Never}
    /\ cancelled \in BOOLEAN
    /\ callbacks \subseteq SUBSET Deliveries
    /\ job \in [Workers -> Job]
    /\ retry \in [Admins -> [d: Deliveries \cup {NoOne}, at: Nat]]
    /\ retried \in [Deliveries -> Nat]
    /\ allowed \in [Deliveries -> Nat]
    /\ acknowledged \in [Deliveries -> Nat]
    /\ refused \subseteq Deliveries
    /\ inHand \subseteq Deliveries

-----------------------------------------------------------------------------
(* Helpers *)

\* min(base * 2 ** max(attempt_count - 1, 0), maximum)
Backoff(attempts) ==
    LET seconds == RetryBase * 2^(IF attempts > 0 THEN attempts - 1 ELSE 0)
    IN  IF seconds \in 0..RetryMax THEN seconds ELSE RetryMax

ExpiredAt(t) == expires # Never /\ expires <= t

DueAt(d, t) == row[d].scheduled <= t /\ row[d].next <= t

Due == {d \in Deliveries : /\ row[d].status \in Deliverable
                           /\ DueAt(d, now)
                           /\ ~ExpiredAt(now)}

StaleLock(d) == /\ row[d].status = "PROCESSING"
                /\ row[d].lockedAt # Never
                /\ row[d].lockedAt + LockTimeout < now

Held(d) == {w \in Workers : /\ job[w].stage \in {"sending", "accepted", "failing"}
                            /\ job[w].d = d}

\* The row of d after an UPDATE that clears the lock.
Unlocked(d, status, next) ==
    [status |-> status, attempts |-> row[d].attempts,
     scheduled |-> row[d].scheduled, next |-> next, lockedAt |-> Never]

\* A worker about to dispatch the ids of its list, and one at another stage of
\* the same delivery.
Running(ids) == [stage |-> "running", todo |-> ids, d |-> NoOne, at |-> 0,
                 status |-> "PENDING", next |-> 0]

Moved(w, stage) ==
    [stage |-> stage, todo |-> job[w].todo, d |-> job[w].d, at |-> job[w].at,
     status |-> job[w].status, next |-> job[w].next]

\* The worker goes on to the next id of its list, or ends its run.
Continue(w) ==
    job' = [job EXCEPT ![w] = IF job[w].todo = {} THEN Idle
                              ELSE Running(job[w].todo)]

-----------------------------------------------------------------------------
\* notify has committed: PENDING rows, or SKIPPED ones (preference, missing
\* destination, unconfigured channel), and the callback of the inline modes.
Init ==
    /\ now = 0
    /\ \E scheduled \in [Deliveries -> Schedules],
          status \in [Deliveries -> {"PENDING", "SKIPPED"}] :
         /\ row = [d \in Deliveries |->
                     [status |-> status[d], attempts |-> 0,
                      scheduled |-> scheduled[d], next |-> scheduled[d],
                      lockedAt |-> Never]]
         /\ callbacks = IF Inline
                        THEN {{d \in Deliveries : status[d] = "PENDING"}}
                        ELSE {}
         /\ allowed = [d \in Deliveries |-> IF status[d] = "PENDING" THEN 1 ELSE 0]
    /\ expires \in Expiries
    /\ cancelled = FALSE
    /\ job = [w \in Workers |-> Idle]
    /\ retry = [a \in Admins |-> [d |-> NoOne, at |-> 0]]
    /\ retried = [d \in Deliveries |-> 0]
    /\ acknowledged = [d \in Deliveries |-> 0]
    /\ refused = {}
    /\ inHand = {}

Tick ==
    /\ now < MaxTime
    /\ now' = now + 1
    /\ UNCHANGED <<row, expires, cancelled, callbacks, job, retry, retried,
                   allowed, acknowledged, refused, inHand>>

-----------------------------------------------------------------------------
(* A worker *)

\* The on_commit callback of a request dispatches the ids it was given.
StartInline(w) ==
    /\ job[w].stage = "idle"
    /\ \E ids \in callbacks :
         /\ callbacks' = callbacks \ {ids}
         /\ job' = [job EXCEPT ![w] = Running(ids)]
    /\ UNCHANGED <<now, row, expires, cancelled, retry, retried, allowed,
                   acknowledged, refused, inHand>>

\* Mutant of ReleaseStale: the lock is cleared and the status forgotten.
ReleaseLockOnly(w) ==
    /\ job[w].stage = "idle"
    /\ row' = [d \in Deliveries |->
                 IF StaleLock(d) THEN Unlocked(d, "PROCESSING", now)
                 ELSE row[d]]
    /\ allowed' = [d \in Deliveries |->
                     IF StaleLock(d) THEN allowed[d] + 1 ELSE allowed[d]]
    /\ job' = [job EXCEPT ![w] = Moved(w, "selecting")]
    /\ UNCHANGED <<now, expires, cancelled, callbacks, retry, retried,
                   acknowledged, refused, inHand>>

\* process_due_deliveries first takes back the locks that timed out, in one
\* UPDATE that looks neither at attempt_count nor at who holds the lock.
ReleaseStale(w) ==
    /\ job[w].stage = "idle"
    /\ row' = [d \in Deliveries |->
                 IF StaleLock(d)
                 THEN Unlocked(d, "RETRYING", now)
                 ELSE row[d]]
    /\ allowed' = [d \in Deliveries |->
                     IF StaleLock(d) THEN allowed[d] + 1 ELSE allowed[d]]
    /\ job' = [job EXCEPT ![w] = Moved(w, "selecting")]
    /\ UNCHANGED <<now, expires, cancelled, callbacks, retry, retried,
                   acknowledged, refused, inHand>>

\* get_due_delivery_ids: at most Batch due rows, those due longest first.
Select(w) ==
    /\ job[w].stage = "selecting"
    /\ \E ids \in SUBSET Due :
         /\ Cardinality(ids) = IF Cardinality(Due) < Batch
                               THEN Cardinality(Due) ELSE Batch
         /\ \A d \in ids, e \in Due \ ids : row[d].next <= row[e].next
         /\ job' = [job EXCEPT ![w] =
                      IF ids = {} THEN Idle ELSE Running(ids)]
    /\ UNCHANGED <<now, row, expires, cancelled, callbacks, retry, retried,
                   allowed, acknowledged, refused, inHand>>

\* dispatch_delivery of the next id: the clock is read before the row lock.
BeginClaim(w) ==
    /\ job[w].stage = "running"
    /\ IF job[w].todo = {}
       THEN job' = [job EXCEPT ![w] = Idle]
       ELSE \E d \in job[w].todo :
              job' = [job EXCEPT ![w] =
                        [stage |-> "claiming", todo |-> job[w].todo \ {d},
                         d |-> d, at |-> now, status |-> "PENDING", next |-> 0]]
    /\ UNCHANGED <<now, row, expires, cancelled, callbacks, retry, retried,
                   allowed, acknowledged, refused, inHand>>

\* The claim transaction, in its three outcomes.
Unclaimable(w) ==
    LET d == job[w].d  t == job[w].at
    IN  \/ row[d].status \notin Deliverable
        \/ ~ExpiredAt(t) /\ ~DueAt(d, t)

ClaimNothing(w) ==
    /\ job[w].stage = "claiming"
    /\ Unclaimable(w)
    /\ Continue(w)
    /\ UNCHANGED <<now, row, expires, cancelled, callbacks, retry, retried,
                   allowed, acknowledged, refused, inHand>>

ClaimExpired(w) ==
    /\ job[w].stage = "claiming"
    /\ row[job[w].d].status \in Deliverable
    /\ ExpiredAt(job[w].at)
    /\ row' = [row EXCEPT ![job[w].d] =
                 Unlocked(job[w].d, "CANCELLED", row[job[w].d].next)]
    /\ Continue(w)
    /\ UNCHANGED <<now, expires, cancelled, callbacks, retry, retried,
                   allowed, acknowledged, refused, inHand>>

Claim(w) ==
    /\ job[w].stage = "claiming"
    /\ ~Unclaimable(w)
    /\ ~ExpiredAt(job[w].at)
    /\ LET d == job[w].d
       IN  row' = [row EXCEPT ![d] =
                     [status |-> "PROCESSING", attempts |-> row[d].attempts + 1,
                      scheduled |-> row[d].scheduled, next |-> row[d].next,
                      lockedAt |-> job[w].at]]
    /\ job' = [job EXCEPT ![w] = Moved(w, "sending")]
    /\ UNCHANGED <<now, expires, cancelled, callbacks, retry, retried,
                   allowed, acknowledged, refused, inHand>>

\* provider.send returns: the provider has acknowledged one copy.
SendAccepted(w) ==
    /\ job[w].stage = "sending"
    /\ acknowledged' = [acknowledged EXCEPT ![job[w].d] = @ + 1]
    /\ job' = [job EXCEPT ![w] = Moved(w, "accepted")]
    /\ UNCHANGED <<now, row, expires, cancelled, callbacks, retry, retried,
                   allowed, refused, inHand>>

\* Mutant of MarkSuccess: a status the provider left at PENDING is written as
\* it is, instead of as SENT.
MarkSuccessAsGiven(w) ==
    /\ job[w].stage = "accepted"
    /\ row' = [row EXCEPT ![job[w].d] =
                 Unlocked(job[w].d, "PENDING", row[job[w].d].next)]
    /\ Continue(w)
    /\ UNCHANGED <<now, expires, cancelled, callbacks, retry, retried,
                   allowed, acknowledged, refused, inHand>>

\* _mark_success: a blind UPDATE.
MarkSuccess(w) ==
    /\ job[w].stage = "accepted"
    /\ row' = [row EXCEPT ![job[w].d] =
                 Unlocked(job[w].d, "SENT", row[job[w].d].next)]
    /\ Continue(w)
    /\ UNCHANGED <<now, expires, cancelled, callbacks, retry, retried,
                   allowed, acknowledged, refused, inHand>>

\* Mutant of SendRaises: the last attempt is not made.
SendRaisesOneShort(w, permanent) ==
    LET d     == job[w].d
        again == ~permanent /\ row[d].attempts + 1 < MaxAttempts
    IN  /\ job[w].stage = "sending"
        /\ now <= LastFault
        /\ refused' = IF permanent THEN refused \cup {d} ELSE refused
        /\ job' = [job EXCEPT ![w] =
              [stage |-> "failing", todo |-> job[w].todo, d |-> d, at |-> job[w].at,
               status |-> IF again THEN "RETRYING" ELSE "FAILED",
               next |-> IF again THEN now + Backoff(row[d].attempts)
                        ELSE row[d].next]]
        /\ UNCHANGED <<now, row, expires, cancelled, callbacks, retry, retried,
                       allowed, acknowledged, inHand>>

\* provider.send raises and _mark_failure reads the row: what it will write
\* is decided here.
SendRaises(w, permanent) ==
    LET d     == job[w].d
        again == ~permanent /\ row[d].attempts < MaxAttempts
    IN  /\ job[w].stage = "sending"
        /\ now <= LastFault
        /\ refused' = IF permanent THEN refused \cup {d} ELSE refused
        /\ job' = [job EXCEPT ![w] =
              [stage |-> "failing", todo |-> job[w].todo, d |-> d, at |-> job[w].at,
               status |-> IF again THEN "RETRYING" ELSE "FAILED",
               next |-> IF again THEN now + Backoff(row[d].attempts)
                        ELSE row[d].next]]
        /\ UNCHANGED <<now, row, expires, cancelled, callbacks, retry, retried,
                       allowed, acknowledged, inHand>>

\* ... and a blind UPDATE of the same row.
MarkFailure(w) ==
    /\ job[w].stage = "failing"
    /\ row' = [row EXCEPT ![job[w].d] =
                 Unlocked(job[w].d, job[w].status, job[w].next)]
    /\ Continue(w)
    /\ UNCHANGED <<now, expires, cancelled, callbacks, retry, retried,
                   allowed, acknowledged, refused, inHand>>

\* The process dies, or an exception leaves process_due_deliveries (a lost
\* connection, a deadlock victim): nothing of its memory is kept.
Crash(w) ==
    /\ job[w].stage # "idle"
    /\ now <= LastFault
    /\ job' = [job EXCEPT ![w] = Idle]
    /\ UNCHANGED <<now, row, expires, cancelled, callbacks, retry, retried,
                   allowed, acknowledged, refused, inHand>>

-----------------------------------------------------------------------------
(* Administrators and cancellation *)

\* retry_delivery: the status of an instance read without a lock is checked
\* and the clock is read ...
BeginRetry(a, d) ==
    /\ retry[a].d = NoOne
    /\ row[d].status \in Retriable
    /\ retried[d] < MaxRetries
    /\ retried' = [retried EXCEPT ![d] = @ + 1]
    /\ retry' = [retry EXCEPT ![a] = [d |-> d, at |-> now]]
    /\ UNCHANGED <<now, row, expires, cancelled, callbacks, job, allowed,
                   acknowledged, refused, inHand>>

\* ... and the row is saved; attempt_count is kept.  The inline modes dispatch
\* the row at once.
SaveRetry(a) ==
    LET d == retry[a].d
    IN  /\ d # NoOne
        /\ row' = [row EXCEPT ![d] = Unlocked(d, "PENDING", retry[a].at)]
        /\ allowed' = [allowed EXCEPT ![d] = @ + 1]
        /\ callbacks' = IF Inline THEN callbacks \cup {{d}} ELSE callbacks
        /\ retry' = [retry EXCEPT ![a] = [d |-> NoOne, at |-> 0]]
        /\ UNCHANGED <<now, expires, cancelled, job, retried, acknowledged,
                       refused, inHand>>

\* Mutant of CancelNotification: the notification itself does not expire.
CancelDeliveriesOnly ==
    /\ row' = [d \in Deliveries |->
                 IF row[d].status \in Deliverable \cup {"PROCESSING"}
                 THEN Unlocked(d, "CANCELLED", row[d].next)
                 ELSE row[d]]
    /\ cancelled' = TRUE
    /\ inHand' = inHand \cup {d \in Deliveries :
                     Held(d) # {} \/ \E a \in Admins : retry[a].d = d}
    /\ UNCHANGED <<now, expires, callbacks, job, retry, retried, allowed,
                   acknowledged, refused>>

\* cancel_scheduled_notification: the notification expires now and every
\* delivery that may still be sent becomes CANCELLED.
CancelNotification ==
    /\ expires' = now
    /\ row' = [d \in Deliveries |->
                 IF row[d].status \in Deliverable \cup {"PROCESSING"}
                 THEN Unlocked(d, "CANCELLED", row[d].next)
                 ELSE row[d]]
    /\ cancelled' = TRUE
    /\ inHand' = inHand \cup {d \in Deliveries :
                     Held(d) # {} \/ \E a \in Admins : retry[a].d = d}
    /\ UNCHANGED <<now, callbacks, job, retry, retried, allowed, acknowledged,
                   refused>>

-----------------------------------------------------------------------------
\* What a worker does by itself, faults of the provider and crashes apart.
WorkerStep(w) ==
    \/ StartInline(w) \/ ReleaseStale(w) \/ Select(w) \/ BeginClaim(w)
    \/ ClaimNothing(w) \/ ClaimExpired(w) \/ Claim(w)
    \/ SendAccepted(w) \/ MarkSuccess(w)
    \/ \E permanent \in BOOLEAN : SendRaises(w, permanent)
    \/ MarkFailure(w)

Next ==
    \/ Tick
    \/ \E w \in Workers : WorkerStep(w) \/ Crash(w)
    \/ \E a \in Admins : SaveRetry(a) \/ \E d \in Deliveries : BeginRetry(a, d)
    \/ CancelNotification

Spec == Init /\ [][Next]_vars

\* The scheduler keeps starting runs and a live worker goes on; time passes.
FairSpec == Spec /\ WF_vars(Tick) /\ \A w \in Workers : WF_vars(WorkerStep(w))

-----------------------------------------------------------------------------
(* Properties *)

\* A second copy is always explained: the provider never acknowledges a
\* delivery more often than it was created, taken back from a timed-out lock
\* or retried by hand.  Workers may overlap in any way; the row lock of
\* _claim_delivery is what makes it so (delivery.py:63-122).
CopiesExplained ==
    \A d \in Deliveries : acknowledged[d] <= allowed[d]

\* A delivery is given up only after a permanent error or after max_attempts
\* attempts, whatever stale marks arrive (delivery.py:167-214).
FailedIsExhausted ==
    \A d \in Deliveries :
        row[d].status = "FAILED" => d \in refused \/ row[d].attempts >= MaxAttempts

\* A delivery nobody was handling when its notification was cancelled is never
\* attempted again, not even by a worker that read its clock before the
\* cancellation, nor after a manual retry (scheduling.py:15-86).
CancelledIsNotAttempted ==
    [][\A d \in Deliveries :
          cancelled /\ d \notin inHand => row'[d].attempts = row[d].attempts]_vars

\* Every delivery waiting or in flight is eventually settled, unless its
\* notification expires first: a crashed worker's lock does not keep it
\* (delivery.py:279-301).
Settled == \A d \in Deliveries :
    row[d].status \in Deliverable \cup {"PROCESSING"}
        ~> row[d].status \in Retriable \cup {"SENT"} \/ ExpiredAt(now)

-----------------------------------------------------------------------------
(* The inductive invariant *)

\* A worker past BeginClaim has a delivery, and one about to mark a failure
\* has decided between the two statuses.
JobsFit == \A w \in Workers :
    /\ job[w].stage \in {"claiming", "sending", "accepted", "failing"}
         => job[w].d \in Deliveries
    /\ job[w].stage = "failing" => job[w].status \in {"RETRYING", "FAILED"}

\* Workers whose attempt at d may still put d back in the queue.
Trying(d) == {w \in Workers : /\ job[w].stage \in {"sending", "failing"}
                              /\ job[w].d = d}

Waiting(d) == IF row[d].status \in Deliverable THEN 1 ELSE 0

\* Every acknowledged copy, attempt under way and attempt to come has its own
\* reason.
AllowanceCovers == \A d \in Deliveries :
    acknowledged[d] + Cardinality(Trying(d)) + Waiting(d) <= allowed[d]

\* A failure about to be marked is one that will still be justified.
GivingUp == \A w \in Workers :
    job[w].stage = "failing" /\ job[w].status = "FAILED"
        => job[w].d \in refused \/ row[job[w].d].attempts >= MaxAttempts

\* After a cancellation an untouched delivery can only be retried, and then
\* for an instant at which its notification has expired.
OutOfReach ==
    cancelled =>
      /\ expires \in 0..now
      /\ \A d \in Deliveries \ inHand :
            /\ row[d].status # "PROCESSING"
            /\ row[d].status \in Deliverable => row[d].next >= expires
            /\ \A w \in Workers : w \notin Held(d)
            /\ \A a \in Admins : retry[a].d = d => retry[a].at >= expires

\* What each worker and administrator relies on about the rows between two of
\* its steps: the invariant the proofs in DeliveryOutboxProofs rest on.
IInv == /\ TypeOK
        /\ JobsFit
        /\ AllowanceCovers
        /\ FailedIsExhausted
        /\ GivingUp
        /\ OutOfReach

=============================================================================
