---------------------------- MODULE AuditPipeline ----------------------------
(***************************************************************************)
(* Audit events on their way to the identity_events table and the R2       *)
(* archive: the producers (routes/token.ts and routes/logout.ts of         *)
(* auth-core, middleware/audit.ts of admin), the audit queue, the batch    *)
(* consumer with its retries (queue/base-consumer.ts of infra) and its     *)
(* processBatch (consumers/audit-consumer.ts).                             *)
(*                                                                         *)
(* The queue delivers at least once, in batches it chooses, to several     *)
(* invocations of the consumer at a time; an invocation is atomic between  *)
(* two calls to the database or to R2, and may be cut off between them.    *)
(***************************************************************************)
EXTENDS Naturals, FiniteSets

CONSTANTS
  Events,        \* audit messages
  NoPayload,     \* those without a payload: the {type, timestamp, data} of admin
  TooLong,       \* those whose userId exceeds the column: logout sends a
                 \* pairwise sub or a client_id
  Consumers,     \* invocations of the consumer running at a time
  BatchSize,     \* max_batch_size of logingov-audit
  MaxRetries,    \* BaseConsumer's maxRetries, 3
  QueueRetries,  \* max_retries of logingov-audit, by default 3
  Faults         \* TRUE: calls may fail and invocations may be cut off

ASSUME AuditAssumption ==
  /\ NoPayload \subseteq Events
  /\ TooLong \subseteq Events
  /\ BatchSize \in Nat \ {0}
  /\ MaxRetries \in Nat \ {0}
  /\ QueueRetries \in Nat
  /\ MaxRetries <= QueueRetries + 1
  /\ Faults \in BOOLEAN

VARIABLES
  message,   \* per event: unsent, queued, taken by an invocation, or gone
  attempts,  \* per event: msg.attempts, deliveries so far
  batch,     \* per invocation: the messages of its batch
  step,      \* per invocation: the last step it completed
  rows,      \* per event: its rows in identity_events
  lines      \* per event: its lines in the archive

vars == <<message, attempts, batch, step, rows, lines>>

Deliveries == QueueRetries + 1

TypeOK ==
  /\ message \in [Events -> {"unsent", "queued", "taken", "gone"}]
  /\ attempts \in [Events -> 0..Deliveries]
  /\ batch \in [Consumers -> SUBSET Events]
  /\ step \in [Consumers -> {"idle", "mapped", "inserted", "archived", "failed"}]
  /\ rows \in [Events -> 0..Deliveries]
  /\ lines \in [Events -> 0..Deliveries]

Init ==
  /\ message = [e \in Events |-> "unsent"]
  /\ attempts = [e \in Events |-> 0]
  /\ batch = [c \in Consumers |-> {}]
  /\ step = [c \in Consumers |-> "idle"]
  /\ rows = [e \in Events |-> 0]
  /\ lines = [e \in Events |-> 0]
-----------------------------------------------------------------------------
\* count[e] one up for every e of the batch.
Raise(count, events) ==
  [e \in Events |-> IF e \in events THEN count[e] + 1 ELSE count[e]]

GoTo(c, s) == step' = [step EXCEPT ![c] = s]

\* The invocation is over: the messages in again are queued once more, the
\* others of its batch are gone.
Return(c, again) ==
  /\ message' = [e \in Events |->
                  IF e \notin batch[c] THEN message[e]
                  ELSE IF e \in again THEN "queued" ELSE "gone"]
  /\ batch' = [batch EXCEPT ![c] = {}]
  /\ GoTo(c, "idle")
  /\ UNCHANGED <<attempts, rows, lines>>

\* enqueue(QUEUE_AUDIT, ...), or QUEUE_AUDIT.send of the admin middleware.
Enqueue(e) ==
  /\ message[e] = "unsent"
  /\ message' = [message EXCEPT ![e] = "queued"]
  /\ UNCHANGED <<attempts, batch, step, rows, lines>>

\* A batch is delivered and processBatch builds a row and a line of every
\* message; reading data.payload.eventType throws when there is no payload.
Deliver(c, events) ==
  /\ step[c] = "idle"
  /\ events # {}
  /\ Cardinality(events) <= BatchSize
  /\ \A e \in events : message[e] = "queued"
  /\ message' = [e \in Events |-> IF e \in events THEN "taken" ELSE message[e]]
  /\ attempts' = Raise(attempts, events)
  /\ batch' = [batch EXCEPT ![c] = events]
  /\ GoTo(c, IF events \cap NoPayload = {} THEN "mapped" ELSE "failed")
  /\ UNCHANGED <<rows, lines>>

\* Variant: the messages are acknowledged as soon as their rows are written.
InsertAndAck(c) ==
  /\ step[c] = "mapped"
  /\ batch[c] \cap TooLong = {}
  /\ rows' = Raise(rows, batch[c])
  /\ message' = [e \in Events |-> IF e \in batch[c] THEN "gone" ELSE message[e]]
  /\ GoTo(c, "inserted")
  /\ UNCHANGED <<attempts, batch, lines>>

\* db.insert(identityEvents).values(rows): one statement, all rows or none.
Insert(c) ==
  /\ step[c] = "mapped"
  /\ IF batch[c] \cap TooLong = {}
       THEN rows' = Raise(rows, batch[c]) /\ GoTo(c, "inserted")
       ELSE rows' = rows /\ GoTo(c, "failed")
  /\ UNCHANGED <<message, attempts, batch, lines>>

\* Variant: the archive is written before the table.
ArchiveFirst(c) ==
  /\ step[c] = "mapped"
  /\ lines' = Raise(lines, batch[c])
  /\ GoTo(c, "inserted")
  /\ UNCHANGED <<message, attempts, batch, rows>>

\* appendToR2Audit: a new file of this batch.
Archive(c) ==
  /\ step[c] = "inserted"
  /\ lines' = Raise(lines, batch[c])
  /\ GoTo(c, "archived")
  /\ UNCHANGED <<message, attempts, batch, rows>>

AckAll(c) == step[c] = "archived" /\ Return(c, {})

\* Variant: a failed batch is acknowledged one attempt early.
GivenUpEarly(e) == attempts[e] + 1 >= MaxRetries

\* msg.attempts >= maxRetries
GivenUp(e) == attempts[e] >= MaxRetries

\* Variant: a failed batch is retried without a limit of its own.
RetryAll(c) ==
  /\ step[c] = "failed"
  /\ Return(c, batch[c])

\* The catch block of handleBatch: the whole batch is retried, and whatever
\* has had its attempts is acknowledged, the log being its dead letter.
RetryBatch(c) ==
  /\ step[c] = "failed"
  /\ Return(c, {e \in batch[c] : ~GivenUp(e)})

\* A call to the database or to R2 fails, before or after taking effect.
CallFails(c) ==
  /\ Faults
  /\ step[c] \in {"mapped", "inserted"}
  /\ \/ UNCHANGED <<rows, lines>>
     \/ /\ step[c] = "mapped" /\ batch[c] \cap TooLong = {}
        /\ rows' = Raise(rows, batch[c])
        /\ lines' = lines
     \/ /\ step[c] = "inserted"
        /\ lines' = Raise(lines, batch[c])
        /\ rows' = rows
  /\ GoTo(c, "failed")
  /\ UNCHANGED <<message, attempts, batch>>

\* The invocation is cut off.  The queue delivers its messages again, or drops
\* those that were delivered max_retries + 1 times.
CutOff(c) ==
  /\ Faults
  /\ step[c] # "idle"
  /\ Return(c, {e \in batch[c] : attempts[e] <= QueueRetries})
-----------------------------------------------------------------------------
Handle(c) ==
  \/ Insert(c)
  \/ Archive(c)
  \/ AckAll(c)
  \/ RetryBatch(c)
  \/ CallFails(c)
  \/ CutOff(c)

DeliverSome == \E c \in Consumers, events \in SUBSET Events : Deliver(c, events)

Next ==
  \/ \E e \in Events : Enqueue(e)
  \/ DeliverSome
  \/ \E c \in Consumers : Handle(c)

\* The queue delivers while it has messages, and an invocation goes on until
\* it returns or is cut off.
Fairness == WF_vars(DeliverSome) /\ \A c \in Consumers : WF_vars(Handle(c))

Spec == Init /\ [][Next]_vars /\ Fairness
-----------------------------------------------------------------------------
Recordable(e) == e \notin NoPayload \cup TooLong

\* However often a message is redelivered, batched anew, half written or cut
\* off, the archive never has more lines of an event than the table has rows
\* (each line carries the id of a row), and neither has more than one for each
\* delivery, which is what bounds the duplicates the retries leave.
ArchiveMatchesTable ==
  \A e \in Events : lines[e] <= rows[e] /\ rows[e] <= attempts[e]

\* A message that is gone was written by the invocation that acknowledged it,
\* or was given up; nothing still running writes it, and it does not come back.
GoneForGood ==
  [][\A e \in Events : message[e] = "gone" =>
       message'[e] = "gone" /\ rows'[e] = rows[e] /\ lines'[e] = lines[e]]_vars

\* "Batch processing with per-message error handling" (base-consumer.ts:5):
\* when no call fails, an event the table can hold is not lost.
RecordableEventsRecorded ==
  \A e \in Events : message[e] = "gone" /\ Recordable(e) => rows[e] > 0

(***************************************************************************)
(* The pipeline implements bounded delivery.                               *)
(***************************************************************************)

\* What has been archived is done, also when its message is still to be
\* delivered again.
outcomeOf ==
  [e \in Events |->
     IF message[e] = "unsent" THEN "unsent"
     ELSE IF lines[e] > 0 THEN "done"
     ELSE IF message[e] = "gone" THEN "given up" ELSE "pending"]

Delivery == INSTANCE BoundedDelivery
  WITH Messages <- Events, Limit <- MaxRetries,
       outcome <- outcomeOf, tries <- attempts

\* An event is recorded in table and archive, or MaxRetries attempts at it
\* failed: none is dropped before, none is pending for ever.
ImplementsDelivery == Delivery!Spec

\* The same without liveness.
ImplementsDeliverySafety == Delivery!Safety
=============================================================================
