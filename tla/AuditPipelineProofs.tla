------------------------- MODULE AuditPipelineProofs -------------------------
(***************************************************************************)
(* Theorems about AuditPipeline, for any number of events and concurrent   *)
(* invocations, any batch size and any retry limits, with calls that fail  *)
(* and invocations that are cut off anywhere.                              *)
(***************************************************************************)
EXTENDS AuditPipeline, TLAPS

(***************************************************************************)
(* The inductive invariant.  ArchiveMatchesTable says nothing of the       *)
(* delivery under way: a row may be written because this attempt has not   *)
(* written one yet, and a line because its row has been.                   *)
(***************************************************************************)

\* A message taken belongs to one invocation, and to no other.
BatchesTaken ==
  /\ \A c \in Consumers : step[c] = "idle" => batch[c] = {}
  /\ \A c \in Consumers : \A e \in batch[c] : message[e] = "taken"
  /\ \A c, d \in Consumers : c # d => batch[c] \cap batch[d] = {}

\* What the invocation of c has written of its batch so far.
WrittenInTurn ==
  \A c \in Consumers : \A e \in batch[c] :
    /\ step[c] = "mapped" => rows[e] < attempts[e]
    /\ step[c] = "inserted" => lines[e] < rows[e]
    /\ step[c] = "archived" => lines[e] > 0

\* How often a message that waits, or waited never, has been delivered.
AttemptsLeft ==
  \A e \in Events :
    /\ message[e] = "unsent" => attempts[e] = 0
    /\ message[e] = "queued" => attempts[e] <= QueueRetries
    /\ message[e] = "taken" => attempts[e] > 0

IInv ==
  /\ TypeOK
  /\ ArchiveMatchesTable
  /\ BatchesTaken
  /\ WrittenInTurn
  /\ AttemptsLeft

LEMMA InitIInv == Init => IInv
<1> SUFFICES ASSUME Init PROVE IInv
  OBVIOUS
<1>1. 0 \in 0..Deliveries
  BY AuditAssumption DEF Deliveries
<1>2. TypeOK
  BY <1>1 DEF Init, TypeOK
<1>3. ArchiveMatchesTable /\ AttemptsLeft
  BY AuditAssumption DEF Init, ArchiveMatchesTable, AttemptsLeft
<1>4. BatchesTaken /\ WrittenInTurn
  BY DEF Init, BatchesTaken, WrittenInTurn
<1> QED
  BY <1>2, <1>3, <1>4 DEF IInv
-----------------------------------------------------------------------------
\* One more for some of the events.
LEMMA RaiseType ==
  ASSUME NEW events \in SUBSET Events, NEW count \in [Events -> 0..Deliveries],
         \A e \in events : count[e] < Deliveries
  PROVE  Raise(count, events) \in [Events -> 0..Deliveries]
<1>1. \A e \in Events : (IF e \in events THEN count[e] + 1 ELSE count[e]) \in 0..Deliveries
  BY AuditAssumption DEF Deliveries
<1> QED
  BY <1>1 DEF Raise

\* Sending concerns no invocation.
LEMMA EnqueueIInv ==
  ASSUME IInv, NEW k \in Events, Enqueue(k)
  PROVE  IInv'
<1> USE DEF IInv, Enqueue
<1>1. TypeOK'
  BY DEF TypeOK
<1>2. ArchiveMatchesTable'
  BY DEF ArchiveMatchesTable
<1>3. BatchesTaken'
  BY DEF BatchesTaken, TypeOK
<1>4. WrittenInTurn'
  BY DEF WrittenInTurn
<1>5. AttemptsLeft'
  BY AuditAssumption DEF AttemptsLeft, TypeOK
<1> QED
  BY <1>1, <1>2, <1>3, <1>4, <1>5

\* A delivery takes queued messages, which no other invocation has.
LEMMA DeliverIInv ==
  ASSUME IInv, NEW c \in Consumers, NEW events \in SUBSET Events, Deliver(c, events)
  PROVE  IInv'
<1> USE DEF IInv, Deliver, GoTo
<1>1. TypeOK'
  <2>1. \A e \in Events : attempts[e] \in 0..Deliveries
    BY DEF TypeOK
  <2>2. \A e \in events : attempts[e] < Deliveries
    BY <2>1, AuditAssumption DEF TypeOK, AttemptsLeft, Deliveries
  <2>3. attempts' \in [Events -> 0..Deliveries]
    BY <2>2, RaiseType DEF TypeOK
  <2> QED
    BY <2>3 DEF TypeOK
<1>2. \A e \in Events : attempts'[e] = attempts[e] + IF e \in events THEN 1 ELSE 0
  BY DEF Raise, TypeOK, Deliveries
<1>3. ArchiveMatchesTable'
  BY <1>2, AuditAssumption DEF ArchiveMatchesTable, TypeOK, Deliveries
<1>4. batch[c] = {} /\ \A d \in Consumers : batch[d] \cap events = {}
  BY DEF BatchesTaken, TypeOK
<1>5. BatchesTaken'
  BY <1>4 DEF BatchesTaken, TypeOK
<1>6. WrittenInTurn'
  <2>1. ASSUME NEW d \in Consumers, NEW e \in batch'[d]
        PROVE  /\ step'[d] = "mapped" => rows'[e] < attempts'[e]
               /\ step'[d] = "inserted" => lines'[e] < rows'[e]
               /\ step'[d] = "archived" => lines'[e] > 0
    <3>1. CASE d = c
      <4>1. e \in events /\ e \in Events /\ step'[d] \in {"mapped", "failed"}
        BY <2>1, <3>1 DEF TypeOK
      <4> QED
        BY <4>1, <1>2, AuditAssumption DEF ArchiveMatchesTable, TypeOK, Deliveries
    <3>2. CASE d # c
      <4>1. e \in batch[d] /\ e \in Events /\ e \notin events /\ step'[d] = step[d]
        BY <2>1, <3>2, <1>4 DEF TypeOK
      <4> QED
        BY <4>1, <1>2, AuditAssumption DEF WrittenInTurn, TypeOK, Deliveries
    <3> QED
      BY <3>1, <3>2
  <2> QED
    BY <2>1 DEF WrittenInTurn
<1>7. AttemptsLeft'
  BY <1>2, AuditAssumption DEF AttemptsLeft, TypeOK, Deliveries
<1> QED
  BY <1>1, <1>3, <1>5, <1>6, <1>7

\* An invocation moves from one step to a later one, having written a row or a
\* line of each of its messages, or nothing.
LEMMA WriteIInv ==
  ASSUME IInv, NEW c \in Consumers, NEW s \in {"inserted", "archived", "failed"},
         step[c] \in {"mapped", "inserted"}, GoTo(c, s),
         UNCHANGED <<message, attempts, batch>>,
         \/ rows' = rows /\ lines' = lines /\ s = "failed"
         \/ /\ step[c] = "mapped" /\ s \in {"inserted", "failed"}
            /\ rows' = Raise(rows, batch[c]) /\ lines' = lines
         \/ /\ step[c] = "inserted" /\ s \in {"archived", "failed"}
            /\ lines' = Raise(lines, batch[c]) /\ rows' = rows
  PROVE  IInv'
<1> USE DEF IInv, GoTo
<1>1. /\ batch[c] \in SUBSET Events
      /\ \A e \in Events : /\ rows[e] \in 0..Deliveries
                           /\ lines[e] \in 0..Deliveries
                           /\ attempts[e] \in 0..Deliveries
  BY DEF TypeOK
<1>2. /\ step[c] = "mapped" => \A e \in batch[c] : rows[e] < attempts[e]
      /\ step[c] = "inserted" => \A e \in batch[c] : lines[e] < rows[e]
  BY DEF WrittenInTurn
<1>3. rows' \in [Events -> 0..Deliveries] /\ lines' \in [Events -> 0..Deliveries]
  <2>1. /\ step[c] = "mapped" => \A e \in batch[c] : rows[e] < Deliveries
        /\ step[c] = "inserted" => \A e \in batch[c] : lines[e] < Deliveries
    BY <1>1, <1>2, AuditAssumption DEF Deliveries
  <2>2. step[c] = "mapped" => Raise(rows, batch[c]) \in [Events -> 0..Deliveries]
    BY <1>1, <2>1, RaiseType DEF TypeOK
  <2>3. step[c] = "inserted" => Raise(lines, batch[c]) \in [Events -> 0..Deliveries]
    BY <1>1, <2>1, RaiseType DEF TypeOK
  <2> QED
    BY <2>2, <2>3 DEF TypeOK
<1>4. TypeOK'
  BY <1>3 DEF TypeOK
<1>5. ArchiveMatchesTable'
  BY <1>1, <1>2, AuditAssumption DEF ArchiveMatchesTable, Raise, Deliveries
<1>6. BatchesTaken'
  BY DEF BatchesTaken, TypeOK
<1>7. WrittenInTurn'
  <2>1. ASSUME NEW d \in Consumers, NEW e \in batch[d]
        PROVE  /\ step'[d] = "mapped" => rows'[e] < attempts[e]
               /\ step'[d] = "inserted" => lines'[e] < rows'[e]
               /\ step'[d] = "archived" => lines'[e] > 0
    <3>1. e \in Events
      BY DEF TypeOK
    <3>2. CASE d = c
      BY <2>1, <3>1, <3>2, <1>1, <1>2, AuditAssumption
         DEF Raise, Deliveries, TypeOK, ArchiveMatchesTable
    <3>3. CASE d # c
      <4>1. e \notin batch[c] /\ step'[d] = step[d]
        BY <2>1, <3>3 DEF BatchesTaken, TypeOK
      <4>2. rows'[e] = rows[e] /\ lines'[e] = lines[e]
        BY <3>1, <4>1 DEF Raise
      <4> QED
        BY <2>1, <4>1, <4>2 DEF WrittenInTurn
    <3> QED
      BY <3>2, <3>3
  <2> QED
    BY <2>1 DEF WrittenInTurn
<1>8. AttemptsLeft'
  BY DEF AttemptsLeft
<1> QED
  BY <1>4, <1>5, <1>6, <1>7, <1>8

\* An invocation returns its messages, to the queue only while it delivers them.
LEMMA ReturnIInv ==
  ASSUME IInv, NEW c \in Consumers, NEW again \in SUBSET batch[c],
         \A e \in again : attempts[e] <= QueueRetries, Return(c, again)
  PROVE  IInv'
<1> USE DEF IInv, Return, GoTo
<1>1. TypeOK'
  BY DEF TypeOK
<1>2. ArchiveMatchesTable'
  BY DEF ArchiveMatchesTable
<1>3. BatchesTaken'
  BY DEF BatchesTaken, TypeOK
<1>4. WrittenInTurn'
  BY DEF WrittenInTurn, TypeOK
<1>5. AttemptsLeft'
  BY DEF AttemptsLeft, TypeOK
<1> QED
  BY <1>1, <1>2, <1>3, <1>4, <1>5

LEMMA HandleIInv ==
  ASSUME IInv, NEW c \in Consumers, Handle(c)
  PROVE  IInv'
<1>1. CASE Insert(c)
  BY <1>1, WriteIInv DEF Insert
<1>2. CASE Archive(c)
  BY <1>2, WriteIInv DEF Archive
<1>3. CASE AckAll(c)
  BY <1>3, ReturnIInv DEF AckAll
<1>4. CASE RetryBatch(c)
  <2>1. \A e \in batch[c] : ~GivenUp(e) => attempts[e] <= QueueRetries
    BY AuditAssumption DEF IInv, TypeOK, Deliveries, GivenUp
  <2> QED
    BY <1>4, <2>1, ReturnIInv DEF RetryBatch
<1>5. CASE CallFails(c)
  BY <1>5, WriteIInv DEF CallFails
<1>6. CASE CutOff(c)
  BY <1>6, ReturnIInv DEF CutOff
<1> QED
  BY <1>1, <1>2, <1>3, <1>4, <1>5, <1>6 DEF Handle

\* Every reachable state satisfies the inductive invariant.
THEOREM Invariance == Spec => []IInv
<1>1. IInv /\ [Next]_vars => IInv'
  <2> SUFFICES ASSUME IInv, [Next]_vars PROVE IInv'
    OBVIOUS
  <2>1. ASSUME NEW e \in Events, Enqueue(e) PROVE IInv'
    BY <2>1, EnqueueIInv
  <2>2. CASE DeliverSome
    BY <2>2, DeliverIInv DEF DeliverSome
  <2>3. ASSUME NEW c \in Consumers, Handle(c) PROVE IInv'
    BY <2>3, HandleIInv
  <2>4. CASE UNCHANGED vars
    BY <2>4 DEF vars, IInv, TypeOK, ArchiveMatchesTable, BatchesTaken,
                WrittenInTurn, AttemptsLeft
  <2> QED
    BY <2>1, <2>2, <2>3, <2>4 DEF Next
<1> QED
  BY InitIInv, <1>1, PTL DEF Spec

\* Every variable has its type; attempts, rows and lines never exceed the
\* deliveries the queue makes.
THEOREM TypeCorrect == Spec => []TypeOK
BY Invariance, PTL DEF IInv

\* Every archived line has its row and every row its delivery: retries, partial
\* failures and invocations cut off leave duplicates, but no line without row.
THEOREM ArchiveFollowsTable == Spec => []ArchiveMatchesTable
BY Invariance, PTL DEF IInv
-----------------------------------------------------------------------------
\* A step that returns nothing of e's batch leaves a gone e alone.
LEMMA GoneStep ==
  ASSUME IInv, [Next]_vars, NEW e \in Events, message[e] = "gone"
  PROVE  message'[e] = "gone" /\ rows'[e] = rows[e] /\ lines'[e] = lines[e]
<1>1. \A c \in Consumers : e \notin batch[c]
  BY DEF IInv, BatchesTaken
<1>2. ASSUME NEW k \in Events, Enqueue(k)
      PROVE  message'[e] = "gone" /\ rows'[e] = rows[e] /\ lines'[e] = lines[e]
  BY <1>2 DEF Enqueue, IInv, TypeOK
<1>3. ASSUME NEW c \in Consumers, NEW events \in SUBSET Events, Deliver(c, events)
      PROVE  message'[e] = "gone" /\ rows'[e] = rows[e] /\ lines'[e] = lines[e]
  BY <1>3 DEF Deliver
<1>4. ASSUME NEW c \in Consumers, Handle(c)
      PROVE  message'[e] = "gone" /\ rows'[e] = rows[e] /\ lines'[e] = lines[e]
  <2>1. ASSUME NEW again, Return(c, again)
        PROVE  message'[e] = "gone" /\ rows'[e] = rows[e] /\ lines'[e] = lines[e]
    BY <2>1, <1>1 DEF Return
  <2>2. CASE Insert(c) \/ Archive(c) \/ CallFails(c)
    BY <2>2, <1>1 DEF Insert, Archive, CallFails, Raise
  <2> QED
    BY <1>4, <2>1, <2>2 DEF Handle, AckAll, RetryBatch, CutOff
<1> QED
  BY <1>2, <1>3, <1>4 DEF Next, DeliverSome, vars

\* A message that was acknowledged or dropped stays so and is written by no
\* invocation any more.
THEOREM GoneStaysGone == Spec => GoneForGood
<1>1. IInv /\ [Next]_vars
        => [\A e \in Events : message[e] = "gone" =>
              message'[e] = "gone" /\ rows'[e] = rows[e] /\ lines'[e] = lines[e]]_vars
  BY GoneStep
<1> QED
  BY <1>1, Invariance, PTL DEF Spec, GoneForGood
-----------------------------------------------------------------------------
(***************************************************************************)
(* Refinement.                                                             *)
(***************************************************************************)

\* An event is pending while it is queued or taken and has no line yet.
LEMMA OutcomeOf ==
  ASSUME NEW e \in Events
  PROVE  outcomeOf[e] =
           IF message[e] = "unsent" THEN "unsent"
           ELSE IF lines[e] > 0 THEN "done"
           ELSE IF message[e] = "gone" THEN "given up" ELSE "pending"
BY DEF outcomeOf

\* The messages of a batch are pending or done.
LEMMA BatchPending ==
  ASSUME IInv, NEW c \in Consumers, NEW e \in batch[c]
  PROVE  /\ e \in Events
         /\ message[e] = "taken"
         /\ attempts[e] > 0
         /\ outcomeOf[e] = IF lines[e] > 0 THEN "done" ELSE "pending"
BY OutcomeOf DEF IInv, TypeOK, BatchesTaken, AttemptsLeft

LEMMA SendStep ==
  ASSUME IInv, NEW k \in Events, Enqueue(k)
  PROVE  Delivery!Send(k)
<1>1. lines[k] = 0
  BY AuditAssumption
     DEF IInv, TypeOK, Deliveries, AttemptsLeft, ArchiveMatchesTable, Enqueue
<1>2. \A e \in Events : outcomeOf'[e] = IF e = k THEN "pending" ELSE outcomeOf[e]
  <2> SUFFICES ASSUME NEW e \in Events
               PROVE  outcomeOf'[e] = IF e = k THEN "pending" ELSE outcomeOf[e]
    OBVIOUS
  <2>1. lines' = lines /\ message'[e] = IF e = k THEN "queued" ELSE message[e]
    BY DEF Enqueue, IInv, TypeOK
  <2>2. /\ outcomeOf[e] = IF message[e] = "unsent" THEN "unsent"
                          ELSE IF lines[e] > 0 THEN "done"
                          ELSE IF message[e] = "gone" THEN "given up" ELSE "pending"
        /\ outcomeOf'[e] = IF message'[e] = "unsent" THEN "unsent"
                           ELSE IF lines'[e] > 0 THEN "done"
                           ELSE IF message'[e] = "gone" THEN "given up" ELSE "pending"
    BY OutcomeOf DEF outcomeOf
  <2>3. CASE e = k
    <3>1. message'[e] = "queued"
      BY <2>1, <2>3
    <3>2. ~(lines'[e] > 0)
      BY <1>1, <2>1, <2>3
    <3> QED
      BY <2>2, <2>3, <3>1, <3>2
  <2>4. CASE e # k
    <3>1. message'[e] = message[e] /\ lines'[e] = lines[e]
      BY <2>1, <2>4
    <3> QED
      BY <2>2, <2>4, <3>1
  <2> QED
    BY <2>3, <2>4
<1>3. outcomeOf[k] = "unsent"
  BY DEF outcomeOf, Enqueue
<1>4. outcomeOf' = [e \in Events |-> IF e \in {k} THEN "pending" ELSE outcomeOf[e]]
  BY <1>2 DEF outcomeOf
<1> QED
  BY <1>3, <1>4 DEF Delivery!Send, Delivery!Become, Enqueue

LEMMA TryStep ==
  ASSUME IInv, NEW c \in Consumers, NEW events \in SUBSET Events, Deliver(c, events)
  PROVE  Delivery!Try(events)
<1>1. \A e \in events : outcomeOf[e] \in {"pending", "done"}
  BY DEF outcomeOf, Deliver
<1>2. outcomeOf' = outcomeOf
  BY DEF outcomeOf, Deliver
<1>3. attempts' = [e \in Events |-> attempts[e] + IF e \in events THEN 1 ELSE 0]
  BY AuditAssumption DEF Deliver, Raise, IInv, TypeOK, Deliveries
<1> QED
  BY <1>1, <1>2, <1>3 DEF Delivery!Try

\* Whatever leaves messages, lines and attempts alone is invisible.
LEMMA Stutter ==
  ASSUME UNCHANGED <<message, lines, attempts>>
  PROVE  UNCHANGED <<outcomeOf, attempts>>
BY DEF outcomeOf

\* Lines of a whole batch appear: what was pending of it is done.
LEMMA FinishStep ==
  ASSUME IInv, NEW c \in Consumers, lines' = Raise(lines, batch[c]),
         UNCHANGED <<message, attempts>>
  PROVE  Delivery!Finish({e \in batch[c] : lines[e] = 0})
<1> DEFINE fresh == {e \in batch[c] : lines[e] = 0}
<1>1. \A e \in fresh : outcomeOf[e] = "pending" /\ attempts[e] > 0
  BY BatchPending
<1>2. \A e \in Events : lines[e] \in Nat
  BY DEF IInv, TypeOK, Deliveries
<1>3. \A e \in Events : outcomeOf'[e] = IF e \in fresh THEN "done" ELSE outcomeOf[e]
  <2> SUFFICES ASSUME NEW e \in Events
               PROVE  outcomeOf'[e] = IF e \in fresh THEN "done" ELSE outcomeOf[e]
    OBVIOUS
  <2>1. message' = message /\ lines'[e] = IF e \in batch[c] THEN lines[e] + 1 ELSE lines[e]
    BY DEF Raise
  <2>2. /\ outcomeOf[e] = IF message[e] = "unsent" THEN "unsent"
                          ELSE IF lines[e] > 0 THEN "done"
                          ELSE IF message[e] = "gone" THEN "given up" ELSE "pending"
        /\ outcomeOf'[e] = IF message'[e] = "unsent" THEN "unsent"
                           ELSE IF lines'[e] > 0 THEN "done"
                           ELSE IF message'[e] = "gone" THEN "given up" ELSE "pending"
    BY OutcomeOf DEF outcomeOf
  <2>3. e \in batch[c] => message[e] = "taken"
    BY BatchPending
  <2>4. CASE e \in fresh
    <3>1. message'[e] = "taken" /\ lines'[e] > 0
      BY <2>1, <2>3, <2>4
    <3> QED
      BY <2>2, <2>4, <3>1
  <2>5. CASE e \notin fresh
    <3>1. message'[e] = message[e] /\ (lines'[e] > 0 <=> lines[e] > 0)
      BY <1>2, <2>1, <2>5
    <3> QED
      BY <2>2, <2>5, <3>1
  <2> QED
    BY <2>4, <2>5
<1>4. outcomeOf' = [e \in Events |-> IF e \in fresh THEN "done" ELSE outcomeOf[e]]
  BY <1>3 DEF outcomeOf
<1> QED
  BY <1>1, <1>4 DEF Delivery!Finish, Delivery!Become

\* An invocation returns: what is neither archived nor queued again is given
\* up, after MaxRetries attempts at least.
LEMMA GiveUpStep ==
  ASSUME IInv, NEW c \in Consumers, NEW again \in SUBSET batch[c], Return(c, again),
         \A e \in batch[c] : e \in again \/ lines[e] > 0 \/ attempts[e] >= MaxRetries
  PROVE  Delivery!GiveUp({e \in batch[c] : lines[e] = 0 /\ e \notin again})
<1> DEFINE dropped == {e \in batch[c] : lines[e] = 0 /\ e \notin again}
<1>1. \A e \in dropped : outcomeOf[e] = "pending" /\ attempts[e] >= MaxRetries
  BY BatchPending
<1>2. \A e \in Events : lines[e] \in Nat
  BY DEF IInv, TypeOK, Deliveries
<1>3. \A e \in Events :
        outcomeOf'[e] = IF e \in dropped THEN "given up" ELSE outcomeOf[e]
  <2> SUFFICES ASSUME NEW e \in Events
               PROVE  outcomeOf'[e] = IF e \in dropped THEN "given up" ELSE outcomeOf[e]
    OBVIOUS
  <2>1. lines' = lines /\ message'[e] = IF e \notin batch[c] THEN message[e]
                                       ELSE IF e \in again THEN "queued" ELSE "gone"
    BY DEF Return
  <2>2. /\ outcomeOf[e] = IF message[e] = "unsent" THEN "unsent"
                          ELSE IF lines[e] > 0 THEN "done"
                          ELSE IF message[e] = "gone" THEN "given up" ELSE "pending"
        /\ outcomeOf'[e] = IF message'[e] = "unsent" THEN "unsent"
                           ELSE IF lines'[e] > 0 THEN "done"
                           ELSE IF message'[e] = "gone" THEN "given up" ELSE "pending"
    BY OutcomeOf DEF outcomeOf
  <2>3. e \in batch[c] => message[e] = "taken"
    BY BatchPending
  <2>4. CASE e \in dropped
    <3>1. message'[e] = "gone" /\ ~(lines'[e] > 0)
      BY <1>2, <2>1, <2>4
    <3> QED
      BY <2>2, <2>4, <3>1
  <2>5. CASE e \in batch[c] \ dropped
    <3>1. message'[e] \in {"queued", "gone"} /\ (message'[e] = "gone" => lines[e] > 0)
      BY <1>2, <2>1, <2>5
    <3> QED
      BY <2>1, <2>2, <2>3, <2>5, <3>1
  <2>6. CASE e \notin batch[c]
    <3>1. message'[e] = message[e] /\ lines'[e] = lines[e]
      BY <2>1, <2>6
    <3> QED
      BY <2>2, <2>6, <3>1
  <2> QED
    BY <2>4, <2>5, <2>6
<1>4. outcomeOf' = [e \in Events |-> IF e \in dropped THEN "given up" ELSE outcomeOf[e]]
  BY <1>3 DEF outcomeOf
<1> QED
  BY <1>1, <1>4 DEF Delivery!GiveUp, Delivery!Become, Return

LEMMA HandleRefines ==
  ASSUME IInv, NEW c \in Consumers, Handle(c)
  PROVE  \/ \E events \in SUBSET Events :
              Delivery!Finish(events) \/ Delivery!GiveUp(events)
         \/ UNCHANGED <<outcomeOf, attempts>>
<1>1. batch[c] \in SUBSET Events
  BY DEF IInv, TypeOK
<1>2. ASSUME lines' = Raise(lines, batch[c]), UNCHANGED <<message, attempts>>
      PROVE  \E events \in SUBSET Events : Delivery!Finish(events)
  BY <1>1, <1>2, FinishStep
<1>3. ASSUME NEW again \in SUBSET batch[c], Return(c, again),
             \A e \in batch[c] : e \in again \/ lines[e] > 0 \/ attempts[e] >= MaxRetries
      PROVE  \E events \in SUBSET Events : Delivery!GiveUp(events)
  BY <1>1, <1>3, GiveUpStep
<1>4. CASE Insert(c)
  BY <1>4, Stutter DEF Insert
<1>5. CASE Archive(c)
  BY <1>5, <1>2 DEF Archive
<1>6. CASE AckAll(c)
  <2>1. \A e \in batch[c] : lines[e] > 0
    BY <1>6 DEF AckAll, IInv, WrittenInTurn
  <2> QED
    BY <1>6, <2>1, <1>3 DEF AckAll
<1>7. CASE RetryBatch(c)
  BY <1>7, <1>3 DEF RetryBatch, GivenUp
<1>8. CASE CallFails(c)
  BY <1>8, <1>2, Stutter DEF CallFails
<1>9. CASE CutOff(c)
  <2>1. \A e \in batch[c] : attempts[e] <= QueueRetries \/ attempts[e] >= MaxRetries
    BY <1>1, AuditAssumption DEF IInv, TypeOK, Deliveries
  <2> QED
    BY <1>9, <2>1, <1>3 DEF CutOff
<1> QED
  BY <1>4, <1>5, <1>6, <1>7, <1>8, <1>9, Zenon DEF Handle

LEMMA InitRefines == Init => Delivery!Init
BY DEF Init, Delivery!Init, outcomeOf

LEMMA NextRefines ==
  ASSUME IInv, [Next]_vars
  PROVE  [Delivery!Next]_<<outcomeOf, attempts>>
<1>1. ASSUME NEW e \in Events, Enqueue(e)
      PROVE  [Delivery!Next]_<<outcomeOf, attempts>>
  BY <1>1, SendStep DEF Delivery!Next
<1>2. CASE DeliverSome
  BY <1>2, TryStep DEF DeliverSome, Delivery!Next
<1>3. ASSUME NEW c \in Consumers, Handle(c)
      PROVE  [Delivery!Next]_<<outcomeOf, attempts>>
  BY <1>3, HandleRefines DEF Delivery!Next
<1>4. CASE UNCHANGED vars
  BY <1>4, Stutter DEF vars
<1> QED
  BY <1>1, <1>2, <1>3, <1>4 DEF Next

\* Batches, retries, failures and invocations cut off are a bounded delivery:
\* an event is archived, or was attempted MaxRetries times before it is lost.
THEOREM PipelineRefinesDelivery == Spec => ImplementsDeliverySafety
<1>1. Init /\ [][Next]_vars /\ []IInv
        => Delivery!Init /\ [][Delivery!Next]_<<outcomeOf, attempts>>
  BY InitRefines, NextRefines, PTL
<1> QED
  BY <1>1, Invariance, PTL
     DEF Spec, ImplementsDeliverySafety, Delivery!Safety, Delivery!vars
-----------------------------------------------------------------------------
(***************************************************************************)
(* What the refinement tells an auditor.                                   *)
(***************************************************************************)

GivenUpLate == \A e \in Events : outcomeOf[e] = "given up" => attempts[e] >= MaxRetries

LEMMA GivenUpLateStep ==
  ASSUME TypeOK, GivenUpLate, [Delivery!Next]_<<outcomeOf, attempts>>
  PROVE  GivenUpLate'
<1>1. attempts \in [Events -> Nat] /\ MaxRetries \in Nat
  BY AuditAssumption DEF TypeOK, Deliveries
<1>2. ASSUME NEW e \in Events, Delivery!Send(e)
      PROVE  GivenUpLate'
  BY <1>2 DEF Delivery!Send, Delivery!Become, GivenUpLate
<1>3. ASSUME NEW events \in SUBSET Events, Delivery!Try(events)
      PROVE  GivenUpLate'
  <2>1. \A e \in Events : attempts'[e] >= attempts[e]
    BY <1>1, <1>3 DEF Delivery!Try
  <2>2. outcomeOf' = outcomeOf
    BY <1>3 DEF Delivery!Try
  <2>3. \A e \in Events : attempts'[e] \in Nat
    BY <1>1, <1>3 DEF Delivery!Try
  <2>4. ASSUME NEW e \in Events, outcomeOf'[e] = "given up" PROVE attempts'[e] >= MaxRetries
    <3>1. attempts[e] >= MaxRetries
      BY <2>2, <2>4 DEF GivenUpLate
    <3>2. attempts[e] \in Nat
      BY <1>1
    <3> QED
      BY <1>1, <2>1, <2>3, <3>1, <3>2
  <2> QED
    BY <2>4 DEF GivenUpLate
<1>4. ASSUME NEW events \in SUBSET Events, Delivery!Finish(events)
      PROVE  GivenUpLate'
  BY <1>4 DEF Delivery!Finish, Delivery!Become, GivenUpLate
<1>5. ASSUME NEW events \in SUBSET Events, Delivery!GiveUp(events)
      PROVE  GivenUpLate'
  BY <1>5 DEF Delivery!GiveUp, Delivery!Become, GivenUpLate
<1>6. CASE UNCHANGED <<outcomeOf, attempts>>
  BY <1>6 DEF GivenUpLate
<1> QED
  BY <1>2, <1>3, <1>4, <1>5, <1>6 DEF Delivery!Next

\* An event whose message is gone and that is in no archive was attempted
\* MaxRetries times: the pipeline loses none before that, whatever shared its
\* batches, failed or was cut off.
THEOREM NoneIsLostEarly ==
  Spec => [](\A e \in Events :
               message[e] = "gone" /\ ~(lines[e] > 0) => attempts[e] >= MaxRetries)
<1>1. Init => GivenUpLate
  BY InitRefines DEF Delivery!Init, GivenUpLate
<1>2. IInv /\ GivenUpLate /\ [Next]_vars => GivenUpLate'
  BY NextRefines, GivenUpLateStep DEF IInv
<1>3. GivenUpLate => \A e \in Events :
        message[e] = "gone" /\ ~(lines[e] > 0) => attempts[e] >= MaxRetries
  BY DEF GivenUpLate, outcomeOf
<1> QED
  BY <1>1, <1>2, <1>3, Invariance, PTL DEF Spec
-----------------------------------------------------------------------------
(***************************************************************************)
(* What is left of RecordableEventsRecorded.                               *)
(***************************************************************************)

Poisoned(c) == \E d \in batch[c] : ~Recordable(d)

\* When no call fails, an invocation fails because of a message of its batch.
FailedPoisoned == ~Faults => \A c \in Consumers : step[c] = "failed" => Poisoned(c)

LEMMA FailedPoisonedStep ==
  ASSUME IInv, FailedPoisoned, [Next]_vars
  PROVE  FailedPoisoned'
<1> SUFFICES ASSUME ~Faults, NEW c \in Consumers, step'[c] = "failed"
             PROVE  Poisoned(c)'
  BY DEF FailedPoisoned
<1>0. TypeOK
  BY DEF IInv
<1>1. CASE step[c] = "failed" /\ batch'[c] = batch[c]
  BY <1>1 DEF FailedPoisoned, Poisoned
<1>2. ASSUME NEW d \in Consumers, NEW events \in SUBSET Events, Deliver(d, events)
      PROVE  Poisoned(c)'
  <2>1. CASE d = c
    BY <1>0, <1>2, <2>1 DEF Deliver, GoTo, TypeOK, Poisoned, Recordable
  <2>2. CASE d # c
    BY <1>0, <1>1, <1>2, <2>2 DEF Deliver, GoTo, TypeOK
  <2> QED
    BY <2>1, <2>2
<1>3. ASSUME NEW d \in Consumers, Handle(d)
      PROVE  Poisoned(c)'
  <2>1. CASE Insert(d)
    <3>1. CASE d = c
      BY <1>0, <2>1, <3>1 DEF Insert, GoTo, TypeOK, Poisoned, Recordable
    <3>2. CASE d # c
      BY <1>0, <1>1, <2>1, <3>2 DEF Insert, GoTo, TypeOK
    <3> QED
      BY <3>1, <3>2
  <2>2. CASE Archive(d)
    BY <1>0, <1>1, <2>2 DEF Archive, GoTo, TypeOK
  <2>3. ASSUME NEW again, Return(d, again)
        PROVE  Poisoned(c)'
    BY <1>0, <1>1, <2>3 DEF Return, GoTo, TypeOK
  <2> QED
    BY <1>3, <2>1, <2>2, <2>3 DEF Handle, AckAll, RetryBatch, CallFails, CutOff
<1>4. ASSUME UNCHANGED <<step, batch>> PROVE Poisoned(c)'
  BY <1>1, <1>4
<1> QED
  BY <1>2, <1>3, <1>4 DEF Next, DeliverSome, Enqueue, vars

\* A message that goes without its row leaves a poisoned batch.
LEMMA LossesArePoisoned ==
  ASSUME IInv, FailedPoisoned, [Next]_vars, ~Faults, NEW e \in Events,
         message[e] # "gone", message'[e] = "gone", rows[e] = 0
  PROVE  \E c \in Consumers : e \in batch[c] /\ Poisoned(c)
<1>0. TypeOK
  BY DEF IInv
<1>1. PICK c \in Consumers : AckAll(c) \/ RetryBatch(c)
  BY <1>0 DEF Next, Enqueue, DeliverSome, Deliver, Handle, Insert, Archive, CallFails,
              CutOff, vars, TypeOK
<1>2. e \in batch[c]
  BY <1>1 DEF AckAll, RetryBatch, Return
<1>3. ~AckAll(c)
  <2>1. step[c] = "archived" => lines[e] > 0 /\ lines[e] <= rows[e]
    BY <1>2 DEF IInv, WrittenInTurn, ArchiveMatchesTable
  <2>2. lines[e] \in Nat
    BY <1>0, AuditAssumption DEF TypeOK, Deliveries
  <2> QED
    BY <2>1, <2>2 DEF AckAll
<1> QED
  BY <1>1, <1>2, <1>3 DEF RetryBatch, FailedPoisoned

\* When no call fails, an event that is lost, that is whose message goes and of
\* which the table has no row, was in one batch with a message that has no
\* payload or that the column refuses, or was such a message itself.
THEOREM OnlyPoisonedBatchesLose ==
  Spec => [][\A e \in Events :
               ~Faults /\ message[e] # "gone" /\ message'[e] = "gone" /\ rows[e] = 0
                 => \E c \in Consumers : e \in batch[c] /\ Poisoned(c)]_vars
<1>1. Init => FailedPoisoned
  BY DEF Init, FailedPoisoned
<1>2. IInv /\ FailedPoisoned /\ [Next]_vars => FailedPoisoned'
  BY FailedPoisonedStep
<1>3. IInv /\ FailedPoisoned /\ [Next]_vars =>
        [\A e \in Events :
           ~Faults /\ message[e] # "gone" /\ message'[e] = "gone" /\ rows[e] = 0
             => \E c \in Consumers : e \in batch[c] /\ Poisoned(c)]_vars
  BY LossesArePoisoned
<1> QED
  BY <1>1, <1>2, <1>3, Invariance, PTL DEF Spec
=============================================================================
