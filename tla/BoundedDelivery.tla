--------------------------- MODULE BoundedDelivery ---------------------------
(***************************************************************************)
(* What a queue with a retry limit promises of its messages: each is tried *)
(* until its work is done or Limit attempts were made, work done is never  *)
(* undone, and no message stays pending for ever.                          *)
(***************************************************************************)
EXTENDS Naturals

CONSTANTS
  Messages,
  Limit      \* attempts before a message may be given up

VARIABLES
  outcome,   \* unsent, pending, done or given up
  tries      \* attempts made at each message

vars == <<outcome, tries>>

Init ==
  /\ outcome = [m \in Messages |-> "unsent"]
  /\ tries = [m \in Messages |-> 0]

\* Whatever is tried, done or given up together shares a batch.
Become(batch, from, to) ==
  /\ \A m \in batch : outcome[m] = from
  /\ outcome' = [m \in Messages |-> IF m \in batch THEN to ELSE outcome[m]]
  /\ UNCHANGED tries

Send(m) == Become({m}, "unsent", "pending")

Try(batch) ==
  /\ \A m \in batch : outcome[m] \in {"pending", "done"}
  /\ tries' = [m \in Messages |-> tries[m] + IF m \in batch THEN 1 ELSE 0]
  /\ UNCHANGED outcome

\* A redelivered message may be done again, which changes nothing.
Finish(batch) ==
  /\ \A m \in batch : tries[m] > 0
  /\ Become(batch, "pending", "done")

GiveUp(batch) ==
  /\ \A m \in batch : tries[m] >= Limit
  /\ Become(batch, "pending", "given up")

Next ==
  \/ \E m \in Messages : Send(m)
  \/ \E batch \in SUBSET Messages : Try(batch) \/ Finish(batch) \/ GiveUp(batch)

Settled(m) == outcome[m] \in {"done", "given up"}

Safety == Init /\ [][Next]_vars

Spec == Safety /\ \A m \in Messages : (outcome[m] = "pending") ~> Settled(m)
=============================================================================
