------------------------------- MODULE Consumer -------------------------------
(***************************************************************************)
(* The projection consumer: candidate processes elect a leader by a        *)
(* session advisory lock, drain the feed through retry and a circuit       *)
(* breaker into the read models, and park what cannot be applied in the    *)
(* dead-letter queue, which operators redrive.                             *)
(*                                                                         *)
(* An event is its position in the feed (1..head).  A transaction of the   *)
(* projection store claims the event in processed_events before it does    *)
(* anything else, so rival transactions on one event serialize on that key *)
(* and each is one step here; `applied` counts how often an event's effects*)
(* are in the read models.                                                 *)
(***************************************************************************)
EXTENDS Integers, FiniteSets

CONSTANTS
  Consumer,          \* consumer processes
  Operator,          \* people running dlq.py redrive
  NoOne,             \* nobody holds the lease
  Poison,            \* events that fail typed validation
  Unreadable,        \* events in a schema newer than the first build
  Batch,             \* events per read_all
  MaxAttempts,       \* RetryPolicy.max_attempts
  FailureThreshold,  \* CircuitBreaker failure_threshold
  MaxEvents,         \* bound on the feed
  MaxFaults,         \* bound on transient database errors
  MaxDisruptions     \* bound on crashes, lost leases and deployments

ASSUME ConsumerAssumption ==
  /\ NoOne \notin Consumer
  /\ Batch \in Nat \ {0}
  /\ MaxAttempts \in Nat \ {0}
  /\ FailureThreshold \in Nat \ {0}
  /\ MaxEvents \in Nat
  /\ MaxFaults \in Nat
  /\ MaxDisruptions \in Nat

VARIABLES
  head,        \* the highest position of the feed
  processed,   \* processed_events
  applied,     \* per event, how often its effects are in the read models
  letters,     \* dead_letters
  offset,      \* consumer_offset.last_id
  leader,      \* whose session holds the consumer's advisory lock
  pc,          \* per consumer: between passes, or where in run() it is
  next, last,  \* the rest of the batch it has read is next..last
  attempt,     \* attempts at next, the current one included
  circuit,     \* its breaker's state
  failures,    \* its breaker's consecutive failures
  claim,       \* per operator, the letter its open transaction has deleted, or 0
  upgraded,    \* the build that reads the newer schema is deployed
  faults, disruptions

Event == 1..MaxEvents

readModel == <<processed, applied, letters, offset>>
breaker   == <<circuit, failures>>
batch     == <<next, last, attempt>>
bounds    == <<faults, disruptions>>
vars      == <<head, readModel, leader, pc, batch, breaker, claim, upgraded, bounds>>

Init ==
  /\ head = 0
  /\ processed = {}
  /\ applied = [e \in Event |-> 0]
  /\ letters = {}
  /\ offset = 0
  /\ leader = NoOne
  /\ pc = [c \in Consumer |-> "standby"]
  /\ next = [c \in Consumer |-> 1]
  /\ last = [c \in Consumer |-> 0]
  /\ attempt = [c \in Consumer |-> 1]
  /\ circuit = [c \in Consumer |-> "closed"]
  /\ failures = [c \in Consumer |-> 0]
  /\ claim = [o \in Operator |-> 0]
  /\ upgraded = FALSE
  /\ faults = 0
  /\ disruptions = 0

-----------------------------------------------------------------------------
(* Transactions of the projection store *)

(* Mutant: the offset is set, not raised.                                     *)
SetOffset(e) == offset' = e

AdvanceOffset(e) == offset' = IF e > offset THEN e ELSE offset

(* apply: claim, effects and offset commit together; a duplicate only moves   *)
(* the offset.                                                                *)
ApplyEvent(e) ==
  /\ processed' = processed \cup {e}
  /\ applied' = IF e \in processed THEN applied ELSE [applied EXCEPT ![e] = @ + 1]
  /\ AdvanceOffset(e)
  /\ UNCHANGED letters

(* dead_letter: the same claim, a letter instead of effects.                  *)
DeadLetter(e) ==
  /\ processed' = processed \cup {e}
  /\ letters' = IF e \in processed THEN letters ELSE letters \cup {e}
  /\ AdvanceOffset(e)
  /\ UNCHANGED applied

-----------------------------------------------------------------------------
(* The breaker of one single-threaded process *)

RecordSuccess(c) ==
  /\ circuit' = [circuit EXCEPT ![c] = "closed"]
  /\ failures' = [failures EXCEPT ![c] = 0]

RecordFailure(c) ==
  IF circuit[c] = "half_open" \/ failures[c] + 1 >= FailureThreshold
  THEN /\ circuit' = [circuit EXCEPT ![c] = "open"]
       /\ failures' = [failures EXCEPT ![c] = 0]
  ELSE /\ failures' = [failures EXCEPT ![c] = @ + 1]
       /\ UNCHANGED circuit

(* The reset timeout elapses: the next call is a probe.                       *)
ResetElapses(c) ==
  /\ circuit[c] = "open"
  /\ circuit' = [circuit EXCEPT ![c] = "half_open"]
  /\ UNCHANGED <<head, readModel, leader, pc, batch, failures, claim, upgraded, bounds>>

-----------------------------------------------------------------------------
(* One pass: run_forever and run *)

CannotRead(e) == e \in Unreadable /\ ~upgraded

TryAcquire(c) ==
  /\ pc[c] = "standby"
  /\ leader \in {NoOne, c}
  /\ leader' = c
  /\ pc' = [pc EXCEPT ![c] = "offset"]
  /\ UNCHANGED <<head, readModel, batch, breaker, claim, upgraded, bounds>>

ReadOffset(c) ==
  /\ pc[c] = "offset"
  /\ next' = [next EXCEPT ![c] = offset + 1]
  /\ pc' = [pc EXCEPT ![c] = "feed"]
  /\ UNCHANGED <<head, readModel, leader, last, attempt, breaker, claim, upgraded, bounds>>

(* read_all; an empty batch ends the pass.                                    *)
ReadFeed(c) ==
  LET end == next[c] + Batch - 1
  IN  /\ pc[c] = "feed"
      /\ last' = [last EXCEPT ![c] = IF head < end THEN head ELSE end]
      /\ attempt' = [attempt EXCEPT ![c] = 1]
      /\ pc' = [pc EXCEPT ![c] = IF next[c] > head THEN "standby" ELSE "apply"]
      /\ UNCHANGED <<head, readModel, leader, next, breaker, claim, upgraded, bounds>>

MoveOn(c) ==
  /\ next' = [next EXCEPT ![c] = @ + 1]
  /\ attempt' = [attempt EXCEPT ![c] = 1]
  /\ pc' = [pc EXCEPT ![c] = IF next[c] < last[c] THEN "apply" ELSE "offset"]
  /\ UNCHANGED last

Apply(c) ==
  LET e == next[c]
  IN  /\ pc[c] = "apply"
      /\ e \notin Poison /\ ~CannotRead(e)
      /\ circuit[c] # "open"
      /\ ApplyEvent(e)
      /\ RecordSuccess(c)
      /\ MoveOn(c)
      /\ UNCHANGED <<head, leader, claim, upgraded, bounds>>

(* Mutant: an open circuit skips the event instead of ending the pass.        *)
HaltSkips(c) ==
  /\ pc[c] = "apply"
  /\ ~CannotRead(next[c])
  /\ circuit[c] = "open"
  /\ MoveOn(c)
  /\ UNCHANGED <<head, readModel, leader, breaker, claim, upgraded, bounds>>

(* CircuitOpenError: the pass ends with the offset untouched.                 *)
Halt(c) ==
  /\ pc[c] = "apply"
  /\ ~CannotRead(next[c])
  /\ circuit[c] = "open"
  /\ pc' = [pc EXCEPT ![c] = "standby"]
  /\ UNCHANGED <<head, readModel, leader, batch, breaker, claim, upgraded, bounds>>

(* Mutant: a deterministic error ends the pass like an open circuit.          *)
RefuseHalts(c) ==
  /\ pc[c] = "apply"
  /\ next[c] \in Poison \/ CannotRead(next[c])
  /\ pc' = [pc EXCEPT ![c] = "standby"]
  /\ UNCHANGED <<head, readModel, leader, batch, breaker, claim, upgraded, bounds>>

(* A deterministic error.  upcast raises outside the breaker; validation      *)
(* raises inside it, where it counts as a healthy call.                       *)
Refuse(c) ==
  LET e == next[c]
  IN  /\ pc[c] = "apply"
      /\ \/ CannotRead(e) /\ UNCHANGED breaker
         \/ e \in Poison /\ ~CannotRead(e) /\ circuit[c] # "open" /\ RecordSuccess(c)
      /\ pc' = [pc EXCEPT ![c] = "park"]
      /\ UNCHANGED <<head, readModel, leader, batch, claim, upgraded, bounds>>

(* A transient error, before the transaction commits or, its answer lost,     *)
(* after; the attempt budget decides between a retry and the queue.           *)
Fail(c) ==
  LET e == next[c]
  IN  /\ pc[c] = "apply"
      /\ e \notin Poison /\ ~CannotRead(e)
      /\ circuit[c] # "open"
      /\ faults < MaxFaults
      /\ faults' = faults + 1
      /\ UNCHANGED readModel \/ ApplyEvent(e)
      /\ RecordFailure(c)
      /\ IF attempt[c] < MaxAttempts
         THEN attempt' = [attempt EXCEPT ![c] = @ + 1] /\ UNCHANGED pc
         ELSE pc' = [pc EXCEPT ![c] = "park"] /\ UNCHANGED attempt
      /\ UNCHANGED <<head, leader, next, last, claim, upgraded, disruptions>>

Park(c) ==
  /\ pc[c] = "park"
  /\ DeadLetter(next[c])
  /\ MoveOn(c)
  /\ UNCHANGED <<head, leader, breaker, claim, upgraded, bounds>>

-----------------------------------------------------------------------------
(* What happens to a process *)

(* The process ends (a crash, SIGTERM, an uncaught error of the database) and *)
(* is started again; its session, and with it the lease, is gone.             *)
Restart(c) ==
  /\ disruptions < MaxDisruptions
  /\ pc[c] # "standby"
  /\ disruptions' = disruptions + 1
  /\ pc' = [pc EXCEPT ![c] = "standby"]
  /\ circuit' = [circuit EXCEPT ![c] = "closed"]
  /\ failures' = [failures EXCEPT ![c] = 0]
  /\ leader' = IF leader = c THEN NoOne ELSE leader
  /\ UNCHANGED <<head, readModel, batch, claim, upgraded, faults>>

(* Only the lease connection dies: the process learns it at its next pass.    *)
LoseLease(c) ==
  /\ disruptions < MaxDisruptions
  /\ leader = c
  /\ disruptions' = disruptions + 1
  /\ leader' = NoOne
  /\ UNCHANGED <<head, readModel, pc, batch, breaker, claim, upgraded, faults>>

Deploy ==
  /\ ~upgraded
  /\ disruptions < MaxDisruptions
  /\ disruptions' = disruptions + 1
  /\ upgraded' = TRUE
  /\ leader' = NoOne
  /\ pc' = [c \in Consumer |-> "standby"]
  /\ circuit' = [c \in Consumer |-> "closed"]
  /\ failures' = [c \in Consumer |-> 0]
  /\ UNCHANGED <<head, readModel, batch, claim, faults>>

-----------------------------------------------------------------------------
(* redrive: DELETE ... RETURNING claims the letter until the transaction ends *)

(* Mutant: the letter is read, not deleted, so a rival may read it too.       *)
ClaimShared(o, e) ==
  /\ claim[o] = 0
  /\ e \in letters
  /\ claim' = [claim EXCEPT ![o] = e]
  /\ UNCHANGED <<head, readModel, leader, pc, batch, breaker, upgraded, bounds>>

Claim(o, e) ==
  /\ claim[o] = 0
  /\ e \in letters
  /\ \A p \in Operator : claim[p] # e
  /\ claim' = [claim EXCEPT ![o] = e]
  /\ UNCHANGED <<head, readModel, leader, pc, batch, breaker, upgraded, bounds>>

(* The letter's payload is validated but not upcast: an event in a newer      *)
(* schema is not refused here.                                                *)
RedriveApply(o) ==
  LET e == claim[o]
  IN  /\ e # 0
      /\ e \notin Poison
      /\ letters' = letters \ {e}
      /\ applied' = [applied EXCEPT ![e] = @ + 1]
      /\ claim' = [claim EXCEPT ![o] = 0]
      /\ UNCHANGED <<head, processed, offset, leader, pc, batch, breaker, upgraded, bounds>>

(* The event fails again, or the transaction is lost: the letter stays.       *)
RedriveFail(o) ==
  /\ claim[o] # 0
  /\ claim' = [claim EXCEPT ![o] = 0]
  /\ UNCHANGED <<head, readModel, leader, pc, batch, breaker, upgraded, bounds>>

-----------------------------------------------------------------------------
(* The relay publishes one more event.                                        *)
Publish ==
  /\ head < MaxEvents
  /\ head' = head + 1
  /\ UNCHANGED <<readModel, leader, pc, batch, breaker, claim, upgraded, bounds>>

Drain(c) ==
  \/ TryAcquire(c) \/ ReadOffset(c) \/ ReadFeed(c) \/ Apply(c) \/ Halt(c)
  \/ Refuse(c) \/ Fail(c) \/ Park(c)

Next ==
  \/ Publish \/ Deploy
  \/ \E c \in Consumer : Drain(c) \/ ResetElapses(c) \/ Restart(c) \/ LoseLease(c)
  \/ \E o \in Operator : RedriveApply(o) \/ RedriveFail(o) \/ \E e \in Event : Claim(o, e)

Spec == Init /\ [][Next]_vars

(* run_forever polls for ever and its host restarts it; time passes.          *)
FairSpec ==
  Spec /\ \A c \in Consumer : WF_vars(Drain(c)) /\ WF_vars(ResetElapses(c))

-----------------------------------------------------------------------------
(* Properties *)

(* The tables and the consumers' positions in the feed are of the right kind. *)
TypeOK ==
  /\ head \in 0..MaxEvents
  /\ processed \subseteq Event
  /\ applied \in [Event -> Nat]
  /\ letters \subseteq Event
  /\ offset \in 0..MaxEvents
  /\ leader \in Consumer \cup {NoOne}
  /\ pc \in [Consumer -> {"standby", "offset", "feed", "apply", "park"}]
  /\ next \in [Consumer -> 1..(MaxEvents + 1)]
  /\ last \in [Consumer -> 0..MaxEvents]
  /\ attempt \in [Consumer -> 1..MaxAttempts]
  /\ circuit \in [Consumer -> {"closed", "open", "half_open"}]
  /\ failures \in [Consumer -> 0..(FailureThreshold - 1)]
  /\ claim \in [Operator -> 0..MaxEvents]
  /\ upgraded \in BOOLEAN
  /\ faults \in 0..MaxFaults
  /\ disruptions \in 0..MaxDisruptions

(* Every event that was taken off the feed is either in the read models,      *)
(* exactly once, or parked, never both and never neither: under redelivery,   *)
(* lost answers, crashes, two drainers at once and racing redrives.           *)
ExactlyOnce ==
  /\ letters \subseteq processed
  /\ \A e \in Event : applied[e] = IF e \in processed \ letters THEN 1 ELSE 0

(* The offset never runs ahead of the read models: everything at or below it  *)
(* has been dealt with, whoever moved it, so no event is skipped.             *)
OffsetCovers ==
  /\ 1..offset \subseteq processed
  /\ \A c \in Consumer : pc[c] \in {"apply", "park"} => 1..(next[c] - 1) \subseteq processed

(* Every published event is eventually applied or parked: faults, restarts    *)
(* and an open circuit only delay the feed, and poison does not block it.     *)
EverythingSettled == \A e \in Event : head >= e ~> e \in processed

(* The PostgreSQL tier keeps the promise both tiers make: an event leaves the *)
(* feed once, into the read models or the queue, only a redrive takes it out  *)
(* of the queue, and the offset never moves back or past a pending event.     *)
Status(e) ==
  CASE applied[e] = 0 /\ e \notin processed -> "pending"
    [] applied[e] = 0 /\ e \in letters -> "parked"
    [] applied[e] = 1 /\ e \in processed \ letters -> "applied"
    [] OTHER -> "broken"

Promise == INSTANCE Projection WITH
  Feed <- Event, status <- [e \in Event |-> Status(e)], offset <- offset

KeepsPromise == Promise!Spec
=============================================================================
