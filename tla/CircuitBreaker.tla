---------------------------- MODULE CircuitBreaker ----------------------------
(***************************************************************************)
(* The breaker on the command path, shared by the threads of the HTTP      *)
(* server.  A thread runs one command at a time: call_with_retry wraps     *)
(* breaker.call, which takes the lock to admit the call, releases it while *)
(* the call is out, and takes it again to record how the call ended.       *)
(* Between the two the circuit may have opened, been probed and opened     *)
(* again.                                                                  *)
(***************************************************************************)
EXTENDS Naturals, FiniteSets

CONSTANTS
  Thread,         \* the server's worker threads
  Threshold,      \* failure_threshold
  RetryAttempts,  \* RetryPolicy.max_attempts
  MaxOutages      \* bound on the database's outages

ASSUME BreakerAssumption ==
  /\ Threshold \in Nat \ {0}
  /\ RetryAttempts \in Nat \ {0}
  /\ MaxOutages \in Nat

VARIABLES
  state,      \* _state
  failures,   \* _consecutive_failures
  flag,       \* _probe_in_flight
  elapsed,    \* has reset_timeout passed since _opened_at?
  pc,         \* per thread: idle, about to be admitted, or in the call
  attempt,    \* per thread, the retry loop's counter
  seen,       \* per thread in a call, what the database has been meanwhile
  prober,     \* the threads admitted as probes since the circuit half-opened
  database, outages

breaker     == <<state, failures, flag, elapsed, prober>>
threads     == <<pc, attempt, seen>>
breakerVars == <<breaker, threads, database, outages>>

BreakerInit ==
  /\ state = "closed"
  /\ failures = 0
  /\ flag = FALSE
  /\ elapsed = FALSE
  /\ prober = {}
  /\ pc = [t \in Thread |-> "idle"]
  /\ attempt = [t \in Thread |-> 0]
  /\ seen = [t \in Thread |-> {}]
  /\ database = "up"
  /\ outages = 0

-----------------------------------------------------------------------------
(* _promote_if_reset_elapsed *)

(* Mutant: nothing half-opens an open circuit.                                *)
PromotesNever == FALSE

Promotes == state = "open" /\ elapsed

PromotedState  == IF Promotes THEN "half_open" ELSE state
PromotedFlag   == ~Promotes /\ flag
PromotedProber == IF Promotes THEN {} ELSE prober

-----------------------------------------------------------------------------
(* Recording an outcome *)

RecordSuccess ==
  /\ state' = "closed"
  /\ failures' = 0
  /\ flag' = FALSE
  /\ prober' = {}
  /\ UNCHANGED elapsed

(* Mutant: the failure that trips the circuit stays counted.                  *)
TripKeepsCount ==
  /\ state' = "open"
  /\ failures' = failures + 1
  /\ flag' = FALSE
  /\ prober' = {}
  /\ elapsed' = FALSE

Trip ==
  /\ state' = "open"
  /\ failures' = 0
  /\ flag' = FALSE
  /\ prober' = {}
  /\ elapsed' = FALSE

(* Mutant: a failed probe is counted like any other failure.                  *)
RecordFailureCounts ==
  IF failures + 1 >= Threshold THEN Trip
  ELSE failures' = failures + 1 /\ UNCHANGED <<state, flag, elapsed, prober>>

RecordFailure ==
  IF state = "half_open" \/ failures + 1 >= Threshold THEN Trip
  ELSE failures' = failures + 1 /\ UNCHANGED <<state, flag, elapsed, prober>>

-----------------------------------------------------------------------------
(* A thread *)

Begin(t) ==
  /\ pc[t] = "idle"
  /\ pc' = [pc EXCEPT ![t] = "admit"]
  /\ attempt' = [attempt EXCEPT ![t] = 1]
  /\ UNCHANGED <<breaker, seen, database, outages>>

Admit(t) ==
  /\ pc[t] = "admit"
  /\ PromotedState = "closed" \/ (PromotedState = "half_open" /\ ~PromotedFlag)
  /\ state' = PromotedState
  /\ flag' = (PromotedState = "half_open" \/ flag)
  /\ prober' = IF PromotedState = "half_open" THEN PromotedProber \cup {t} ELSE prober
  /\ pc' = [pc EXCEPT ![t] = "call"]
  /\ seen' = [seen EXCEPT ![t] = {database}]
  /\ UNCHANGED <<failures, elapsed, attempt, database, outages>>

(* CircuitOpenError is not retryable: the client gets a 503.  A promotion     *)
(* clears the flag, so whoever promotes is admitted.                          *)
FailFast(t) ==
  /\ pc[t] = "admit"
  /\ PromotedState = "open" \/ (PromotedState = "half_open" /\ PromotedFlag)
  /\ pc' = [pc EXCEPT ![t] = "idle"]
  /\ attempt' = [attempt EXCEPT ![t] = 0]
  /\ UNCHANGED <<breaker, seen, database, outages>>

(* The call returns, or is refused for a reason that is not counted.          *)
Succeed(t) ==
  /\ pc[t] = "call"
  /\ "up" \in seen[t]
  /\ RecordSuccess
  /\ pc' = [pc EXCEPT ![t] = "idle"]
  /\ attempt' = [attempt EXCEPT ![t] = 0]
  /\ seen' = [seen EXCEPT ![t] = {}]
  /\ UNCHANGED <<database, outages>>

(* A counted error: recorded, then retried until the budget is spent.         *)
Fail(t) ==
  /\ pc[t] = "call"
  /\ "down" \in seen[t]
  /\ RecordFailure
  /\ IF attempt[t] = RetryAttempts
     THEN pc' = [pc EXCEPT ![t] = "idle"] /\ attempt' = [attempt EXCEPT ![t] = 0]
     ELSE pc' = [pc EXCEPT ![t] = "admit"] /\ attempt' = [attempt EXCEPT ![t] = @ + 1]
  /\ seen' = [seen EXCEPT ![t] = {}]
  /\ UNCHANGED <<database, outages>>

-----------------------------------------------------------------------------
(* The clock and the database *)

ResetElapses ==
  /\ state = "open"
  /\ ~elapsed
  /\ elapsed' = TRUE
  /\ UNCHANGED <<state, failures, flag, prober, threads, database, outages>>

(* A call that is out meets the database's old and its new condition.         *)
Turn(condition) ==
  /\ database' = condition
  /\ seen' = [t \in Thread |-> IF pc[t] = "call" THEN seen[t] \cup {condition} ELSE {}]
  /\ UNCHANGED <<breaker, pc, attempt>>

GoDown  == database = "up" /\ outages < MaxOutages /\ outages' = outages + 1 /\ Turn("down")
Recover == database = "down" /\ Turn("up") /\ UNCHANGED outages

Return(t) == Succeed(t) \/ Fail(t)

BreakerNext ==
  \/ ResetElapses \/ GoDown \/ Recover
  \/ \E t \in Thread : Begin(t) \/ Admit(t) \/ FailFast(t) \/ Return(t)

BreakerSpec == BreakerInit /\ [][BreakerNext]_breakerVars

(* Time passes, threads run on, a call ends (the driver has a timeout) and    *)
(* clients keep coming; the database may stay down.                           *)
FairBreakerSpec ==
  /\ BreakerSpec
  /\ WF_breakerVars(ResetElapses)
  /\ \A t \in Thread : WF_breakerVars(Begin(t)) /\ WF_breakerVars(Admit(t) \/ FailFast(t))
                       /\ WF_breakerVars(Return(t))

-----------------------------------------------------------------------------
(* Properties *)

(* Every variable is of its kind, and the count stays below the threshold     *)
(* that would have tripped the circuit.                                       *)
TypeOK ==
  /\ state \in {"closed", "open", "half_open"}
  /\ failures \in 0..(Threshold - 1)
  /\ flag \in BOOLEAN /\ elapsed \in BOOLEAN
  /\ prober \in SUBSET Thread
  /\ pc \in [Thread -> {"idle", "admit", "call"}]
  /\ attempt \in [Thread -> 0..RetryAttempts]
  /\ seen \in [Thread -> SUBSET {"up", "down"}]
  /\ database \in {"up", "down"}
  /\ outages \in 0..MaxOutages

(* A half-opened circuit admits one probe, and refuses everybody else only    *)
(* while that probe is really out: calls of an earlier period that end late   *)
(* cannot leave _probe_in_flight set for a probe that is gone, which would    *)
(* refuse every command for ever.                                             *)
ProbeOwned ==
  /\ flag => state = "half_open"
  /\ flag <=> prober # {}
  /\ \A t \in prober : pc[t] = "call" /\ prober = {t}

(* docs/RUNBOOK.md: the breaker half-opens by itself.  Once the database is   *)
(* back for good and clients keep coming, the circuit closes and stays so.    *)
Recovers == <>[](database = "up") => <>[](state = "closed")
===============================================================================
