---------------------------- MODULE ConsumerProofs ----------------------------
(***************************************************************************)
(* Proofs about the projection consumer, for any number of consumers,      *)
(* operators, events, attempts and faults.                                 *)
(***************************************************************************)
EXTENDS Consumer, TLAPS

(* The read models as the drainers and the operators leave them: a letter an *)
(* operator has claimed is still there and claimed once.                     *)
Tables ==
  /\ head \in 0..MaxEvents
  /\ processed \subseteq 1..head
  /\ applied \in [Event -> Nat]
  /\ offset \in 0..head
  /\ 1..offset \subseteq processed
  /\ ExactlyOnce

Claims ==
  /\ claim \in [Operator -> 0..MaxEvents]
  /\ \A o \in Operator : claim[o] # 0 => claim[o] \in letters
  /\ \A o, p \in Operator : claim[o] # 0 /\ claim[o] = claim[p] => o = p

(* A consumer inside a pass has everything below its position behind it.     *)
PassOK(c) ==
  /\ pc[c] \in {"feed", "apply", "park"} =>
       next[c] <= head + 1 /\ 1..(next[c] - 1) \subseteq processed
  /\ pc[c] \in {"apply", "park"} => next[c] <= last[c] /\ last[c] <= head

Passes ==
  /\ pc \in [Consumer -> {"standby", "offset", "feed", "apply", "park"}]
  /\ next \in [Consumer -> 1..(MaxEvents + 1)]
  /\ last \in [Consumer -> 0..MaxEvents]
  /\ \A c \in Consumer : PassOK(c)

Local ==
  /\ leader \in Consumer \cup {NoOne}
  /\ attempt \in [Consumer -> 1..MaxAttempts]
  /\ circuit \in [Consumer -> {"closed", "open", "half_open"}]
  /\ failures \in [Consumer -> 0..(FailureThreshold - 1)]
  /\ upgraded \in BOOLEAN
  /\ faults \in 0..MaxFaults
  /\ disruptions \in 0..MaxDisruptions

IInv == Tables /\ Claims /\ Passes /\ Local

-----------------------------------------------------------------------------
(* Transactions on an event of the feed *)

(* apply keeps the tables sound and settles its event.                       *)
LEMMA ApplyEventOK ==
  ASSUME Tables, Claims, NEW e \in 1..head, 1..(e - 1) \subseteq processed,
         ApplyEvent(e), UNCHANGED <<head, claim>>
  PROVE  Tables' /\ Claims' /\ processed' = processed \cup {e}
  <1>1. e \in Event
    BY ConsumerAssumption DEF Tables, Event
  <1>2. processed' = processed \cup {e} /\ processed' \subseteq 1..head'
    BY DEF Tables, ApplyEvent
  <1>3. offset' \in 0..head' /\ 1..offset' \subseteq processed'
    BY <1>2 DEF Tables, ApplyEvent, AdvanceOffset
  <1>4. applied' \in [Event -> Nat]
    BY <1>1 DEF Tables, ApplyEvent
  <1>5. ExactlyOnce'
    <2>1. CASE e \in processed
      BY <1>2, <2>1 DEF Tables, ExactlyOnce, ApplyEvent
    <2>2. CASE e \notin processed
      <3>1. applied[e] = 0
        BY <1>1, <2>2 DEF Tables, ExactlyOnce
      <3>2. ASSUME NEW x \in Event
            PROVE  applied'[x] = IF x = e THEN 1 ELSE applied[x]
        BY <1>1, <2>2, <3>1 DEF Tables, ApplyEvent
      <3> QED  BY <1>1, <1>2, <2>2, <3>2 DEF Tables, ExactlyOnce, ApplyEvent
    <2> QED  BY <2>1, <2>2
  <1>6. Claims'
    BY DEF Claims, ApplyEvent
  <1> QED  BY <1>2, <1>3, <1>4, <1>5, <1>6 DEF Tables, ApplyEvent

(* So does dead_letter.                                                      *)
LEMMA DeadLetterOK ==
  ASSUME Tables, Claims, NEW e \in 1..head, 1..(e - 1) \subseteq processed,
         DeadLetter(e), UNCHANGED <<head, claim>>
  PROVE  Tables' /\ Claims' /\ processed' = processed \cup {e}
  <1>1. e \in Event
    BY ConsumerAssumption DEF Tables, Event
  <1>2. processed' = processed \cup {e} /\ processed' \subseteq 1..head'
    BY DEF Tables, DeadLetter
  <1>3. offset' \in 0..head' /\ 1..offset' \subseteq processed'
    BY <1>2 DEF Tables, DeadLetter, AdvanceOffset
  <1>4. ExactlyOnce'
    <2>1. CASE e \in processed
      BY <1>2, <2>1 DEF Tables, ExactlyOnce, DeadLetter
    <2>2. CASE e \notin processed
      BY <1>1, <1>2, <2>2 DEF Tables, ExactlyOnce, DeadLetter
    <2> QED  BY <2>1, <2>2
  <1>5. Claims'
    BY DEF Claims, DeadLetter
  <1> QED  BY <1>2, <1>3, <1>4, <1>5 DEF Tables, DeadLetter

(* A step that moves no consumer and forgets nothing keeps every pass sound. *)
LEMMA PassesKept ==
  ASSUME Passes, UNCHANGED <<pc, next, last>>, processed \subseteq processed',
         head \in Nat, head' \in Nat, head <= head'
  PROVE  Passes'
  BY DEF Passes, PassOK

(* The event a consumer works on.                                            *)
LEMMA CurrentEvent ==
  ASSUME IInv, NEW c \in Consumer, pc[c] \in {"apply", "park"}
  PROVE  next[c] \in 1..head /\ 1..(next[c] - 1) \subseteq processed
  BY DEF IInv, Tables, Passes, PassOK

(* Moving past a settled event keeps the pass sound.                         *)
LEMMA MoveOnOK ==
  ASSUME IInv, NEW c \in Consumer, pc[c] \in {"apply", "park"}, MoveOn(c),
         processed' = processed \cup {next[c]}, head' = head
  PROVE  Passes' /\ attempt' \in [Consumer -> 1..MaxAttempts]
  <1>1. attempt' \in [Consumer -> 1..MaxAttempts]
    BY ConsumerAssumption DEF IInv, Local, MoveOn
  <1>2. next[c] \in 1..head /\ 1..(next[c] - 1) \subseteq processed
    BY CurrentEvent
  <1>3. /\ pc' \in [Consumer -> {"standby", "offset", "feed", "apply", "park"}]
        /\ next' \in [Consumer -> 1..(MaxEvents + 1)]
        /\ last' \in [Consumer -> 0..MaxEvents]
    BY <1>2, ConsumerAssumption DEF IInv, Tables, Passes, MoveOn
  <1>4. ASSUME NEW x \in Consumer PROVE PassOK(x)'
    <2>1. CASE x = c
      <3>1. /\ next'[c] = next[c] + 1 /\ last'[c] = last[c]
            /\ pc'[c] = IF next[c] < last[c] THEN "apply" ELSE "offset"
        BY DEF IInv, Passes, MoveOn
      <3>2. last[c] \in Nat /\ last[c] <= head /\ head \in Nat
        BY DEF IInv, Tables, Passes, PassOK
      <3>3. 1..(next'[c] - 1) \subseteq processed'
        BY <1>2, <3>1, <3>2
      <3> QED  BY <1>2, <2>1, <3>1, <3>2, <3>3 DEF PassOK
    <2>2. CASE x # c
      <3>1. pc'[x] = pc[x] /\ next'[x] = next[x] /\ last'[x] = last[x]
        BY <2>2 DEF IInv, Passes, MoveOn
      <3> QED  BY <3>1 DEF IInv, Passes, PassOK
    <2> QED  BY <2>1, <2>2
  <1> QED  BY <1>1, <1>3, <1>4 DEF Passes

(* The breaker's counter stays under its threshold.                          *)
LEMMA RecordSuccessOK ==
  ASSUME Local, NEW c \in Consumer, RecordSuccess(c)
  PROVE  /\ circuit' \in [Consumer -> {"closed", "open", "half_open"}]
         /\ failures' \in [Consumer -> 0..(FailureThreshold - 1)]
  BY ConsumerAssumption DEF Local, RecordSuccess

(* The same for a failure, which trips the breaker at the threshold.         *)
LEMMA RecordFailureOK ==
  ASSUME Local, NEW c \in Consumer, RecordFailure(c)
  PROVE  /\ circuit' \in [Consumer -> {"closed", "open", "half_open"}]
         /\ failures' \in [Consumer -> 0..(FailureThreshold - 1)]
  BY ConsumerAssumption DEF Local, RecordFailure

-----------------------------------------------------------------------------
(* The inductive invariant *)

(* Nothing has been read yet.                                                *)
LEMMA InitOK ==
  ASSUME Init  PROVE IInv
  <1>1. Tables
    BY ConsumerAssumption DEF Init, Tables, ExactlyOnce
  <1>2. Claims
    BY ConsumerAssumption DEF Init, Claims
  <1>3. Passes
    BY ConsumerAssumption DEF Init, Passes, PassOK
  <1>4. Local
    <2>1. 1 \in 1..MaxAttempts /\ 0 \in 0..(FailureThreshold - 1)
      BY ConsumerAssumption
    <2>2. 0 \in 0..MaxFaults /\ 0 \in 0..MaxDisruptions
      BY ConsumerAssumption
    <2> QED  BY <2>1, <2>2 DEF Init, Local
  <1> QED  BY <1>1, <1>2, <1>3, <1>4 DEF IInv

(* The steps of a pass that leave the tables alone.                          *)
LEMMA PassStepOK ==
  ASSUME IInv, NEW c \in Consumer,
         TryAcquire(c) \/ ReadOffset(c) \/ ReadFeed(c) \/ Halt(c) \/ Refuse(c)
  PROVE  IInv'
  <1>1. Tables' /\ Claims'
    BY DEF IInv, Tables, ExactlyOnce, Claims, readModel, TryAcquire, ReadOffset, ReadFeed,
           Halt, Refuse
  <1>2. CASE TryAcquire(c)
    <2>1. Passes'
      BY <1>2 DEF IInv, Tables, Passes, PassOK, readModel, batch, TryAcquire
    <2>2. Local'
      BY <1>2 DEF IInv, Local, batch, breaker, bounds, TryAcquire
    <2> QED  BY <1>1, <2>1, <2>2 DEF IInv
  <1>3. CASE ReadOffset(c)
    <2>1. offset + 1 \in 1..(MaxEvents + 1) /\ offset + 1 <= head + 1
      BY ConsumerAssumption DEF IInv, Tables
    <2>2. Passes'
      BY <1>3, <2>1 DEF IInv, Tables, Passes, PassOK, readModel, ReadOffset
    <2>3. Local'
      BY <1>3 DEF IInv, Local, breaker, bounds, ReadOffset
    <2> QED  BY <1>1, <2>2, <2>3 DEF IInv
  <1>4. CASE ReadFeed(c)
    <2>1. Passes'
      <3> DEFINE end == next[c] + Batch - 1
                 l   == IF head < end THEN head ELSE end
      <3>1. next[c] \in 1..(MaxEvents + 1) /\ head \in 0..MaxEvents /\ next[c] <= head + 1
        BY <1>4 DEF IInv, Tables, Passes, PassOK, ReadFeed
      <3>2. l \in 0..head /\ l \in 0..MaxEvents /\ (next[c] <= head => next[c] <= l)
        BY <3>1, ConsumerAssumption
      <3>3. /\ last' = [last EXCEPT ![c] = l]
            /\ pc' = [pc EXCEPT ![c] = IF next[c] > head THEN "standby" ELSE "apply"]
            /\ UNCHANGED <<head, next, processed>>
        BY <1>4 DEF ReadFeed, readModel
      <3> HIDE DEF l
      <3>4. ASSUME NEW x \in Consumer PROVE PassOK(x)'
        <4>1. CASE x = c
          BY <1>4, <3>1, <3>2, <3>3, <4>1 DEF IInv, Passes, PassOK, ReadFeed
        <4>2. CASE x # c
          BY <3>3, <4>2 DEF IInv, Passes, PassOK
        <4> QED  BY <4>1, <4>2
      <3> QED  BY <3>2, <3>3, <3>4 DEF IInv, Passes
    <2>2. Local'
      BY <1>4, ConsumerAssumption DEF IInv, Local, breaker, bounds, ReadFeed
    <2> QED  BY <1>1, <2>1, <2>2 DEF IInv
  <1>5. CASE Halt(c)
    <2>1. Passes'
      BY <1>5 DEF IInv, Passes, PassOK, readModel, batch, Halt
    <2>2. Local'
      BY <1>5 DEF IInv, Local, batch, breaker, bounds, Halt
    <2> QED  BY <1>1, <2>1, <2>2 DEF IInv
  <1>6. CASE Refuse(c)
    <2>1. Passes'
      BY <1>6 DEF IInv, Passes, PassOK, readModel, batch, Refuse
    <2>2. /\ circuit' \in [Consumer -> {"closed", "open", "half_open"}]
          /\ failures' \in [Consumer -> 0..(FailureThreshold - 1)]
      BY <1>6, RecordSuccessOK DEF IInv, Local, breaker, Refuse
    <2>3. Local'
      BY <1>6, <2>2 DEF IInv, Local, batch, bounds, Refuse
    <2> QED  BY <1>1, <2>1, <2>3 DEF IInv
  <1> QED  BY <1>2, <1>3, <1>4, <1>5, <1>6

(* The steps of a pass that apply or park the current event.                 *)
LEMMA SettleStepOK ==
  ASSUME IInv, NEW c \in Consumer, Apply(c) \/ Fail(c) \/ Park(c)
  PROVE  IInv'
  <1>1. pc[c] \in {"apply", "park"}
    BY DEF Apply, Fail, Park
  <1>2. next[c] \in 1..head /\ 1..(next[c] - 1) \subseteq processed
    BY <1>1, CurrentEvent
  <1>3. CASE Apply(c)
    <2>1. Tables' /\ Claims' /\ processed' = processed \cup {next[c]}
      BY <1>2, <1>3, ApplyEventOK DEF IInv, Apply
    <2>2. Passes' /\ attempt' \in [Consumer -> 1..MaxAttempts]
      BY <1>1, <1>3, <2>1, MoveOnOK DEF Apply
    <2>3. Local'
      BY <1>3, <2>2, RecordSuccessOK DEF IInv, Local, bounds, Apply
    <2> QED  BY <2>1, <2>2, <2>3 DEF IInv
  <1>4. CASE Fail(c)
    <2>1. Tables' /\ Claims' /\ processed \subseteq processed'
      <3>1. CASE UNCHANGED readModel
        BY <1>4, <3>1 DEF IInv, Tables, ExactlyOnce, Claims, readModel, Fail
      <3>2. CASE ApplyEvent(next[c])
        BY <1>2, <1>4, <3>2, ApplyEventOK DEF IInv, Fail
      <3> QED  BY <1>4, <3>1, <3>2 DEF Fail
    <2>2. Passes'
      <3>1. /\ pc' \in [Consumer -> {"standby", "offset", "feed", "apply", "park"}]
            /\ pc[c] \in {"apply", "park"} /\ pc'[c] \in {"apply", "park"}
            /\ \A x \in Consumer \ {c} : pc'[x] = pc[x]
        BY <1>4 DEF IInv, Passes, Fail
      <3>2. UNCHANGED <<next, last, head>>
        BY <1>4 DEF Fail
      <3> QED  BY <2>1, <3>1, <3>2 DEF IInv, Passes, PassOK
    <2>3. /\ circuit' \in [Consumer -> {"closed", "open", "half_open"}]
          /\ failures' \in [Consumer -> 0..(FailureThreshold - 1)]
      BY <1>4, RecordFailureOK DEF IInv, Fail
    <2>4. attempt' \in [Consumer -> 1..MaxAttempts]
      BY <1>4, ConsumerAssumption DEF IInv, Local, Fail
    <2>5. faults' \in 0..MaxFaults
      BY <1>4, ConsumerAssumption DEF IInv, Local, Fail
    <2>6. Local'
      BY <1>4, <2>3, <2>4, <2>5 DEF IInv, Local, Fail
    <2> QED  BY <2>1, <2>2, <2>6 DEF IInv
  <1>5. CASE Park(c)
    <2>1. Tables' /\ Claims' /\ processed' = processed \cup {next[c]}
      BY <1>2, <1>5, DeadLetterOK DEF IInv, Park
    <2>2. Passes' /\ attempt' \in [Consumer -> 1..MaxAttempts]
      BY <1>1, <1>5, <2>1, MoveOnOK DEF Park
    <2>3. Local'
      BY <1>5, <2>2 DEF IInv, Local, breaker, bounds, Park
    <2> QED  BY <2>1, <2>2, <2>3 DEF IInv
  <1> QED  BY <1>3, <1>4, <1>5

(* What happens to a process, and the feed growing.                          *)
LEMMA EnvironmentOK ==
  ASSUME IInv,
         \/ Publish \/ Deploy
         \/ \E c \in Consumer : ResetElapses(c) \/ Restart(c) \/ LoseLease(c)
  PROVE  IInv'
  <1>1. CASE Publish
    <2>1. Tables' /\ Claims'
      BY <1>1, ConsumerAssumption
      DEF IInv, Tables, ExactlyOnce, Claims, readModel, Publish
    <2>2. Passes'
      BY <1>1, PassesKept, ConsumerAssumption DEF IInv, Tables, readModel, batch, Publish
    <2>3. Local'
      BY <1>1 DEF IInv, Local, batch, breaker, bounds, Publish
    <2> QED  BY <2>1, <2>2, <2>3 DEF IInv
  <1>2. CASE Deploy
    <2>1. Tables' /\ Claims'
      BY <1>2 DEF IInv, Tables, ExactlyOnce, Claims, readModel, Deploy
    <2>2. Passes'
      BY <1>2 DEF IInv, Passes, PassOK, readModel, batch, Deploy
    <2>3. Local'
      BY <1>2, ConsumerAssumption DEF IInv, Local, batch, Deploy
    <2> QED  BY <2>1, <2>2, <2>3 DEF IInv
  <1>3. ASSUME NEW c \in Consumer, ResetElapses(c) PROVE IInv'
    <2>1. Tables' /\ Claims'
      BY <1>3 DEF IInv, Tables, ExactlyOnce, Claims, readModel, ResetElapses
    <2>2. Passes'
      BY <1>3 DEF IInv, Passes, PassOK, readModel, batch, ResetElapses
    <2>3. Local'
      BY <1>3 DEF IInv, Local, batch, bounds, ResetElapses
    <2> QED  BY <2>1, <2>2, <2>3 DEF IInv
  <1>4. ASSUME NEW c \in Consumer, Restart(c) PROVE IInv'
    <2>1. Tables' /\ Claims'
      BY <1>4 DEF IInv, Tables, ExactlyOnce, Claims, readModel, Restart
    <2>2. Passes'
      BY <1>4 DEF IInv, Passes, PassOK, readModel, batch, Restart
    <2>3. Local'
      BY <1>4, ConsumerAssumption DEF IInv, Local, batch, Restart
    <2> QED  BY <2>1, <2>2, <2>3 DEF IInv
  <1>5. ASSUME NEW c \in Consumer, LoseLease(c) PROVE IInv'
    <2>1. Tables' /\ Claims'
      BY <1>5 DEF IInv, Tables, ExactlyOnce, Claims, readModel, LoseLease
    <2>2. Passes'
      BY <1>5 DEF IInv, Passes, PassOK, readModel, batch, LoseLease
    <2>3. Local'
      BY <1>5, ConsumerAssumption DEF IInv, Local, batch, breaker, LoseLease
    <2> QED  BY <2>1, <2>2, <2>3 DEF IInv
  <1> QED  BY <1>1, <1>2, <1>3, <1>4, <1>5

(* Redrives.  A claimed letter is claimed by one operator, so removing it    *)
(* leaves every other claim standing, and a parked event has no effects yet. *)
LEMMA RedriveOK ==
  ASSUME IInv, NEW o \in Operator,
         RedriveApply(o) \/ RedriveFail(o) \/ \E e \in Event : Claim(o, e)
  PROVE  IInv'
  <1>1. Passes'
    BY DEF IInv, Passes, PassOK, readModel, batch, RedriveApply, RedriveFail, Claim
  <1>2. Local'
    BY DEF IInv, Local, batch, breaker, bounds, RedriveApply, RedriveFail, Claim
  <1>3. CASE RedriveApply(o)
    <2> DEFINE e == claim[o]
    <2>1. e \in letters /\ e \in processed /\ e \in Event
      BY <1>3, ConsumerAssumption DEF IInv, Tables, Claims, ExactlyOnce, RedriveApply, Event
    <2>2. applied[e] = 0
      BY <2>1 DEF IInv, Tables, ExactlyOnce
    <2>3. /\ letters' = letters \ {e} /\ processed' = processed
          /\ applied' \in [Event -> Nat]
          /\ \A x \in Event : applied'[x] = IF x = e THEN 1 ELSE applied[x]
      BY <1>3, <2>1, <2>2 DEF IInv, Tables, RedriveApply
    <2>4. ExactlyOnce'
      BY <2>1, <2>3 DEF IInv, Tables, ExactlyOnce
    <2>5. Tables'
      BY <1>3, <2>3, <2>4 DEF IInv, Tables, RedriveApply
    <2>6. Claims'
      BY <1>3, <2>3, ConsumerAssumption DEF IInv, Claims, RedriveApply
    <2> QED  BY <1>1, <1>2, <2>5, <2>6 DEF IInv
  <1>4. CASE RedriveFail(o)
    <2>1. Tables'
      BY <1>4 DEF IInv, Tables, ExactlyOnce, readModel, RedriveFail
    <2>2. Claims'
      BY <1>4, ConsumerAssumption DEF IInv, Claims, readModel, RedriveFail
    <2> QED  BY <1>1, <1>2, <2>1, <2>2 DEF IInv
  <1>5. ASSUME NEW e \in Event, Claim(o, e) PROVE IInv'
    <2>1. Tables'
      BY <1>5 DEF IInv, Tables, ExactlyOnce, readModel, Claim
    <2>2. Claims'
      BY <1>5 DEF IInv, Claims, readModel, Claim, Event
    <2> QED  BY <1>1, <1>2, <2>1, <2>2 DEF IInv
  <1> QED  BY <1>3, <1>4, <1>5

(* The invariant holds in every reachable state.                             *)
THEOREM Invariance == Spec => []IInv
  <1>1. Init => IInv
    BY InitOK
  <1>2. IInv /\ [Next]_vars => IInv'
    <2> SUFFICES ASSUME IInv, [Next]_vars PROVE IInv'
      OBVIOUS
    <2>1. CASE Publish \/ Deploy
      BY <2>1, EnvironmentOK
    <2>2. ASSUME NEW c \in Consumer, Drain(c) PROVE IInv'
      BY <2>2, PassStepOK, SettleStepOK DEF Drain
    <2>3. ASSUME NEW c \in Consumer, ResetElapses(c) \/ Restart(c) \/ LoseLease(c)
          PROVE  IInv'
      BY <2>3, EnvironmentOK
    <2>4. ASSUME NEW o \in Operator,
                 RedriveApply(o) \/ RedriveFail(o) \/ \E e \in Event : Claim(o, e)
          PROVE  IInv'
      BY <2>4, RedriveOK
    <2>5. CASE UNCHANGED vars
      <3>1. Tables' /\ Claims'
        BY <2>5 DEF IInv, Tables, ExactlyOnce, Claims, readModel, vars
      <3>2. Passes'
        BY <2>5 DEF IInv, Passes, PassOK, readModel, batch, vars
      <3>3. Local'
        BY <2>5 DEF IInv, Local, batch, breaker, bounds, vars
      <3> QED  BY <3>1, <3>2, <3>3 DEF IInv
    <2> QED  BY <2>1, <2>2, <2>3, <2>4, <2>5 DEF Next
  <1> QED  BY <1>1, <1>2, PTL DEF Spec

(* Every table and every consumer's position stays within its kind.          *)
THEOREM TypeCorrect == Spec => []TypeOK
  <1>1. IInv => TypeOK
    BY ConsumerAssumption
    DEF IInv, Tables, Claims, Passes, Local, TypeOK, ExactlyOnce, Event
  <1> QED  BY <1>1, Invariance, PTL

(* Whatever the interleaving of drainers, crashes, lost answers, lost leases *)
(* and redrives, an event taken off the feed is in the read models exactly   *)
(* once or parked, never both and never neither.                             *)
THEOREM AppliedExactlyOnce == Spec => []ExactlyOnce
  <1>1. IInv => ExactlyOnce
    BY DEF IInv, Tables
  <1> QED  BY <1>1, Invariance, PTL

(* No event is ever skipped: the offset, and every drainer's position, has   *)
(* only settled events behind it.                                            *)
THEOREM NothingSkipped == Spec => []OffsetCovers
  <1>1. IInv => OffsetCovers
    BY DEF IInv, Tables, Passes, PassOK, OffsetCovers
  <1> QED  BY <1>1, Invariance, PTL

-----------------------------------------------------------------------------
(* The refinement of Projection *)

Stage == [e \in Event |-> Status(e)]

(* Where an event stands follows from the two tables: no event is "broken".  *)
LEMMA StageIs ==
  ASSUME Tables
  PROVE  Stage = [e \in Event |-> IF e \notin processed THEN "pending"
                                  ELSE IF e \in letters THEN "parked" ELSE "applied"]
  <1>1. ASSUME NEW e \in Event
        PROVE  Status(e) = IF e \notin processed THEN "pending"
                           ELSE IF e \in letters THEN "parked" ELSE "applied"
    BY DEF Tables, ExactlyOnce, Status
  <1> QED  BY <1>1 DEF Stage

(* The same after a step.                                                    *)
LEMMA StageIsNext ==
  ASSUME Tables'
  PROVE  Stage' = [e \in Event |-> IF e \notin processed' THEN "pending"
                                   ELSE IF e \in letters' THEN "parked" ELSE "applied"]
  <1>1. ASSUME NEW e \in Event
        PROVE  Status(e)' = IF e \notin processed' THEN "pending"
                            ELSE IF e \in letters' THEN "parked" ELSE "applied"
    BY DEF Tables, ExactlyOnce, Status
  <1> QED  BY <1>1 DEF Stage, Event

(* A transaction that applies or parks the next event is a delivery.         *)
LEMMA DeliverStep ==
  ASSUME Tables, Tables', NEW e \in 1..head, ApplyEvent(e) \/ DeadLetter(e)
  PROVE  Promise!Deliver(e)
  <1>1. e \in Event
    BY ConsumerAssumption DEF Tables, Event
  <1>2. \/ Stage[e] = "pending" /\ \E s \in {"applied", "parked"} : Stage' = [Stage EXCEPT ![e] = s]
        \/ UNCHANGED Stage
    <2>1. CASE e \in processed
      <3>1. UNCHANGED <<processed, letters>>
        BY <2>1 DEF ApplyEvent, DeadLetter
      <3> QED  BY <3>1, StageIs, StageIsNext
    <2>2. CASE e \notin processed /\ ApplyEvent(e)
      <3>1. processed' = processed \cup {e} /\ letters' = letters
        BY <2>2 DEF ApplyEvent
      <3>2. e \notin letters
        BY <2>2 DEF Tables, ExactlyOnce
      <3>3. Stage[e] = "pending" /\ Stage' = [Stage EXCEPT ![e] = "applied"]
        BY <1>1, <2>2, <3>1, <3>2, StageIs, StageIsNext
      <3> QED  BY <3>3
    <2>3. CASE e \notin processed /\ DeadLetter(e)
      <3>1. processed' = processed \cup {e} /\ letters' = letters \cup {e}
        BY <2>3 DEF DeadLetter
      <3>2. Stage[e] = "pending" /\ Stage' = [Stage EXCEPT ![e] = "parked"]
        BY <1>1, <2>3, <3>1, StageIs, StageIsNext
      <3> QED  BY <3>2
    <2> QED  BY <2>1, <2>2, <2>3
  <1>3. offset' \in {offset, e} /\ offset' >= offset
    BY DEF Tables, ApplyEvent, DeadLetter, AdvanceOffset
  <1>4. \A x \in Event : x <= offset' => Stage'[x] # "pending"
    <2>1. ASSUME NEW x \in Event, x <= offset' PROVE x \in processed'
      BY <2>1, ConsumerAssumption DEF Tables, Event
    <2> QED  BY <2>1, StageIs, StageIsNext
  <1> QED  BY <1>2, <1>3, <1>4 DEF Promise!Deliver, Promise!Covered, Stage

(* A redrive that succeeds is one: its letter was parked.                    *)
LEMMA RedriveStep ==
  ASSUME IInv, IInv', NEW o \in Operator, RedriveApply(o)
  PROVE  claim[o] \in Event /\ Promise!Redrive(claim[o])
  <1> DEFINE e == claim[o]
  <1>1. e \in letters /\ e \in processed /\ e \in Event
    BY ConsumerAssumption DEF IInv, Tables, Claims, ExactlyOnce, RedriveApply, Event
  <1>2. letters' = letters \ {e} /\ UNCHANGED <<processed, offset>>
    BY DEF RedriveApply
  <1>3. Stage[e] = "parked"
    BY <1>1, StageIs, StageIsNext DEF IInv
  <1>4. Stage' = [Stage EXCEPT ![e] = "applied"]
    BY <1>1, <1>2, StageIs, StageIsNext DEF IInv
  <1> QED  BY <1>1, <1>2, <1>3, <1>4 DEF Promise!Redrive, Stage

(* A step that leaves the tables alone is not seen.                          *)
LEMMA UnseenStep ==
  ASSUME UNCHANGED readModel
  PROVE  UNCHANGED Promise!vars
  BY DEF readModel, Promise!vars, Status

(* The PostgreSQL tier implements Projection: every step of consumers,       *)
(* operators, crashes and deployments is a delivery, a redrive or unseen.    *)
THEOREM PromiseKept == Spec => KeepsPromise
  <1>1. Init => Promise!Init
    <2> SUFFICES ASSUME Init PROVE Promise!Init
      OBVIOUS
    <2>1. Tables
      BY InitOK DEF IInv
    <2>2. Stage = [e \in Event |-> "pending"] /\ offset = 0
      BY <2>1, StageIs DEF Init
    <2> QED  BY <2>2 DEF Promise!Init, Stage
  <1>2. IInv /\ IInv' /\ [Next]_vars => [Promise!Next]_(Promise!vars)
    <2> SUFFICES ASSUME IInv, IInv', [Next]_vars
                 PROVE  Promise!Next \/ UNCHANGED Promise!vars
      OBVIOUS
    <2>1. ASSUME NEW c \in Consumer, Drain(c)
          PROVE  Promise!Next \/ UNCHANGED Promise!vars
      <3>1. CASE TryAcquire(c) \/ ReadOffset(c) \/ ReadFeed(c) \/ Halt(c) \/ Refuse(c)
        <4>1. UNCHANGED readModel
          BY <3>1 DEF TryAcquire, ReadOffset, ReadFeed, Halt, Refuse
        <4> QED  BY <4>1, UnseenStep
      <3>2. CASE Apply(c) \/ Fail(c) \/ Park(c)
        <4>1. next[c] \in 1..head
          BY <3>2, CurrentEvent DEF Apply, Fail, Park
        <4>2. next[c] \in Event
          BY <4>1, ConsumerAssumption DEF IInv, Tables, Event
        <4>3. CASE ApplyEvent(next[c]) \/ DeadLetter(next[c])
          <5>1. Promise!Deliver(next[c])
            BY <4>1, <4>3, DeliverStep DEF IInv
          <5> QED  BY <4>2, <5>1 DEF Promise!Next
        <4>4. CASE UNCHANGED readModel
          BY <4>4, UnseenStep
        <4> QED  BY <3>2, <4>3, <4>4 DEF Apply, Fail, Park
      <3> QED  BY <2>1, <3>1, <3>2 DEF Drain
    <2>2. ASSUME NEW o \in Operator, RedriveApply(o)
          PROVE  Promise!Next \/ UNCHANGED Promise!vars
      BY <2>2, RedriveStep DEF Promise!Next
    <2>3. CASE \/ Publish \/ Deploy
               \/ \E c \in Consumer : ResetElapses(c) \/ Restart(c) \/ LoseLease(c)
               \/ \E o \in Operator : RedriveFail(o) \/ \E e \in Event : Claim(o, e)
               \/ UNCHANGED vars
      <3>1. UNCHANGED readModel
        BY <2>3 DEF Publish, Deploy, ResetElapses, Restart, LoseLease, RedriveFail, Claim, vars
      <3> QED  BY <3>1, UnseenStep
    <2> QED  BY <2>1, <2>2, <2>3 DEF Next
  <1> QED  BY <1>1, <1>2, Invariance, PTL DEF Spec, KeepsPromise, Promise!Spec
=============================================================================
