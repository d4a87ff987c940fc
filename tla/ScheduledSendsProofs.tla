------------------------- MODULE ScheduledSendsProofs -------------------------
(* Type correctness and the delivery guarantees of ScheduledSends, for any  *)
(* number of sends, any limit and any number of faults.                     *)
EXTENDS ScheduledSends, TLAPS

USE ScheduleAssumption
    DEF ScheduleAssumption, docVars, loopVars, worldVars, ghostVars, Statuses, PCs, Marking

\* Every document, the dispatcher and every counter stay within their types,
\* and a send is being attempted exactly between two polls.
THEOREM ScheduleTypes == Spec => []TypeOK
<1>1. Init => TypeOK
  <2>. SUFFICES ASSUME Init PROVE TypeOK
    OBVIOUS
  <2>1. connected \in BOOLEAN /\ quiet \in BOOLEAN
    BY DEF Init
  <2>2. current = None <=> pc \in {"sleeping", "claimed"}
    BY DEF Init
  <2>. QED  BY <2>1, <2>2 DEF Init, TypeOK
<1>2. TypeOK /\ [Next]_vars => TypeOK'
  <2>. SUFFICES ASSUME TypeOK, [Next]_vars PROVE TypeOK'
    OBVIOUS
  <2>1. ASSUME NEW s \in Sends, Cancel(s) PROVE TypeOK'
    BY <2>1 DEF Cancel, Pending, TypeOK
  <2>2. ASSUME NEW s \in Sends, NEW t \in 0..Horizon, Create(s, t) PROVE TypeOK'
    BY <2>2 DEF Create, TypeOK
  <2>3. CASE Claim
    <3>1. batch' \in SUBSET Sends
      BY <2>3 DEF Claim, Claimable, Due
    <3>. QED  BY <2>3, <3>1 DEF Claim, TypeOK
  <2>4. CASE Proceed
    BY <2>4 DEF Proceed, Attempt, EndTick, TypeOK
  <2>5. CASE Returned
    BY <2>5 DEF Returned, TypeOK
  <2>6. CASE Mark
    BY <2>6 DEF Mark, Write, Attempt, EndTick, TypeOK
  <2>7. CASE Accept
    BY <2>7 DEF Accept, TypeOK
  <2>8. CASE Refused
    BY <2>8 DEF Refused, TypeOK
  <2>9. CASE MarkFails
    BY <2>9 DEF MarkFails, Fault, Lose, Write, EndTick, TypeOK
  <2>10. CASE TickFails
    BY <2>10 DEF TickFails, Fault, EndTick, TypeOK
  <2>11. CASE Restart
    <3>1. connected' \in BOOLEAN
      BY <2>11 DEF Restart
    <3>2. current \in Sends => lost' \in [Sends -> Nat]
      BY <2>11 DEF Restart, Lose, TypeOK
    <3>3. lost' \in [Sends -> Nat]
      BY <2>11, <3>2 DEF Restart, TypeOK
    <3>. QED  BY <2>11, <3>1, <3>3 DEF Restart, Fault, EndTick, TypeOK
  <2>12. CASE ConnectionChanges
    BY <2>12 DEF ConnectionChanges, TypeOK
  <2>13. CASE QuietChanges
    BY <2>13 DEF QuietChanges, TypeOK
  <2>14. CASE Tick
    BY <2>14 DEF Tick, TypeOK
  <2>15. CASE UNCHANGED vars
    BY <2>15 DEF vars, TypeOK
  <2>. QED
    BY <2>1, <2>2, <2>3, <2>4, <2>5, <2>6, <2>7, <2>8, <2>9, <2>10, <2>11,
       <2>12, <2>13, <2>14, <2>15
    DEF Next, API, Dispatcher, Client, Failure, World
<1>. QED  BY <1>1, <1>2, PTL DEF Spec

-----------------------------------------------------------------------------
(* What may still be delivered: a send that waits to be attempted, in the   *)
(* batch or in its document, has no delivery that a lost attempt does not   *)
(* account for, and what is in the dispatcher's hands is not settled yet.   *)

Unsettled(s) == status[s] \in {"pending", "cancelled"}
Accounted(s) == delivered[s] <= lost[s]

Ledger ==
    /\ \A s \in Sends : delivered[s] <= 1 + lost[s]
    /\ \A s \in Sends : status[s] \in {"none", "pending"} /\ s # current => Accounted(s)
    /\ \A s \in batch : s # current /\ Unsettled(s) /\ Accounted(s)
    /\ pc = "sending" => Accounted(current)
    /\ pc \in {"sending", "accepted", "markSent"} => Unsettled(current)
    /\ pc = "sleeping" => batch = {}
    /\ current # None => status[current] # "none"

Delivery ==
    /\ pc \in {"accepted", "markSent"} => delivered[current] > 0
    /\ \A s \in Sends : status[s] = "sent" => delivered[s] > 0

\* Choosing the next send keeps the ledger, whatever was recorded of the last.
LEMMA AttemptKeepsLedger ==
    ASSUME TypeOK, Ledger, NEW rest \in SUBSET batch, Attempt(rest),
           UNCHANGED <<delivered, lost>>, status' \in [Sends -> Statuses],
           \A s \in Sends : s # current => status'[s] = status[s],
           current # None => status'[current] \in {"sent", "failed"}
    PROVE  Ledger'
<1>1. CASE rest = {} /\ EndTick
  BY <1>1 DEF EndTick, Ledger, Accounted, Unsettled, TypeOK
<1>2. ASSUME NEW s \in rest, current' = s, batch' = rest \ {s},
             pc' = IF connected THEN "sending" ELSE "excepting"
      PROVE  Ledger'
  BY <1>2 DEF Ledger, Accounted, Unsettled, TypeOK
<1>. QED  BY <1>1, <1>2 DEF Attempt

\* Every step keeps the ledger.
LEMMA LedgerStep == TypeOK /\ TypeOK' /\ Ledger /\ [Next]_vars => Ledger'
<1>. SUFFICES ASSUME TypeOK, TypeOK', Ledger, [Next]_vars PROVE Ledger'
  OBVIOUS
<1>. USE DEF Accounted, Unsettled
<1>1. ASSUME NEW s \in Sends, Cancel(s) PROVE Ledger'
  BY <1>1 DEF Cancel, Pending, Ledger, TypeOK
<1>2. ASSUME NEW s \in Sends, NEW t \in 0..Horizon, Create(s, t) PROVE Ledger'
  BY <1>2 DEF Create, Ledger, TypeOK
<1>3. CASE Claim
  <2>1. \A s \in batch' : status[s] = "pending" /\ s \in Sends
    BY <1>3 DEF Claim, Claimable, Due, Pending
  <2>. QED  BY <1>3, <2>1 DEF Claim, Ledger, TypeOK
<1>4. CASE Proceed
  <2>1. current = None
    BY <1>4 DEF Proceed, TypeOK
  <2>2. CASE EndTick
    BY <1>4, <2>2 DEF Proceed, EndTick, Ledger, TypeOK
  <2>3. CASE Attempt(batch)
    BY <1>4, <2>1, <2>3, AttemptKeepsLedger DEF Proceed, TypeOK
  <2>. QED  BY <1>4, <2>2, <2>3 DEF Proceed
<1>5. CASE Returned
  BY <1>5 DEF Returned, Ledger, TypeOK
<1>6. CASE Mark
  <2>1. current \in Sends /\ Attempt(batch) /\ UNCHANGED <<delivered, lost>>
    BY <1>6 DEF Mark, TypeOK
  <2>2. /\ \A s \in Sends : s # current => status'[s] = status[s]
        /\ status'[current] \in {"sent", "failed"}
    BY <1>6, <2>1 DEF Mark, Write, TypeOK
  <2>3. status' \in [Sends -> Statuses]
    BY DEF TypeOK
  <2>. QED  BY <2>1, <2>2, <2>3, AttemptKeepsLedger
<1>7. CASE Accept
  BY <1>7 DEF Accept, Ledger, TypeOK
<1>8. CASE Refused
  BY <1>8 DEF Refused, Ledger, TypeOK
<1>9. CASE MarkFails
  <2>1. current \in Sends
    BY <1>9 DEF MarkFails, TypeOK
  <2>2. /\ \A s \in Sends : s # current => status'[s] = status[s]
        /\ status'[current] # "none"
    BY <1>9, <2>1 DEF MarkFails, Write, Ledger, TypeOK
  <2>3. CASE pc = "excepting"
    BY <1>9, <2>1, <2>2, <2>3 DEF MarkFails, EndTick, Lose, Ledger, TypeOK
  <2>4. CASE pc # "excepting"
    BY <1>9, <2>1, <2>2, <2>4 DEF MarkFails, Ledger, TypeOK
  <2>. QED  BY <2>3, <2>4
<1>10. CASE TickFails
  BY <1>10 DEF TickFails, EndTick, Ledger, TypeOK
<1>11. CASE Restart
  <2>1. CASE pc \in {"accepted"} \cup Marking
    BY <1>11, <2>1 DEF Restart, EndTick, Lose, Ledger, TypeOK
  <2>2. CASE pc \notin {"accepted"} \cup Marking
    BY <1>11, <2>2 DEF Restart, EndTick, Ledger, TypeOK
  <2>. QED  BY <2>1, <2>2
<1>12. CASE ConnectionChanges
  BY <1>12 DEF ConnectionChanges, Ledger
<1>13. CASE QuietChanges
  BY <1>13 DEF QuietChanges, Ledger
<1>14. CASE Tick
  BY <1>14 DEF Tick, Ledger
<1>15. CASE UNCHANGED vars
  BY <1>15 DEF vars, Ledger
<1>. QED
  BY <1>1, <1>2, <1>3, <1>4, <1>5, <1>6, <1>7, <1>8, <1>9, <1>10, <1>11,
     <1>12, <1>13, <1>14, <1>15
  DEF Next, API, Dispatcher, Client, Failure, World

\* The ledger always holds.
LEMMA LedgerHolds == Spec => []Ledger
<1>1. Init => Ledger
  BY DEF Init, Ledger, Accounted, Unsettled
<1>. QED  BY <1>1, LedgerStep, ScheduleTypes, PTL DEF Spec

\* A send is delivered at most once more than its attempts whose outcome was
\* lost: polling, cancelling and failing calls repeat nothing.
THEOREM DeliveredOncePerLoss == Spec => []ResentOnlyAfterLoss
<1>1. Ledger => ResentOnlyAfterLoss
  BY DEF Ledger, ResentOnlyAfterLoss
<1>. QED  BY <1>1, LedgerHolds, PTL

\* A send recorded as sent or failed is never delivered again.
THEOREM SettledForGood == Spec => SettledStaysUnsent
<1>1. TypeOK /\ Ledger /\ [Next]_vars =>
        [\A s \in Sends : status[s] \in {"sent", "failed"} =>
             delivered'[s] = delivered[s]]_vars
  <2>. SUFFICES ASSUME TypeOK, Ledger, Next,
                       NEW s \in Sends, status[s] \in {"sent", "failed"}
                PROVE  delivered'[s] = delivered[s]
    OBVIOUS
  <2>1. CASE Accept
    BY <2>1 DEF Accept, Ledger, Unsettled, TypeOK
  <2>2. CASE UNCHANGED delivered
    BY <2>2
  <2>. QED
    BY <2>1, <2>2
    DEF Next, API, Create, Cancel, Dispatcher, Claim, Proceed, Returned, Mark,
        Client, Refused, Failure, MarkFails, TickFails, Restart, World,
        ConnectionChanges, QuietChanges, Tick
<1>. QED  BY <1>1, LedgerHolds, ScheduleTypes, PTL DEF Spec, SettledStaysUnsent

-----------------------------------------------------------------------------

\* Every step keeps the proof of delivery of what is recorded as sent.
LEMMA DeliveryStep == TypeOK /\ Delivery /\ [Next]_vars => Delivery'
<1>. SUFFICES ASSUME TypeOK, Delivery, [Next]_vars PROVE Delivery'
  OBVIOUS
<1>1. CASE API
  BY <1>1 DEF API, Create, Cancel, Pending, Delivery, TypeOK
<1>2. CASE Claim \/ Proceed \/ Returned
  BY <1>2 DEF Claim, Proceed, Returned, Attempt, EndTick, Delivery, TypeOK
<1>3. CASE Mark
  BY <1>3 DEF Mark, Write, Attempt, EndTick, Delivery, TypeOK
<1>4. CASE Accept
  <2>1. current \in Sends
    BY <1>4 DEF Accept, TypeOK
  <2>2. \A s \in Sends : delivered'[s] >= delivered[s]
    BY <1>4, <2>1 DEF Accept, TypeOK
  <2>3. delivered'[current] > 0
    BY <1>4, <2>1 DEF Accept, TypeOK
  <2>. QED  BY <1>4, <2>1, <2>2, <2>3 DEF Accept, Delivery, TypeOK
<1>9. CASE Refused
  BY <1>9 DEF Refused, Delivery, TypeOK
<1>5. CASE MarkFails
  BY <1>5 DEF MarkFails, Write, EndTick, Delivery, TypeOK
<1>6. CASE TickFails \/ Restart
  BY <1>6 DEF TickFails, Restart, EndTick, Delivery, TypeOK
<1>7. CASE World
  BY <1>7 DEF World, ConnectionChanges, QuietChanges, Tick, Delivery
<1>8. CASE UNCHANGED vars
  BY <1>8 DEF vars, Delivery
<1>. QED
  BY <1>1, <1>2, <1>3, <1>4, <1>5, <1>6, <1>7, <1>8, <1>9
  DEF Next, Dispatcher, Client, Failure

\* What is recorded as sent was delivered.
THEOREM SentMeansDelivered == Spec => []SentWasDelivered
<1>1. Init => Delivery
  BY DEF Init, Delivery
<1>2. Delivery => SentWasDelivered
  BY DEF Delivery, SentWasDelivered
<1>. QED  BY <1>1, <1>2, DeliveryStep, ScheduleTypes, PTL DEF Spec

-----------------------------------------------------------------------------
(* The refinement: every step of the dispatcher and of its faults is a step *)
(* of Outbox, or none.                                                      *)

\* A change of one document shows as the same change of one state.
LEMMA ShownUpdate ==
    ASSUME TypeOK, NEW s \in Sends, NEW v \in Statuses,
           status' = [status EXCEPT ![s] = v]
    PROVE  Shown' = [Shown EXCEPT ![s] =
               IF v = "pending" THEN "waiting"
               ELSE IF v = "cancelled" THEN "withdrawn" ELSE v]
<1>1. status \in [Sends -> Statuses]
  BY DEF TypeOK
<1>. QED  BY <1>1 DEF Shown, Pending

\* What is in hand when nothing is being attempted is the batch.
LEMMA InHandOf ==
    ASSUME TypeOK
    PROVE  /\ current = None => InHand = batch
           /\ current # None => InHand = batch \cup {current}
BY DEF InHand

\* An attempt that begins leaves in hand what it was given.
LEMMA AttemptHand ==
    ASSUME NEW rest, Attempt(rest), None \notin rest
    PROVE  InHand' = rest
BY DEF Attempt, EndTick, InHand

\* A recorded outcome is Outbox's Record.
LEMMA WriteRecords ==
    ASSUME TypeOK, Ledger, Delivery, pc \in Marking, Write,
           UNCHANGED <<delivered, lost>>, InHand' \in {InHand, InHand \ {current}}
    PROVE  Promise!Next
<1>. DEFINE outcome == IF pc = "markSent" THEN "sent" ELSE "failed"
<1>1. current \in Sends /\ current \in InHand
  BY DEF TypeOK, InHand
<1>2. Shown' = [Shown EXCEPT ![current] = outcome]
  BY <1>1, ShownUpdate DEF Write
<1>3. outcome = "sent" => Promise!Open(current) /\ delivered[current] > 0
  BY <1>1 DEF Promise!Open, Shown, Pending, Ledger, Unsettled, Delivery
<1>4. outcome \in {"sent", "failed"}
  OBVIOUS
<1>5. Promise!Record(current, outcome)
  BY <1>1, <1>2, <1>3 DEF Promise!Record
<1>. QED  BY <1>1, <1>4, <1>5 DEF Promise!Next

\* An attempt that a fault leaves without an outcome is Outbox's Forget.
LEMMA LossForgets ==
    ASSUME TypeOK, current # None, Lose, EndTick, UNCHANGED delivered,
           (Write /\ pc # "markSent") \/ UNCHANGED status
    PROVE  Promise!Next
<1>1. current \in Sends /\ current \in InHand
  BY DEF TypeOK, InHand
<1>2. InHand' = {}
  BY DEF EndTick, InHand
<1>3. Shown' \in {Shown, [Shown EXCEPT ![current] = "failed"]}
  <2>1. CASE Write /\ pc # "markSent"
    BY <2>1, <1>1, ShownUpdate DEF Write
  <2>2. CASE UNCHANGED status
    BY <2>2 DEF Shown, Pending
  <2>. QED  BY <2>1, <2>2
<1>4. Promise!Forget(current)
  BY <1>1, <1>2, <1>3 DEF Promise!Forget, Lose
<1>. QED  BY <1>1, <1>4 DEF Promise!Next

\* A step that changes neither documents nor counters is seen, if at all, in
\* what is in hand: nothing, what it was, or what waits.
LEMMA QuietStep ==
    ASSUME TypeOK, UNCHANGED <<status, delivered, lost>>,
           InHand' \in {InHand, {}}
    PROVE  [Promise!Next]_(Promise!vars)
<1>1. UNCHANGED Shown
  BY DEF Shown, Pending
<1>2. CASE InHand' = InHand
  BY <1>1, <1>2 DEF Promise!vars
<1>3. CASE InHand' = {}
  BY <1>1, <1>3 DEF Promise!Next, Promise!PutBack
<1>. QED  BY <1>2, <1>3

\* Every step maps to a step of Outbox or to none.
LEMMA PromiseStep ==
    TypeOK /\ TypeOK' /\ Ledger /\ Delivery /\ [Next]_vars => [Promise!Next]_(Promise!vars)
<1>. SUFFICES ASSUME TypeOK, TypeOK', Ledger, Delivery, [Next]_vars
              PROVE  [Promise!Next]_(Promise!vars)
  OBVIOUS
<1>a. None \notin batch
  BY DEF TypeOK
<1>1. ASSUME NEW s \in Sends, Cancel(s) PROVE Promise!Next
  <2>1. Shown' = [Shown EXCEPT ![s] = "withdrawn"]
    BY <1>1, ShownUpdate DEF Cancel
  <2>2. Shown[s] = "waiting" /\ UNCHANGED InHand
    BY <1>1 DEF Cancel, Shown, Pending, InHand, loopVars
  <2>. QED  BY <1>1, <2>1, <2>2 DEF Promise!Next, Promise!Withdraw, Cancel
<1>2. ASSUME NEW s \in Sends, NEW t \in 0..Horizon, Create(s, t) PROVE Promise!Next
  <2>1. Shown' = [Shown EXCEPT ![s] = "waiting"]
    BY <1>2, ShownUpdate DEF Create
  <2>2. Shown[s] = "none" /\ UNCHANGED InHand
    BY <1>2 DEF Create, Shown, Pending, InHand, loopVars
  <2>. QED  BY <1>2, <2>1, <2>2 DEF Promise!Next, Promise!Accept, Create
<1>3. CASE Claim
  <2>1. InHand = {} /\ InHand' = batch'
    BY <1>3 DEF Claim, InHand, Ledger, TypeOK
  <2>2. batch' \in SUBSET {s \in Sends : Shown[s] = "waiting"} /\ UNCHANGED Shown
    BY <1>3 DEF Claim, Claimable, Due, Shown, Pending
  <2>. QED  BY <1>3, <2>1, <2>2 DEF Promise!Next, Promise!Take, Claim
<1>4. CASE Proceed
  <2>1. InHand = batch
    BY <1>4, InHandOf DEF Proceed, TypeOK
  <2>2. InHand' \in {batch, {}}
    BY <1>4, <1>a, AttemptHand DEF Proceed, EndTick, InHand
  <2>. QED  BY <1>4, <2>1, <2>2, QuietStep DEF Proceed
<1>5. CASE Returned \/ Refused
  BY <1>5, QuietStep DEF Returned, Refused, InHand
<1>6. CASE Mark
  <2>1. InHand' = batch
    BY <1>6, <1>a, AttemptHand DEF Mark
  <2>2. InHand \ {current} = batch
    BY <1>6, InHandOf DEF Mark, Ledger, TypeOK
  <2>. QED  BY <1>6, <2>1, <2>2, WriteRecords DEF Mark
<1>7. CASE Accept
  <2>1. current \in Sends /\ current \in InHand /\ UNCHANGED <<Shown, InHand>>
    BY <1>7 DEF Accept, InHand, Shown, Pending, TypeOK
  <2>2. Promise!Open(current) /\ delivered[current] <= lost[current]
    BY <1>7, <2>1 DEF Accept, Promise!Open, Shown, Pending, Ledger, Unsettled, Accounted
  <2>. QED  BY <1>7, <2>1, <2>2 DEF Promise!Next, Promise!Deliver, Accept
<1>8. CASE MarkFails
  <2>1. current # None
    BY <1>8 DEF MarkFails, TypeOK
  <2>2. CASE pc = "excepting"
    BY <1>8, <2>1, <2>2, LossForgets DEF MarkFails
  <2>3. CASE pc # "excepting" /\ Write
    <3>1. UNCHANGED InHand
      BY <1>8, <2>3 DEF MarkFails, InHand
    <3>. QED  BY <1>8, <2>3, <3>1, WriteRecords DEF MarkFails
  <2>4. CASE pc # "excepting" /\ UNCHANGED docVars
    <3>1. UNCHANGED InHand
      BY <1>8, <2>4 DEF MarkFails, InHand
    <3>. QED  BY <1>8, <2>4, <3>1, QuietStep DEF MarkFails
  <2>. QED  BY <1>8, <2>2, <2>3, <2>4 DEF MarkFails
<1>9. CASE TickFails
  BY <1>9, QuietStep DEF TickFails, EndTick, InHand
<1>10. CASE Restart
  <2>1. CASE pc \in {"accepted"} \cup Marking
    <3>1. current # None
      BY <2>1 DEF TypeOK
    <3>. QED  BY <1>10, <2>1, <3>1, LossForgets DEF Restart
  <2>2. CASE pc \notin {"accepted"} \cup Marking
    BY <1>10, <2>2, QuietStep DEF Restart, EndTick, InHand
  <2>. QED  BY <2>1, <2>2
<1>11. CASE World \/ UNCHANGED vars
  BY <1>11, QuietStep
  DEF World, ConnectionChanges, QuietChanges, Tick, InHand, vars
<1>. QED
  BY <1>1, <1>2, <1>3, <1>4, <1>5, <1>6, <1>7, <1>8, <1>9, <1>10, <1>11
  DEF Next, API, Dispatcher, Client, Failure

\* The dispatcher, with its API and its faults, implements Outbox.
THEOREM PromiseKept == Spec => KeepsPromise
<1>1. Init => Promise!Init
  BY DEF Init, Promise!Init, Shown, Pending, InHand
<1>2. Init => Delivery
  BY DEF Init, Delivery
<1>3. Spec => []Delivery
  BY <1>2, DeliveryStep, ScheduleTypes, PTL DEF Spec
<1>. QED
  BY <1>1, <1>3, PromiseStep, ScheduleTypes, LedgerHolds, PTL
  DEF Spec, KeepsPromise, Promise!Spec
=============================================================================
