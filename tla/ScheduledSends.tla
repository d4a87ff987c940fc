---------------------------- MODULE ScheduledSends ----------------------------
(***************************************************************************)
(* Scheduled sends: the documents of the scheduled_sends collection, the   *)
(* API that creates and cancels them, and the dispatcher loop of           *)
(* ScheduledSendService, which reads what is due and sends it one by one.  *)
(*                                                                         *)
(* Reading a send as due does not change its document: it stays pending    *)
(* until the outcome is written.  Between the two the dispatcher awaits    *)
(* the configuration, the WhatsApp client and the database, while the API, *)
(* the connection, quiet hours and the clock go on, and the process may    *)
(* die.                                                                    *)
(***************************************************************************)
EXTENDS Integers, FiniteSets

CONSTANTS
    Sends,       \* BOUND: documents ever created
    None,        \* no send
    Limit,       \* sends read at once: limit(50)
    Horizon,     \* BOUND: the clock stops here
    MaxFaults    \* BOUND: crashes and failed database calls

ASSUME ScheduleAssumption ==
    /\ None \notin Sends
    /\ Limit \in Nat \ {0} /\ Horizon \in Nat /\ MaxFaults \in Nat

VARIABLES
    \* the documents: status and scheduled_at
    status, at,
    \* the dispatcher: where it is, the due sends it has yet to attempt, and the
    \* one it is attempting
    pc, batch, current,
    \* what it reads: the clock, is_connected, quiet hours that defer sends
    now, connected, quiet,
    \* faults so far; history: deliveries of each send, and how many of its
    \* attempts a fault left without a recorded outcome
    faults, delivered, lost

docVars   == <<status, at>>
loopVars  == <<pc, batch, current>>
worldVars == <<now, connected, quiet>>
ghostVars == <<faults, delivered, lost>>
vars == <<docVars, loopVars, worldVars, ghostVars>>

Statuses == {"none", "pending", "sent", "failed", "cancelled"}
PCs == {"sleeping", "claimed", "sending", "accepted",
        "markSent", "markFailed", "excepting"}
Marking == {"markSent", "markFailed", "excepting"}

Pending(s) == status[s] = "pending"
Due == {s \in Sends : Pending(s) /\ at[s] <= now}

\* A process that starts; the connection comes up later.
Init ==
    /\ status = [s \in Sends |-> "none"]
    /\ at = [s \in Sends |-> 0]
    /\ pc = "sleeping" /\ batch = {} /\ current = None
    /\ now = 0 /\ connected = FALSE /\ quiet = FALSE
    /\ faults = 0
    /\ delivered = [s \in Sends |-> 0] /\ lost = [s \in Sends |-> 0]

-----------------------------------------------------------------------------
(* The API.                                                                *)

\* POST: any date is accepted, the past included.
Create(s, t) ==
    /\ status[s] = "none"
    /\ status' = [status EXCEPT ![s] = "pending"]
    /\ at' = [at EXCEPT ![s] = t]
    /\ UNCHANGED <<loopVars, worldVars, ghostVars>>

\* DELETE: answers 404 unless the document is pending.
Cancel(s) ==
    /\ Pending(s)
    /\ status' = [status EXCEPT ![s] = "cancelled"]
    /\ UNCHANGED <<at, loopVars, worldVars, ghostVars>>

-----------------------------------------------------------------------------
(* The dispatcher.                                                         *)

\* Deviation: the tick forgets to drop the send it was attempting.
EndTick_KeepsCurrent == pc' = "sleeping" /\ batch' = {} /\ UNCHANGED current

\* The tick is over; the loop sleeps until the next poll.
EndTick == pc' = "sleeping" /\ batch' = {} /\ current' = None

\* Deviation: everything due by date, whatever became of it.
Claimable_AnyStatus == {s \in Sends : status[s] # "none" /\ at[s] <= now}
\* Deviation: withdrawn sends are read as due too.
Claimable_WithCancelled ==
    {s \in Sends : status[s] \in {"pending", "cancelled"} /\ at[s] <= now}

Claimable == Due

\* Deviation: the limit is applied before the status filter.
Claim_LimitsFirst ==
    /\ pc = "sleeping"
    /\ LET dated == {s \in Sends : status[s] # "none" /\ at[s] <= now}
       IN \E oldest \in SUBSET dated :
             /\ Cardinality(oldest) = Limit \/ oldest = dated
             /\ Cardinality(oldest) <= Limit
             /\ \A s \in oldest, d \in dated \ oldest : at[s] <= at[d]
             /\ batch' = oldest \cap Due
    /\ batch' # {} /\ pc' = "claimed"
    /\ UNCHANGED <<docVars, current, worldVars, ghostVars>>

\* claim_due_scheduled: the oldest due sends, at most Limit of them.
Claim ==
    /\ pc = "sleeping"
    /\ batch' \in SUBSET Claimable \ {{}}
    /\ \/ batch' = Claimable
       \/ /\ Cardinality(batch') = Limit
          /\ \A s \in batch', d \in Claimable \ batch' : at[s] <= at[d]
    /\ Cardinality(batch') <= Limit
    /\ pc' = "claimed"
    /\ UNCHANGED <<docVars, current, worldVars, ghostVars>>

\* The next of the sends in rest, oldest first; send_message raises at once
\* when not connected.
Attempt(rest) ==
    \/ rest = {} /\ EndTick
    \/ \E s \in rest :
          /\ \A d \in rest : at[s] <= at[d]
          /\ current' = s /\ batch' = rest \ {s}
          /\ pc' = IF connected THEN "sending" ELSE "excepting"

\* The configuration is read; quiet hours or no connection defer the batch.
Proceed ==
    /\ pc = "claimed"
    /\ IF quiet \/ ~connected THEN EndTick ELSE Attempt(batch)
    /\ UNCHANGED <<docVars, worldVars, ghostVars>>

\* WhatsApp delivers the message.
Accept ==
    /\ pc = "sending"
    /\ pc' = "accepted"
    /\ delivered' = [delivered EXCEPT ![current] = @ + 1]
    /\ UNCHANGED <<docVars, batch, current, worldVars, faults, lost>>

\* send_message returns; an accepted send may still lack an acknowledgement.
Returned ==
    /\ pc = "accepted"
    /\ pc' \in {"markSent", "markFailed"}
    /\ UNCHANGED <<docVars, batch, current, worldVars, ghostVars>>

\* The lookup or the send fails; the preflight may also find the session gone
\* and log out.
Refused ==
    /\ pc = "sending"
    /\ pc' = "markFailed"
    /\ connected' \in {connected, FALSE}
    /\ UNCHANGED <<docVars, batch, current, now, quiet, ghostVars>>

\* mark_scheduled: the outcome is written whatever the document says now.
Write ==
    /\ status' = [status EXCEPT ![current] = IF pc = "markSent" THEN "sent" ELSE "failed"]
    /\ UNCHANGED at

\* Deviation: the outcome is written for the next send of the batch.
Mark_NextSend ==
    /\ pc \in Marking
    /\ Attempt(batch)
    /\ IF current' = None THEN UNCHANGED docVars
       ELSE /\ status' = [status EXCEPT ![current'] = IF pc = "markSent" THEN "sent" ELSE "failed"]
            /\ UNCHANGED at
    /\ UNCHANGED <<worldVars, ghostVars>>

Mark ==
    /\ pc \in Marking
    /\ Write
    /\ Attempt(batch)
    /\ UNCHANGED <<worldVars, ghostVars>>

Fault == faults < MaxFaults /\ faults' = faults + 1
Lose == lost' = [lost EXCEPT ![current] = @ + 1]

\* Deviation: no handler marks the send failed.
MarkFails_NoHandler ==
    /\ pc \in Marking /\ Fault
    /\ Write \/ UNCHANGED docVars
    /\ EndTick
    /\ UNCHANGED <<worldVars, delivered, lost>>

\* The write raises, applied or not.  The handler marks the send failed; if
\* that raises too the rest of the batch is left for the next poll.
MarkFails ==
    /\ pc \in Marking /\ Fault
    /\ Write \/ UNCHANGED docVars
    /\ IF pc = "excepting" THEN EndTick /\ Lose
       ELSE pc' = "excepting" /\ UNCHANGED <<batch, current, lost>>
    /\ UNCHANGED <<worldVars, delivered>>

\* Reading the configuration raises.
TickFails ==
    /\ pc = "claimed" /\ Fault
    /\ EndTick
    /\ UNCHANGED <<docVars, worldVars, delivered, lost>>

\* The process dies or is stopped, and starts again.
Restart ==
    /\ Fault
    /\ EndTick
    /\ IF pc \in {"accepted"} \cup Marking THEN Lose ELSE UNCHANGED lost
    /\ connected' = FALSE
    /\ UNCHANGED <<docVars, now, quiet, delivered>>

-----------------------------------------------------------------------------
(* What the dispatcher depends on.                                         *)

ConnectionChanges ==
    connected' = ~connected
    /\ UNCHANGED <<docVars, loopVars, now, quiet, ghostVars>>

\* The window opens or closes, or the owner changes it.
QuietChanges ==
    quiet' = ~quiet
    /\ UNCHANGED <<docVars, loopVars, now, connected, ghostVars>>

Tick ==
    /\ now < Horizon
    /\ now' = now + 1
    /\ UNCHANGED <<docVars, loopVars, connected, quiet, ghostVars>>

API == \E s \in Sends : Cancel(s) \/ \E t \in 0..Horizon : Create(s, t)
Dispatcher == Claim \/ Proceed \/ Returned \/ Mark
Client == Accept \/ Refused
Failure == MarkFails \/ TickFails \/ Restart
World == ConnectionChanges \/ QuietChanges \/ Tick

Next == API \/ Dispatcher \/ Client \/ Failure \/ World

Spec == Init /\ [][Next]_vars

\* The loop is never starved and every call of the client returns.
Fairness == WF_vars(Dispatcher) /\ WF_vars(Client) /\ WF_vars(Tick)
FairSpec == Spec /\ Fairness

-----------------------------------------------------------------------------
(* Properties.                                                             *)

\* Type invariant: documents, dispatcher and counters stay within their types,
\* and a send is being attempted exactly when the dispatcher is past its poll.
TypeOK ==
    /\ status \in [Sends -> Statuses] /\ at \in [Sends -> 0..Horizon]
    /\ pc \in PCs /\ batch \in SUBSET Sends
    /\ current \in Sends \cup {None}
    /\ current = None <=> pc \in {"sleeping", "claimed"}
    /\ now \in 0..Horizon /\ connected \in BOOLEAN /\ quiet \in BOOLEAN
    /\ faults \in 0..MaxFaults
    /\ delivered \in [Sends -> Nat] /\ lost \in [Sends -> Nat]

\* A message is delivered once, plus once for every attempt at it whose outcome
\* a restart or a double database failure left unrecorded: polling again, a
\* batch cut short and a cancellation repeat nothing (scheduler._tick).
ResentOnlyAfterLoss == \A s \in Sends : delivered[s] <= 1 + lost[s]

\* A document that says sent belongs to a message that was delivered
\* (scheduler._tick marks the send it has just made, not another).
SentWasDelivered == \A s \in Sends : status[s] = "sent" => delivered[s] > 0

\* A send recorded as sent or failed is never delivered again, whatever was
\* claimed before and whatever fails (claim_due_scheduled, mark_scheduled).
SettledStaysUnsent ==
    [][\A s \in Sends : status[s] \in {"sent", "failed"} =>
           delivered'[s] = delivered[s]]_vars

\* Every due send is settled once the connection holds and quiet hours are over,
\* across crashes and failed database calls (scheduler._loop: "never let the
\* loop die").
DueSendsSettle ==
    \A s \in Sends :
        <>[](connected /\ ~quiet) =>
            [](Pending(s) /\ at[s] <= now => <>(~Pending(s)))

\* What a caller of the schedule API sees of all this.
Shown == [s \in Sends |->
    IF Pending(s) THEN "waiting"
    ELSE IF status[s] = "cancelled" THEN "withdrawn" ELSE status[s]]
InHand == batch \cup ({current} \ {None})

Promise == INSTANCE Outbox WITH
    state <- Shown, hand <- InHand, copies <- delivered, forgotten <- lost

\* The dispatcher keeps what Outbox promises, across every interleaving of the
\* API, the tick and the faults.  In particular a cancellation that finds the
\* send in nobody's hand is final; one that comes between the poll and the
\* attempt is not (scheduler._tick does not look at the document again).
KeepsPromise == Promise!Spec
=============================================================================
