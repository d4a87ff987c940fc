-------------------------------- MODULE Outbox --------------------------------
(***************************************************************************)
(* What the schedule API promises of a send, whatever the dispatcher, the  *)
(* connection and the database do underneath: it waits until it is taken   *)
(* in hand; only a send in hand goes out; it goes out again only when an   *)
(* attempt was forgotten; an outcome is recorded only for a send in hand,  *)
(* and once recorded it is the end of that send.  A send withdrawn while   *)
(* nobody has it in hand never goes out afterwards.                        *)
(***************************************************************************)
EXTENDS Integers

CONSTANT Sends

VARIABLES
    state,      \* [Sends -> {"none", "waiting", "withdrawn", "sent", "failed"}]
    hand,       \* the sends the dispatcher has in hand
    copies,     \* how often each was delivered
    forgotten   \* how many attempts at each left no outcome

vars == <<state, hand, copies, forgotten>>

Open(s) == state[s] \in {"waiting", "withdrawn"}

Init ==
    /\ state = [s \in Sends |-> "none"]
    /\ hand = {}
    /\ copies = [s \in Sends |-> 0]
    /\ forgotten = [s \in Sends |-> 0]

Accept(s) ==
    /\ state[s] = "none"
    /\ state' = [state EXCEPT ![s] = "waiting"]
    /\ UNCHANGED <<hand, copies, forgotten>>

Withdraw(s) ==
    /\ state[s] = "waiting"
    /\ state' = [state EXCEPT ![s] = "withdrawn"]
    /\ UNCHANGED <<hand, copies, forgotten>>

\* Only waiting sends are taken, and only when nothing else is in hand.
Take ==
    /\ hand = {}
    /\ hand' \in SUBSET {s \in Sends : state[s] = "waiting"}
    /\ UNCHANGED <<state, copies, forgotten>>

PutBack ==
    /\ hand' = {}
    /\ UNCHANGED <<state, copies, forgotten>>

Deliver(s) ==
    /\ s \in hand /\ Open(s)
    /\ copies[s] <= forgotten[s]
    /\ copies' = [copies EXCEPT ![s] = @ + 1]
    /\ UNCHANGED <<state, hand, forgotten>>

\* A success is recorded of an open send that was delivered; a failure may also
\* overwrite a success whose record did not return.
Record(s, outcome) ==
    /\ s \in hand
    /\ outcome = "sent" => Open(s) /\ copies[s] > 0
    /\ state' = [state EXCEPT ![s] = outcome]
    /\ hand' \in {hand, hand \ {s}}
    /\ UNCHANGED <<copies, forgotten>>

\* The attempt is forgotten with whatever else is in hand.
Forget(s) ==
    /\ s \in hand
    /\ forgotten' = [forgotten EXCEPT ![s] = @ + 1]
    /\ state' \in {state, [state EXCEPT ![s] = "failed"]}
    /\ hand' = {}
    /\ UNCHANGED copies

Next ==
    \/ Take \/ PutBack
    \/ \E s \in Sends :
          \/ Accept(s) \/ Withdraw(s) \/ Deliver(s) \/ Forget(s)
          \/ \E outcome \in {"sent", "failed"} : Record(s, outcome)

Spec == Init /\ [][Next]_vars
=============================================================================
