------------------------------- MODULE Webhooks -------------------------------
(***************************************************************************)
(* Webhooks: the list of registered endpoints, the queue of events and the *)
(* worker that posts one event after the other to whoever subscribes to    *)
(* it.                                                                     *)
(*                                                                         *)
(* The worker iterates over the list itself and awaits every post.         *)
(* Meanwhile a registration appends to that list, and a removal leaves it  *)
(* to the worker and puts another in its place.                            *)
(***************************************************************************)
EXTENDS Integers, Sequences

CONSTANTS
    Hooks,        \* BOUND: endpoints; each is registered once
    Types,        \* types of events that main.py wires to the service
    Subscribed,   \* the types each endpoint asks for
    Default,      \* the endpoint of the settings, alone in a sequence, or <<>>
    MaxEvents,    \* BOUND: events
    MaxFailures,  \* failures in a row that disable an endpoint (10)
    MaxRestarts   \* BOUND: process restarts

Events == 1..MaxEvents

ASSUME WebhooksAssumption ==
    /\ Subscribed \in [Hooks -> SUBSET Types]
    /\ Default \in Seq(Hooks) /\ Len(Default) <= 1
    /\ MaxEvents \in Nat /\ MaxFailures \in Nat \ {0} /\ MaxRestarts \in Nat

VARIABLES
    \* the list, and of each endpoint its id (0: never registered) and state
    registry, idOf, active, failures,
    \* the types of the events emitted so far, which bear numbers, the queue
    emitted, queue,
    \* the worker: the event in hand (0: none), the list it iterates over, its
    \* place in it, whether that list is still the registry
    event, walk, at, shared,
    \* history: what was sent to whom, who had to hear an event, the last
    \* event taken when an endpoint was removed
    attempts, due, until, restarts

hookVars   == <<registry, idOf, active, failures>>
queueVars  == <<emitted, queue>>
workerVars == <<event, walk, at, shared>>
vars == <<hookVars, queueVars, workerVars, attempts, due, until, restarts>>

InList(x, s) == \E j \in 1..Len(s) : s[j] = x

Wants(h, e) == active[h] /\ emitted[e] \in Subscribed[h]

\* The default endpoint is registered when the service is created.
Init ==
    /\ registry = Default
    /\ idOf = [h \in Hooks |-> IF InList(h, Default) THEN 1 ELSE 0]
    /\ active = [h \in Hooks |-> TRUE] /\ failures = [h \in Hooks |-> 0]
    /\ emitted = <<>> /\ queue = <<>>
    /\ event = 0 /\ walk = <<>> /\ at = 0 /\ shared = FALSE
    /\ attempts = [h \in Hooks |-> <<>>]
    /\ due = [e \in Events |-> {}]
    /\ until = [h \in Hooks |-> MaxEvents]
    /\ restarts = 0

-----------------------------------------------------------------------------
(* Requests.                                                               *)

\* register_webhook appends to the list the worker may be iterating over.
Register(h) ==
    /\ idOf[h] = 0
    /\ idOf' = [idOf EXCEPT ![h] = Len(registry) + 1]
    /\ registry' = Append(registry, h)
    /\ walk' = IF shared THEN Append(walk, h) ELSE walk
    /\ UNCHANGED <<active, failures, queueVars, event, at, shared, attempts, due,
                   until, restarts>>

\* The last event the worker has taken.
Taken == Len(emitted) - Len(queue)

\* The endpoints of id n are to hear nothing that has not been taken.
Removed(n) ==
    [h \in Hooks |-> IF idOf[h] = n /\ InList(h, registry) THEN Taken ELSE until[h]]

\* The list s, whose entries all differ, without the endpoints of id n.
Without(s, n) ==
    {t \in UNION {[1..m -> Hooks] : m \in 0..Len(s)} :
        /\ \A h \in Hooks : InList(h, t) <=> InList(h, s) /\ idOf[h] # n
        /\ \A j, k \in 1..Len(t) : j < k =>
              \E i, m \in 1..Len(s) : i < m /\ s[i] = t[j] /\ s[m] = t[k]}

\* Deviation: the new list is not assigned.
Remove_Unassigned(n) ==
    /\ until' = Removed(n)
    /\ UNCHANGED <<hookVars, queueVars, workerVars, attempts, due, restarts>>

\* Deviation: the entries are deleted from the list itself.
Remove_InPlace(n) ==
    /\ until' = Removed(n)
    /\ registry' \in Without(registry, n)
    /\ walk' = IF shared THEN registry' ELSE walk
    /\ UNCHANGED <<idOf, active, failures, queueVars, event, at, shared, attempts,
                   due, restarts>>

\* remove_webhook, of an id that may be gone already: another list, without the
\* endpoints of that id.
Remove(n) ==
    /\ until' = Removed(n)
    /\ registry' \in Without(registry, n)
    /\ shared' = FALSE
    /\ UNCHANGED <<idOf, active, failures, queueVars, event, walk, at, attempts,
                   due, restarts>>

\* An event of the client: a task puts it in the queue.
Emit(t) ==
    /\ Len(emitted) < MaxEvents
    /\ emitted' = Append(emitted, t)
    /\ queue' = Append(queue, Len(emitted) + 1)
    /\ due' = [due EXCEPT ![Len(emitted) + 1] =
                  {h \in Hooks : InList(h, registry) /\ active[h] /\ t \in Subscribed[h]}]
    /\ UNCHANGED <<hookVars, workerVars, attempts, until, restarts>>

-----------------------------------------------------------------------------
(* The worker.                                                             *)

\* From place j of list s the worker goes on, without an await, to the next
\* endpoint that wants event e and posts, or has done with e.
Advance(e, s, j) ==
    \/ \E k \in j..Len(s) :
          /\ Wants(s[k], e) /\ \A i \in j..(k - 1) : ~Wants(s[i], e)
          /\ event' = e /\ walk' = s /\ at' = k
          /\ attempts' = [attempts EXCEPT ![s[k]] = Append(@, e)]
    \/ /\ \A k \in j..Len(s) : ~Wants(s[k], e)
       /\ event' = 0 /\ walk' = <<>> /\ at' = 0
       /\ UNCHANGED attempts

\* Deviation: events wait until somebody listens.
Take_Holds ==
    /\ event = 0 /\ queue # <<>>
    /\ \E h \in Hooks : InList(h, registry) /\ Wants(h, Head(queue))
    /\ queue' = Tail(queue)
    /\ Advance(Head(queue), registry, 1)
    /\ shared' = (event' # 0)
    /\ UNCHANGED <<hookVars, emitted, due, until, restarts>>

\* The next event, and the iteration over the list as it is now.
Take ==
    /\ event = 0 /\ queue # <<>>
    /\ queue' = Tail(queue)
    /\ Advance(Head(queue), registry, 1)
    /\ shared' = (event' # 0)
    /\ UNCHANGED <<hookVars, emitted, due, until, restarts>>

Outcomes == {"ok", "refused", "raised"}

\* Deviation: a failed event is queued again.
Answer_Requeues(outcome) ==
    /\ event # 0
    /\ Advance(event, walk, at + 1)
    /\ shared' = (shared /\ event' # 0)
    /\ queue' = IF outcome = "ok" \/ restarts = MaxRestarts
                THEN queue ELSE Append(queue, event)
    /\ UNCHANGED <<hookVars, emitted, due, until, restarts>>

\* Deviation: an exception ends the round.
Answer_EndsRound(outcome) ==
    /\ event # 0
    /\ \/ outcome # "raised" /\ Advance(event, walk, at + 1)
       \/ outcome = "raised" /\ Advance(event, walk, Len(walk) + 1)
    /\ shared' = (shared /\ event' # 0)
    /\ UNCHANGED <<hookVars, queueVars, due, until, restarts>>

\* An answer of 400 and above counts as a failure; an exception counts and may
\* disable the endpoint.
Answer(outcome) ==
    /\ event # 0
    /\ LET h == walk[at]
           n == IF outcome = "ok" THEN 0
                ELSE IF failures[h] < MaxFailures THEN failures[h] + 1 ELSE MaxFailures
       IN  /\ failures' = [failures EXCEPT ![h] = n]
           /\ active' = [active EXCEPT ![h] = @ /\ ~(outcome = "raised" /\ n = MaxFailures)]
    /\ Advance(event, walk, at + 1)
    /\ shared' = (shared /\ event' # 0)
    /\ UNCHANGED <<registry, idOf, queueVars, due, until, restarts>>

\* The service is stopped, with whatever it had in hand and in the queue, and
\* the process starts again with the default endpoint.
Restart ==
    /\ restarts < MaxRestarts /\ restarts' = restarts + 1
    /\ registry' = Default /\ queue' = <<>>
    /\ active' = [h \in Hooks |-> TRUE] /\ failures' = [h \in Hooks |-> 0]
    /\ idOf' = [h \in Hooks |-> IF InList(h, Default) THEN 1 ELSE idOf[h]]
    /\ event' = 0 /\ walk' = <<>> /\ at' = 0 /\ shared' = FALSE
    /\ due' = [e \in Events |-> {}]
    /\ until' = [h \in Hooks |-> IF InList(h, Default) THEN MaxEvents ELSE until[h]]
    /\ UNCHANGED <<emitted, attempts>>

-----------------------------------------------------------------------------

Worker == Take \/ \E outcome \in Outcomes : Answer(outcome)

Next ==
    \/ \E h \in Hooks : Register(h)
    \/ \E h \in Hooks : idOf[h] # 0 /\ Remove(idOf[h])
    \/ (\E t \in Types : Emit(t)) \/ Worker \/ Restart

Spec == Init /\ [][Next]_vars

\* Every post ends and the worker goes on; nobody has to register, remove or
\* restart anything.  That a post ends is assumed of the endpoints: the time limit
\* of 10 seconds (:103) is for connecting and for each read, so it ends a silent
\* one, but not one that keeps sending a little.
FairSpec == Spec /\ WF_vars(Worker)

-----------------------------------------------------------------------------
(* Properties.                                                             *)

\* Type invariant.
TypeOK ==
    /\ registry \in Seq(Hooks) /\ idOf \in [Hooks -> Nat]
    /\ active \in [Hooks -> BOOLEAN] /\ failures \in [Hooks -> 0..MaxFailures]
    /\ emitted \in Seq(Types) /\ Len(emitted) <= MaxEvents
    /\ queue \in Seq(Events) /\ Len(queue) <= Len(emitted)
    /\ event \in 0..MaxEvents /\ walk \in Seq(Hooks) /\ shared \in BOOLEAN
    /\ at \in 0..Len(walk) /\ (event = 0 <=> at = 0)
    /\ attempts \in [Hooks -> Seq(Events)]
    /\ due \in [Events -> SUBSET Hooks] /\ until \in [Hooks -> 0..MaxEvents]
    /\ restarts \in 0..MaxRestarts

\* No endpoint hears an event twice, or after a later one, whatever is
\* registered and removed meanwhile (_deliver_event).
InOrderOnce ==
    \A h \in Hooks : \A j, k \in 1..Len(attempts[h]) :
        j < k => attempts[h][j] < attempts[h][k]

\* Once the worker is through with an event, everybody who was registered for
\* it when it was emitted, and is neither removed nor disabled since, has been
\* called (_deliver_event "to all matching webhooks").
EveryoneHears ==
    \A e \in 1..Len(emitted) : e # event /\ ~InList(e, queue) =>
        \A h \in due[e] : InList(h, registry) /\ active[h] => InList(e, attempts[h])

\* A removed endpoint hears at most what the worker had taken before
\* (remove_webhook).
RemovedHearNothingNew ==
    \A h \in Hooks : \A j \in 1..Len(attempts[h]) : attempts[h][j] <= until[h]

\* Every event leaves the queue and the worker's hands (_delivery_worker).
EventsAreHandled ==
    \A e \in Events :
        (InList(e, queue) \/ event = e) ~> ~(InList(e, queue) \/ event = e)
=============================================================================
