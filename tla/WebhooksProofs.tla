---------------------------- MODULE WebhooksProofs ----------------------------
(* Type correctness of Webhooks, and who hears what in which order, for any *)
(* number of endpoints, events, failures and restarts.                      *)
EXTENDS Webhooks, TLAPS

USE WebhooksAssumption
    DEF WebhooksAssumption, Events, hookVars, queueVars, workerVars, vars, Outcomes

-----------------------------------------------------------------------------
(* Type correctness.                                                       *)

\* A removal leaves a list of endpoints.
LEMMA WithoutIsList ==
    ASSUME NEW s \in Seq(Hooks), NEW n, NEW t \in Without(s, n)
    PROVE  t \in Seq(Hooks)
<1>1. PICK m \in 0..Len(s) : t \in [1..m -> Hooks]
  BY DEF Without
<1>2. m \in Nat
  OBVIOUS
<1>. QED  BY <1>1, <1>2

\* The worker goes on within its types.
LEMMA AdvanceTyped ==
    ASSUME TypeOK, NEW e \in Events, NEW s \in Seq(Hooks), NEW j \in Nat \ {0},
           Advance(e, s, j)
    PROVE  /\ event' \in 0..MaxEvents /\ walk' \in Seq(Hooks)
           /\ at' \in 0..Len(walk') /\ (event' = 0 <=> at' = 0)
           /\ attempts' \in [Hooks -> Seq(Events)]
<1>1. ASSUME NEW k \in j..Len(s), event' = e, walk' = s, at' = k,
             attempts' = [attempts EXCEPT ![s[k]] = Append(@, e)]
      PROVE  /\ event' \in 0..MaxEvents /\ walk' \in Seq(Hooks)
             /\ at' \in 0..Len(walk') /\ (event' = 0 <=> at' = 0)
             /\ attempts' \in [Hooks -> Seq(Events)]
  <2>1. k \in 1..Len(s) /\ s[k] \in Hooks
    OBVIOUS
  <2>2. attempts' \in [Hooks -> Seq(Events)]
    <3>. DEFINE h == s[k]  longer == Append(attempts[h], e)
    <3>1. h \in Hooks
      BY <2>1
    <3>2. attempts \in [Hooks -> Seq(Events)]
      BY DEF TypeOK
    <3>3. longer \in Seq(Events)
      BY <3>1, <3>2
    <3>4. attempts' = [attempts EXCEPT ![h] = longer]
      BY <1>1
    <3>. HIDE DEF h, longer
    <3>. QED  BY <3>1, <3>2, <3>3, <3>4
  <2>. QED  BY <1>1, <2>1, <2>2
<1>2. CASE event' = 0 /\ walk' = <<>> /\ at' = 0 /\ UNCHANGED attempts
  BY <1>2 DEF TypeOK
<1>. QED  BY <1>1, <1>2 DEF Advance

\* The endpoints, the queue and the worker keep within their types.
THEOREM WebhooksTypes == Spec => []TypeOK
<1>1. Init => TypeOK
  <2>. SUFFICES ASSUME Init PROVE TypeOK
    OBVIOUS
  <2>1. registry \in Seq(Hooks) /\ idOf \in [Hooks -> Nat]
    BY DEF Init
  <2>2. active \in [Hooks -> BOOLEAN] /\ failures \in [Hooks -> 0..MaxFailures]
    BY DEF Init
  <2>3. /\ emitted \in Seq(Types) /\ Len(emitted) <= MaxEvents
        /\ queue \in Seq(Events) /\ Len(queue) <= Len(emitted)
    BY DEF Init
  <2>4. /\ event \in 0..MaxEvents /\ walk \in Seq(Hooks)
        /\ event = 0 /\ at = 0 /\ shared = FALSE
    BY DEF Init
  <2>5. at \in 0..Len(walk)
    BY DEF Init
  <2>6. attempts \in [Hooks -> Seq(Events)]
    BY DEF Init
  <2>7. /\ due \in [Events -> SUBSET Hooks] /\ until \in [Hooks -> 0..MaxEvents]
        /\ restarts \in 0..MaxRestarts
    BY DEF Init
  <2>. QED  BY <2>1, <2>2, <2>3, <2>4, <2>5, <2>6, <2>7 DEF TypeOK
<1>2. TypeOK /\ [Next]_vars => TypeOK'
  <2>. SUFFICES ASSUME TypeOK, [Next]_vars PROVE TypeOK'
    OBVIOUS
  <2>1. ASSUME NEW h \in Hooks, Register(h) PROVE TypeOK'
    <3>1. registry' \in Seq(Hooks) /\ walk' \in Seq(Hooks) /\ Len(walk) <= Len(walk')
      BY <2>1 DEF Register, TypeOK
    <3>2. idOf' \in [Hooks -> Nat]
      <4>1. Len(registry) + 1 \in Nat
        BY DEF TypeOK
      <4>. QED  BY <2>1, <4>1 DEF Register, TypeOK
    <3>3. at' \in 0..Len(walk')
      <4>1. at \in 0..Len(walk) /\ Len(walk) \in Nat /\ Len(walk') \in Nat /\ at' = at
        BY <2>1, <3>1 DEF Register, TypeOK
      <4>. QED  BY <3>1, <4>1
    <3>. QED  BY <2>1, <3>1, <3>2, <3>3 DEF Register, TypeOK
  <2>2. ASSUME NEW n, Remove(n) PROVE TypeOK'
    <3>1. registry' \in Seq(Hooks)
      BY <2>2, WithoutIsList DEF Remove, TypeOK
    <3>2. until' \in [Hooks -> 0..MaxEvents]
      <4>1. Taken \in 0..MaxEvents
        BY DEF Taken, TypeOK
      <4>. QED  BY <2>2, <4>1 DEF Remove, Removed, TypeOK
    <3>. QED  BY <2>2, <3>1, <3>2 DEF Remove, TypeOK
  <2>3. ASSUME NEW t \in Types, Emit(t) PROVE TypeOK'
    <3>1. Len(emitted) + 1 \in Events
      BY <2>3 DEF Emit, TypeOK
    <3>2. /\ emitted' \in Seq(Types) /\ Len(emitted') = Len(emitted) + 1
          /\ queue' \in Seq(Events) /\ Len(queue') = Len(queue) + 1
      BY <2>3, <3>1 DEF Emit, TypeOK
    <3>3. due' \in [Events -> SUBSET Hooks]
      BY <2>3, <3>1 DEF Emit, TypeOK
    <3>4. Len(emitted') <= MaxEvents /\ Len(queue') <= Len(emitted')
      BY <3>1, <3>2 DEF TypeOK
    <3>5. UNCHANGED <<hookVars, workerVars, attempts, until, restarts>>
      BY <2>3 DEF Emit
    <3>. QED  BY <3>2, <3>3, <3>4, <3>5 DEF TypeOK
  <2>4. CASE Take
    <3>1. /\ Head(queue) \in Events /\ Tail(queue) \in Seq(Events)
          /\ Len(Tail(queue)) <= Len(emitted)
      BY <2>4 DEF Take, TypeOK
    <3>2. /\ event' \in 0..MaxEvents /\ walk' \in Seq(Hooks)
          /\ at' \in 0..Len(walk') /\ (event' = 0 <=> at' = 0)
          /\ attempts' \in [Hooks -> Seq(Events)]
      BY <2>4, <3>1, AdvanceTyped DEF Take, TypeOK
    <3>. QED  BY <2>4, <3>1, <3>2 DEF Take, TypeOK
  <2>5. ASSUME NEW outcome \in Outcomes, Answer(outcome) PROVE TypeOK'
    <3>1. event \in Events /\ at + 1 \in Nat \ {0} /\ at \in 1..Len(walk) /\ walk[at] \in Hooks
      <4>1. event # 0
        BY <2>5 DEF Answer
      <4>2. event \in 0..MaxEvents /\ at \in 0..Len(walk) /\ at # 0 /\ walk \in Seq(Hooks)
        BY <4>1 DEF TypeOK
      <4>. QED  BY <4>1, <4>2
    <3>2. /\ event' \in 0..MaxEvents /\ walk' \in Seq(Hooks)
          /\ at' \in 0..Len(walk') /\ (event' = 0 <=> at' = 0)
          /\ attempts' \in [Hooks -> Seq(Events)]
      BY <2>5, <3>1, AdvanceTyped DEF Answer, TypeOK
    <3>3. failures' \in [Hooks -> 0..MaxFailures]
      <4>. DEFINE was == failures[walk[at]]
                  n == IF outcome = "ok" THEN 0
                       ELSE IF was < MaxFailures THEN was + 1 ELSE MaxFailures
      <4>1. failures' = [failures EXCEPT ![walk[at]] = n]
        BY <2>5 DEF Answer
      <4>2. was \in 0..MaxFailures
        BY <3>1 DEF TypeOK
      <4>3. n \in 0..MaxFailures
        BY <4>2
      <4>. HIDE DEF n
      <4>. QED  BY <3>1, <4>1, <4>3 DEF TypeOK
    <3>4. active' \in [Hooks -> BOOLEAN]
      <4>1. \E n : active' = [active EXCEPT ![walk[at]] = @ /\ ~(outcome = "raised" /\ n = MaxFailures)]
        BY <2>5 DEF Answer
      <4>2. PICK n : active' = [active EXCEPT ![walk[at]] = @ /\ ~(outcome = "raised" /\ n = MaxFailures)]
        BY <4>1
      <4>. QED  BY <3>1, <4>2 DEF TypeOK
    <3>5. shared' \in BOOLEAN
      BY <2>5 DEF Answer
    <3>. QED  BY <2>5, <3>2, <3>3, <3>4, <3>5 DEF Answer, TypeOK
  <2>6. CASE Restart
    <3>1. registry' \in Seq(Hooks) /\ idOf' \in [Hooks -> Nat]
      BY <2>6 DEF Restart, TypeOK
    <3>2. active' \in [Hooks -> BOOLEAN] /\ failures' \in [Hooks -> 0..MaxFailures]
      BY <2>6 DEF Restart
    <3>3. queue' \in Seq(Events) /\ Len(queue') <= Len(emitted')
      BY <2>6 DEF Restart, TypeOK
    <3>4. /\ event' \in 0..MaxEvents /\ walk' \in Seq(Hooks) /\ shared' \in BOOLEAN
          /\ at' \in 0..Len(walk') /\ (event' = 0 <=> at' = 0)
      <4>1. event' = 0 /\ walk' = <<>> /\ at' = 0 /\ shared' = FALSE
        BY <2>6 DEF Restart
      <4>2. walk' \in Seq(Hooks) /\ at' \in 0..Len(walk')
        BY <4>1
      <4>3. event' \in 0..MaxEvents
        BY <4>1
      <4>. QED  BY <4>1, <4>2, <4>3
    <3>5. due' \in [Events -> SUBSET Hooks] /\ until' \in [Hooks -> 0..MaxEvents]
      BY <2>6 DEF Restart, TypeOK
    <3>6. restarts' \in 0..MaxRestarts /\ UNCHANGED <<emitted, attempts>>
      BY <2>6 DEF Restart, TypeOK
    <3>. QED  BY <3>1, <3>2, <3>3, <3>4, <3>5, <3>6 DEF TypeOK
  <2>7. CASE UNCHANGED vars
    BY <2>7 DEF TypeOK
  <2>. QED  BY <2>1, <2>2, <2>3, <2>4, <2>5, <2>6, <2>7 DEF Next, Worker
<1>. QED  BY <1>1, <1>2, PTL DEF Spec
-----------------------------------------------------------------------------
(* Queue and lists.                                                        *)

\* The queue holds the events that follow the last one taken, in order; the
\* event in hand is the last one taken.
QueueInOrder ==
    /\ \A j \in 1..Len(queue) : queue[j] = Taken + j
    /\ event # 0 => event = Taken

Distinct(s) == \A j, k \in 1..Len(s) : j < k => s[j] # s[k]

\* The registry and the list the worker iterates over hold registered
\* endpoints, each once, and are the same until a removal.
ListsMatch ==
    /\ Distinct(registry) /\ Distinct(walk)
    /\ \A h \in Hooks : InList(h, registry) \/ InList(h, walk) => idOf[h] # 0
    /\ shared => walk = registry

\* An event is taken from the front, and is the one after the last one taken.
LEMMA TakeNext ==
    ASSUME TypeOK, QueueInOrder, queue # <<>>, queue' = Tail(queue), emitted' = emitted
    PROVE  /\ Head(queue) = Taken + 1 /\ Taken' = Taken + 1 /\ Taken \in Nat
           /\ \A j \in 1..Len(queue') : queue'[j] = Taken' + j
<1>0. queue \in Seq(Events) /\ emitted \in Seq(Types) /\ Len(queue) <= Len(emitted)
  BY DEF TypeOK
<1>1. /\ queue \in Seq(Events) /\ Len(queue) \in Nat \ {0} /\ Head(queue) = queue[1]
      /\ Len(Tail(queue)) = Len(queue) - 1 /\ Len(emitted) \in Nat
      /\ \A j \in 1..Len(Tail(queue)) : Tail(queue)[j] = queue[j + 1]
  <2>1. Len(queue) \in Nat /\ Len(queue) # 0 /\ Len(emitted) \in Nat
    BY <1>0
  <2>2. Head(queue) = queue[1] /\ Len(Tail(queue)) = Len(queue) - 1
    BY <1>0, <2>1
  <2>3. \A j \in 1..Len(Tail(queue)) : Tail(queue)[j] = queue[j + 1]
    BY <1>0, <2>1, <2>2
  <2>. QED  BY <1>0, <2>1, <2>2, <2>3
<1>2. Taken' = Taken + 1 /\ Taken \in Nat
  BY <1>0, <1>1 DEF Taken
<1>3. Head(queue) = Taken + 1
  BY <1>1 DEF QueueInOrder
<1>4. ASSUME NEW j \in 1..Len(queue') PROVE queue'[j] = Taken' + j
  <2>1. j + 1 \in 1..Len(queue) /\ queue'[j] = queue[j + 1]
    BY <1>1
  <2>. QED  BY <1>2, <2>1 DEF QueueInOrder
<1>. QED  BY <1>2, <1>3, <1>4

\* Emitting changes neither what was taken nor the order of the queue.
LEMMA EmitLast ==
    ASSUME TypeOK, QueueInOrder, NEW t \in Types, Emit(t)
    PROVE  /\ Taken' = Taken /\ Taken \in Nat /\ Len(emitted) + 1 > Taken
           /\ \A j \in 1..Len(queue') : queue'[j] = Taken' + j
<1>0. queue \in Seq(Events) /\ emitted \in Seq(Types) /\ Len(queue) <= Len(emitted)
  BY DEF TypeOK
<1>1. /\ queue \in Seq(Events) /\ Len(queue) \in Nat /\ Len(emitted) \in Nat
      /\ Len(queue) <= Len(emitted) /\ emitted \in Seq(Types)
  BY <1>0
<1>2. queue' = Append(queue, Len(emitted) + 1) /\ emitted' = Append(emitted, t)
  BY DEF Emit
<1>3. Len(queue') = Len(queue) + 1 /\ Len(emitted') = Len(emitted) + 1
  BY <1>1, <1>2
<1>4. Taken' = Taken /\ Taken \in Nat /\ Taken = Len(emitted) - Len(queue)
  BY <1>1, <1>3 DEF Taken
<1>5. ASSUME NEW j \in 1..Len(queue') PROVE queue'[j] = Taken' + j
  <2>1. CASE j = Len(queue) + 1
    <3>1. queue'[j] = Len(emitted) + 1
      BY <1>1, <1>2, <2>1
    <3>. QED  BY <1>1, <1>4, <2>1, <3>1
  <2>2. CASE j \in 1..Len(queue)
    BY <1>1, <1>2, <1>4, <2>2 DEF QueueInOrder
  <2>. QED  BY <1>1, <1>3, <2>1, <2>2
<1>. QED  BY <1>1, <1>4, <1>5

\* What a removal leaves is part of the list, each endpoint once.
LEMMA WithoutIsPart ==
    ASSUME NEW s \in Seq(Hooks), NEW n, NEW t \in Without(s, n), Distinct(s)
    PROVE  Distinct(t) /\ \A h \in Hooks : InList(h, t) <=> InList(h, s) /\ idOf[h] # n
BY DEF Without, Distinct

\* Registering adds an endpoint that was in no list.
LEMMA AppendDistinct ==
    ASSUME NEW s \in Seq(Hooks), NEW h \in Hooks, Distinct(s), ~InList(h, s)
    PROVE  /\ Distinct(Append(s, h))
           /\ \A g \in Hooks : InList(g, Append(s, h)) <=> g = h \/ InList(g, s)
<1>. DEFINE t == Append(s, h)
<1>1. /\ Len(t) = Len(s) + 1 /\ Len(s) \in Nat /\ t[Len(t)] = h
      /\ \A j \in 1..Len(s) : t[j] = s[j]
  OBVIOUS
<1>2. \A j \in 1..Len(t) : j = Len(t) \/ j \in 1..Len(s)
  BY <1>1
<1>3. Len(t) \in 1..Len(t) /\ \A j \in 1..Len(s) : j \in 1..Len(t)
  BY <1>1
<1>. HIDE DEF t
<1>4. Distinct(t)
  BY <1>1, <1>2 DEF Distinct, InList
<1>5. \A g \in Hooks : InList(g, t) <=> g = h \/ InList(g, s)
  BY <1>1, <1>2, <1>3 DEF InList
<1>. QED  BY <1>4, <1>5 DEF t

\* The worker's list is dropped, or stays, or is the registry.
LEMMA ListsKept ==
    ASSUME ListsMatch, UNCHANGED <<registry, idOf>>,
           walk' = <<>> \/ walk' = walk \/ walk' = registry
    PROVE  /\ Distinct(registry') /\ Distinct(walk')
           /\ \A h \in Hooks : InList(h, registry') \/ InList(h, walk') => idOf'[h] # 0
<1>1. CASE walk' = <<>>
  <2>1. \A h : ~InList(h, walk')
    BY <1>1 DEF InList
  <2>2. Distinct(walk')
    BY <1>1 DEF Distinct
  <2>. QED  BY <2>1, <2>2 DEF ListsMatch, Distinct, InList
<1>2. CASE walk' = walk \/ walk' = registry
  BY <1>2 DEF ListsMatch, Distinct, InList
<1>. QED  BY <1>1, <1>2

Structure == QueueInOrder /\ ListsMatch

\* Every step keeps the queue and the lists.
LEMMA StructureStep == TypeOK /\ Structure /\ [Next]_vars => Structure'
<1>. SUFFICES ASSUME TypeOK, Structure, [Next]_vars PROVE Structure'
  OBVIOUS
<1>. USE DEF Structure
<1>1. ASSUME NEW h \in Hooks, Register(h) PROVE Structure'
  <2>1. QueueInOrder'
    BY <1>1 DEF Register, QueueInOrder, Taken
  <2>2. ~InList(h, registry) /\ ~InList(h, walk)
    BY <1>1 DEF Register, ListsMatch
  <2>3. /\ Distinct(registry') /\ \A g \in Hooks : InList(g, registry') <=> g = h \/ InList(g, registry)
        /\ Distinct(walk') /\ \A g \in Hooks : InList(g, walk') => g = h \/ InList(g, walk)
    BY <1>1, <2>2, AppendDistinct DEF Register, ListsMatch, TypeOK
  <2>4. \A g \in Hooks : idOf[g] # 0 => idOf'[g] # 0
    BY <1>1 DEF Register, TypeOK
  <2>5. idOf'[h] # 0
    <3>1. Len(registry) + 1 # 0
      BY DEF TypeOK
    <3>. QED  BY <1>1, <3>1 DEF Register, TypeOK
  <2>6. shared' => walk' = registry'
    BY <1>1 DEF Register, ListsMatch
  <2>. QED  BY <2>1, <2>3, <2>4, <2>5, <2>6 DEF ListsMatch
<1>2. ASSUME NEW n, Remove(n) PROVE Structure'
  <2>1. QueueInOrder'
    BY <1>2 DEF Remove, QueueInOrder, Taken
  <2>2. Distinct(registry') /\ \A h \in Hooks : InList(h, registry') => InList(h, registry)
    BY <1>2, WithoutIsPart DEF Remove, ListsMatch, TypeOK
  <2>3. walk' = walk /\ idOf' = idOf /\ shared' = FALSE
    BY <1>2 DEF Remove
  <2>. QED  BY <2>1, <2>2, <2>3 DEF ListsMatch, Distinct, InList
<1>3. ASSUME NEW t \in Types, Emit(t) PROVE Structure'
  <2>1. QueueInOrder'
    BY <1>3, EmitLast DEF Emit, QueueInOrder
  <2>2. UNCHANGED <<hookVars, workerVars>>
    BY <1>3 DEF Emit
  <2>. QED  BY <2>1, <2>2 DEF ListsMatch, Distinct, InList
<1>4. CASE Take
  <2>1. event' = 0 \/ event' = Head(queue)
    BY <1>4 DEF Take, Advance
  <2>2. QueueInOrder'
    BY <1>4, <2>1, TakeNext DEF Take, QueueInOrder
  <2>3. UNCHANGED <<registry, idOf>> /\ (shared' => event' # 0)
    BY <1>4 DEF Take
  <2>4. (walk' = <<>> /\ event' = 0) \/ walk' = registry
    BY <1>4 DEF Take, Advance
  <2>5. ListsMatch'
    BY <2>3, <2>4, ListsKept DEF ListsMatch
  <2>. QED  BY <2>2, <2>5
<1>5. ASSUME NEW outcome \in Outcomes, Answer(outcome) PROVE Structure'
  <2>1. (event' = 0 /\ walk' = <<>>) \/ (event' = event /\ walk' = walk)
    BY <1>5 DEF Answer, Advance
  <2>2. UNCHANGED <<registry, idOf, emitted, queue>> /\ (shared' => shared /\ event' # 0)
    BY <1>5 DEF Answer
  <2>3. QueueInOrder'
    BY <2>1, <2>2 DEF QueueInOrder, Taken
  <2>4. ListsMatch'
    BY <2>1, <2>2, ListsKept DEF ListsMatch
  <2>. QED  BY <2>3, <2>4
<1>6. CASE Restart
  <2>1. queue' = <<>> /\ event' = 0 /\ walk' = <<>> /\ shared' = FALSE /\ registry' = Default
    BY <1>6 DEF Restart
  <2>2. \A h \in Hooks : InList(h, Default) => idOf'[h] # 0
    BY <1>6 DEF Restart
  <2>3. Distinct(Default)
    BY DEF Distinct
  <2>. QED  BY <2>1, <2>2, <2>3 DEF QueueInOrder, ListsMatch, Distinct, InList
<1>7. CASE UNCHANGED vars
  BY <1>7 DEF QueueInOrder, ListsMatch, Distinct, InList, Taken
<1>. QED  BY <1>1, <1>2, <1>3, <1>4, <1>5, <1>6, <1>7 DEF Next, Worker
-----------------------------------------------------------------------------
(* Order.                                                                  *)

\* Nobody has been sent an event that has not been taken, and the one in hand
\* only those the worker has passed.
SentInOrder ==
    /\ InOrderOnce
    /\ \A h \in Hooks : \A j \in 1..Len(attempts[h]) : attempts[h][j] <= Taken
    /\ event # 0 => \A h \in Hooks : InList(event, attempts[h]) => \E i \in 1..at : walk[i] = h

\* What is sent are events.
LEMMA SentAreEvents ==
    ASSUME TypeOK, NEW h \in Hooks, NEW j \in 1..Len(attempts[h])
    PROVE  attempts[h][j] \in Events
<1>1. attempts[h] \in Seq(Events)
  BY DEF TypeOK
<1>. QED  BY <1>1

\* One more event is sent to one endpoint.
LEMMA OneMore ==
    ASSUME TypeOK, NEW g \in Hooks, NEW e \in Events,
           attempts' = [attempts EXCEPT ![g] = Append(@, e)]
    PROVE  /\ \A h \in Hooks : h # g => attempts'[h] = attempts[h]
           /\ attempts[g] \in Seq(Events) /\ Len(attempts[g]) \in Nat
           /\ Len(attempts'[g]) = Len(attempts[g]) + 1
           /\ \A j \in 1..Len(attempts[g]) : attempts'[g][j] = attempts[g][j]
           /\ attempts'[g][Len(attempts[g]) + 1] = e
           /\ \A h \in Hooks : \A x : InList(x, attempts'[h]) <=>
                InList(x, attempts[h]) \/ (h = g /\ x = e)
<1>1. /\ attempts[g] \in Seq(Events) /\ Len(attempts[g]) \in Nat
      /\ attempts'[g] = Append(attempts[g], e)
      /\ \A h \in Hooks : h # g => attempts'[h] = attempts[h]
  <2>1. attempts \in [Hooks -> Seq(Events)]
    BY DEF TypeOK
  <2>2. attempts'[g] = Append(attempts[g], e) /\ \A h \in Hooks : h # g => attempts'[h] = attempts[h]
    BY <2>1
  <2>3. attempts[g] \in Seq(Events)
    BY <2>1
  <2>. QED  BY <2>2, <2>3
<1>2. /\ Len(attempts'[g]) = Len(attempts[g]) + 1
      /\ \A j \in 1..Len(attempts[g]) : attempts'[g][j] = attempts[g][j]
      /\ attempts'[g][Len(attempts[g]) + 1] = e
  BY <1>1
<1>3. ASSUME NEW x PROVE InList(x, attempts'[g]) <=> InList(x, attempts[g]) \/ x = e
  <2>1. \A j \in 1..(Len(attempts[g]) + 1) :
          j \in 1..Len(attempts[g]) \/ j = Len(attempts[g]) + 1
    BY <1>1
  <2>2. /\ Len(attempts[g]) + 1 \in 1..(Len(attempts[g]) + 1)
        /\ \A j \in 1..Len(attempts[g]) : j \in 1..(Len(attempts[g]) + 1)
    BY <1>1
  <2>. QED  BY <1>2, <2>1, <2>2 DEF InList
<1>4. ASSUME NEW h \in Hooks, NEW x
      PROVE  InList(x, attempts'[h]) <=> InList(x, attempts[h]) \/ (h = g /\ x = e)
  <2>1. CASE h = g
    BY <1>3, <2>1
  <2>2. CASE h # g
    BY <1>1, <2>2 DEF InList
  <2>. QED  BY <2>1, <2>2
<1>. QED  BY <1>1, <1>2, <1>4

\* Going on with an event that nobody ahead has heard keeps the order.
LEMMA AdvanceInOrder ==
    ASSUME TypeOK, InOrderOnce, NEW e \in Events, NEW s \in Seq(Hooks), NEW j \in Nat \ {0},
           Advance(e, s, j),
           \A h \in Hooks : \A i \in 1..Len(attempts[h]) : attempts[h][i] <= e,
           \A k \in j..Len(s) : ~InList(e, attempts[s[k]])
    PROVE  /\ InOrderOnce'
           /\ \A h \in Hooks : \A i \in 1..Len(attempts'[h]) : attempts'[h][i] <= e
           /\ event' # 0 =>
                /\ event' = e /\ walk' = s /\ at' \in j..Len(s)
                /\ \A h \in Hooks : InList(e, attempts'[h]) => InList(e, attempts[h]) \/ s[at'] = h
<1>1. CASE event' = 0 /\ UNCHANGED attempts
  BY <1>1 DEF InOrderOnce
<1>2. ASSUME NEW k \in j..Len(s), event' = e, walk' = s, at' = k,
             attempts' = [attempts EXCEPT ![s[k]] = Append(@, e)]
      PROVE  /\ InOrderOnce'
             /\ \A h \in Hooks : \A i \in 1..Len(attempts'[h]) : attempts'[h][i] <= e
             /\ event' # 0 =>
                  /\ event' = e /\ walk' = s /\ at' \in j..Len(s)
                  /\ \A h \in Hooks : InList(e, attempts'[h]) => InList(e, attempts[h]) \/ s[at'] = h
  <2>. DEFINE g == s[k]
              n == Len(attempts[g])
  <2>1. g \in Hooks
    OBVIOUS
  <2>2. /\ \A h \in Hooks : h # g => attempts'[h] = attempts[h]
        /\ attempts[g] \in Seq(Events) /\ n \in Nat /\ Len(attempts'[g]) = n + 1
        /\ \A i \in 1..n : attempts'[g][i] = attempts[g][i]
        /\ attempts'[g][n + 1] = e
        /\ \A h \in Hooks : InList(e, attempts'[h]) <=> InList(e, attempts[h]) \/ h = g
    BY <1>2, <2>1, OneMore
  <2>3. n = Len(attempts[g]) /\ ~InList(e, attempts[g])
    OBVIOUS
  <2>. HIDE DEF g, n
  <2>4. \A i \in 1..n : attempts[g][i] \in Events /\ attempts[g][i] < e
    <3>1. ASSUME NEW i \in 1..n PROVE attempts[g][i] \in Events /\ attempts[g][i] < e
      <4>1. attempts[g][i] \in Events
        BY <2>2, <2>3
      <4>2. attempts[g][i] <= e
        BY <2>1, <2>3
      <4>3. attempts[g][i] # e
        BY <2>3 DEF InList
      <4>. QED  BY <4>1, <4>2, <4>3
    <3>. QED  BY <3>1
  <2>5. ASSUME NEW h \in Hooks, NEW i \in 1..Len(attempts'[h]) PROVE attempts'[h][i] <= e
    <3>1. CASE h # g
      BY <2>2, <2>5, <3>1
    <3>2. CASE h = g /\ i = n + 1
      BY <2>2, <3>2
    <3>3. CASE h = g /\ i \in 1..n
      <4>1. attempts[g][i] \in Events /\ attempts[g][i] < e
        BY <2>4, <3>3
      <4>2. attempts'[h][i] = attempts[g][i]
        BY <2>2, <3>3
      <4>. QED  BY <4>1, <4>2
    <3>. QED  BY <2>2, <2>5, <3>1, <3>2, <3>3
  <2>6. ASSUME NEW h \in Hooks, NEW i \in 1..Len(attempts'[h]), NEW m \in 1..Len(attempts'[h]), i < m
        PROVE  attempts'[h][i] < attempts'[h][m]
    <3>1. CASE h # g
      BY <2>2, <2>6, <3>1 DEF InOrderOnce
    <3>2. CASE h = g /\ m = n + 1
      <4>1. i \in 1..n
        BY <2>2, <2>6, <3>2
      <4>. QED  BY <2>2, <2>4, <3>2, <4>1
    <3>3. CASE h = g /\ m \in 1..n
      <4>1. i \in 1..n
        BY <2>2, <2>6, <3>3
      <4>2. attempts[g][i] < attempts[g][m]
        BY <2>1, <2>6, <3>3, <4>1 DEF InOrderOnce, n, g
      <4>. QED  BY <2>2, <3>3, <4>1, <4>2
    <3>. QED  BY <2>2, <2>6, <3>1, <3>2, <3>3
  <2>7. InOrderOnce'
    BY <2>6 DEF InOrderOnce
  <2>. QED  BY <1>2, <2>2, <2>5, <2>7 DEF g
<1>. QED  BY <1>1, <1>2 DEF Advance

\* What the worker does next keeps the order: a new event is later than all
\* that was sent, and nobody ahead in the list has heard the one in hand.
LEMMA WorkerInOrder ==
    TypeOK /\ TypeOK' /\ Structure /\ SentInOrder /\ Worker => SentInOrder'
<1>. SUFFICES ASSUME TypeOK, TypeOK', Structure, SentInOrder, Worker PROVE SentInOrder'
  OBVIOUS
<1>1. CASE Take
  <2>. DEFINE e == Head(queue)
  <2>1. /\ e \in Events /\ e = Taken + 1 /\ Taken' = Taken + 1 /\ Taken \in Nat
        /\ registry \in Seq(Hooks) /\ Advance(e, registry, 1)
    <3>1. queue \in Seq(Events) /\ queue # <<>> /\ registry \in Seq(Hooks)
      BY <1>1 DEF Take, TypeOK
    <3>2. Head(queue) \in Events
      BY <3>1
    <3>3. Head(queue) = Taken + 1 /\ Taken' = Taken + 1 /\ Taken \in Nat
      BY <1>1, TakeNext DEF Take, Structure
    <3>4. Advance(Head(queue), registry, 1)
      BY <1>1 DEF Take
    <3>. QED  BY <3>1, <3>2, <3>3, <3>4
  <2>. HIDE DEF e
  <2>2. \A h \in Hooks : \A i \in 1..Len(attempts[h]) :
          attempts[h][i] \in Events /\ attempts[h][i] <= Taken
    BY SentAreEvents DEF SentInOrder
  <2>3. \A h \in Hooks : \A i \in 1..Len(attempts[h]) : attempts[h][i] < e
    BY <2>1, <2>2
  <2>4. \A h \in Hooks : ~InList(e, attempts[h])
    BY <2>1, <2>3 DEF InList
  <2>5. \A h \in Hooks : \A i \in 1..Len(attempts[h]) : attempts[h][i] <= e
    BY <2>1, <2>2
  <2>6. \A k \in 1..Len(registry) : ~InList(e, attempts[registry[k]])
    BY <2>1, <2>4
  <2>7. /\ InOrderOnce'
        /\ \A h \in Hooks : \A i \in 1..Len(attempts'[h]) : attempts'[h][i] <= e
        /\ event' # 0 =>
             /\ event' = e /\ walk' = registry /\ at' \in 1..Len(registry)
             /\ \A h \in Hooks : InList(e, attempts'[h]) => InList(e, attempts[h]) \/ registry[at'] = h
    BY <2>1, <2>5, <2>6, AdvanceInOrder DEF SentInOrder
  <2>8. ASSUME event' # 0, NEW h \in Hooks, InList(event', attempts'[h])
        PROVE  \E i \in 1..at' : walk'[i] = h
    <3>1. walk'[at'] = h /\ at' \in 1..at'
      BY <2>1, <2>4, <2>7, <2>8
    <3>. QED  BY <3>1
  <2>. QED  BY <2>1, <2>7, <2>8 DEF SentInOrder
<1>2. ASSUME NEW outcome \in Outcomes, Answer(outcome) PROVE SentInOrder'
  <2>1. /\ event \in Events /\ event = Taken /\ Taken' = Taken /\ at \in 1..Len(walk)
        /\ at + 1 \in Nat \ {0} /\ walk \in Seq(Hooks) /\ Advance(event, walk, at + 1)
    BY <1>2 DEF Answer, Structure, QueueInOrder, Taken, TypeOK
  <2>2. \A h \in Hooks : InList(event, attempts[h]) => \E i \in 1..at : walk[i] = h
    BY <2>1 DEF SentInOrder
  <2>3. ASSUME NEW k \in (at + 1)..Len(walk) PROVE ~InList(event, attempts[walk[k]])
    <3>1. \A i \in 1..at : i < k /\ i \in 1..Len(walk) /\ k \in 1..Len(walk) /\ walk[k] \in Hooks
      BY <2>1
    <3>2. \A i \in 1..at : walk[i] # walk[k]
      BY <3>1 DEF Structure, ListsMatch, Distinct
    <3>3. walk[k] \in Hooks
      BY <2>1
    <3>. QED  BY <2>2, <3>2, <3>3
  <2>4. \A h \in Hooks : \A i \in 1..Len(attempts[h]) : attempts[h][i] <= event
    BY <2>1 DEF SentInOrder
  <2>5. /\ InOrderOnce'
        /\ \A h \in Hooks : \A i \in 1..Len(attempts'[h]) : attempts'[h][i] <= event
        /\ event' # 0 =>
             /\ event' = event /\ walk' = walk /\ at' \in (at + 1)..Len(walk)
             /\ \A h \in Hooks : InList(event, attempts'[h]) => InList(event, attempts[h]) \/ walk[at'] = h
    BY <2>1, <2>3, <2>4, AdvanceInOrder DEF SentInOrder
  <2>6. ASSUME event' # 0, NEW h \in Hooks, InList(event', attempts'[h])
        PROVE  \E i \in 1..at' : walk'[i] = h
    <3>1. walk' = walk /\ at' \in 1..at' /\ \A i \in 1..at : i \in 1..at'
      BY <2>1, <2>5, <2>6
    <3>2. InList(event, attempts[h]) \/ walk[at'] = h
      BY <2>5, <2>6
    <3>. QED  BY <2>2, <3>1, <3>2
  <2>. QED  BY <2>1, <2>5, <2>6 DEF SentInOrder
<1>. QED  BY <1>1, <1>2 DEF Worker

\* Every step keeps the order.
LEMMA SentInOrderStep ==
    TypeOK /\ TypeOK' /\ Structure /\ SentInOrder /\ [Next]_vars => SentInOrder'
<1>. SUFFICES ASSUME TypeOK, TypeOK', Structure, SentInOrder, [Next]_vars PROVE SentInOrder'
  OBVIOUS
<1>1. ASSUME UNCHANGED <<event, at, attempts>>, Taken' = Taken,
             \A i \in 1..at : walk'[i] = walk[i]
      PROVE  SentInOrder'
  BY <1>1 DEF SentInOrder, InOrderOnce, InList
<1>2. ASSUME NEW h \in Hooks, Register(h) PROVE SentInOrder'
  <2>1. at \in Nat /\ at <= Len(walk) /\ walk \in Seq(Hooks)
    BY DEF TypeOK
  <2>2. walk' = Append(walk, h) \/ walk' = walk
    BY <1>2 DEF Register
  <2>3. \A i \in 1..at : walk'[i] = walk[i]
    BY <2>1, <2>2
  <2>. QED  BY <1>1, <1>2, <2>3 DEF Register, Taken
<1>3. ASSUME NEW n, Remove(n) PROVE SentInOrder'
  BY <1>1, <1>3 DEF Remove, Taken
<1>4. ASSUME NEW t \in Types, Emit(t) PROVE SentInOrder'
  <2>1. Taken' = Taken
    BY <1>4, EmitLast DEF Structure
  <2>. QED  BY <1>1, <1>4, <2>1 DEF Emit
<1>5. CASE Worker
  BY <1>5, WorkerInOrder
<1>6. CASE Restart
  <2>1. event' = 0 /\ attempts' = attempts /\ emitted' = emitted /\ queue' = <<>>
    BY <1>6 DEF Restart
  <2>2. Taken' \in Nat /\ Taken \in Nat /\ Taken <= Taken'
    BY <2>1 DEF Taken, TypeOK
  <2>3. ASSUME NEW h \in Hooks, NEW j \in 1..Len(attempts[h]) PROVE attempts[h][j] <= Taken'
    <3>1. attempts[h][j] \in Events /\ attempts[h][j] <= Taken
      BY SentAreEvents DEF SentInOrder
    <3>. QED  BY <2>2, <3>1
  <2>. QED  BY <2>1, <2>3 DEF SentInOrder, InOrderOnce
<1>7. CASE UNCHANGED vars
  BY <1>1, <1>7 DEF Taken
<1>. QED  BY <1>2, <1>3, <1>4, <1>5, <1>6, <1>7 DEF Next

\* At the start nothing is listed twice, queued or sent.
LEMMA StartsInOrder == Init => Structure /\ SentInOrder
<1>. SUFFICES ASSUME Init PROVE Structure /\ SentInOrder
  OBVIOUS
<1>1. QueueInOrder
  BY DEF Init, QueueInOrder
<1>2. ListsMatch
  <2>1. Distinct(<<>>) /\ Distinct(Default) /\ \A h : ~InList(h, <<>>)
    BY DEF Distinct, InList
  <2>2. \A h \in Hooks : InList(h, Default) => idOf[h] # 0
    BY DEF Init
  <2>. QED  BY <2>1, <2>2 DEF Init, ListsMatch
<1>3. SentInOrder
  BY DEF Init, SentInOrder, InOrderOnce
<1>. QED  BY <1>1, <1>2, <1>3 DEF Structure

\* Each endpoint hears the events in their order and none twice.
THEOREM HeardInOrder == Spec => []InOrderOnce
<1>1. SentInOrder => InOrderOnce
  BY DEF SentInOrder
<1>. QED  BY <1>1, StartsInOrder, StructureStep, SentInOrderStep, WebhooksTypes, PTL DEF Spec
-----------------------------------------------------------------------------
(* Removals.                                                               *)

\* An endpoint that is listed, or was never registered, may hear everything;
\* one that was removed from under the worker, the event in hand.
RemovedInTime ==
    /\ \A h \in Hooks : InList(h, registry) \/ idOf[h] = 0 => until[h] = MaxEvents
    /\ event # 0 => \A h \in Hooks : InList(h, walk) => event <= until[h]
    /\ RemovedHearNothingNew

\* Going on with an event that those ahead may hear.
LEMMA AdvanceInTime ==
    ASSUME TypeOK, RemovedHearNothingNew, NEW e \in Events, NEW s \in Seq(Hooks),
           NEW j \in Nat \ {0}, Advance(e, s, j), until' = until,
           \A h \in Hooks : InList(h, s) => e <= until[h]
    PROVE  RemovedHearNothingNew' /\ (event' # 0 => event' = e /\ walk' = s)
<1>1. CASE event' = 0 /\ UNCHANGED attempts
  BY <1>1 DEF RemovedHearNothingNew
<1>2. ASSUME NEW k \in j..Len(s), event' = e, walk' = s,
             attempts' = [attempts EXCEPT ![s[k]] = Append(@, e)]
      PROVE  RemovedHearNothingNew' /\ (event' # 0 => event' = e /\ walk' = s)
  <2>1. s[k] \in Hooks /\ k \in 1..Len(s)
    OBVIOUS
  <2>2. e <= until[s[k]]
    BY <2>1 DEF InList
  <2>3. ASSUME NEW h \in Hooks, NEW i \in 1..Len(attempts'[h]) PROVE attempts'[h][i] <= until'[h]
    <3>1. InList(attempts'[h][i], attempts'[h])
      BY <2>3 DEF InList
    <3>2. InList(attempts'[h][i], attempts[h]) \/ (h = s[k] /\ attempts'[h][i] = e)
      BY <1>2, <2>1, <3>1, OneMore
    <3>. QED  BY <2>2, <3>2 DEF InList, RemovedHearNothingNew
  <2>. QED  BY <1>2, <2>3 DEF RemovedHearNothingNew
<1>. QED  BY <1>1, <1>2 DEF Advance

\* Every step keeps the limits of the removed.
LEMMA RemovedInTimeStep ==
    TypeOK /\ Structure /\ SentInOrder /\ RemovedInTime /\ [Next]_vars => RemovedInTime'
<1>. SUFFICES ASSUME TypeOK, Structure, SentInOrder, RemovedInTime, [Next]_vars PROVE RemovedInTime'
  OBVIOUS
<1>1. ASSUME NEW h \in Hooks, Register(h) PROVE RemovedInTime'
  <2>1. idOf[h] = 0 /\ UNCHANGED <<event, attempts, until>>
    BY <1>1 DEF Register
  <2>2. ~InList(h, registry) /\ ~InList(h, walk) /\ until[h] = MaxEvents
    BY <2>1 DEF Structure, ListsMatch, RemovedInTime
  <2>3. /\ \A g \in Hooks : InList(g, registry') <=> g = h \/ InList(g, registry)
        /\ \A g \in Hooks : InList(g, walk') => g = h \/ InList(g, walk)
    BY <1>1, <2>2, AppendDistinct DEF Register, Structure, ListsMatch, TypeOK
  <2>4. \A g \in Hooks : idOf'[g] = 0 => g = h \/ idOf[g] = 0
    BY <1>1 DEF Register, TypeOK
  <2>5. event \in 0..MaxEvents
    BY DEF TypeOK
  <2>. QED  BY <2>1, <2>2, <2>3, <2>4, <2>5 DEF RemovedInTime, RemovedHearNothingNew
<1>2. ASSUME NEW n, Remove(n) PROVE RemovedInTime'
  <2>1. UNCHANGED <<idOf, event, walk, attempts>>
    BY <1>2 DEF Remove
  <2>2. \A h \in Hooks : InList(h, registry') => InList(h, registry) /\ idOf[h] # n
    BY <1>2, WithoutIsPart DEF Remove, Structure, ListsMatch, TypeOK
  <2>3. \A h \in Hooks : until'[h] = until[h] \/ (idOf[h] = n /\ InList(h, registry) /\ until'[h] = Taken)
    BY <1>2 DEF Remove, Removed
  <2>4. \A h \in Hooks : InList(h, registry) => idOf[h] # 0
    BY DEF Structure, ListsMatch
  <2>5. \A h \in Hooks : idOf[h] # n \/ ~InList(h, registry) => until'[h] = until[h]
    BY <2>3
  <2>6. \A h \in Hooks : InList(h, registry') \/ idOf'[h] = 0 => until'[h] = MaxEvents
    BY <2>1, <2>2, <2>4, <2>5 DEF RemovedInTime
  <2>7. event # 0 => \A h \in Hooks : InList(h, walk) => event <= until'[h]
    <3>1. event # 0 => event = Taken /\ event \in Nat
      BY DEF Structure, QueueInOrder, TypeOK
    <3>. QED  BY <2>3, <3>1 DEF RemovedInTime
  <2>8. RemovedHearNothingNew'
    BY <2>1, <2>3 DEF RemovedInTime, RemovedHearNothingNew, SentInOrder
  <2>. QED  BY <2>1, <2>6, <2>7, <2>8 DEF RemovedInTime, InList
<1>3. ASSUME NEW t \in Types, Emit(t) PROVE RemovedInTime'
  BY <1>3 DEF Emit, RemovedInTime, RemovedHearNothingNew, InList
<1>4. CASE Take
  <2>1. queue \in Seq(Events) /\ queue # <<>> /\ registry \in Seq(Hooks)
    BY <1>4 DEF Take, TypeOK
  <2>2. Head(queue) \in Events
    BY <2>1
  <2>3. UNCHANGED <<registry, idOf, until>> /\ Advance(Head(queue), registry, 1)
    BY <1>4 DEF Take
  <2>4. \A h \in Hooks : InList(h, registry) => Head(queue) <= until[h]
    BY <2>2 DEF RemovedInTime
  <2>5. RemovedHearNothingNew' /\ (event' # 0 => event' = Head(queue) /\ walk' = registry)
    BY <2>1, <2>2, <2>3, <2>4, AdvanceInTime DEF RemovedInTime
  <2>. QED  BY <2>3, <2>4, <2>5 DEF RemovedInTime, InList
<1>5. ASSUME NEW outcome \in Outcomes, Answer(outcome) PROVE RemovedInTime'
  <2>1. event \in Events /\ at + 1 \in Nat \ {0} /\ walk \in Seq(Hooks)
    BY <1>5 DEF Answer, TypeOK
  <2>2. UNCHANGED <<registry, idOf, until>> /\ Advance(event, walk, at + 1)
    BY <1>5 DEF Answer
  <2>3. \A h \in Hooks : InList(h, walk) => event <= until[h]
    BY <2>1 DEF RemovedInTime
  <2>4. RemovedHearNothingNew' /\ (event' # 0 => event' = event /\ walk' = walk)
    BY <2>1, <2>2, <2>3, AdvanceInTime DEF RemovedInTime
  <2>. QED  BY <2>2, <2>3, <2>4 DEF RemovedInTime, InList
<1>6. CASE Restart
  <2>1. event' = 0 /\ attempts' = attempts /\ registry' = Default
    BY <1>6 DEF Restart
  <2>2. \A h \in Hooks : until'[h] = IF InList(h, Default) THEN MaxEvents ELSE until[h]
    BY <1>6 DEF Restart
  <2>3. \A h \in Hooks : idOf'[h] = 0 => ~InList(h, Default) /\ idOf[h] = 0
    BY <1>6 DEF Restart
  <2>4. \A h \in Hooks : InList(h, registry') \/ idOf'[h] = 0 => until'[h] = MaxEvents
    BY <2>1, <2>2, <2>3 DEF RemovedInTime
  <2>5. ASSUME NEW h \in Hooks, NEW j \in 1..Len(attempts[h]) PROVE attempts[h][j] <= until'[h]
    <3>1. attempts[h][j] \in Events /\ attempts[h][j] <= until[h]
      BY SentAreEvents DEF RemovedInTime, RemovedHearNothingNew
    <3>. QED  BY <2>2, <3>1
  <2>. QED  BY <2>1, <2>4, <2>5 DEF RemovedInTime, RemovedHearNothingNew
<1>7. CASE UNCHANGED vars
  BY <1>7 DEF RemovedInTime, RemovedHearNothingNew, InList
<1>. QED  BY <1>1, <1>2, <1>3, <1>4, <1>5, <1>6, <1>7 DEF Next, Worker

\* A removed endpoint hears nothing that was not taken before its removal,
\* for any registrations and removals at any moment.
THEOREM RemovedIsQuiet == Spec => []RemovedHearNothingNew
<1>1. Init => RemovedInTime
  BY DEF Init, RemovedInTime, RemovedHearNothingNew
<1>2. RemovedInTime => RemovedHearNothingNew
  BY DEF RemovedInTime
<1>. QED
  BY <1>1, <1>2, StartsInOrder, StructureStep, SentInOrderStep, RemovedInTimeStep,
     WebhooksTypes, PTL DEF Spec
-----------------------------------------------------------------------------
(* Everybody is called.                                                    *)

\* h has a place in the worker's list that it has not come to.
Ahead(h) == \E k \in 1..Len(walk) : k > at /\ walk[k] = h

\* An event is due to registered endpoints that ask for it; once it is taken,
\* each of them that is still listed and active has been called or is ahead of
\* the worker.
CalledOrAhead ==
    /\ \A e \in Events : \A h \in due[e] :
          e <= Len(emitted) /\ idOf[h] # 0 /\ emitted[e] \in Subscribed[h]
    /\ \A e \in 1..Taken : \A h \in due[e] : InList(h, registry) /\ active[h] =>
          InList(e, attempts[h]) \/ (e = event /\ Ahead(h))

\* Nothing that was sent is forgotten.
LEMMA AdvanceKeeps ==
    ASSUME TypeOK, NEW e \in Events, NEW s \in Seq(Hooks), NEW j \in Nat \ {0},
           Advance(e, s, j)
    PROVE  \A h \in Hooks : \A x : InList(x, attempts[h]) => InList(x, attempts'[h])
<1>1. CASE UNCHANGED attempts
  BY <1>1 DEF InList
<1>2. ASSUME NEW k \in j..Len(s), attempts' = [attempts EXCEPT ![s[k]] = Append(@, e)]
      PROVE  \A h \in Hooks : \A x : InList(x, attempts[h]) => InList(x, attempts'[h])
  <2>1. s[k] \in Hooks
    OBVIOUS
  <2>. QED  BY <1>2, <2>1, OneMore
<1>. QED  BY <1>1, <1>2 DEF Advance

\* The worker passes nobody who wants the event.
LEMMA AdvancePassesNobody ==
    ASSUME TypeOK, NEW e \in Events, NEW s \in Seq(Hooks), NEW j \in Nat \ {0},
           Advance(e, s, j), NEW m \in j..Len(s), Wants(s[m], e)
    PROVE  \/ InList(e, attempts'[s[m]])
           \/ event' = e /\ \E k \in 1..Len(walk') : k > at' /\ walk'[k] = s[m]
<1>1. PICK k \in j..Len(s) :
        /\ \A i \in j..(k - 1) : ~Wants(s[i], e)
        /\ event' = e /\ walk' = s /\ at' = k
        /\ attempts' = [attempts EXCEPT ![s[k]] = Append(@, e)]
  BY DEF Advance
<1>2. m >= k
  BY <1>1
<1>3. CASE m = k
  <2>1. s[k] \in Hooks
    OBVIOUS
  <2>. QED  BY <1>1, <1>3, <2>1, OneMore
<1>4. CASE m > k
  <2>1. m \in 1..Len(s)
    OBVIOUS
  <2>. QED  BY <1>1, <1>4, <2>1
<1>. QED  BY <1>2, <1>3, <1>4

\* Every step keeps them called or ahead.
LEMMA CalledOrAheadStep ==
    TypeOK /\ Structure /\ CalledOrAhead /\ [Next]_vars => CalledOrAhead'
<1>. SUFFICES ASSUME TypeOK, Structure, CalledOrAhead, [Next]_vars PROVE CalledOrAhead'
  OBVIOUS
<1>0. /\ due \in [Events -> SUBSET Hooks] /\ Taken \in Nat /\ Taken <= Len(emitted)
      /\ Len(emitted) \in 0..MaxEvents
  <2>1. /\ due \in [Events -> SUBSET Hooks] /\ Len(emitted) <= MaxEvents
        /\ emitted \in Seq(Types) /\ queue \in Seq(Events) /\ Len(queue) <= Len(emitted)
    BY DEF TypeOK
  <2>2. Len(emitted) \in Nat /\ Len(queue) \in Nat
    BY <2>1
  <2>. QED  BY <2>1, <2>2 DEF Taken
<1>1. ASSUME NEW h \in Hooks, Register(h) PROVE CalledOrAhead'
  <2>1. idOf[h] = 0 /\ UNCHANGED <<active, emitted, queue, event, at, attempts, due>>
    BY <1>1 DEF Register
  <2>2. \A e \in Events : h \notin due[e]
    BY <2>1 DEF CalledOrAhead
  <2>3. ~InList(h, registry)
    BY <2>1 DEF Structure, ListsMatch
  <2>4. \A g \in Hooks : InList(g, registry') <=> g = h \/ InList(g, registry)
    BY <1>1, <2>3, AppendDistinct DEF Register, Structure, ListsMatch, TypeOK
  <2>5. \A g \in Hooks : g # h => idOf'[g] = idOf[g]
    BY <1>1 DEF Register, TypeOK
  <2>6. \A g : Ahead(g) => Ahead(g)'
    <3>1. walk' = walk \/ walk' = Append(walk, h)
      BY <1>1 DEF Register
    <3>2. walk \in Seq(Hooks) /\ Len(walk) \in Nat
      BY DEF TypeOK
    <3>3. Len(walk') >= Len(walk) /\ Len(walk') \in Nat /\ \A k \in 1..Len(walk) : walk'[k] = walk[k]
      BY <3>1, <3>2
    <3>4. \A k \in 1..Len(walk) : k \in 1..Len(walk')
      BY <3>2, <3>3
    <3>. QED  BY <2>1, <3>3, <3>4 DEF Ahead
  <2>7. Taken' = Taken
    BY <2>1 DEF Taken
  <2>8. ASSUME NEW e \in Events, NEW g \in due[e]
        PROVE  e <= Len(emitted) /\ idOf'[g] # 0 /\ emitted[e] \in Subscribed[g]
    BY <1>0, <2>2, <2>5 DEF CalledOrAhead
  <2>9. ASSUME NEW e \in 1..Taken, NEW g \in due[e], InList(g, registry'), active[g]
        PROVE  InList(e, attempts[g]) \/ (e = event /\ Ahead(g)')
    <3>1. e \in Events
      BY <1>0
    <3>2. g \in Hooks /\ g # h
      BY <1>0, <2>2, <3>1
    <3>. QED  BY <2>4, <2>6, <2>9, <3>2 DEF CalledOrAhead
  <2>. QED  BY <2>1, <2>7, <2>8, <2>9 DEF CalledOrAhead
<1>2. ASSUME NEW n, Remove(n) PROVE CalledOrAhead'
  <2>1. /\ UNCHANGED <<idOf, active, emitted, queue, event, walk, at, attempts, due>>
        /\ Taken' = Taken
    BY <1>2 DEF Remove, Taken
  <2>2. \A h \in Hooks : InList(h, registry') => InList(h, registry)
    BY <1>2, WithoutIsPart DEF Remove, Structure, ListsMatch, TypeOK
  <2>3. ASSUME NEW e \in 1..Taken, NEW g \in due[e], InList(g, registry'), active[g]
        PROVE  InList(e, attempts[g]) \/ (e = event /\ Ahead(g)')
    <3>1. e \in Events
      BY <1>0
    <3>2. g \in Hooks
      BY <1>0, <3>1
    <3>. QED  BY <2>1, <2>2, <2>3, <3>2 DEF CalledOrAhead, Ahead
  <2>. QED  BY <2>1, <2>3 DEF CalledOrAhead
<1>3. ASSUME NEW t \in Types, Emit(t) PROVE CalledOrAhead'
  <2>. DEFINE e0 == Len(emitted) + 1
  <2>1. /\ UNCHANGED <<registry, idOf, active, event, walk, at, attempts>>
        /\ Taken' = Taken /\ e0 > Taken
    BY <1>3, EmitLast DEF Emit, Structure
  <2>2. e0 \in Events
    BY <1>0, <1>3 DEF Emit
  <2>3. /\ due'[e0] = {h \in Hooks : InList(h, registry) /\ active[h] /\ t \in Subscribed[h]}
        /\ \A e \in Events : e # e0 => due'[e] = due[e]
    BY <1>0, <1>3, <2>2 DEF Emit
  <2>4. /\ Len(emitted') = e0 /\ emitted'[e0] = t
        /\ \A e \in 1..Len(emitted) : emitted'[e] = emitted[e]
    BY <1>3 DEF Emit, TypeOK
  <2>5. ASSUME NEW e \in Events, NEW g \in due'[e]
        PROVE  e <= Len(emitted') /\ idOf'[g] # 0 /\ emitted'[e] \in Subscribed[g]
    <3>1. CASE e = e0
      <4>1. g \in Hooks /\ InList(g, registry) /\ t \in Subscribed[g]
        BY <2>3, <3>1
      <4>2. idOf[g] # 0
        BY <4>1 DEF Structure, ListsMatch
      <4>. QED  BY <1>0, <2>1, <2>4, <3>1, <4>1, <4>2
    <3>2. CASE e # e0
      <4>1. e <= Len(emitted) /\ idOf[g] # 0 /\ emitted[e] \in Subscribed[g]
        BY <2>3, <3>2 DEF CalledOrAhead
      <4>2. e \in 1..Len(emitted)
        BY <1>0, <4>1
      <4>. QED  BY <1>0, <2>1, <2>4, <4>1, <4>2
    <3>. QED  BY <3>1, <3>2
  <2>6. \A e \in 1..Taken : e \in Events /\ e # e0
    BY <1>0, <2>1
  <2>. QED  BY <2>1, <2>3, <2>5, <2>6 DEF CalledOrAhead, Ahead, InList
<1>4. CASE Take
  <2>. DEFINE e0 == Head(queue)
  <2>1. queue \in Seq(Events) /\ queue # <<>> /\ registry \in Seq(Hooks)
    BY <1>4 DEF Take, TypeOK
  <2>2. /\ e0 \in Events /\ e0 = Taken + 1 /\ Taken' = Taken + 1
        /\ UNCHANGED <<registry, idOf, active, emitted, due>> /\ event = 0
        /\ Advance(e0, registry, 1)
    BY <1>4, <2>1, TakeNext DEF Take, Structure
  <2>. HIDE DEF e0
  <2>3. ASSUME NEW g \in due[e0], InList(g, registry), active[g]
        PROVE  InList(e0, attempts'[g]) \/ (e0 = event' /\ Ahead(g)')
    <3>1. PICK m \in 1..Len(registry) : registry[m] = g
      BY <2>3 DEF InList
    <3>2. Wants(registry[m], e0)
      BY <2>2, <2>3, <3>1 DEF CalledOrAhead, Wants
    <3>3. \/ InList(e0, attempts'[registry[m]])
          \/ event' = e0 /\ \E k \in 1..Len(walk') : k > at' /\ walk'[k] = registry[m]
      BY <2>1, <2>2, <3>2, AdvancePassesNobody
    <3>. QED  BY <3>1, <3>3 DEF Ahead
  <2>4. ASSUME NEW e \in 1..Taken, NEW g \in due[e], InList(g, registry), active[g]
        PROVE  InList(e, attempts'[g])
    <3>1. e \in Events /\ e # 0
      BY <1>0
    <3>2. g \in Hooks
      BY <1>0, <3>1
    <3>3. InList(e, attempts[g])
      BY <2>2, <2>4, <3>1 DEF CalledOrAhead
    <3>4. 1 \in Nat \ {0}
      OBVIOUS
    <3>. QED  BY <2>1, <2>2, <3>2, <3>3, <3>4, AdvanceKeeps
  <2>5. \A e \in 1..Taken' : e = e0 \/ e \in 1..Taken
    BY <1>0, <2>2
  <2>6. ASSUME NEW e \in 1..Taken', NEW g \in due[e], InList(g, registry), active[g]
        PROVE  InList(e, attempts'[g]) \/ (e = event' /\ Ahead(g)')
    BY <2>3, <2>4, <2>5, <2>6
  <2>. QED  BY <2>2, <2>6 DEF CalledOrAhead, InList
<1>5. ASSUME NEW outcome \in Outcomes, Answer(outcome) PROVE CalledOrAhead'
  <2>1. event \in Events /\ at \in Nat /\ at + 1 \in Nat \ {0} /\ walk \in Seq(Hooks)
    BY <1>5 DEF Answer, TypeOK
  <2>2. UNCHANGED <<registry, idOf, emitted, queue, due>> /\ Advance(event, walk, at + 1)
    BY <1>5 DEF Answer
  <2>3. \A h \in Hooks : active'[h] => active[h]
    <3>1. \E b : active' = [active EXCEPT ![walk[at]] = @ /\ b]
      BY <1>5 DEF Answer
    <3>. QED  BY <3>1 DEF TypeOK
  <2>4. Taken' = Taken
    BY <2>2 DEF Taken
  <2>5. ASSUME NEW e \in 1..Taken, NEW g \in due[e], InList(g, registry), active'[g]
        PROVE  InList(e, attempts'[g]) \/ (e = event' /\ Ahead(g)')
    <3>1. e \in Events
      BY <1>0
    <3>2. g \in Hooks
      BY <1>0, <3>1
    <3>3. InList(e, attempts[g]) \/ (e = event /\ Ahead(g))
      BY <2>3, <2>5, <3>2 DEF CalledOrAhead
    <3>4. CASE InList(e, attempts[g])
      BY <2>1, <2>2, <3>2, <3>4, AdvanceKeeps
    <3>5. CASE e = event /\ Ahead(g)
      <4>1. PICK m \in (at + 1)..Len(walk) : walk[m] = g
        BY <2>1, <3>5 DEF Ahead
      <4>2. Wants(walk[m], event)
        BY <2>3, <2>5, <3>1, <3>2, <3>5, <4>1 DEF CalledOrAhead, Wants
      <4>. QED  BY <2>1, <2>2, <3>5, <4>1, <4>2, AdvancePassesNobody DEF Ahead
    <3>. QED  BY <3>3, <3>4, <3>5
  <2>. QED  BY <2>2, <2>4, <2>5 DEF CalledOrAhead, InList
<1>6. CASE Restart
  <2>1. due' = [e \in Events |-> {}] /\ emitted' = emitted /\ queue' = <<>>
    BY <1>6 DEF Restart
  <2>2. Taken' = Len(emitted)
    BY <1>0, <2>1 DEF Taken
  <2>3. \A e \in 1..Taken' : e \in Events
    BY <1>0, <2>2
  <2>. QED  BY <2>1, <2>3 DEF CalledOrAhead
<1>7. CASE UNCHANGED vars
  BY <1>7 DEF CalledOrAhead, Ahead, InList, Taken
<1>. QED  BY <1>1, <1>2, <1>3, <1>4, <1>5, <1>6, <1>7 DEF Next, Worker

\* Once the worker is through with an event, everybody it was due to, and who
\* is neither removed nor disabled, has been called.
THEOREM EveryoneIsCalled == Spec => []EveryoneHears
<1>1. Init => CalledOrAhead
  <2>1. ASSUME Init PROVE Taken = 0 /\ due = [e \in Events |-> {}]
    BY <2>1 DEF Init, Taken
  <2>. QED  BY <2>1 DEF CalledOrAhead
<1>2. TypeOK /\ Structure /\ CalledOrAhead => EveryoneHears
  <2>. SUFFICES ASSUME TypeOK, Structure, CalledOrAhead, NEW e \in 1..Len(emitted),
                       e # event, ~InList(e, queue), NEW h \in due[e],
                       InList(h, registry), active[h]
                PROVE  InList(e, attempts[h])
    BY DEF EveryoneHears
  <2>0. emitted \in Seq(Types) /\ queue \in Seq(Events) /\ Len(queue) <= Len(emitted)
    BY DEF TypeOK
  <2>1. /\ Len(emitted) \in Nat /\ Len(queue) \in Nat /\ Taken = Len(emitted) - Len(queue)
        /\ Taken \in Nat
    BY <2>0 DEF Taken
  <2>2. ASSUME e > Taken PROVE FALSE
    <3>1. e - Taken \in 1..Len(queue)
      BY <2>1, <2>2
    <3>2. queue[e - Taken] = e
      BY <2>1, <3>1 DEF Structure, QueueInOrder
    <3>. QED  BY <3>1, <3>2 DEF InList
  <2>3. e \in 1..Taken
    BY <2>1, <2>2
  <2>. QED  BY <2>3 DEF CalledOrAhead
<1>. QED
  BY <1>1, <1>2, StartsInOrder, StructureStep, CalledOrAheadStep, WebhooksTypes, PTL DEF Spec
=============================================================================
