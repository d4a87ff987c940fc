--------------------------- MODULE AutoReplyProofs ---------------------------
(***************************************************************************)
(* The handover of AutoReply, proved for any number of chats and messages  *)
(* and any durations.  OwnerBeatsRegistered and MuteBeatsRegistered are    *)
(* not inductive alone: that the owner's message reaches every reply that  *)
(* still waits rests on SlotMatchesWorkers, and that a new reply is not    *)
(* already late rests on UnqueuedAreFresh.                                 *)
(***************************************************************************)
EXTENDS AutoReply, TLAPS

HandoverInv ==
    /\ SlotMatchesWorkers
    /\ OwnerBeatsRegistered
    /\ MuteBeatsRegistered
    /\ UnqueuedAreFresh

\* The names of tuples of variables and of sets of program counters.
USE ConstantsAssumption
    DEF handlerVars, workerVars, memoryVars, configVars, recordVars, netVars,
        ghostVars, vars, HandlerPCs, WorkerPCs, Firing, PastMuteCheck,
        Evaluating, MessageKinds, PanelKinds, Commands, NotSuspended

-----------------------------------------------------------------------------
(* Type correctness.                                                       *)

\* A worker that ends keeps the slots and the program counters typed.
LEMMA FinishTyped ==
    ASSUME TypeOK, NEW t \in Msgs, Finish(t)
    PROVE  wpc' \in [Msgs -> WorkerPCs] /\ pending' \in [Chats -> Msgs \cup {NoReply}]
BY DEF Finish, Registered, TypeOK

\* The engine keeps its state within its types: snooze, cooldown and pause
\* never exceed the configured durations, whatever the interleaving.
THEOREM TypeInvariant == Spec => []TypeOK
<1>1. Init => TypeOK
  BY DEF Init, TypeOK
<1>2. TypeOK /\ [Next]_vars => TypeOK'
  <2> SUFFICES ASSUME TypeOK, [Next]_vars PROVE TypeOK'
    OBVIOUS
  <2>1. ASSUME NEW m \in Msgs,
              PersistContact(m)
        PROVE TypeOK'
    BY <2>1 DEF PersistContact, TypeOK
  <2>2. ASSUME NEW m \in Msgs, NEW ok \in BOOLEAN,
              PersistOwner(m, ok)
        PROVE TypeOK'
    BY <2>2 DEF PersistOwner, NoteActivity, CancelPending, OwnerWasHere, Live, TypeOK
  <2>3. ASSUME NEW m \in Msgs,
              ReadEnabled(m)
        PROVE TypeOK'
    BY <2>3 DEF ReadEnabled, TypeOK
  <2>4. ASSUME NEW m \in Msgs,
              ReadMuted(m)
        PROVE TypeOK'
    BY <2>4 DEF ReadMuted, TypeOK
  <2>5. ASSUME NEW m \in Msgs,
              QueueSuppressed(m)
        PROVE TypeOK'
    BY <2>5 DEF QueueSuppressed, TypeOK
  <2>6. ASSUME NEW m \in Msgs, NEW t \in Msgs,
              Fold(m, t)
        PROVE TypeOK'
    BY <2>6 DEF Fold, TypeOK
  <2>7. ASSUME NEW m \in Msgs,
              StartReply(m)
        PROVE TypeOK'
    BY <2>7 DEF StartReply, TypeOK
  <2>8. ASSUME NEW m \in Msgs,
              Apply(m)
        PROVE TypeOK'
    <3>1. enabled' \in BOOLEAN
      BY <2>8 DEF Apply, TypeOK
    <3>2. suspended' \in NotSuspended..PauseFor
      BY <2>8 DEF Apply, TypeOK
    <3>3. hpc' \in [Msgs -> HandlerPCs]
      BY <2>8 DEF Apply, TypeOK
    <3>4. muted' \in SUBSET Chats
      BY <2>8 DEF Apply, TypeOK
    <3> QED
      BY <2>8, <3>1, <3>2, <3>3, <3>4 DEF Apply, TypeOK
  <2>9. ASSUME NEW m \in Msgs,
              FollowMute(m)
        PROVE TypeOK'
    BY <2>9 DEF FollowMute, CancelPending, TypeOK
  <2>10. ASSUME NEW m \in Msgs,
              FollowUnmute(m)
        PROVE TypeOK'
    BY <2>10 DEF FollowUnmute, TypeOK
  <2>11. ASSUME NEW m \in Msgs,
              SendReaction(m)
        PROVE TypeOK'
    BY <2>11 DEF SendReaction, TypeOK
  <2>12. ASSUME NEW m \in Msgs,
              ReactionReturned(m)
        PROVE TypeOK'
    BY <2>12 DEF ReactionReturned, TypeOK
  <2>13. ASSUME NEW m \in Msgs,
              HandlerFails(m)
        PROVE TypeOK'
    BY <2>13 DEF HandlerFails, TypeOK
  <2>14. ASSUME NEW m \in Msgs,
              Fire(m)
        PROVE TypeOK'
    BY <2>14 DEF Fire, TypeOK
  <2>15. ASSUME NEW m \in Msgs,
              CheckSuppression(m)
        PROVE TypeOK'
    BY <2>15 DEF CheckSuppression, Finish, Registered, TypeOK
  <2>16. ASSUME NEW m \in Msgs,
              ReadSuspension(m)
        PROVE TypeOK'
    <3>1. wpc' \in [Msgs -> WorkerPCs] /\ pending' \in [Chats -> Msgs \cup {NoReply}]
      <4>1. CASE Finish(m)
        BY <4>1, FinishTyped
      <4>2. CASE ~Finish(m)
        BY <2>16, <4>2 DEF ReadSuspension, TypeOK
      <4> QED
        BY <4>1, <4>2
    <3> QED
      BY <2>16, <3>1 DEF ReadSuspension, TypeOK
  <2>17. ASSUME NEW m \in Msgs,
              ClearSuspension(m)
        PROVE TypeOK'
    BY <2>17 DEF ClearSuspension, TypeOK
  <2>18. ASSUME NEW m \in Msgs,
              MatchRules(m)
        PROVE TypeOK'
    <3>1. wpc' \in [Msgs -> WorkerPCs] /\ pending' \in [Chats -> Msgs \cup {NoReply}]
      <4>1. CASE Finish(m)
        BY <4>1, FinishTyped
      <4>2. CASE ~Finish(m)
        BY <2>18, <4>2 DEF MatchRules, TypeOK
      <4> QED
        BY <4>1, <4>2
    <3>2. ruled' \in SUBSET Msgs /\ age' \in [Msgs -> 0..Cooldown]
      BY <2>18 DEF MatchRules, TypeOK
    <3> QED
      BY <2>18, <3>1, <3>2 DEF MatchRules, TypeOK
  <2>19. ASSUME NEW m \in Msgs,
              Compose(m)
        PROVE TypeOK'
    <3>1. wpc' \in [Msgs -> WorkerPCs] /\ pending' \in [Chats -> Msgs \cup {NoReply}]
      <4>1. CASE Finish(m)
        BY <4>1, FinishTyped
      <4>2. CASE ~Finish(m)
        BY <2>19, <4>2 DEF Compose, TypeOK
      <4> QED
        BY <4>1, <4>2
    <3> QED
      BY <2>19, <3>1 DEF Compose, TypeOK
  <2>20. ASSUME NEW m \in Msgs,
              TouchCooldown(m)
        PROVE TypeOK'
    BY <2>20 DEF TouchCooldown, TypeOK
  <2>21. ASSUME NEW m \in Msgs,
              SendReply(m)
        PROVE TypeOK'
    BY <2>21 DEF SendReply, TypeOK
  <2>22. ASSUME NEW m \in Msgs,
              SendReturned(m)
        PROVE TypeOK'
    <3>1. CASE m \in delivered
      BY <2>22, <3>1 DEF SendReturned, TypeOK
    <3>2. CASE m \notin delivered
      BY <2>22, <3>2 DEF SendReturned, Finish, Registered, TypeOK
    <3> QED
      BY <3>1, <3>2
  <2>23. ASSUME NEW m \in Msgs, NEW ok \in BOOLEAN,
              RecordReply(m, ok)
        PROVE TypeOK'
    BY <2>23 DEF RecordReply, Finish, Registered, TypeOK
  <2>24. ASSUME NEW m \in Msgs,
              WorkerFails(m)
        PROVE TypeOK'
    BY <2>24 DEF WorkerFails, Finish, Registered, TypeOK
  <2>25. ASSUME NEW m \in Msgs,
              Echo(m)
        PROVE TypeOK'
    BY <2>25 DEF Echo, TypeOK
  <2>26. ASSUME NEW m \in Msgs, NEW ok \in BOOLEAN,
              EchoAsOwner(m, ok)
        PROVE TypeOK'
    BY <2>26 DEF EchoAsOwner, NoteActivity, CancelPending, TypeOK
  <2>27. ASSUME NEW m \in Msgs, NEW k \in Kinds,
              Arrive(m, k)
        PROVE TypeOK'
    BY <2>27 DEF Arrive, TypeOK
  <2>28. ASSUME NEW m \in Msgs, NEW k \in Kinds,
              PanelConfig(m, k)
        PROVE TypeOK'
    BY <2>28 DEF PanelConfig, TypeOK
  <2>29. ASSUME NEW m \in Msgs, NEW ok \in BOOLEAN,
              PanelSend(m, ok)
        PROVE TypeOK'
    BY <2>29 DEF PanelSend, NoteActivity, CancelPending, OwnerWasHere, Live, TypeOK
  <2>30. ASSUME NEW m \in Msgs,
              ReadReceipt(m)
        PROVE TypeOK'
    BY <2>30 DEF ReadReceipt, MaxOf, Registered, TypeOK
  <2>31. ASSUME NEW m \in Msgs,
              Accept(m)
        PROVE TypeOK'
    BY <2>31 DEF Accept, TypeOK
  <2>32. ASSUME Tick
        PROVE TypeOK'
    BY <2>32 DEF Tick, Less, TypeOK
  <2>33. ASSUME Restart
        PROVE TypeOK'
    BY <2>33 DEF Restart, Seeded, MaxOf, TypeOK
  <2>34. ASSUME Reinitialize
        PROVE TypeOK'
    BY <2>34 DEF Reinitialize, Seeded, MaxOf, TypeOK
  <2>35. CASE UNCHANGED vars
    BY <2>35 DEF TypeOK
  <2> QED
    BY <2>1, <2>2, <2>3, <2>4, <2>5, <2>6, <2>7, <2>8, <2>9, <2>10, <2>11,
       <2>12, <2>13, <2>14, <2>15, <2>16, <2>17, <2>18, <2>19, <2>20,
       <2>21, <2>22, <2>23, <2>24, <2>25, <2>26, <2>27, <2>28, <2>29,
       <2>30, <2>31, <2>32, <2>33, <2>34, <2>35
    DEF Next, HandlerStep, WorkerStep, EchoStep, Environment
<1>3. QED
  BY <1>1, <1>2, PTL DEF Spec

-----------------------------------------------------------------------------
(* The handover invariant.                                                 *)

\* A worker that ends by itself gives back its own slot and no other.
LEMMA FinishKeepsHandover ==
  ASSUME TypeOK, HandoverInv, NEW t \in Msgs, wpc[t] \in Firing, Finish(t),
         UNCHANGED <<hpc, kind, muted, answered>>
  PROVE  HandoverInv'
<1> USE DEF TypeOK, HandoverInv, Live, Registered, Finish
<1>1. SlotMatchesWorkers'
  BY DEF SlotMatchesWorkers
<1>2. OwnerBeatsRegistered'
  BY DEF OwnerBeatsRegistered, SlotMatchesWorkers
<1>3. MuteBeatsRegistered'
  BY DEF MuteBeatsRegistered, SlotMatchesWorkers
<1>4. UnqueuedAreFresh'
  BY DEF UnqueuedAreFresh
<1> QED
  BY <1>1, <1>2, <1>3, <1>4

\* A firing worker that goes on to its next step, having read the muted chats
\* or being past that.
LEMMA AdvanceKeepsHandover ==
  ASSUME TypeOK, HandoverInv, NEW t \in Msgs, wpc[t] \in Firing,
         NEW pc \in PastMuteCheck, wpc' = [wpc EXCEPT ![t] = pc],
         wpc[t] = "muteCheck" => ChatOf[t] \notin muted,
         UNCHANGED <<hpc, kind, muted, answered, pending>>
  PROVE  HandoverInv'
<1> USE DEF TypeOK, HandoverInv, Live, Registered
<1>1. SlotMatchesWorkers'
  BY DEF SlotMatchesWorkers
<1>2. OwnerBeatsRegistered'
  BY DEF OwnerBeatsRegistered
<1>3. MuteBeatsRegistered'
  BY DEF MuteBeatsRegistered
<1>4. UnqueuedAreFresh'
  BY DEF UnqueuedAreFresh
<1> QED
  BY <1>1, <1>2, <1>3, <1>4

\* Every step keeps the inductive invariant.
LEMMA HandoverStep ==
  TypeOK /\ HandoverInv /\ [Next]_vars => HandoverInv'
<1> SUFFICES ASSUME TypeOK, HandoverInv, [Next]_vars PROVE HandoverInv'
  OBVIOUS
<1>1. ASSUME NEW m \in Msgs,
             PersistContact(m)
      PROVE HandoverInv'
  BY <1>1 DEF PersistContact, HandoverInv, SlotMatchesWorkers,
     OwnerBeatsRegistered, MuteBeatsRegistered, UnqueuedAreFresh, Live,
     Registered, TypeOK
<1>2. ASSUME NEW m \in Msgs, NEW ok \in BOOLEAN,
             PersistOwner(m, ok)
      PROVE HandoverInv'
  BY <1>2 DEF PersistOwner, NoteActivity, CancelPending, OwnerWasHere,
     HandoverInv, SlotMatchesWorkers, OwnerBeatsRegistered,
     MuteBeatsRegistered, UnqueuedAreFresh, Live, Registered, TypeOK
<1>3. ASSUME NEW m \in Msgs,
             ReadEnabled(m)
      PROVE HandoverInv'
  BY <1>3 DEF ReadEnabled, HandoverInv, SlotMatchesWorkers,
     OwnerBeatsRegistered, MuteBeatsRegistered, UnqueuedAreFresh, Live,
     Registered, TypeOK
<1>4. ASSUME NEW m \in Msgs,
             ReadMuted(m)
      PROVE HandoverInv'
  BY <1>4 DEF ReadMuted, HandoverInv, SlotMatchesWorkers,
     OwnerBeatsRegistered, MuteBeatsRegistered, UnqueuedAreFresh, Live,
     Registered, TypeOK
<1>5. ASSUME NEW m \in Msgs,
             QueueSuppressed(m)
      PROVE HandoverInv'
  BY <1>5 DEF QueueSuppressed, HandoverInv, SlotMatchesWorkers,
     OwnerBeatsRegistered, MuteBeatsRegistered, UnqueuedAreFresh, Live,
     Registered, TypeOK
<1>6. ASSUME NEW m \in Msgs, NEW t \in Msgs,
             Fold(m, t)
      PROVE HandoverInv'
  BY <1>6 DEF Fold, HandoverInv, SlotMatchesWorkers, OwnerBeatsRegistered,
     MuteBeatsRegistered, UnqueuedAreFresh, Live, Registered, TypeOK
<1>7. ASSUME NEW m \in Msgs,
             StartReply(m)
      PROVE HandoverInv'
  BY <1>7 DEF StartReply, HandoverInv, SlotMatchesWorkers,
     OwnerBeatsRegistered, MuteBeatsRegistered, UnqueuedAreFresh, Live,
     Registered, TypeOK
<1>8. ASSUME NEW m \in Msgs,
             Apply(m)
      PROVE HandoverInv'
  BY <1>8 DEF Apply, HandoverInv, SlotMatchesWorkers, OwnerBeatsRegistered,
     MuteBeatsRegistered, UnqueuedAreFresh, Live, Registered, TypeOK
<1>9. ASSUME NEW m \in Msgs,
             FollowMute(m)
      PROVE HandoverInv'
  BY <1>9 DEF FollowMute, CancelPending, HandoverInv, SlotMatchesWorkers,
     OwnerBeatsRegistered, MuteBeatsRegistered, UnqueuedAreFresh, Live,
     Registered, TypeOK
<1>10. ASSUME NEW m \in Msgs,
             FollowUnmute(m)
      PROVE HandoverInv'
  BY <1>10 DEF FollowUnmute, HandoverInv, SlotMatchesWorkers,
     OwnerBeatsRegistered, MuteBeatsRegistered, UnqueuedAreFresh, Live,
     Registered, TypeOK
<1>11. ASSUME NEW m \in Msgs,
             SendReaction(m)
      PROVE HandoverInv'
  BY <1>11 DEF SendReaction, HandoverInv, SlotMatchesWorkers,
     OwnerBeatsRegistered, MuteBeatsRegistered, UnqueuedAreFresh, Live,
     Registered, TypeOK
<1>12. ASSUME NEW m \in Msgs,
             ReactionReturned(m)
      PROVE HandoverInv'
  BY <1>12 DEF ReactionReturned, HandoverInv, SlotMatchesWorkers,
     OwnerBeatsRegistered, MuteBeatsRegistered, UnqueuedAreFresh, Live,
     Registered, TypeOK
<1>13. ASSUME NEW m \in Msgs,
             HandlerFails(m)
      PROVE HandoverInv'
  BY <1>13 DEF HandlerFails, HandoverInv, SlotMatchesWorkers,
     OwnerBeatsRegistered, MuteBeatsRegistered, UnqueuedAreFresh, Live,
     Registered, TypeOK
<1>14. ASSUME NEW m \in Msgs,
             Fire(m)
      PROVE HandoverInv'
  BY <1>14 DEF Fire, HandoverInv, SlotMatchesWorkers, OwnerBeatsRegistered,
     MuteBeatsRegistered, UnqueuedAreFresh, Live, Registered, TypeOK
<1>15. ASSUME NEW m \in Msgs,
             CheckSuppression(m)
      PROVE HandoverInv'
  BY <1>15, FinishKeepsHandover, AdvanceKeepsHandover DEF CheckSuppression
<1>16. ASSUME NEW m \in Msgs,
             ReadSuspension(m)
      PROVE HandoverInv'
  BY <1>16, FinishKeepsHandover, AdvanceKeepsHandover DEF ReadSuspension
<1>17. ASSUME NEW m \in Msgs,
             ClearSuspension(m)
      PROVE HandoverInv'
  BY <1>17, AdvanceKeepsHandover DEF ClearSuspension
<1>18. ASSUME NEW m \in Msgs,
             MatchRules(m)
      PROVE HandoverInv'
  BY <1>18, FinishKeepsHandover, AdvanceKeepsHandover DEF MatchRules
<1>19. ASSUME NEW m \in Msgs,
             Compose(m)
      PROVE HandoverInv'
  BY <1>19, FinishKeepsHandover, AdvanceKeepsHandover DEF Compose
<1>20. ASSUME NEW m \in Msgs,
             TouchCooldown(m)
      PROVE HandoverInv'
  BY <1>20, AdvanceKeepsHandover DEF TouchCooldown
<1>21. ASSUME NEW m \in Msgs,
             SendReply(m)
      PROVE HandoverInv'
  BY <1>21, AdvanceKeepsHandover DEF SendReply
<1>22. ASSUME NEW m \in Msgs,
             SendReturned(m)
      PROVE HandoverInv'
  BY <1>22, FinishKeepsHandover, AdvanceKeepsHandover DEF SendReturned
<1>23. ASSUME NEW m \in Msgs, NEW ok \in BOOLEAN,
             RecordReply(m, ok)
      PROVE HandoverInv'
  BY <1>23, FinishKeepsHandover DEF RecordReply
<1>24. ASSUME NEW m \in Msgs,
             WorkerFails(m)
      PROVE HandoverInv'
  BY <1>24, FinishKeepsHandover DEF WorkerFails
<1>25. ASSUME NEW m \in Msgs,
             Echo(m)
      PROVE HandoverInv'
  BY <1>25 DEF Echo, HandoverInv, SlotMatchesWorkers, OwnerBeatsRegistered,
     MuteBeatsRegistered, UnqueuedAreFresh, Live, Registered, TypeOK
<1>26. ASSUME NEW m \in Msgs, NEW ok \in BOOLEAN,
             EchoAsOwner(m, ok)
      PROVE HandoverInv'
  BY <1>26 DEF EchoAsOwner, NoteActivity, CancelPending, HandoverInv,
     SlotMatchesWorkers, OwnerBeatsRegistered, MuteBeatsRegistered,
     UnqueuedAreFresh, Live, Registered, TypeOK
<1>27. ASSUME NEW m \in Msgs, NEW k \in Kinds,
             Arrive(m, k)
      PROVE HandoverInv'
  BY <1>27 DEF Arrive, HandoverInv, SlotMatchesWorkers,
     OwnerBeatsRegistered, MuteBeatsRegistered, UnqueuedAreFresh, Live,
     Registered, TypeOK
<1>28. ASSUME NEW m \in Msgs, NEW k \in Kinds,
             PanelConfig(m, k)
      PROVE HandoverInv'
  BY <1>28 DEF PanelConfig, HandoverInv, SlotMatchesWorkers,
     OwnerBeatsRegistered, MuteBeatsRegistered, UnqueuedAreFresh, Live,
     Registered, TypeOK
<1>29. ASSUME NEW m \in Msgs, NEW ok \in BOOLEAN,
             PanelSend(m, ok)
      PROVE HandoverInv'
  BY <1>29 DEF PanelSend, NoteActivity, CancelPending, OwnerWasHere,
     HandoverInv, SlotMatchesWorkers, OwnerBeatsRegistered,
     MuteBeatsRegistered, UnqueuedAreFresh, Live, Registered, TypeOK
<1>30. ASSUME NEW m \in Msgs,
             ReadReceipt(m)
      PROVE HandoverInv'
  BY <1>30 DEF ReadReceipt, HandoverInv, SlotMatchesWorkers,
     OwnerBeatsRegistered, MuteBeatsRegistered, UnqueuedAreFresh, Live,
     Registered, TypeOK
<1>31. ASSUME NEW m \in Msgs,
             Accept(m)
      PROVE HandoverInv'
  BY <1>31 DEF Accept, HandoverInv, SlotMatchesWorkers,
     OwnerBeatsRegistered, MuteBeatsRegistered, UnqueuedAreFresh, Live,
     Registered, TypeOK
<1>32. ASSUME Tick
      PROVE HandoverInv'
  BY <1>32 DEF Tick, HandoverInv, SlotMatchesWorkers, OwnerBeatsRegistered,
     MuteBeatsRegistered, UnqueuedAreFresh, Live, Registered, TypeOK
<1>33. ASSUME Restart
      PROVE HandoverInv'
  BY <1>33 DEF Restart, HandoverInv, SlotMatchesWorkers,
     OwnerBeatsRegistered, MuteBeatsRegistered, UnqueuedAreFresh, Live,
     Registered, TypeOK
<1>34. ASSUME Reinitialize
      PROVE HandoverInv'
  BY <1>34 DEF Reinitialize, HandoverInv, SlotMatchesWorkers,
     OwnerBeatsRegistered, MuteBeatsRegistered, UnqueuedAreFresh, Live,
     Registered, TypeOK
<1>35. CASE UNCHANGED vars
  BY <1>35 DEF HandoverInv, SlotMatchesWorkers, OwnerBeatsRegistered,
     MuteBeatsRegistered, UnqueuedAreFresh, Live, Registered, TypeOK
<1> QED
  BY <1>1, <1>2, <1>3, <1>4, <1>5, <1>6, <1>7, <1>8, <1>9, <1>10, <1>11,
     <1>12, <1>13, <1>14, <1>15, <1>16, <1>17, <1>18, <1>19, <1>20, <1>21,
     <1>22, <1>23, <1>24, <1>25, <1>26, <1>27, <1>28, <1>29, <1>30, <1>31,
     <1>32, <1>33, <1>34, <1>35
  DEF Next, HandlerStep, WorkerStep, EchoStep, Environment

\* The four facts of the handover hold in every reachable state.
THEOREM HandoverInvariant == Spec => []HandoverInv
<1>1. Init => HandoverInv
  BY DEF Init, HandoverInv, SlotMatchesWorkers, OwnerBeatsRegistered,
         MuteBeatsRegistered, UnqueuedAreFresh, Live, Registered
<1>2. QED
  BY <1>1, TypeInvariant, HandoverStep, PTL DEF Spec

\* A chat's slot always holds a live worker, and holds every waiting one.
THEOREM SlotsMatch == Spec => []SlotMatchesWorkers
  BY HandoverInvariant, PTL DEF HandoverInv

\* Once the owner answered a chat, no reply queued before can still be sent,
\* unless it was firing and displaced by a newer message.
THEOREM OwnerComesFirst == Spec => []OwnerBeatsRegistered
  BY HandoverInvariant, PTL DEF HandoverInv

\* Once a #mute has run to its end, the chat's slot holds no reply that passed
\* the muted-chats check before it.
THEOREM MuteIsHeeded == Spec => []MuteBeatsRegistered
  BY HandoverInvariant, PTL DEF HandoverInv
=============================================================================
