---------------------------- MODULE SessionProofs ----------------------------
(***************************************************************************)
(* Proofs about Session, for any number of requests, health loops and      *)
(* clients: exactly the registered health loop is alive, a manager that    *)
(* believes it is connected is watched, and a manager that says logged_out *)
(* has wiped the session, unless a probe said it.                          *)
(*                                                                         *)
(* The health loops share the continuation of _check_logged_in and of      *)
(* logout() with the requests, so the induction needs to know where a      *)
(* health loop can be and that it keeps its role (WatchersKeepToTheirLoop). *)
(***************************************************************************)
EXTENDS Session, TLAPS

USE SessionAssumption
    DEF Procs, Devices, Roles, RequestKinds, PCs, CallPCs, CheckPCs, LogoutPCs,
        States, Events, Nets, managerVars, taskVars, libraryVars, vars

-----------------------------------------------------------------------------
(* Type correctness.                                                       *)

\* Awaiting a library call keeps the tasks typed (the await of every call).
LEMMA CallTyped ==
    ASSUME TaskTypes, NEW p \in Procs, NEW r \in Roles, NEW at \in PCs,
           NEW c \in Clients, Call(p, r, at, c)
    PROVE  TaskTypes'
BY DEF Call, TaskTypes

\* So does any other move of a task.
LEMMA GotoTyped ==
    ASSUME TaskTypes, NEW p \in Procs, NEW r \in Roles, NEW at \in PCs,
           Goto(p, r, at)
    PROVE  TaskTypes'
BY DEF Goto, TaskTypes

\* So does the end of a task that stops the health loop.
LEMMA EndingTyped ==
    ASSUME TaskTypes, NEW p \in Procs, EndAndStopWatcher(p)
    PROVE  TaskTypes' /\ health' = None
BY DEF EndAndStopWatcher, TaskTypes

\* The end of logout() keeps everything typed,
LEMMA ResetTyped ==
    ASSUME TypeOK, NEW p \in Procs, Reset(p)
    PROVE  TypeOK'
BY EndingTyped DEF Reset, TypeOK, ManagerTypes, LibraryTypes

\* and so does its beginning,
LEMMA LogoutTyped ==
    ASSUME TypeOK, NEW p \in Procs, NEW r \in Roles, BeginLogout(p, r)
    PROVE  TypeOK'
<1>1. CASE client = None
  BY <1>1, ResetTyped DEF BeginLogout
<1>2. CASE client # None
  <2>1. /\ Call(p, r, "askLogin", client)
        /\ UNCHANGED <<managerVars, libraryVars>>
    BY <1>2 DEF BeginLogout
  <2>2. TaskTypes'
    BY <1>2, <2>1, CallTyped DEF TypeOK, ManagerTypes
  <2>3. QED
    BY <2>1, <2>2 DEF TypeOK, ManagerTypes, LibraryTypes
<1>3. QED
  BY <1>1, <1>2

\* the continuation of _check_logged_in,
LEMMA AfterCheckTyped ==
    ASSUME TypeOK, NEW p \in Procs, NEW r \in Roles, NEW ok \in BOOLEAN,
           AfterCheck(p, r, ok)
    PROVE  TypeOK'
<1>1. CASE BeginLogout(p, r)
  BY <1>1, LogoutTyped
<1>2. CASE ~BeginLogout(p, r)
  <2>1. TaskTypes'
    BY <1>2, CallTyped, GotoTyped DEF AfterCheck, Ends, TypeOK, ManagerTypes
  <2>2. QED
    BY <1>2, <2>1 DEF AfterCheck, TypeOK, ManagerTypes, LibraryTypes
<1>3. QED
  BY <1>1, <1>2

\* and its beginning.
LEMMA CheckTyped ==
    ASSUME TypeOK, NEW p \in Procs, NEW r \in Roles, BeginCheck(p, r)
    PROVE  TypeOK'
<1>1. CASE client = None
  BY <1>1, AfterCheckTyped DEF BeginCheck
<1>2. CASE client # None
  <2>1. /\ Call(p, r, "checkLogin", client)
        /\ UNCHANGED <<managerVars, libraryVars>>
    BY <1>2 DEF BeginCheck
  <2>2. TaskTypes'
    BY <1>2, <2>1, CallTyped DEF TypeOK, ManagerTypes
  <2>3. QED
    BY <2>1, <2>2 DEF TypeOK, ManagerTypes, LibraryTypes
<1>3. QED
  BY <1>1, <1>2

\* Taking or leaving an event keeps the inboxes typed.
LEMMA InboxTyped ==
    ASSUME LibraryTypes, NEW c \in Clients, NEW e \in Events,
           Handles(c, e) \/ Emits(c, e)
    PROVE  inbox' \in [Clients -> Seq(Events)]
<1>1. inbox[c] \in Seq(Events)
  BY DEF LibraryTypes
<1>2. CASE Handles(c, e)
  <2>1. Tail(inbox[c]) \in Seq(Events)
    BY <1>1, <1>2 DEF Handles
  <2>2. QED
    BY <1>2, <2>1 DEF Handles, LibraryTypes
<1>3. CASE Emits(c, e)
  <2>1. Append(inbox[c], e) \in Seq(Events)
    BY <1>1
  <2>2. QED
    BY <1>3, <2>1 DEF Emits, LibraryTypes
<1>4. QED
  BY <1>2, <1>3

\* The manager, its tasks and the library stay within their types whatever the
\* order of requests, answers and events.
THEOREM SessionTypes == Spec => []TypeOK
<1>1. Init => TypeOK
  <2> SUFFICES ASSUME Init PROVE TypeOK
    OBVIOUS
  <2>1. ManagerTypes
    BY DEF Init, ManagerTypes
  <2>2. TaskTypes
    BY DEF Init, TaskTypes
  <2>3. LibraryTypes
    <3>1. <<>> \in Seq(Events)
      OBVIOUS
    <3>2. QED
      BY <3>1 DEF Init, LibraryTypes
  <2>4. QED
    BY <2>1, <2>2, <2>3 DEF TypeOK
<1>2. TypeOK /\ [Next]_vars => TypeOK'
  <2> SUFFICES ASSUME TypeOK, [Next]_vars PROVE TypeOK'
    OBVIOUS
  <2>1. ASSUME NEW p \in Procs, StartConnect(p)
        PROVE TypeOK'
    <3>1. TaskTypes'
      BY <2>1, CallTyped, GotoTyped, EndingTyped DEF StartConnect, Fresh,
         Ends, Dial, TypeOK, ManagerTypes, TaskTypes
    <3>2. ManagerTypes' /\ LibraryTypes'
      BY <2>1 DEF StartConnect, Fresh, Ends, Dial, TypeOK, ManagerTypes,
         LibraryTypes
    <3>3. QED
      BY <3>1, <3>2 DEF TypeOK
  <2>2. ASSUME NEW p \in Procs, StartPair(p)
        PROVE TypeOK'
    <3>1. TaskTypes'
      BY <2>2, CallTyped, GotoTyped, EndingTyped DEF StartPair, Fresh, Ends,
         Dial, AskPairCode, TypeOK, ManagerTypes, TaskTypes
    <3>2. ManagerTypes' /\ LibraryTypes'
      BY <2>2 DEF StartPair, Fresh, Ends, Dial, AskPairCode, TypeOK,
         ManagerTypes, LibraryTypes
    <3>3. QED
      BY <3>1, <3>2 DEF TypeOK
  <2>3. ASSUME NEW p \in Procs, StartDisconnect(p)
        PROVE TypeOK'
    <3>1. TaskTypes'
      BY <2>3, CallTyped, GotoTyped, EndingTyped DEF StartDisconnect, Fresh,
         TypeOK, ManagerTypes, TaskTypes
    <3>2. ManagerTypes' /\ LibraryTypes'
      BY <2>3 DEF StartDisconnect, Fresh, TypeOK, ManagerTypes, LibraryTypes
    <3>3. QED
      BY <3>1, <3>2 DEF TypeOK
  <2>4. ASSUME NEW p \in Procs, StartLogout(p)
        PROVE TypeOK'
    BY <2>4, LogoutTyped DEF StartLogout, Fresh, TypeOK, ManagerTypes,
       TaskTypes, LibraryTypes
  <2>5. ASSUME NEW p \in Procs, StartProbe(p)
        PROVE TypeOK'
    BY <2>5, CheckTyped, GotoTyped DEF StartProbe, Fresh, TypeOK,
       ManagerTypes, TaskTypes, LibraryTypes
  <2>6. ASSUME NEW p \in Procs, StartSend(p)
        PROVE TypeOK'
    BY <2>6, CheckTyped, GotoTyped DEF StartSend, Fresh, TypeOK, ManagerTypes,
       TaskTypes, LibraryTypes
  <2>7. ASSUME NEW p \in Procs, NEW c \in Clients, Initialized(p, c)
        PROVE TypeOK'
    <3>1. TaskTypes'
      BY <2>7, CallTyped, GotoTyped, EndingTyped DEF Initialized, Ends, Dial,
         AskPairCode, TypeOK, ManagerTypes, TaskTypes
    <3>2. ManagerTypes' /\ LibraryTypes'
      BY <2>7 DEF Initialized, Ends, Dial, AskPairCode, TypeOK, ManagerTypes,
         LibraryTypes
    <3>3. QED
      BY <3>1, <3>2 DEF TypeOK
  <2>8. ASSUME NEW p \in Procs, DialReturned(p)
        PROVE TypeOK'
    <3>1. TaskTypes'
      BY <2>8, CallTyped, GotoTyped, EndingTyped DEF DialReturned, Answered,
         Ends, AskPairCode, TypeOK, ManagerTypes, TaskTypes
    <3>2. ManagerTypes' /\ LibraryTypes'
      BY <2>8 DEF DialReturned, Answered, Ends, AskPairCode, TypeOK,
         ManagerTypes, LibraryTypes
    <3>3. QED
      BY <3>1, <3>2 DEF TypeOK
  <2>9. ASSUME NEW p \in Procs, PairReturned(p)
        PROVE TypeOK'
    <3>1. TaskTypes'
      BY <2>9, CallTyped, GotoTyped, EndingTyped DEF PairReturned, Answered,
         Ends, TypeOK, ManagerTypes, TaskTypes
    <3>2. ManagerTypes' /\ LibraryTypes'
      BY <2>9 DEF PairReturned, Answered, Ends, TypeOK, ManagerTypes,
         LibraryTypes
    <3>3. QED
      BY <3>1, <3>2 DEF TypeOK
  <2>10. ASSUME NEW p \in Procs, Disconnected(p)
        PROVE TypeOK'
    <3>1. TaskTypes'
      BY <2>10, CallTyped, GotoTyped, EndingTyped DEF Disconnected, Answered,
         TypeOK, ManagerTypes, TaskTypes
    <3>2. ManagerTypes' /\ LibraryTypes'
      BY <2>10, EndingTyped DEF Disconnected, Answered, TypeOK, ManagerTypes,
         LibraryTypes
    <3>3. QED
      BY <3>1, <3>2 DEF TypeOK
  <2>11. ASSUME NEW p \in Procs, AskedLogin(p)
        PROVE TypeOK'
    BY <2>11, ResetTyped, CallTyped DEF AskedLogin, Answered, TypeOK,
       ManagerTypes, TaskTypes, LibraryTypes
  <2>12. ASSUME NEW p \in Procs, Unlinked(p)
        PROVE TypeOK'
    BY <2>12, ResetTyped, CallTyped DEF Unlinked, Answered, TypeOK,
       ManagerTypes, TaskTypes, LibraryTypes
  <2>13. ASSUME NEW p \in Procs, Dropped(p)
        PROVE TypeOK'
    BY <2>13, ResetTyped, CallTyped DEF Dropped, Answered, TypeOK,
       ManagerTypes, TaskTypes, LibraryTypes
  <2>14. ASSUME NEW p \in Procs, CheckedLogin(p)
        PROVE TypeOK'
    BY <2>14, AfterCheckTyped, CallTyped DEF CheckedLogin, Answered, TypeOK,
       ManagerTypes, TaskTypes, LibraryTypes
  <2>15. ASSUME NEW p \in Procs, CheckedConn(p)
        PROVE TypeOK'
    BY <2>15, AfterCheckTyped, CallTyped DEF CheckedConn, Answered, TypeOK,
       ManagerTypes, TaskTypes, LibraryTypes
  <2>16. ASSUME NEW p \in Procs, SendReturned(p)
        PROVE TypeOK'
    <3>1. TaskTypes'
      BY <2>16, CallTyped, GotoTyped, EndingTyped DEF SendReturned, Answered,
         Ends, TypeOK, ManagerTypes, TaskTypes
    <3>2. ManagerTypes' /\ LibraryTypes'
      BY <2>16 DEF SendReturned, Answered, Ends, TypeOK, ManagerTypes,
         LibraryTypes
    <3>3. QED
      BY <3>1, <3>2 DEF TypeOK
  <2>17. ASSUME NEW p \in Procs, Revalidate(p)
        PROVE TypeOK'
    BY <2>17, CheckTyped, GotoTyped DEF Revalidate, Ends, TypeOK,
       ManagerTypes, TaskTypes, LibraryTypes
  <2>18. ASSUME NEW p \in Procs, WatcherWakes(p)
        PROVE TypeOK'
    BY <2>18, CheckTyped, GotoTyped DEF WatcherWakes, TypeOK, ManagerTypes,
       TaskTypes, LibraryTypes
  <2>19. ASSUME NEW p \in Procs, Answer(p)
        PROVE TypeOK'
    <3>1. ManagerTypes'
      BY <2>19 DEF Answer, Answers, Raises, TypeOK, ManagerTypes
    <3>2. TaskTypes'
      BY <2>19 DEF Answer, Answers, Raises, TypeOK, ManagerTypes, TaskTypes
    <3>3. LibraryTypes'
      <4>1. target[p] \in Clients
        BY <2>19 DEF Answer, TypeOK, TaskTypes
      <4>2. /\ net \in [Clients -> Nets]
            /\ device \in [Clients -> Devices \cup {None}]
        BY DEF TypeOK, LibraryTypes
      <4>3. /\ inbox' = inbox
            /\ \/ net' = net
               \/ \E v \in Nets : net' = [net EXCEPT ![target[p]] = v]
        BY <2>19, <4>1, <4>2 DEF Answer
      <4>4. net' \in [Clients -> Nets]
        BY <4>2, <4>3
      <4>5. \/ device' = device
            \/ device' = [device EXCEPT ![target[p]] = file]
            \/ device' = [device EXCEPT ![target[p]] = None]
        BY <2>19 DEF Answer
      <4>6. device' \in [Clients -> Devices \cup {None}]
        BY <4>2, <4>5 DEF TypeOK, LibraryTypes
      <4>7. /\ file' \in Devices \cup {None}
            /\ opened' \in SUBSET Clients /\ alive' \in SUBSET Devices
        BY <2>19, <4>1 DEF Answer, TypeOK, LibraryTypes
      <4>8. QED
        BY <4>3, <4>4, <4>6, <4>7 DEF TypeOK, LibraryTypes
    <3>4. QED
      BY <3>1, <3>2, <3>3 DEF TypeOK
  <2>20. ASSUME NEW c \in Clients, OnQr(c)
        PROVE TypeOK'
    BY <2>20 DEF OnQr, Handles, TypeOK, ManagerTypes, TaskTypes, LibraryTypes
  <2>21. ASSUME NEW c \in Clients, OnConnected(c)
        PROVE TypeOK'
    <3>1. TaskTypes'
      BY <2>21, CallTyped, GotoTyped, EndingTyped DEF OnConnected, Handles,
         TypeOK, ManagerTypes, TaskTypes
    <3>2. ManagerTypes' /\ LibraryTypes'
      BY <2>21 DEF OnConnected, Handles, Goto, TypeOK, ManagerTypes,
         LibraryTypes
    <3>3. QED
      BY <3>1, <3>2 DEF TypeOK
  <2>22. ASSUME NEW c \in Clients, OnDropped(c)
        PROVE TypeOK'
    <3>1. ManagerTypes'
      BY <2>22 DEF OnDropped, Handles, TypeOK, ManagerTypes
    <3>2. TaskTypes'
      BY <2>22 DEF OnDropped, Handles, TypeOK, ManagerTypes, TaskTypes
    <3>3. LibraryTypes'
      BY <2>22, InboxTyped DEF OnDropped, TypeOK, LibraryTypes
    <3>4. QED
      BY <3>1, <3>2, <3>3 DEF TypeOK
  <2>23. ASSUME NEW c \in Clients, NEW p \in Tasks, OnLoggedOut(c, p)
        PROVE TypeOK'
    <3>1. ManagerTypes'
      BY <2>23 DEF OnLoggedOut, TypeOK, ManagerTypes
    <3>2. TaskTypes'
      BY <2>23 DEF OnLoggedOut, TypeOK, ManagerTypes, TaskTypes
    <3>3. LibraryTypes'
      BY <2>23 DEF OnLoggedOut, TypeOK, LibraryTypes
    <3>4. QED
      BY <3>1, <3>2, <3>3 DEF TypeOK
  <2>24. ASSUME NEW c \in Clients, OnReceipt(c)
        PROVE TypeOK'
    BY <2>24 DEF OnReceipt, Handles, TypeOK, ManagerTypes, TaskTypes,
       LibraryTypes
  <2>25. ASSUME NEW c \in Clients, Handshake(c)
        PROVE TypeOK'
    <3>1. ManagerTypes'
      BY <2>25 DEF Handshake, Emits, TypeOK, ManagerTypes
    <3>2. TaskTypes'
      BY <2>25 DEF Handshake, Emits, TypeOK, ManagerTypes, TaskTypes
    <3>3. LibraryTypes'
      <4>1. \E e \in Events : Emits(c, e)
        BY <2>25 DEF Handshake
      <4>2. inbox' \in [Clients -> Seq(Events)]
        BY <4>1, InboxTyped DEF TypeOK
      <4>3. net' \in [Clients -> Nets]
        BY <2>25 DEF Handshake, TypeOK, LibraryTypes
      <4>4. UNCHANGED <<device, file, opened, alive>>
        BY <2>25 DEF Handshake
      <4>5. QED
        BY <4>2, <4>3, <4>4 DEF TypeOK, LibraryTypes
    <3>4. QED
      BY <3>1, <3>2, <3>3 DEF TypeOK
  <2>26. ASSUME NEW c \in Clients, Scan(c)
        PROVE TypeOK'
    BY <2>26 DEF Scan, Emits, TypeOK, ManagerTypes, TaskTypes, LibraryTypes
  <2>27. ASSUME NEW c \in Clients, Drop(c)
        PROVE TypeOK'
    BY <2>27 DEF Drop, Emits, TypeOK, ManagerTypes, TaskTypes, LibraryTypes
  <2>28. ASSUME NEW c \in Clients, Redial(c)
        PROVE TypeOK'
    BY <2>28 DEF Redial, TypeOK, ManagerTypes, TaskTypes, LibraryTypes
  <2>29. ASSUME NEW c \in Clients, Replace(c)
        PROVE TypeOK'
    BY <2>29 DEF Replace, Emits, TypeOK, ManagerTypes, TaskTypes, LibraryTypes
  <2>30. ASSUME NEW c \in Clients, Receipt(c)
        PROVE TypeOK'
    BY <2>30 DEF Receipt, Emits, TypeOK, ManagerTypes, TaskTypes, LibraryTypes
  <2>31. ASSUME NEW d \in Devices, Unlink(d)
        PROVE TypeOK'
    <3>1. ManagerTypes'
      BY <2>31 DEF Unlink, Emits, TypeOK, ManagerTypes
    <3>2. TaskTypes'
      BY <2>31 DEF Unlink, Emits, TypeOK, ManagerTypes, TaskTypes
    <3>3. LibraryTypes'
      BY <2>31, InboxTyped DEF Unlink, TypeOK, LibraryTypes
    <3>4. QED
      BY <3>1, <3>2, <3>3 DEF TypeOK
  <2>32. CASE UNCHANGED vars
    BY <2>32 DEF TypeOK, ManagerTypes, TaskTypes, LibraryTypes
  <2>33. QED
    BY <2>1, <2>2, <2>3, <2>4, <2>5, <2>6, <2>7, <2>8, <2>9, <2>10, <2>11,
       <2>12, <2>13, <2>14, <2>15, <2>16, <2>17, <2>18, <2>19, <2>20,
       <2>21, <2>22, <2>23, <2>24, <2>25, <2>26, <2>27, <2>28, <2>29,
       <2>30, <2>31, <2>32 DEF Next, Request, Continue, HandleEvent,
       Network
<1>3. QED
  BY <1>1, <1>2, PTL DEF Spec

-----------------------------------------------------------------------------
(* The watch over the session.                                             *)

\* A health loop that is alive has its role and is asleep, checking or logging
\* out.
WatchersKeepToTheirLoop ==
    \A w \in Watchers : pc[w] # "idle" =>
        /\ role[w] = "watcher"
        /\ pc[w] \in {"sleeping"} \cup CheckPCs \cup LogoutPCs

WatchInvariant ==
    WatchersKeepToTheirLoop /\ OneWatcher /\ WatchedWhileConnected

-----------------------------------------------------------------------------
(* The continuations that requests and health loops share.                 *)

\* Task p goes to another point with another role; the others stay.
Moves(p, r, at) ==
    /\ pc' = [pc EXCEPT ![p] = at]
    /\ role' = [role EXCEPT ![p] = r]

\* A task that moves without leaving the loop of a watcher or the wipe of a
\* LoggedOut handler, in a manager that does not become connected.
LEMMA MoveKeepsWatch ==
    ASSUME TypeOK, WatchInvariant, NEW p \in Procs, NEW r, NEW at,
           Moves(p, r, at), health' = health,
           state' = "connected" => state = "connected",
           p \in Watchers =>
             /\ pc[p] # "idle" /\ r = "watcher"
             /\ at \in {"sleeping"} \cup CheckPCs \cup LogoutPCs,
           role[p] = "loggedOut" /\ pc[p] \in LogoutPCs
             => r = "loggedOut" /\ at \in LogoutPCs
    PROVE  WatchInvariant'
<1>1. /\ pc'[p] = at /\ role'[p] = r
      /\ \A q \in Procs \ {p} : pc'[q] = pc[q] /\ role'[q] = role[q]
  BY DEF Moves, TypeOK, ManagerTypes, TaskTypes
<1>2. WatchersKeepToTheirLoop'
  BY <1>1 DEF WatchInvariant, WatchersKeepToTheirLoop
<1>3. OneWatcher'
  BY <1>1 DEF WatchInvariant, OneWatcher
<1>4. WatchedWhileConnected'
  BY <1>1 DEF WatchInvariant, WatchedWhileConnected
<1>5. QED
  BY <1>2, <1>3, <1>4 DEF WatchInvariant

\* Whoever ends with _stop_health_watcher leaves no health loop alive.
LEMMA EndingLeavesNoWatcher ==
    ASSUME TypeOK, WatchInvariant, NEW p \in Procs, EndAndStopWatcher(p)
    PROVE  health' = None /\ \A w \in Watchers : pc'[w] = "idle"
BY DEF EndAndStopWatcher, TypeOK, ManagerTypes, TaskTypes, WatchInvariant,
   OneWatcher

\* logout() ends with nobody connected and nobody watching.
LEMMA ResetKeepsWatch ==
    ASSUME TypeOK, WatchInvariant, NEW p \in Procs, Reset(p)
    PROVE  WatchInvariant'
BY EndingLeavesNoWatcher DEF Reset, WatchInvariant, WatchersKeepToTheirLoop,
   OneWatcher, WatchedWhileConnected

\* A health loop, or a task that is not logging out yet, may begin to.
LEMMA LogoutKeepsWatch ==
    ASSUME TypeOK, WatchInvariant, NEW p \in Procs, NEW r \in Roles,
           pc[p] \notin LogoutPCs,
           p \in Watchers => r = "watcher" /\ pc[p] # "idle",
           BeginLogout(p, r)
    PROVE  WatchInvariant'
<1>1. CASE client = None
  BY <1>1, ResetKeepsWatch DEF BeginLogout
<1>2. CASE client # None
  <2>1. Moves(p, r, "askLogin") /\ health' = health /\ state' = state
    BY <1>2 DEF BeginLogout, Call, Moves
  <2>2. QED
    BY <2>1, MoveKeepsWatch
<1>3. QED
  BY <1>1, <1>2

\* So may whoever has the outcome of a check.
LEMMA AfterCheckKeepsWatch ==
    ASSUME TypeOK, WatchInvariant, NEW p \in Procs, NEW r \in Roles,
           NEW ok \in BOOLEAN, pc[p] \notin LogoutPCs,
           p \in Watchers => r = "watcher" /\ pc[p] # "idle",
           AfterCheck(p, r, ok)
    PROVE  WatchInvariant'
<1>1. CASE BeginLogout(p, r)
  BY <1>1, LogoutKeepsWatch
<1>2. CASE ~BeginLogout(p, r)
  <2>1. /\ health' = health
        /\ state' = "connected" => state = "connected"
        /\ \/ p \notin Watchers /\ Moves(p, "none", "done")
           \/ p \notin Watchers /\ Moves(p, r, "sending")
           \/ r = "watcher" /\ Moves(p, r, "sleeping")
    BY <1>2 DEF AfterCheck, Ends, Goto, Call, Moves
  <2>2. QED
    BY <2>1, MoveKeepsWatch
<1>3. QED
  BY <1>1, <1>2

\* And whoever begins a check.
LEMMA CheckKeepsWatch ==
    ASSUME TypeOK, WatchInvariant, NEW p \in Procs, NEW r \in Roles,
           pc[p] \notin LogoutPCs,
           p \in Watchers => r = "watcher" /\ pc[p] # "idle",
           BeginCheck(p, r)
    PROVE  WatchInvariant'
<1>1. CASE client = None
  BY <1>1, AfterCheckKeepsWatch DEF BeginCheck
<1>2. CASE client # None
  <2>1. Moves(p, r, "checkLogin") /\ health' = health /\ state' = state
    BY <1>2 DEF BeginCheck, Call, Moves
  <2>2. QED
    BY <2>1, MoveKeepsWatch
<1>3. QED
  BY <1>1, <1>2

-----------------------------------------------------------------------------

\* The watch over the session is kept by every step.
LEMMA WatchStep ==
    TypeOK /\ WatchInvariant /\ [Next]_vars => WatchInvariant'
<1> SUFFICES ASSUME TypeOK, WatchInvariant, [Next]_vars PROVE WatchInvariant'
  OBVIOUS
<1>1. ASSUME NEW p \in Procs, StartConnect(p)
      PROVE WatchInvariant'
  <2>1. p \notin Watchers
    BY <1>1 DEF StartConnect, Fresh, WatchInvariant, WatchersKeepToTheirLoop,
       OneWatcher
  <2>2. /\ health' = health
        /\ state' = "connected" => state = "connected"
        /\ role[p] = "loggedOut" => pc[p] \notin LogoutPCs
        /\ \/ Moves(p, "none", "done")
           \/ Moves(p, "connect", "initializing")
           \/ Moves(p, "connect", "dialing")
    BY <1>1 DEF StartConnect, Fresh, Ends, Goto, Dial, Call, Moves, TypeOK,
       ManagerTypes, TaskTypes
  <2>3. QED
    BY <2>1, <2>2, MoveKeepsWatch
<1>2. ASSUME NEW p \in Procs, StartPair(p)
      PROVE WatchInvariant'
  <2>1. p \notin Watchers
    BY <1>2 DEF StartPair, Fresh, WatchInvariant, WatchersKeepToTheirLoop,
       OneWatcher
  <2>2. /\ health' = health
        /\ state' = "connected" => state = "connected"
        /\ role[p] = "loggedOut" => pc[p] \notin LogoutPCs
        /\ \/ Moves(p, "pair", "pairing")
           \/ Moves(p, "pair", "initializing")
           \/ Moves(p, "pair", "dialing")
    BY <1>2 DEF StartPair, Fresh, Ends, Goto, Dial, Call, AskPairCode, Moves,
       TypeOK, ManagerTypes, TaskTypes
  <2>3. QED
    BY <2>1, <2>2, MoveKeepsWatch
<1>3. ASSUME NEW p \in Procs, StartDisconnect(p)
      PROVE WatchInvariant'
  BY <1>3 DEF StartDisconnect, Fresh, Call, TypeOK, ManagerTypes, TaskTypes,
     WatchInvariant, WatchersKeepToTheirLoop, OneWatcher,
     WatchedWhileConnected
<1>4. ASSUME NEW p \in Procs, StartLogout(p)
      PROVE WatchInvariant'
  BY <1>4, LogoutKeepsWatch DEF StartLogout, Fresh, TypeOK, ManagerTypes,
     TaskTypes, WatchInvariant, WatchersKeepToTheirLoop, OneWatcher,
     WatchedWhileConnected
<1>5. ASSUME NEW p \in Procs, StartProbe(p)
      PROVE WatchInvariant'
  BY <1>5, CheckKeepsWatch DEF StartProbe, Fresh, TypeOK, ManagerTypes,
     TaskTypes, WatchInvariant, WatchersKeepToTheirLoop, OneWatcher,
     WatchedWhileConnected
<1>6. ASSUME NEW p \in Procs, StartSend(p)
      PROVE WatchInvariant'
  BY <1>6, CheckKeepsWatch DEF StartSend, Fresh, TypeOK, ManagerTypes,
     TaskTypes, WatchInvariant, WatchersKeepToTheirLoop, OneWatcher,
     WatchedWhileConnected
<1>7. ASSUME NEW p \in Procs, NEW c \in Clients, Initialized(p, c)
      PROVE WatchInvariant'
  <2>1. p \notin Watchers
    BY <1>7 DEF Initialized, WatchInvariant, WatchersKeepToTheirLoop,
       OneWatcher
  <2>2. /\ health' = health
        /\ state' = "connected" => state = "connected"
        /\ role[p] = "loggedOut" => pc[p] \notin LogoutPCs
        /\ \/ Moves(p, "none", "done")
           \/ Moves(p, "pair", "pairing")
           \/ Moves(p, role[p], "dialing")
    BY <1>7 DEF Initialized, Ends, Goto, Dial, Call, AskPairCode, Moves,
       TypeOK, ManagerTypes, TaskTypes
  <2>3. QED
    BY <2>1, <2>2, MoveKeepsWatch
<1>8. ASSUME NEW p \in Procs, DialReturned(p)
      PROVE WatchInvariant'
  <2>1. p \notin Watchers
    BY <1>8 DEF DialReturned, Answered, WatchInvariant,
       WatchersKeepToTheirLoop, OneWatcher
  <2>2. /\ health' = health
        /\ state' = "connected" => state = "connected"
        /\ role[p] = "loggedOut" => pc[p] \notin LogoutPCs
        /\ \/ Moves(p, "none", "done")
           \/ Moves(p, "pair", "pairing")
    BY <1>8 DEF DialReturned, Answered, Ends, Goto, Call, AskPairCode, Moves,
       TypeOK, ManagerTypes, TaskTypes
  <2>3. QED
    BY <2>1, <2>2, MoveKeepsWatch
<1>9. ASSUME NEW p \in Procs, PairReturned(p)
      PROVE WatchInvariant'
  BY <1>9 DEF PairReturned, Answered, Ends, Goto, TypeOK, ManagerTypes,
     TaskTypes, WatchInvariant, WatchersKeepToTheirLoop, OneWatcher,
     WatchedWhileConnected
<1>10. ASSUME NEW p \in Procs, Disconnected(p)
      PROVE WatchInvariant'
  BY <1>10, EndingLeavesNoWatcher DEF Disconnected, Answered, TypeOK,
     ManagerTypes, TaskTypes, WatchInvariant, WatchersKeepToTheirLoop,
     OneWatcher, WatchedWhileConnected
<1>11. ASSUME NEW p \in Procs, AskedLogin(p)
      PROVE WatchInvariant'
  BY <1>11, ResetKeepsWatch DEF AskedLogin, Answered, Call, TypeOK,
     ManagerTypes, TaskTypes, WatchInvariant, WatchersKeepToTheirLoop,
     OneWatcher, WatchedWhileConnected
<1>12. ASSUME NEW p \in Procs, Unlinked(p)
      PROVE WatchInvariant'
  <2>1. CASE client = None
    BY <1>12, <2>1, ResetKeepsWatch DEF Unlinked
  <2>2. CASE client # None
    <3>1. Moves(p, role[p], "dropping") /\ health' = health /\ state' = state
      BY <1>12, <2>2 DEF Unlinked, Call, Moves
    <3>2. p \in Watchers => pc[p] # "idle" /\ role[p] = "watcher"
      BY <1>12 DEF Unlinked, Answered, WatchInvariant, WatchersKeepToTheirLoop
    <3>3. QED
      BY <3>1, <3>2, MoveKeepsWatch
  <2>3. QED
    BY <2>1, <2>2
<1>13. ASSUME NEW p \in Procs, Dropped(p)
      PROVE WatchInvariant'
  BY <1>13, ResetKeepsWatch DEF Dropped, Answered, TypeOK, ManagerTypes,
     TaskTypes, WatchInvariant, WatchersKeepToTheirLoop, OneWatcher,
     WatchedWhileConnected
<1>14. ASSUME NEW p \in Procs, CheckedLogin(p)
      PROVE WatchInvariant'
  <2>1. p \in Watchers => pc[p] # "idle" /\ role[p] = "watcher"
    BY <1>14 DEF CheckedLogin, Answered, WatchInvariant,
       WatchersKeepToTheirLoop
  <2>2. pc[p] \notin LogoutPCs /\ role[p] \in Roles
    BY <1>14 DEF CheckedLogin, Answered, TypeOK, ManagerTypes, TaskTypes
  <2>3. CASE client = None \/ answer[p] = "raised"
    BY <1>14, <2>1, <2>2, <2>3, AfterCheckKeepsWatch DEF CheckedLogin
  <2>4. CASE ~(client = None \/ answer[p] = "raised")
    <3>1. /\ health' = health /\ state' = state
          /\ \/ Moves(p, role[p], "checkConn")
             \/ Moves(p, role[p], "checkConnLost")
      BY <1>14, <2>4 DEF CheckedLogin, Call, Moves
    <3>2. QED
      BY <2>1, <2>2, <3>1, MoveKeepsWatch
  <2>5. QED
    BY <2>3, <2>4
<1>15. ASSUME NEW p \in Procs, CheckedConn(p)
      PROVE WatchInvariant'
  BY <1>15, AfterCheckKeepsWatch DEF CheckedConn, Answered, TypeOK,
     ManagerTypes, TaskTypes, WatchInvariant, WatchersKeepToTheirLoop,
     OneWatcher, WatchedWhileConnected
<1>16. ASSUME NEW p \in Procs, SendReturned(p)
      PROVE WatchInvariant'
  <2>1. p \notin Watchers
    BY <1>16 DEF SendReturned, Answered, WatchInvariant,
       WatchersKeepToTheirLoop, OneWatcher
  <2>2. /\ health' = health
        /\ state' = "connected" => state = "connected"
        /\ role[p] = "loggedOut" => pc[p] \notin LogoutPCs
        /\ \/ Moves(p, "none", "done")
           \/ Moves(p, "revalidate", "settling")
    BY <1>16 DEF SendReturned, Answered, Ends, Goto, Moves, TypeOK,
       ManagerTypes, TaskTypes
  <2>3. QED
    BY <2>1, <2>2, MoveKeepsWatch
<1>17. ASSUME NEW p \in Procs, Revalidate(p)
      PROVE WatchInvariant'
  <2>1. p \notin Watchers /\ pc[p] \notin LogoutPCs
    BY <1>17 DEF Revalidate, WatchInvariant, WatchersKeepToTheirLoop
  <2>2. CASE noReceipt < Threshold
    <3>1. Moves(p, "none", "done") /\ health' = health /\ state' = state
      BY <1>17, <2>2 DEF Revalidate, Ends, Goto, Moves
    <3>2. QED
      BY <2>1, <3>1, MoveKeepsWatch
  <2>3. CASE ~(noReceipt < Threshold)
    BY <1>17, <2>1, <2>3, CheckKeepsWatch DEF Revalidate
  <2>4. QED
    BY <2>2, <2>3
<1>18. ASSUME NEW p \in Procs, WatcherWakes(p)
      PROVE WatchInvariant'
  BY <1>18, CheckKeepsWatch DEF WatcherWakes, TypeOK, ManagerTypes, TaskTypes,
     WatchInvariant, WatchersKeepToTheirLoop, OneWatcher,
     WatchedWhileConnected
<1>19. ASSUME NEW p \in Procs, Answer(p)
      PROVE WatchInvariant'
  BY <1>19 DEF Answer, Answers, Raises, TypeOK, ManagerTypes, TaskTypes,
     WatchInvariant, WatchersKeepToTheirLoop, OneWatcher,
     WatchedWhileConnected
<1>20. ASSUME NEW c \in Clients, OnQr(c)
      PROVE WatchInvariant'
  BY <1>20 DEF OnQr, TypeOK, ManagerTypes, TaskTypes, WatchInvariant,
     WatchersKeepToTheirLoop, OneWatcher, WatchedWhileConnected
<1>21. ASSUME NEW c \in Clients, OnConnected(c)
      PROVE WatchInvariant'
  BY <1>21 DEF OnConnected, Goto, TypeOK, ManagerTypes, TaskTypes,
     WatchInvariant, WatchersKeepToTheirLoop, OneWatcher,
     WatchedWhileConnected
<1>22. ASSUME NEW c \in Clients, OnDropped(c)
      PROVE WatchInvariant'
  BY <1>22 DEF OnDropped, TypeOK, ManagerTypes, TaskTypes, WatchInvariant,
     WatchersKeepToTheirLoop, OneWatcher, WatchedWhileConnected
<1>23. ASSUME NEW c \in Clients, NEW p \in Tasks, OnLoggedOut(c, p)
      PROVE WatchInvariant'
  BY <1>23 DEF OnLoggedOut, TypeOK, ManagerTypes, TaskTypes, WatchInvariant,
     WatchersKeepToTheirLoop, OneWatcher, WatchedWhileConnected
<1>24. ASSUME NEW c \in Clients, OnReceipt(c)
      PROVE WatchInvariant'
  BY <1>24 DEF OnReceipt, TypeOK, ManagerTypes, TaskTypes, WatchInvariant,
     WatchersKeepToTheirLoop, OneWatcher, WatchedWhileConnected
<1>25. ASSUME NEW c \in Clients, Network(c)
      PROVE WatchInvariant'
  BY <1>25 DEF Network, Handshake, Scan, Drop, Redial, Replace, Receipt,
     TypeOK, ManagerTypes, TaskTypes, WatchInvariant, WatchersKeepToTheirLoop,
     OneWatcher, WatchedWhileConnected
<1>26. ASSUME NEW d \in Devices, Unlink(d)
      PROVE WatchInvariant'
  BY <1>26 DEF Unlink, TypeOK, ManagerTypes, TaskTypes, WatchInvariant,
     WatchersKeepToTheirLoop, OneWatcher, WatchedWhileConnected
<1>27. CASE UNCHANGED vars
  BY <1>27 DEF WatchInvariant, WatchersKeepToTheirLoop, OneWatcher,
     WatchedWhileConnected
<1>28. QED
  BY <1>1, <1>2, <1>3, <1>4, <1>5, <1>6, <1>7, <1>8, <1>9, <1>10, <1>11,
     <1>12, <1>13, <1>14, <1>15, <1>16, <1>17, <1>18, <1>19, <1>20, <1>21,
     <1>22, <1>23, <1>24, <1>25, <1>26, <1>27 DEF Next, Request, Continue,
     HandleEvent

-----------------------------------------------------------------------------

\* Both halves of the watch hold in every run.
LEMMA WatchHolds == Spec => []WatchInvariant
<1>1. Init => WatchInvariant
  BY DEF Init, WatchInvariant, WatchersKeepToTheirLoop, OneWatcher,
     WatchedWhileConnected
<1>2. QED
  BY <1>1, WatchStep, SessionTypes, PTL DEF Spec

\* Exactly the registered health loop is alive, for any number of requests,
\* clients and health loops: a stopped loop never wipes a later session.
THEOREM OneHealthLoop == Spec => []OneWatcher
<1>1. WatchInvariant => OneWatcher
  BY DEF WatchInvariant
<1>2. QED
  BY <1>1, WatchHolds, PTL

\* A manager that reports connected is watched by its health loop, or by the
\* handler of a LoggedOut event that has stopped it and goes on to the wipe.
THEOREM ConnectedIsWatched == Spec => []WatchedWhileConnected
<1>1. WatchInvariant => WatchedWhileConnected
  BY DEF WatchInvariant
<1>2. QED
  BY <1>1, WatchHolds, PTL

-----------------------------------------------------------------------------
(* What logged_out stands for, unless a probe announced it.                *)

Announced(c) == \E i \in 1..Len(inbox[c]) : inbox[c][i] = "qr"

\* A client that has the wiped file open may still show a code, but the event
\* that announces it, and ends logged_out, comes before anybody scans it.
Wiped ==
    state = "logged_out" /\ ~byProbe =>
        /\ client = None /\ ~running /\ file = None
        /\ \A c \in opened : net[c] = "qr" => Announced(c)

LEMMA NotLoggedOut == ASSUME state' # "logged_out" PROVE Wiped'
BY DEF Wiped

LEMMA WipedKept ==
    ASSUME Wiped, UNCHANGED <<state, client, running, byProbe, libraryVars>>
    PROVE  Wiped'
BY DEF Wiped, Announced

LEMMA ResetWipes == ASSUME NEW p, Reset(p) PROVE Wiped'
BY DEF Reset, Wiped

LEMMA LogoutWipes == ASSUME Wiped, NEW p, NEW r, BeginLogout(p, r) PROVE Wiped'
<1>1. Reset(p) \/ UNCHANGED <<managerVars, libraryVars>>
  BY DEF BeginLogout
<1>2. QED
  BY <1>1, ResetWipes, WipedKept

LEMMA AfterCheckWipes ==
    ASSUME Wiped, NEW p, NEW r, NEW ok, AfterCheck(p, r, ok)
    PROVE  Wiped'
<1>1. \/ BeginLogout(p, r)
      \/ UNCHANGED <<state, client, running, byProbe, libraryVars>>
      \/ byProbe'
  BY DEF AfterCheck
<1>2. CASE byProbe'
  BY <1>2 DEF Wiped
<1>3. QED
  BY <1>1, <1>2, LogoutWipes, WipedKept

LEMMA CheckWipes ==
    ASSUME Wiped, NEW p, NEW r, BeginCheck(p, r)
    PROVE  Wiped'
<1>1. AfterCheck(p, r, FALSE) \/ UNCHANGED <<managerVars, libraryVars>>
  BY DEF BeginCheck
<1>2. QED
  BY <1>1, AfterCheckWipes, WipedKept

\* An announcement stays in the inbox until it is the next event.
LEMMA AnnouncementStays ==
    ASSUME LibraryTypes, NEW c \in Clients, Announced(c),
           \/ inbox' = inbox
           \/ \E d \in Clients, e \in Events : Emits(d, e)
           \/ \E d \in Clients, e \in Events \ {"qr"} : Handles(d, e)
    PROVE  Announced(c)'
<1>0. inbox \in [Clients -> Seq(Events)]
  BY DEF LibraryTypes
<1>1. PICK i \in 1..Len(inbox[c]) : inbox[c][i] = "qr"
  BY DEF Announced
<1>2. CASE inbox'[c] = inbox[c]
  BY <1>1, <1>2 DEF Announced
<1>3. ASSUME NEW e \in Events, Emits(c, e) PROVE Announced(c)'
  <2>1. inbox'[c] = Append(inbox[c], e)
    BY <1>0, <1>3 DEF Emits
  <2>2. i \in 1..Len(inbox'[c]) /\ inbox'[c][i] = "qr"
    BY <1>0, <1>1, <2>1
  <2>3. QED
    BY <2>2 DEF Announced
<1>4. ASSUME NEW e \in Events \ {"qr"}, Handles(c, e) PROVE Announced(c)'
  <2>1. inbox'[c] = Tail(inbox[c]) /\ inbox[c][1] # "qr" /\ inbox[c] # <<>>
    BY <1>0, <1>4 DEF Handles
  <2>2. i # 1 /\ i \in Nat /\ Len(inbox[c]) \in Nat /\ i <= Len(inbox[c]) /\ i >= 1
    BY <1>0, <1>1, <2>1
  <2>3. Len(inbox'[c]) = Len(inbox[c]) - 1
    BY <1>0, <2>1
  <2>4. i-1 \in 1..Len(inbox'[c])
    BY <2>2, <2>3
  <2>5. inbox'[c][i-1] = inbox[c][i]
    BY <1>0, <2>1, <2>2, <2>3, <2>4
  <2>6. QED
    BY <1>1, <2>4, <2>5 DEF Announced
<1>5. \/ inbox'[c] = inbox[c]
      \/ \E e \in Events : Emits(c, e)
      \/ \E e \in Events \ {"qr"} : Handles(c, e)
  BY <1>0 DEF Emits, Handles
<1>6. QED
  BY <1>2, <1>3, <1>4, <1>5

\* An event that is not a code, or something the network does: a code that is
\* shown is still announced.
LEMMA EventWipes ==
    ASSUME LibraryTypes, Wiped, UNCHANGED <<state, client, running, byProbe, file, opened>>,
           \A c \in opened : net'[c] = "qr" => net[c] = "qr" \/ Announced(c)',
           \/ inbox' = inbox
           \/ \E d \in Clients, e \in Events : Emits(d, e)
           \/ \E d \in Clients, e \in Events \ {"qr"} : Handles(d, e)
    PROVE  Wiped'
<1>1. ASSUME NEW c \in opened, state = "logged_out", ~byProbe, net'[c] = "qr" PROVE Announced(c)'
  <2>1. CASE net[c] = "qr"
    <3>1. c \in Clients /\ Announced(c)
      BY <1>1, <2>1 DEF Wiped, LibraryTypes
    <3>2. QED
      BY <3>1, AnnouncementStays
  <2>2. QED
    BY <1>1, <2>1
<1>2. QED
  BY <1>1 DEF Wiped

-----------------------------------------------------------------------------

\* The network, the phone and the calls of the library leave the manager alone;
\* nobody scans a code on the wiped file before logged_out has ended.
LEMMA OutsideWipes ==
    ASSUME TypeOK, Wiped,
           \/ \E p \in Procs : Answer(p)
           \/ \E c \in Clients : Network(c)
           \/ \E d \in Devices : Unlink(d)
    PROVE  Wiped'
<1>0. LibraryTypes /\ UNCHANGED <<state, client, running, byProbe>>
  BY DEF TypeOK, Answer, Network, Handshake, Scan, Drop, Redial, Replace, Receipt, Unlink
<1>1. ASSUME NEW p \in Procs, Answer(p) PROVE Wiped'
  <2>0. target[p] \in Clients /\ inbox' = inbox
    BY <1>1 DEF Answer, TypeOK, TaskTypes
  <2>1. \A c \in Clients : net'[c] = "qr" => net[c] = "qr"
    <3>1. \/ net' = net
          \/ \E v \in Nets \ {"qr"} : net' = [net EXCEPT ![target[p]] = v]
      BY <1>1 DEF Answer
    <3>2. QED
      BY <1>0, <2>0, <3>1 DEF LibraryTypes
  <2>2. file' = file \/ file' = None
    BY <1>1 DEF Answer
  <2>3. \/ opened' = opened
        \/ /\ net' = [net EXCEPT ![target[p]] = "dialing"]
           /\ opened' = opened \cup {target[p]}
    BY <1>1 DEF Answer
  <2>4. \A c \in opened' : c \in opened \/ net'[c] = "dialing"
    BY <1>0, <2>0, <2>3 DEF LibraryTypes
  <2>5. opened' \subseteq Clients
    BY <1>0, <2>0, <2>3 DEF LibraryTypes
  <2>6. ASSUME NEW c \in opened', state = "logged_out", ~byProbe, net'[c] = "qr" PROVE Announced(c)'
    <3>1. c \in Clients /\ c \in opened /\ net[c] = "qr"
      BY <2>1, <2>4, <2>5, <2>6
    <3>2. Announced(c)
      BY <2>6, <3>1 DEF Wiped
    <3>3. QED
      BY <2>0, <3>2 DEF Announced
  <2>7. QED
    BY <1>0, <2>2, <2>6 DEF Wiped
<1>2. ASSUME NEW c \in Clients, Handshake(c) PROVE Wiped'
  <2>1. \E e \in Events : Emits(c, e)
    BY <1>2 DEF Handshake
  <2>2. UNCHANGED <<file, opened>>
    BY <1>2 DEF Handshake
  <2>3. ASSUME NEW d \in Clients, net'[d] = "qr", net[d] # "qr" PROVE Announced(d)'
    <3>1. d = c /\ Emits(c, "qr")
      BY <1>0, <1>2, <2>3 DEF Handshake, LibraryTypes
    <3>2. inbox'[d] = Append(inbox[d], "qr") /\ inbox[d] \in Seq(Events)
      BY <1>0, <3>1 DEF Emits, LibraryTypes
    <3>3. Len(inbox'[d]) \in 1..Len(inbox'[d]) /\ inbox'[d][Len(inbox'[d])] = "qr"
      BY <3>2
    <3>4. QED
      BY <3>3 DEF Announced
  <2>4. \A d \in opened : net'[d] = "qr" => net[d] = "qr" \/ Announced(d)'
    BY <1>0, <2>3 DEF LibraryTypes
  <2>5. QED
    BY <1>0, <2>1, <2>2, <2>4, EventWipes
<1>3. ASSUME NEW c \in Clients, Scan(c) PROVE Wiped'
  <2>1. \E e \in Events : Emits(c, e)
    BY <1>3 DEF Scan
  <2>2. net[c] = "qr" /\ ~Announced(c)
    BY <1>3 DEF Scan, Announced
  <2>3. CASE state # "logged_out" \/ byProbe
    BY <1>0, <2>3 DEF Wiped
  <2>4. CASE state = "logged_out" /\ ~byProbe
    <3>1. c \notin opened
      BY <2>2, <2>4 DEF Wiped
    <3>2. UNCHANGED <<file, opened>>
      BY <1>3, <3>1 DEF Scan
    <3>3. \A d \in opened : net'[d] = "qr" => net[d] = "qr"
      BY <1>0, <1>3 DEF Scan, LibraryTypes
    <3>4. QED
      BY <1>0, <2>1, <3>2, <3>3, EventWipes
  <2>5. QED
    BY <2>3, <2>4
<1>4. ASSUME NEW c \in Clients, Drop(c) \/ Redial(c) \/ Replace(c) \/ Receipt(c) PROVE Wiped'
  <2>1. inbox' = inbox \/ \E e \in Events : Emits(c, e)
    BY <1>4 DEF Drop, Redial, Replace, Receipt
  <2>2. UNCHANGED <<file, opened>>
    BY <1>4 DEF Drop, Redial, Replace, Receipt
  <2>3. \A d \in opened : net'[d] = "qr" => net[d] = "qr"
    BY <1>0, <1>4 DEF Drop, Redial, Replace, Receipt, LibraryTypes
  <2>4. QED
    BY <1>0, <2>1, <2>2, <2>3, EventWipes
<1>5. ASSUME NEW d \in Devices, Unlink(d) PROVE Wiped'
  <2>1. inbox' = inbox \/ \E c \in Clients, e \in Events : Emits(c, e)
    BY <1>5 DEF Unlink
  <2>2. UNCHANGED <<file, opened>>
    BY <1>5 DEF Unlink
  <2>3. \A c \in opened : net'[c] = "qr" => net[c] = "qr"
    BY <1>0, <1>5 DEF Unlink, LibraryTypes
  <2>4. QED
    BY <1>0, <2>1, <2>2, <2>3, EventWipes
<1>6. QED
  BY <1>1, <1>2, <1>3, <1>4, <1>5 DEF Network

LEMMA WipedStep ==
    ASSUME TypeOK, Wiped, [Next]_vars
    PROVE  Wiped'
<1>1. ASSUME NEW p \in Procs, Request(p) PROVE Wiped'
  <2>1. CASE StartConnect(p) \/ StartPair(p) \/ StartDisconnect(p)
    <3>1. \/ UNCHANGED <<state, client, running, byProbe, libraryVars>>
          \/ state' = "connecting"
      BY <2>1 DEF StartConnect, StartPair, StartDisconnect, Dial
    <3>2. QED
      BY <3>1, WipedKept, NotLoggedOut
  <2>2. CASE StartLogout(p)
    BY <2>2, LogoutWipes DEF StartLogout
  <2>3. CASE StartSend(p) \/ StartProbe(p)
    BY <2>3, CheckWipes DEF StartSend, StartProbe
  <2>4. QED
    BY <1>1, <2>1, <2>2, <2>3 DEF Request
<1>2. ASSUME NEW p \in Procs, Continue(p) PROVE Wiped'
  <2>1. CASE \E c \in Clients : Initialized(p, c)
    <3>1. PICK c \in Clients : Initialized(p, c)
      BY <2>1
    <3>2. CASE state = "logged_out" /\ ~byProbe
      <4>1. ~running
        BY <3>2 DEF Wiped
      <4>2. state' = "connecting"
        BY <3>1, <4>1 DEF Initialized, Dial
      <4>3. QED
        BY <4>2, NotLoggedOut
    <3>3. CASE state # "logged_out" \/ byProbe
      <4>1. byProbe' = byProbe /\ (state' = "connecting" \/ state' = state)
        BY <3>1 DEF Initialized, Dial
      <4>2. QED
        BY <3>3, <4>1 DEF Wiped
    <3>4. QED
      BY <3>2, <3>3
  <2>2. CASE DialReturned(p) \/ PairReturned(p) \/ SendReturned(p)
    <3>1. \/ UNCHANGED <<state, client, running, byProbe, libraryVars>>
          \/ state' \in {"disconnected", "pair_code_ready"}
      BY <2>2 DEF DialReturned, PairReturned, SendReturned
    <3>2. QED
      BY <3>1, WipedKept, NotLoggedOut
  <2>3. CASE Disconnected(p)
    BY <2>3, NotLoggedOut DEF Disconnected
  <2>4. CASE AskedLogin(p) \/ Unlinked(p) \/ Dropped(p)
    <3>1. Reset(p) \/ UNCHANGED <<managerVars, libraryVars>>
      BY <2>4 DEF AskedLogin, Unlinked, Dropped
    <3>2. QED
      BY <3>1, ResetWipes, WipedKept
  <2>5. CASE CheckedLogin(p)
    <3>1. AfterCheck(p, role[p], FALSE) \/ UNCHANGED <<managerVars, libraryVars>>
      BY <2>5 DEF CheckedLogin
    <3>2. QED
      BY <3>1, AfterCheckWipes, WipedKept
  <2>6. CASE CheckedConn(p)
    BY <2>6, AfterCheckWipes DEF CheckedConn
  <2>7. CASE Revalidate(p)
    <3>1. BeginCheck(p, "revalidate") \/ UNCHANGED <<managerVars, libraryVars>>
      BY <2>7 DEF Revalidate
    <3>2. QED
      BY <3>1, CheckWipes, WipedKept
  <2>8. CASE WatcherWakes(p)
    BY <2>8, CheckWipes DEF WatcherWakes
  <2>9. QED
    BY <1>2, <2>1, <2>2, <2>3, <2>4, <2>5, <2>6, <2>7, <2>8 DEF Continue
<1>3. ASSUME NEW c \in Clients, HandleEvent(c) PROVE Wiped'
  <2>1. CASE OnQr(c) \/ OnConnected(c) \/ OnDropped(c)
    BY <2>1, NotLoggedOut DEF OnQr, OnConnected, OnDropped
  <2>2. CASE OnReceipt(c)
    <3>1. UNCHANGED <<state, client, running, byProbe, file, opened, net>> /\ Handles(c, "receipt")
      BY <2>2 DEF OnReceipt
    <3>2. QED
      BY <3>1, EventWipes DEF TypeOK
  <2>3. ASSUME NEW p \in Tasks, OnLoggedOut(c, p) PROVE Wiped'
    <3>1. CASE client = None
      BY <2>3, <3>1 DEF OnLoggedOut, Wiped
    <3>2. CASE client # None
      <4>1. (state # "logged_out" \/ byProbe) /\ UNCHANGED <<state, byProbe>>
        BY <2>3, <3>2 DEF OnLoggedOut, Wiped
      <4>2. QED
        BY <4>1 DEF Wiped
    <3>3. QED
      BY <3>1, <3>2
  <2>4. QED
    BY <1>3, <2>1, <2>2, <2>3 DEF HandleEvent
<1>4. CASE UNCHANGED vars
  BY <1>4, WipedKept
<1>5. QED
  BY <1>1, <1>2, <1>3, <1>4, OutsideWipes DEF Next

\* logged_out means what it says, for any number of requests, clients and health
\* loops, unless it was a probe that said it: the client is dropped, nothing runs,
\* and no code scanned on an old client has put a session in the file.
THEOREM LogoutWipesAll == Spec => []LoggedOutMeansWiped
<1>1. Init => Wiped
  BY DEF Init, Wiped
<1>2. TypeOK /\ Wiped /\ [Next]_vars => Wiped'
  BY WipedStep
<1>3. Wiped => LoggedOutMeansWiped
  BY DEF Wiped, LoggedOutMeansWiped
<1>4. QED
  BY <1>1, <1>2, <1>3, SessionTypes, PTL DEF Spec
=============================================================================
