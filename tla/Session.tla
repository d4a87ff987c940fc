------------------------------- MODULE Session -------------------------------
(***************************************************************************)
(* The life of the WhatsApp session in WhatsAppClientManager: connecting,  *)
(* pairing, disconnecting, logging out, the events of the client library,  *)
(* and the three watchers of a stale session (the health loop, the check   *)
(* before a send, the revalidation after sends without a receipt).         *)
(*                                                                         *)
(* The program is one asyncio loop: an action is the code between two      *)
(* awaits.  A Task is an API request or an event handler; a Watcher is a   *)
(* run of _health_check_loop.  A call of the client library runs in a      *)
(* thread: it is issued on the client the code read before the await,      *)
(* takes effect in Answer, and its task goes on later, by when             *)
(* self._client may be another object or None.                             *)
(***************************************************************************)
EXTENDS Integers, Sequences, FiniteSets

CONSTANTS
    Tasks,       \* BOUND: requests (each runs once) and logged-out handlers
    Watchers,    \* BOUND: runs of the health loop alive at once
    Clients,     \* BOUND: client objects ever created
    None,        \* no client, no watcher, no device
    Previous,    \* the device an earlier run of the process left in the file
    Requests,    \* the requests this instance takes
    Threshold,   \* STALE_SEND_THRESHOLD
    MaxInbox     \* BOUND: events of one client waiting for the loop

Procs == Tasks \cup Watchers
Devices == Clients \cup {Previous}     \* a device is named for who paired it
RequestKinds == {"connect", "pair", "disconnect", "logout", "probe", "send"}
Roles == RequestKinds \cup {"none", "revalidate", "loggedOut", "watcher"}

ASSUME SessionAssumption ==
    /\ Tasks \cap Watchers = {}
    /\ None \notin Procs \cup Devices
    /\ Previous \notin Clients
    /\ Requests \subseteq RequestKinds
    /\ Threshold \in Nat \ {0} /\ MaxInbox \in Nat \ {0}

VARIABLES
    \* the manager: _state, _client, _is_running, _health_task and
    \* _consecutive_send_no_receipt
    state, client, running, health, noReceipt,
    \* the tasks of the loop, and the library call each awaits
    pc, role, target, answer,
    \* the client library and WhatsApp: connection and device of each client,
    \* events not handled yet, the session file (WA_DATABASE_PATH) with the
    \* clients that have it open, and the devices the phone still lists
    net, device, inbox, file, opened, alive,
    \* history: logged_out was last announced by a probe, and not by a wipe
    byProbe

managerVars == <<state, client, running, health, noReceipt, byProbe>>
taskVars    == <<pc, role, target, answer>>
libraryVars == <<net, device, inbox, file, opened, alive>>
vars == <<managerVars, taskVars, libraryVars>>

States == {"disconnected", "connecting", "qr_ready", "pair_code_ready",
           "connected", "logged_out"}
CheckPCs  == {"checkLogin", "checkConn", "checkConnLost"}
LogoutPCs == {"askLogin", "unlinking", "dropping"}
CallPCs   == CheckPCs \cup LogoutPCs \cup {"dialing", "pairing", "closing", "sending"}
PCs       == CallPCs \cup {"idle", "initializing", "sleeping", "settling", "done"}
Events    == {"qr", "connected", "disconnected", "loggedOut", "replaced", "receipt"}
Nets      == {"unused", "idle", "dialing", "qr", "up", "down", "closed"}

LoggedIn(c) == net[c] = "up" /\ device[c] \in alive
HasSession  == client # None /\ LoggedIn(client)

-----------------------------------------------------------------------------
(* Start-up: initialize() has made a client; the file is empty or holds the *)
(* device of an earlier run, which the phone may have unlinked since.       *)

Init ==
    /\ state = "disconnected"
    /\ client \in Clients
    /\ running = FALSE
    /\ health = None
    /\ noReceipt = 0
    /\ pc = [p \in Procs |-> "idle"]
    /\ role = [p \in Procs |-> "none"]
    /\ target = [p \in Procs |-> None]
    /\ answer = [p \in Procs |-> "none"]
    /\ net = [c \in Clients |-> IF c = client THEN "idle" ELSE "unused"]
    /\ device = [c \in Clients |-> None]
    /\ inbox = [c \in Clients |-> <<>>]
    /\ file \in {None, Previous}
    /\ opened = {}
    /\ alive \in SUBSET ({file} \ {None})
    /\ byProbe = FALSE

-----------------------------------------------------------------------------
(* What tasks are made of.                                                 *)

\* Task p, of role r, issues a library call on client c and awaits it.
Call(p, r, at, c) ==
    /\ pc' = [pc EXCEPT ![p] = at]
    /\ role' = [role EXCEPT ![p] = r]
    /\ target' = [target EXCEPT ![p] = c]
    /\ answer' = [answer EXCEPT ![p] = "pending"]

\* Task p, of role r, goes to a point where it awaits no library call.
Goto(p, r, at) ==
    /\ pc' = [pc EXCEPT ![p] = at]
    /\ role' = [role EXCEPT ![p] = r]
    /\ target' = [target EXCEPT ![p] = None]
    /\ answer' = [answer EXCEPT ![p] = "none"]

\* Task p is over.
Ends(p) == Goto(p, "none", "done")

Answered(p, at) == pc[p] = at /\ answer[p] \in {"yes", "no", "raised"}

\* p ends and, by _stop_health_watcher, so does the registered watcher.
EndAndStopWatcher(p) ==
    /\ health' = None
    /\ pc' = [q \in Procs |-> IF q \in Watchers \cap {p, health} THEN "idle"
                              ELSE IF q = p THEN "done" ELSE pc[q]]
    /\ role' = [q \in Procs |-> IF q \in {p, health} THEN "none" ELSE role[q]]
    /\ target' = [q \in Procs |-> IF q \in {p, health} THEN None ELSE target[q]]
    /\ answer' = [q \in Procs |-> IF q \in {p, health} THEN "none" ELSE answer[q]]

\* Deviation: the client object survives the wipe.
Reset_KeepsClient(p) ==
    /\ EndAndStopWatcher(p)
    /\ state' = "logged_out" /\ running' = FALSE /\ byProbe' = FALSE
    /\ file' = None /\ opened' = {}
    /\ UNCHANGED <<client, noReceipt, net, device, inbox, alive>>

\* The part of logout() after its last library call: one step.  A health loop
\* that logs out stops itself here and ends before its next await.
Reset(p) ==
    /\ EndAndStopWatcher(p)
    /\ state' = "logged_out" /\ running' = FALSE /\ client' = None
    /\ file' = None /\ opened' = {} /\ byProbe' = FALSE
    /\ UNCHANGED <<noReceipt, net, device, inbox, alive>>

\* logout() up to its first library call.
BeginLogout(p, r) ==
    IF client = None THEN Reset(p)
    ELSE Call(p, r, "askLogin", client) /\ UNCHANGED <<managerVars, libraryVars>>

\* connect() and get_pair_code() once a client exists and none is running.
Dial(p, r, c) ==
    /\ state' = "connecting" /\ running' = TRUE
    /\ Call(p, r, "dialing", c)

\* PairPhone on the current client; without one the call raises at once.
AskPairCode(p, c) ==
    IF c = None THEN Ends(p) ELSE Call(p, "pair", "pairing", c)

\* What a task does with the outcome of _check_logged_in.
AfterCheck(p, r, ok) ==
    \/ /\ r = "probe"
       /\ Ends(p)
       /\ IF ~ok /\ state = "connected"
          THEN state' = "logged_out" /\ byProbe' = TRUE
          ELSE UNCHANGED <<state, byProbe>>
       /\ UNCHANGED <<client, running, health, noReceipt, libraryVars>>
    \/ r # "probe" /\ ~ok /\ BeginLogout(p, r)
    \/ /\ r = "send" /\ ok
       /\ IF client = None THEN Ends(p) ELSE Call(p, r, "sending", client)
       /\ UNCHANGED <<managerVars, libraryVars>>
    \/ /\ r = "revalidate" /\ ok
       /\ Ends(p) /\ UNCHANGED <<managerVars, libraryVars>>
    \/ /\ r = "watcher" /\ ok
       /\ Goto(p, r, "sleeping") /\ UNCHANGED <<managerVars, libraryVars>>

\* _check_logged_in up to its first library call.
BeginCheck(p, r) ==
    IF client = None THEN AfterCheck(p, r, FALSE)
    ELSE Call(p, r, "checkLogin", client) /\ UNCHANGED <<managerVars, libraryVars>>

-----------------------------------------------------------------------------
(* Requests.                                                               *)

Fresh(p, r) == p \in Tasks /\ pc[p] = "idle" /\ r \in Requests

\* POST /connect (refused while connected) and the task it spawns; connect()
\* does nothing while it believes a client is running.
StartConnect(p) ==
    /\ Fresh(p, "connect") /\ state # "connected"
    /\ \/ /\ running
          /\ Ends(p)
          /\ UNCHANGED <<state, running>>
       \/ /\ ~running /\ client = None
          /\ Goto(p, "connect", "initializing")
          /\ UNCHANGED <<state, running>>
       \/ /\ ~running /\ client # None
          /\ Dial(p, "connect", client)
    /\ UNCHANGED <<client, health, noReceipt, byProbe, libraryVars>>

\* POST /pair-code.
StartPair(p) ==
    /\ Fresh(p, "pair")
    /\ \/ /\ client = None
          /\ Goto(p, "pair", "initializing")
          /\ UNCHANGED <<state, running>>
       \/ /\ client # None /\ ~running
          /\ Dial(p, "pair", client)
       \/ /\ client # None /\ running
          /\ AskPairCode(p, client)
          /\ UNCHANGED <<state, running>>
    /\ UNCHANGED <<client, health, noReceipt, byProbe, libraryVars>>

\* initialize() returns: a new client object replaces whatever is there, and
\* the caller goes on; connect() does not look at _is_running again.
Initialized(p, c) ==
    /\ pc[p] = "initializing" /\ net[c] = "unused"
    /\ net' = [net EXCEPT ![c] = "idle"]
    /\ client' = c
    /\ IF role[p] = "connect" \/ ~running THEN Dial(p, role[p], c)
       ELSE AskPairCode(p, c) /\ UNCHANGED <<state, running>>
    /\ UNCHANGED <<health, noReceipt, byProbe, device, inbox, file, opened, alive>>

DialReturned(p) ==
    /\ Answered(p, "dialing")
    /\ \/ /\ answer[p] = "no"
          /\ state' = "disconnected" /\ running' = FALSE
          /\ Ends(p)
       \/ /\ answer[p] = "yes" /\ role[p] = "connect"
          /\ Ends(p)
          /\ UNCHANGED <<state, running>>
       \/ /\ answer[p] = "yes" /\ role[p] = "pair"
          /\ AskPairCode(p, client)
          /\ UNCHANGED <<state, running>>
    /\ UNCHANGED <<client, health, noReceipt, byProbe, libraryVars>>

PairReturned(p) ==
    /\ Answered(p, "pairing")
    /\ state' = IF answer[p] = "yes" THEN "pair_code_ready" ELSE state
    /\ Ends(p)
    /\ UNCHANGED <<client, running, health, noReceipt, byProbe, libraryVars>>

\* POST /disconnect, when there is something to disconnect.
StartDisconnect(p) ==
    /\ Fresh(p, "disconnect") /\ client # None /\ running
    /\ Call(p, "disconnect", "closing", client)
    /\ UNCHANGED <<managerVars, libraryVars>>

\* Deviation: the cached state is left as it was.
Disconnected_KeepsState(p) ==
    /\ Answered(p, "closing")
    /\ running' = FALSE
    /\ EndAndStopWatcher(p)
    /\ UNCHANGED <<state, client, noReceipt, byProbe, libraryVars>>

Disconnected(p) ==
    /\ Answered(p, "closing")
    /\ running' = FALSE /\ state' = "disconnected"
    /\ EndAndStopWatcher(p)
    /\ UNCHANGED <<client, noReceipt, byProbe, libraryVars>>

StartLogout(p) == Fresh(p, "logout") /\ BeginLogout(p, "logout")
StartProbe(p) == Fresh(p, "probe") /\ BeginCheck(p, "probe")

\* send_message: refused unless connected, then checked against the library.
StartSend(p) == Fresh(p, "send") /\ state = "connected" /\ BeginCheck(p, "send")

-----------------------------------------------------------------------------
(* The rest of logout(), of _check_logged_in and of send_message.          *)

AskedLogin(p) ==
    /\ Answered(p, "askLogin")
    /\ IF client = None THEN Reset(p)
       ELSE /\ Call(p, role[p], IF answer[p] = "yes" THEN "unlinking"
                                ELSE "dropping", client)
            /\ UNCHANGED <<managerVars, libraryVars>>

Unlinked(p) ==
    /\ Answered(p, "unlinking")
    /\ IF client = None THEN Reset(p)
       ELSE /\ Call(p, role[p], "dropping", client)
            /\ UNCHANGED <<managerVars, libraryVars>>

Dropped(p) == Answered(p, "dropping") /\ Reset(p)

\* Both accessors are awaited, whatever the first one says; one that raises, on
\* a healthy session too, counts as not logged in.
CheckedLogin(p) ==
    /\ Answered(p, "checkLogin")
    /\ IF client = None \/ answer[p] = "raised" THEN AfterCheck(p, role[p], FALSE)
       ELSE /\ Call(p, role[p], IF answer[p] = "yes" THEN "checkConn"
                                ELSE "checkConnLost", client)
            /\ UNCHANGED <<managerVars, libraryVars>>

CheckedConn(p) ==
    \/ Answered(p, "checkConn") /\ AfterCheck(p, role[p], answer[p] = "yes")
    \/ Answered(p, "checkConnLost") /\ AfterCheck(p, role[p], FALSE)

\* A send WhatsApp accepted counts until a receipt is seen; the third one in a
\* row schedules a revalidation, which is the same task from here on.
SendReturned(p) ==
    /\ Answered(p, "sending")
    /\ noReceipt' = IF answer[p] = "yes" THEN noReceipt + 1 ELSE noReceipt
    /\ IF noReceipt' > noReceipt /\ noReceipt' >= Threshold
       THEN Goto(p, "revalidate", "settling") ELSE Ends(p)
    /\ UNCHANGED <<state, client, running, health, byProbe, libraryVars>>

\* Ten seconds later.
Revalidate(p) ==
    /\ pc[p] = "settling"
    /\ IF noReceipt < Threshold
       THEN Ends(p) /\ UNCHANGED <<managerVars, libraryVars>>
       ELSE BeginCheck(p, "revalidate")

\* _health_check_loop wakes up; it sleeps on unless connected.
WatcherWakes(w) ==
    /\ pc[w] = "sleeping" /\ state = "connected"
    /\ BeginCheck(w, "watcher")

-----------------------------------------------------------------------------
(* Events of a client, in their order; also those of a client the manager  *)
(* no longer refers to.                                                    *)

Handles(c, e) ==
    /\ inbox[c] # <<>> /\ Head(inbox[c]) = e
    /\ inbox' = [inbox EXCEPT ![c] = Tail(@)]

OnQr(c) ==
    /\ Handles(c, "qr")
    /\ state' = "qr_ready"
    /\ UNCHANGED <<client, running, health, noReceipt, byProbe, taskVars, net,
                   device, file, opened, alive>>

\* Deviation: a reconnection starts no health loop.
OnConnected_Unwatched(c) ==
    /\ Handles(c, "connected")
    /\ state' = "connected" /\ noReceipt' = 0
    /\ UNCHANGED <<client, running, health, byProbe, taskVars, net, device, file,
                   opened, alive>>

\* Deviation: a health loop is started whether or not one runs.
OnConnected_SecondWatcher(c) ==
    /\ Handles(c, "connected")
    /\ state' = "connected" /\ noReceipt' = 0
    /\ \E w \in Watchers :
          /\ pc[w] = "idle"
          /\ health' = w
          /\ Goto(w, "watcher", "sleeping")
    /\ UNCHANGED <<client, running, byProbe, net, device, file, opened, alive>>

\* Connected starts the health loop unless one is registered and running.
OnConnected(c) ==
    /\ Handles(c, "connected")
    /\ state' = "connected" /\ noReceipt' = 0
    /\ \/ /\ health # None
          /\ UNCHANGED <<health, taskVars>>
       \/ /\ health = None
          /\ \E w \in Watchers :
                /\ pc[w] = "idle"
                /\ health' = w
                /\ Goto(w, "watcher", "sleeping")
    /\ UNCHANGED <<client, running, byProbe, net, device, file, opened, alive>>

\* Disconnected and StreamReplaced touch the cached state only.
OnDropped(c) ==
    /\ Handles(c, "disconnected") \/ Handles(c, "replaced")
    /\ state' = "disconnected"
    /\ UNCHANGED <<client, running, health, noReceipt, byProbe, taskVars, net,
                   device, file, opened, alive>>

\* LoggedOut stops the health loop, then logs out like a request.
OnLoggedOut(c, p) ==
    /\ inbox[c] # <<>> /\ Head(inbox[c]) = "loggedOut"
    /\ p \in Tasks /\ pc[p] \in {"idle", "done"}
    /\ inbox' = [inbox EXCEPT ![c] = Tail(@)]
    /\ health' = None
    /\ role' = [q \in Procs |-> IF q = p
                                THEN (IF client = None THEN "none" ELSE "loggedOut")
                                ELSE IF q = health THEN "none" ELSE role[q]]
    /\ pc' = [q \in Procs |-> IF q = p
                              THEN (IF client = None THEN "done" ELSE "askLogin")
                              ELSE IF q = health THEN "idle" ELSE pc[q]]
    /\ target' = [q \in Procs |-> IF q = p THEN client
                                  ELSE IF q = health THEN None ELSE target[q]]
    /\ answer' = [q \in Procs |-> IF q = p
                                  THEN (IF client = None THEN "none" ELSE "pending")
                                  ELSE IF q = health THEN "none" ELSE answer[q]]
    /\ IF client = None
       THEN /\ state' = "logged_out" /\ running' = FALSE /\ byProbe' = FALSE
            /\ file' = None /\ opened' = {}
       ELSE UNCHANGED <<state, running, byProbe, file, opened>>
    /\ UNCHANGED <<client, noReceipt, net, device, alive>>

\* Deviation: a receipt takes one off the count instead of resetting it.
OnReceipt_Decrements(c) ==
    /\ Handles(c, "receipt")
    /\ noReceipt' = noReceipt - 1
    /\ UNCHANGED <<state, client, running, health, byProbe, taskVars, net, device,
                   file, opened, alive>>

\* Any receipt is taken as proof of a healthy session.
OnReceipt(c) ==
    /\ Handles(c, "receipt")
    /\ noReceipt' = 0
    /\ UNCHANGED <<state, client, running, health, byProbe, taskVars, net, device,
                   file, opened, alive>>

-----------------------------------------------------------------------------
(* The client library and WhatsApp, outside the program.                   *)

Emits(c, e) ==
    /\ Len(inbox[c]) < MaxInbox
    /\ inbox' = [inbox EXCEPT ![c] = Append(@, e)]

Answers(p, yes) == answer' = [answer EXCEPT ![p] = IF yes THEN "yes" ELSE "no"]
Raises(p) == answer' = [answer EXCEPT ![p] = "raised"]

\* The call p awaits takes effect on the client it was issued on.
Answer(p) ==
    LET c == target[p] IN
    /\ answer[p] = "pending"
    /\ \/ /\ pc[p] \in {"checkLogin", "askLogin"}
          /\ Answers(p, LoggedIn(c)) \/ Raises(p)
          /\ UNCHANGED <<net, device, opened, alive, file>>
       \/ /\ pc[p] \in {"checkConn", "checkConnLost"}
          /\ Answers(p, net[c] = "up") \/ Raises(p)
          /\ UNCHANGED <<net, device, opened, alive, file>>
       \/ /\ pc[p] = "sending"
          /\ Answers(p, net[c] = "up") \/ Answers(p, FALSE)
          /\ UNCHANGED <<net, device, opened, alive, file>>
       \/ /\ pc[p] = "pairing"
          /\ Answers(p, net[c] = "qr")
          /\ UNCHANGED <<net, device, opened, alive, file>>
       \* Connecting opens the session file and takes the device in it.
       \/ /\ pc[p] = "dialing" /\ net[c] \in {"idle", "closed"}
          /\ Answers(p, TRUE)
          /\ net' = [net EXCEPT ![c] = "dialing"]
          /\ device' = [device EXCEPT ![c] = file]
          /\ opened' = opened \cup {c}
          /\ UNCHANGED <<alive, file>>
       \/ /\ pc[p] = "dialing"
          /\ Answers(p, FALSE)
          /\ UNCHANGED <<net, device, opened, alive, file>>
       \/ /\ pc[p] \in {"dropping", "closing"}
          /\ Answers(p, TRUE)
          /\ net' = [net EXCEPT ![c] = IF @ = "idle" THEN "idle" ELSE "closed"]
          /\ UNCHANGED <<device, opened, alive, file>>
       \* A server-side logout also deletes the device from the open file.
       \/ /\ pc[p] = "unlinking" /\ LoggedIn(c)
          /\ Answers(p, TRUE)
          /\ net' = [net EXCEPT ![c] = "closed"]
          /\ alive' = alive \ {device[c]}
          /\ file' = IF c \in opened THEN None ELSE file
          /\ device' = [device EXCEPT ![c] = None]
          /\ UNCHANGED opened
       \/ /\ pc[p] = "unlinking"
          /\ Answers(p, FALSE)
          /\ UNCHANGED <<net, device, opened, alive, file>>
    /\ UNCHANGED <<managerVars, pc, role, target, inbox>>

\* The handshake: a live device is connected, a dead one is logged out, and
\* without a device there is a QR code to scan.
Handshake(c) ==
    /\ net[c] = "dialing"
    /\ \/ /\ device[c] \in alive
          /\ net' = [net EXCEPT ![c] = "up"] /\ Emits(c, "connected")
       \/ /\ device[c] = None
          /\ net' = [net EXCEPT ![c] = "qr"] /\ Emits(c, "qr")
       \/ /\ device[c] \notin alive \cup {None}
          /\ net' = [net EXCEPT ![c] = "closed"] /\ Emits(c, "loggedOut")
    /\ UNCHANGED <<managerVars, taskVars, device, file, opened, alive>>

\* The user scans the code on show, or types the pair code.
Scan(c) ==
    /\ net[c] = "qr" /\ inbox[c] = <<>>
    /\ net' = [net EXCEPT ![c] = "up"] /\ Emits(c, "connected")
    /\ device' = [device EXCEPT ![c] = c]
    /\ alive' = alive \cup {c}
    /\ file' = IF c \in opened THEN c ELSE file
    /\ UNCHANGED <<managerVars, taskVars, opened>>

\* The connection drops; the library will dial again by itself.
Drop(c) ==
    /\ net[c] = "up"
    /\ net' = [net EXCEPT ![c] = "down"] /\ Emits(c, "disconnected")
    /\ UNCHANGED <<managerVars, taskVars, device, file, opened, alive>>

Redial(c) ==
    /\ net[c] = "down"
    /\ net' = [net EXCEPT ![c] = "dialing"]
    /\ UNCHANGED <<managerVars, taskVars, device, inbox, file, opened, alive>>

\* The account connects elsewhere; the library does not dial again.
Replace(c) ==
    /\ net[c] = "up"
    /\ net' = [net EXCEPT ![c] = "closed"] /\ Emits(c, "replaced")
    /\ UNCHANGED <<managerVars, taskVars, device, file, opened, alive>>

\* The phone unlinks a device: its client is told, or never hears of it.
Unlink(d) ==
    /\ d \in alive
    /\ alive' = alive \ {d}
    /\ \/ UNCHANGED <<net, inbox>>
       \/ \E c \in Clients : /\ net[c] = "up" /\ device[c] = d
                             /\ net' = [net EXCEPT ![c] = "closed"]
                             /\ Emits(c, "loggedOut")
    /\ UNCHANGED <<managerVars, taskVars, device, file, opened>>

Receipt(c) ==
    /\ net[c] = "up" /\ noReceipt > 0
    /\ Emits(c, "receipt")
    /\ UNCHANGED <<managerVars, taskVars, net, device, file, opened, alive>>

-----------------------------------------------------------------------------

Request(p) ==
    \/ StartConnect(p) \/ StartPair(p) \/ StartDisconnect(p)
    \/ StartLogout(p) \/ StartProbe(p) \/ StartSend(p)

Continue(p) ==
    \/ (\E c \in Clients : Initialized(p, c))
    \/ DialReturned(p) \/ PairReturned(p) \/ Disconnected(p)
    \/ AskedLogin(p) \/ Unlinked(p) \/ Dropped(p)
    \/ CheckedLogin(p) \/ CheckedConn(p) \/ SendReturned(p) \/ Revalidate(p)
    \/ WatcherWakes(p)

HandleEvent(c) ==
    \/ OnQr(c) \/ OnConnected(c) \/ OnDropped(c) \/ OnReceipt(c)
    \/ \E p \in Tasks : OnLoggedOut(c, p)

Network(c) ==
    Handshake(c) \/ Scan(c) \/ Drop(c) \/ Redial(c) \/ Replace(c) \/ Receipt(c)

Next ==
    \/ \E p \in Procs : Request(p) \/ Continue(p) \/ Answer(p)
    \/ \E c \in Clients : HandleEvent(c) \/ Network(c)
    \/ \E d \in Devices : Unlink(d)

Spec == Init /\ [][Next]_vars

\* The loop runs its ready tasks and handles events, and library calls
\* return; users, the phone and the network owe nothing.
Fairness ==
    /\ \A p \in Procs : WF_vars(Continue(p)) /\ WF_vars(Answer(p))
    /\ \A c \in Clients : WF_vars(HandleEvent(c))

FairSpec == Spec /\ Fairness
-----------------------------------------------------------------------------
(* Type invariant.                                                         *)

ManagerTypes ==
    /\ state \in States
    /\ client \in Clients \cup {None}
    /\ running \in BOOLEAN
    /\ health \in Watchers \cup {None}
    /\ noReceipt \in Nat
    /\ byProbe \in BOOLEAN

TaskTypes ==
    /\ pc \in [Procs -> PCs]
    /\ role \in [Procs -> Roles]
    /\ target \in [Procs -> Clients \cup {None}]
    /\ answer \in [Procs -> {"none", "pending", "yes", "no", "raised"}]
    /\ \A p \in Procs : answer[p] = "pending" => target[p] \in Clients

LibraryTypes ==
    /\ net \in [Clients -> Nets]
    /\ device \in [Clients -> Devices \cup {None}]
    /\ inbox \in [Clients -> Seq(Events)]
    /\ file \in Devices \cup {None}
    /\ opened \in SUBSET Clients
    /\ alive \in SUBSET Devices

TypeOK == ManagerTypes /\ TaskTypes /\ LibraryTypes

-----------------------------------------------------------------------------
(* Properties of the code as it is.                                        *)

\* Exactly the registered run of the health loop is alive: stopping a loop
\* that is anywhere, its own logout included, leaves no stray loop that
\* would later wipe somebody else's session.
OneWatcher ==
    \A w \in Watchers : pc[w] # "idle" <=> health = w

\* While the manager believes it is connected somebody will find out if it is
\* not: the health loop is alive, or a LoggedOut handler is on its way to the
\* wipe.
WatchedWhileConnected ==
    state = "connected" =>
        health # None \/ \E p \in Tasks : role[p] = "loggedOut" /\ pc[p] \in LogoutPCs

\* A session lost while the cached state says connected is noticed: the state
\* changes, or the session comes back.
SessionLossNoticed ==
    state = "connected" /\ ~HasSession ~> state # "connected" \/ HasSession

\* "logged_out - session was wiped (by us, or by the phone unlinking us)": the
\* client is dropped, nothing runs and the session file is gone, and no code
\* scanned on an old client puts a session back (logout).  The exception is a
\* logged_out that a probe announced: probe_session wipes nothing, and there the
\* sentence is false of the code.
LoggedOutMeansWiped ==
    state = "logged_out" /\ ~byProbe => client = None /\ ~running /\ file = None
=============================================================================
