------------------------------ MODULE AutoReply ------------------------------
(***************************************************************************)
(* The auto-reply engine of WhatsAppClientManager and its human handover:  *)
(* incoming messages are debounced into one pending reply per chat, and    *)
(* the owner keeps first right of answer (a message, a read receipt, a     *)
(* control command or a send from the panel holds or cancels the reply).   *)
(*                                                                         *)
(* The program is one asyncio loop, so an action here is the code between  *)
(* two awaits.  Msgs are the identities of incoming messages and panel     *)
(* requests; a pending reply and its worker task bear the identity of the  *)
(* message that created them, and the WhatsApp message a worker or a       *)
(* command sends bears the same identity again.  Durations count ticks,    *)
(* and every stored instant is kept as the number of ticks it still has    *)
(* an effect, so no clock has to be bounded.                               *)
(***************************************************************************)
EXTENDS Integers, FiniteSets

CONSTANTS
    Msgs,        \* incoming messages and panel requests
    Chats,       \* canonical chat keys
    ChatOf,      \* the chat each message or request is about
    Kinds,       \* what may arrive in this instance
    NoReply,     \* an empty slot of _pending_replies
    Delay,       \* reply_delay_seconds
    ReadHold,    \* read_hold_minutes
    Snooze,      \* human_snooze_minutes
    Cooldown,    \* cooldown_seconds of the rule that may match
    PauseFor,    \* the duration in an owner's "off 2h"
    EchoOwnSends,\* does WhatsApp echo the bot's sends as message events
    MaxRestarts  \* BOUND: process restarts and re-initialisations

Commands == {"on", "off", "pause", "mute", "unmute"}
PanelKinds == {"panelSend", "panelOn", "panelOff", "panelUnmute"}
MessageKinds == {"contact", "owner"} \cup Commands

ASSUME ConstantsAssumption ==
    /\ ChatOf \in [Msgs -> Chats]
    /\ Kinds \subseteq MessageKinds \cup PanelKinds
    /\ NoReply \notin Msgs
    /\ {Delay, ReadHold, Snooze, Cooldown, MaxRestarts} \subseteq Nat
    /\ PauseFor \in Nat \ {0}
    /\ EchoOwnSends \in BOOLEAN

VARIABLES
    \* message handlers (_handle_incoming_message and what it calls)
    hpc, kind,
    \* reply workers (_deliver_pending_reply), one per pending reply
    wpc, timer, readExtended, burst, ruled, age,
    \* in-memory state of the manager
    pending, human, botSent,
    \* the database
    muted, enabled, suspended, cooldown, ownerRec, botRec,
    \* WhatsApp: sends in the client library's thread, accepted sends, echoes
    outbox, delivered, epc,
    \* history: the replies alive when the owner answered their chat
    answered, restarts

handlerVars == <<hpc, kind>>
workerVars  == <<wpc, timer, readExtended, burst, ruled, age>>
memoryVars  == <<pending, human, botSent>>
configVars  == <<enabled, suspended>>
recordVars  == <<ownerRec, botRec>>
netVars     == <<outbox, delivered, epc>>
ghostVars   == <<answered, restarts>>
vars == <<handlerVars, workerVars, memoryVars, muted, configVars, cooldown,
          recordVars, netVars, ghostVars>>

NotSuspended == -1                  \* suspended_until is the empty string
MaxOf(a, b) == IF a >= b THEN a ELSE b
Less(n) == IF n > 0 THEN n - 1 ELSE n

HandlerPCs == {"unseen", "persist", "config", "mutedRead", "queue", "apply",
               "follow", "react", "reacting", "done"}
Evaluating == {"config", "resume", "rules", "llm", "touch"}
PastMuteCheck == Evaluating \cup {"send", "sending", "record"}
Firing == {"muteCheck"} \cup PastMuteCheck
WorkerPCs == {"none", "waiting", "done"} \cup Firing

Live(t) == wpc[t] \in {"waiting"} \cup Firing
Registered(t) == pending[ChatOf[t]] = t

-----------------------------------------------------------------------------
(* State at start-up: an empty history, the bot enabled.                   *)

Init ==
    /\ hpc = [m \in Msgs |-> "unseen"]
    /\ kind = [m \in Msgs |-> "contact"]
    /\ wpc = [m \in Msgs |-> "none"]
    /\ timer = [m \in Msgs |-> 0]
    /\ readExtended = [m \in Msgs |-> FALSE]
    /\ burst = [m \in Msgs |-> {}]
    /\ ruled = {}
    /\ age = [m \in Msgs |-> 0]
    /\ pending = [c \in Chats |-> NoReply]
    /\ human = [c \in Chats |-> 0]
    /\ botSent = {}
    /\ muted = {}
    /\ enabled = TRUE
    /\ suspended = NotSuspended
    /\ cooldown = [c \in Chats |-> 0]
    /\ ownerRec = [c \in Chats |-> 0]
    /\ botRec = [c \in Chats |-> 0]
    /\ outbox = {}
    /\ delivered = {}
    /\ epc = [m \in Msgs |-> "none"]
    /\ answered = {}
    /\ restarts = 0

-----------------------------------------------------------------------------
(* Helpers of the manager.                                                 *)

\* Deviation: the slot is emptied but its task is not cancelled.
CancelPending_SlotOnly(c) ==
    /\ pending' = [pending EXCEPT ![c] = NoReply]
    /\ UNCHANGED wpc

\* _cancel_pending_reply: the slot is emptied and its task cancelled, at
\* whatever await it has reached.  A send already handed to the client
\* library stays in outbox: its thread is not interrupted.
CancelPending(c) ==
    /\ pending' = [pending EXCEPT ![c] = NoReply]
    /\ wpc' = [t \in Msgs |-> IF t = pending[c] THEN "done" ELSE wpc[t]]

\* Deviation: the snooze adds up instead of being refreshed.
NoteActivity_Accumulates(c) ==
    /\ human' = [human EXCEPT ![c] = @ + Snooze]
    /\ CancelPending(c)

\* _note_human_activity.
NoteActivity(c) ==
    /\ human' = [human EXCEPT ![c] = Snooze]
    /\ CancelPending(c)

\* It was the owner, not an echo: every reply queued for the chat is late.
OwnerWasHere(c) ==
    /\ answered' = answered \cup {t \in Msgs : ChatOf[t] = c /\ Live(t)}
    /\ UNCHANGED restarts

\* Deviation: the finally clause clears the slot whoever holds it.
Finish_AnySlot(t) ==
    /\ wpc' = [wpc EXCEPT ![t] = "done"]
    /\ pending' = [pending EXCEPT ![ChatOf[t]] = NoReply]

\* The finally clause of a worker: it clears the slot only if still its own.
Finish(t) ==
    /\ wpc' = [wpc EXCEPT ![t] = "done"]
    /\ pending' = IF Registered(t)
                  THEN [pending EXCEPT ![ChatOf[t]] = NoReply] ELSE pending

-----------------------------------------------------------------------------
(* Message handlers.                                                       *)

\* A message event: the record is built and appended in memory.
Arrive(m, k) ==
    /\ hpc[m] = "unseen" /\ k \in Kinds \cap MessageKinds
    /\ hpc' = [hpc EXCEPT ![m] = "persist"]
    /\ kind' = [kind EXCEPT ![m] = k]
    /\ UNCHANGED <<workerVars, memoryVars, muted, configVars, cooldown,
                   recordVars, netVars, ghostVars>>

\* The record is persisted (best effort); a contact's message goes on to be
\* queued.
PersistContact(m) ==
    /\ hpc[m] = "persist" /\ kind[m] = "contact"
    /\ hpc' = [hpc EXCEPT ![m] = "config"]
    /\ UNCHANGED <<kind, workerVars, memoryVars, muted, configVars, cooldown,
                   recordVars, netVars, ghostVars>>

\* The owner's own message hands the chat back to the owner at once.
PersistOwner(m, ok) ==
    /\ hpc[m] = "persist" /\ kind[m] # "contact"
    /\ hpc' = [hpc EXCEPT ![m] = IF kind[m] = "owner" THEN "done" ELSE "apply"]
    /\ ownerRec' = IF ok THEN [ownerRec EXCEPT ![ChatOf[m]] = Snooze]
                   ELSE ownerRec
    /\ NoteActivity(ChatOf[m])
    /\ OwnerWasHere(ChatOf[m])
    /\ UNCHANGED <<kind, timer, readExtended, burst, ruled, age, botSent,
                   muted, configVars, cooldown, botRec, netVars>>

\* _queue_auto_reply reads the configuration, then the muted chats ...
ReadEnabled(m) ==
    /\ hpc[m] = "config"
    /\ hpc' = [hpc EXCEPT ![m] = IF enabled THEN "mutedRead" ELSE "done"]
    /\ UNCHANGED <<kind, workerVars, memoryVars, muted, configVars, cooldown,
                   recordVars, netVars, ghostVars>>

ReadMuted(m) ==
    /\ hpc[m] = "mutedRead"
    /\ hpc' = [hpc EXCEPT ![m] = IF ChatOf[m] \in muted THEN "done" ELSE "queue"]
    /\ UNCHANGED <<kind, workerVars, memoryVars, muted, configVars, cooldown,
                   recordVars, netVars, ghostVars>>

\* ... and then, without another await, drops the message because the owner
\* is active in the chat,
QueueSuppressed(m) ==
    /\ hpc[m] = "queue" /\ human[ChatOf[m]] > 0
    /\ hpc' = [hpc EXCEPT ![m] = "done"]
    /\ UNCHANGED <<kind, workerVars, memoryVars, muted, configVars, cooldown,
                   recordVars, netVars, ghostVars>>

\* or folds it into the reply that waits, pushing its deadline,
Fold(m, t) ==
    /\ hpc[m] = "queue" /\ human[ChatOf[m]] = 0
    /\ pending[ChatOf[m]] = t /\ wpc[t] = "waiting"
    /\ hpc' = [hpc EXCEPT ![m] = "done"]
    /\ burst' = [burst EXCEPT ![t] = @ \cup {m}]
    /\ timer' = [timer EXCEPT ![t] = Delay]
    /\ UNCHANGED <<kind, wpc, readExtended, ruled, age, memoryVars, muted,
                   configVars, cooldown, recordVars, netVars, ghostVars>>

\* or starts a new pending reply, displacing one that is already firing.
StartReply(m) ==
    LET p == pending[ChatOf[m]] IN
    /\ hpc[m] = "queue" /\ human[ChatOf[m]] = 0
    /\ p # NoReply => wpc[p] # "waiting"
    /\ hpc' = [hpc EXCEPT ![m] = "done"]
    /\ pending' = [pending EXCEPT ![ChatOf[m]] = m]
    /\ wpc' = [wpc EXCEPT ![m] = "waiting"]
    /\ burst' = [burst EXCEPT ![m] = {m}]
    /\ timer' = [timer EXCEPT ![m] = Delay]
    /\ UNCHANGED <<kind, readExtended, ruled, age, human, botSent, muted,
                   configVars, cooldown, recordVars, netVars, ghostVars>>

\* _maybe_handle_command: the database write of the owner's command.
Apply(m) ==
    /\ hpc[m] = "apply"
    /\ hpc' = [hpc EXCEPT ![m] = IF kind[m] \in {"mute", "unmute"}
                                 THEN "follow" ELSE "react"]
    /\ enabled' = IF kind[m] \in {"on", "off"} THEN kind[m] = "on" ELSE enabled
    /\ suspended' = IF kind[m] = "on" THEN NotSuspended
                    ELSE IF kind[m] = "pause" THEN PauseFor ELSE suspended
    /\ muted' = IF kind[m] = "mute" THEN muted \cup {ChatOf[m]}
                ELSE IF kind[m] = "unmute" THEN muted \ {ChatOf[m]} ELSE muted
    /\ UNCHANGED <<kind, workerVars, memoryVars, cooldown, recordVars, netVars,
                   ghostVars>>

\* Deviation: #mute does not cancel the reply already queued.
FollowMute_KeepsReply(m) ==
    /\ hpc[m] = "follow" /\ kind[m] = "mute"
    /\ hpc' = [hpc EXCEPT ![m] = "react"]
    /\ UNCHANGED <<kind, workerVars, memoryVars, muted, configVars, cooldown,
                   recordVars, netVars, ghostVars>>

\* Once the write returned, #mute cancels the chat's pending reply,
FollowMute(m) ==
    /\ hpc[m] = "follow" /\ kind[m] = "mute"
    /\ hpc' = [hpc EXCEPT ![m] = "react"]
    /\ CancelPending(ChatOf[m])
    /\ UNCHANGED <<kind, timer, readExtended, burst, ruled, age, human,
                   botSent, muted, configVars, cooldown, recordVars, netVars,
                   ghostVars>>

\* and #unmute hands the chat back to the bot by forgetting the owner's
\* activity.
FollowUnmute(m) ==
    /\ hpc[m] = "follow" /\ kind[m] = "unmute"
    /\ hpc' = [hpc EXCEPT ![m] = "react"]
    /\ human' = [human EXCEPT ![ChatOf[m]] = 0]
    /\ UNCHANGED <<kind, workerVars, pending, botSent, muted, configVars,
                   cooldown, recordVars, netVars, ghostVars>>

\* _react_to_message acknowledges the command; building the reaction or
\* sending it may fail, which is swallowed.
SendReaction(m) ==
    /\ hpc[m] = "react"
    /\ hpc' = [hpc EXCEPT ![m] = "reacting"]
    /\ outbox' = outbox \cup {m}
    /\ UNCHANGED <<kind, workerVars, memoryVars, muted, configVars, cooldown,
                   recordVars, delivered, epc, ghostVars>>

ReactionReturned(m) ==
    /\ hpc[m] = "reacting" /\ m \notin outbox
    /\ hpc' = [hpc EXCEPT ![m] = "done"]
    /\ botSent' = IF m \in delivered THEN botSent \cup {m} ELSE botSent
    /\ UNCHANGED <<kind, workerVars, pending, human, muted, configVars,
                   cooldown, recordVars, netVars, ghostVars>>

\* A database call of the handler raises: the handler logs it and ends.
HandlerFails(m) ==
    /\ hpc[m] \in {"config", "mutedRead", "apply"}
    /\ hpc' = [hpc EXCEPT ![m] = "done"]
    /\ UNCHANGED <<kind, workerVars, memoryVars, muted, configVars, cooldown,
                   recordVars, netVars, ghostVars>>

-----------------------------------------------------------------------------
(* Requests of the panel (one step each once the client library answered). *)

\* wa_client.send_message from the API: a human is handling this chat.
PanelSend(m, ok) ==
    /\ hpc[m] = "unseen" /\ "panelSend" \in Kinds
    /\ hpc' = [hpc EXCEPT ![m] = "done"]
    /\ kind' = [kind EXCEPT ![m] = "panelSend"]
    /\ ownerRec' = IF ok THEN [ownerRec EXCEPT ![ChatOf[m]] = Snooze]
                   ELSE ownerRec
    /\ NoteActivity(ChatOf[m])
    /\ OwnerWasHere(ChatOf[m])
    /\ UNCHANGED <<timer, readExtended, burst, ruled, age, botSent, muted,
                   configVars, cooldown, botRec, netVars>>

\* The panel's switch and its unmute touch the database only.
PanelConfig(m, k) ==
    /\ hpc[m] = "unseen" /\ k \in Kinds \cap {"panelOn", "panelOff", "panelUnmute"}
    /\ hpc' = [hpc EXCEPT ![m] = "done"]
    /\ kind' = [kind EXCEPT ![m] = k]
    /\ enabled' = IF k = "panelUnmute" THEN enabled ELSE k = "panelOn"
    /\ muted' = IF k = "panelUnmute" THEN muted \ {ChatOf[m]} ELSE muted
    /\ UNCHANGED <<workerVars, memoryVars, suspended, cooldown, recordVars,
                   netVars, ghostVars>>

\* _handle_owner_read_receipt: the owner opened the chat on the phone.
ReadReceipt(t) ==
    /\ Registered(t) /\ ~readExtended[t] /\ ReadHold > 0
    /\ timer' = [timer EXCEPT ![t] = MaxOf(@, ReadHold)]
    /\ readExtended' = [readExtended EXCEPT ![t] = TRUE]
    /\ UNCHANGED <<handlerVars, wpc, burst, ruled, age, memoryVars, muted,
                   configVars, cooldown, recordVars, netVars, ghostVars>>

-----------------------------------------------------------------------------
(* The worker of one pending reply.                                        *)

\* The debounce window is over: from here on new messages start another one.
Fire(t) ==
    /\ wpc[t] = "waiting" /\ timer[t] = 0
    /\ wpc' = [wpc EXCEPT ![t] = "muteCheck"]
    /\ UNCHANGED <<handlerVars, timer, readExtended, burst, ruled, age,
                   memoryVars, muted, configVars, cooldown, recordVars,
                   netVars, ghostVars>>

\* Suppression is checked again once the muted chats were read.
CheckSuppression(t) ==
    /\ wpc[t] = "muteCheck"
    /\ \/ /\ ChatOf[t] \in muted \/ human[ChatOf[t]] > 0
          /\ Finish(t)
       \/ /\ ChatOf[t] \notin muted /\ human[ChatOf[t]] = 0
          /\ wpc' = [wpc EXCEPT ![t] = "config"]
          /\ UNCHANGED pending
    /\ UNCHANGED <<handlerVars, timer, readExtended, burst, ruled, age, human,
                   botSent, muted, configVars, cooldown, recordVars, netVars,
                   ghostVars>>

\* _evaluate_auto_reply reads the configuration once: disabled or suspended
\* is silence, an expired suspension is to be cleared.
ReadSuspension(t) ==
    /\ wpc[t] = "config"
    /\ \/ /\ ~enabled \/ suspended > 0
          /\ Finish(t)
       \/ /\ enabled /\ suspended <= 0
          /\ wpc' = [wpc EXCEPT ![t] = IF suspended = NotSuspended
                                       THEN "rules" ELSE "resume"]
          /\ UNCHANGED pending
    /\ UNCHANGED <<handlerVars, timer, readExtended, burst, ruled, age, human,
                   botSent, muted, configVars, cooldown, recordVars, netVars,
                   ghostVars>>

\* The write that clears the suspension this worker saw expired.
ClearSuspension(t) ==
    /\ wpc[t] = "resume"
    /\ suspended' = NotSuspended
    /\ wpc' = [wpc EXCEPT ![t] = "rules"]
    /\ UNCHANGED <<handlerVars, timer, readExtended, burst, ruled, age,
                   memoryVars, muted, enabled, cooldown, recordVars, netVars,
                   ghostVars>>

\* Quiet hours, then the rules: an away message or silence, a matching rule
\* with a cooldown (silence while it runs), or none.
MatchRules(t) ==
    /\ wpc[t] = "rules"
    /\ \/ Finish(t) /\ UNCHANGED <<ruled, age>>
       \/ /\ wpc' = [wpc EXCEPT ![t] = "send"]
          /\ UNCHANGED <<pending, ruled, age>>
       \/ /\ wpc' = [wpc EXCEPT ![t] = "llm"]
          /\ UNCHANGED <<pending, ruled, age>>
       \/ /\ Cooldown > 0 /\ cooldown[ChatOf[t]] = 0
          /\ wpc' = [wpc EXCEPT ![t] = "llm"]
          /\ ruled' = ruled \cup {t}
          /\ age' = [age EXCEPT ![t] = 0]
          /\ UNCHANGED pending
    /\ UNCHANGED <<handlerVars, timer, readExtended, burst, human, botSent,
                   muted, configVars, cooldown, recordVars, netVars, ghostVars>>

\* The reply text: the model's, a static text when the model fails, or none.
Compose(t) ==
    /\ wpc[t] = "llm"
    /\ \/ Finish(t)
       \/ /\ wpc' = [wpc EXCEPT ![t] = IF t \in ruled THEN "touch" ELSE "send"]
          /\ UNCHANGED pending
    /\ UNCHANGED <<handlerVars, timer, readExtended, burst, ruled, age, human,
                   botSent, muted, configVars, cooldown, recordVars, netVars,
                   ghostVars>>

\* touch_cooldown stores the instant read before the model was called.
TouchCooldown(t) ==
    /\ wpc[t] = "touch"
    /\ cooldown' = [cooldown EXCEPT ![ChatOf[t]] = Cooldown - age[t]]
    /\ wpc' = [wpc EXCEPT ![t] = "send"]
    /\ UNCHANGED <<handlerVars, timer, readExtended, burst, ruled, age,
                   memoryVars, muted, configVars, recordVars, netVars,
                   ghostVars>>

\* client.send_message is called ...
SendReply(t) ==
    /\ wpc[t] = "send"
    /\ wpc' = [wpc EXCEPT ![t] = "sending"]
    /\ outbox' = outbox \cup {t}
    /\ UNCHANGED <<handlerVars, timer, readExtended, burst, ruled, age,
                   memoryVars, muted, configVars, cooldown, recordVars,
                   delivered, epc, ghostVars>>

\* Deviation: a send that raises is not handled.
SendReturned_Unhandled(t) ==
    /\ wpc[t] = "sending" /\ t \in delivered
    /\ botSent' = botSent \cup {t}
    /\ wpc' = [wpc EXCEPT ![t] = "record"]
    /\ UNCHANGED <<handlerVars, timer, readExtended, burst, ruled, age,
                   pending, human, muted, configVars, cooldown, recordVars,
                   netVars, ghostVars>>

\* ... and returns: the id is remembered and the reply recorded, or raises.
SendReturned(t) ==
    /\ wpc[t] = "sending" /\ t \notin outbox
    /\ \/ /\ t \in delivered
          /\ botSent' = botSent \cup {t}
          /\ wpc' = [wpc EXCEPT ![t] = "record"]
          /\ UNCHANGED pending
       \/ /\ t \notin delivered
          /\ Finish(t)
          /\ UNCHANGED botSent
    /\ UNCHANGED <<handlerVars, timer, readExtended, burst, ruled, age, human,
                   muted, configVars, cooldown, recordVars, netVars, ghostVars>>

\* _record_bot_reply: the reply becomes a message of the owner's account.
RecordReply(t, ok) ==
    /\ wpc[t] = "record"
    /\ botRec' = IF ok THEN [botRec EXCEPT ![ChatOf[t]] = Snooze] ELSE botRec
    /\ Finish(t)
    /\ UNCHANGED <<handlerVars, timer, readExtended, burst, ruled, age, human,
                   botSent, muted, configVars, cooldown, ownerRec, netVars,
                   ghostVars>>

\* A database call of the worker raises: logged, and the reply is dropped.
WorkerFails(t) ==
    /\ wpc[t] \in {"muteCheck", "record"} \cup Evaluating
    /\ Finish(t)
    /\ UNCHANGED <<handlerVars, timer, readExtended, burst, ruled, age, human,
                   botSent, muted, configVars, cooldown, recordVars, netVars,
                   ghostVars>>

-----------------------------------------------------------------------------
(* WhatsApp, outside the program: a send is accepted or fails; an accepted *)
(* one may come back as a message event of the owner's own account.        *)

Accept(b) ==
    /\ b \in outbox
    /\ outbox' = outbox \ {b}
    /\ delivered' \in {delivered, delivered \cup {b}}
    /\ UNCHANGED <<handlerVars, workerVars, memoryVars, muted, configVars,
                   cooldown, recordVars, epc, ghostVars>>

\* The handler drops an echo whose id it remembers.
Echo(b) ==
    /\ EchoOwnSends /\ b \in delivered /\ epc[b] = "none"
    /\ epc' = [epc EXCEPT ![b] = IF b \in botSent THEN "done" ELSE "persist"]
    /\ UNCHANGED <<handlerVars, workerVars, memoryVars, muted, configVars,
                   cooldown, recordVars, outbox, delivered, ghostVars>>

\* An echo it does not remember is taken for a message of the owner.
EchoAsOwner(b, ok) ==
    /\ epc[b] = "persist"
    /\ epc' = [epc EXCEPT ![b] = "done"]
    /\ botRec' = IF ok THEN [botRec EXCEPT ![ChatOf[b]] = Snooze] ELSE botRec
    /\ NoteActivity(ChatOf[b])
    /\ UNCHANGED <<handlerVars, timer, readExtended, burst, ruled, age,
                   botSent, muted, configVars, cooldown, ownerRec, outbox,
                   delivered, ghostVars>>

-----------------------------------------------------------------------------
(* Time, restarts, and initialize() on a later connect.                    *)

Tick ==
    /\ timer' = [m \in Msgs |-> Less(timer[m])]
    /\ age' = [m \in Msgs |-> IF wpc[m] \in {"llm", "touch"} /\ age[m] < Cooldown
                              THEN age[m] + 1 ELSE age[m]]
    /\ human' = [c \in Chats |-> Less(human[c])]
    /\ suspended' = Less(suspended)
    /\ cooldown' = [c \in Chats |-> Less(cooldown[c])]
    /\ ownerRec' = [c \in Chats |-> Less(ownerRec[c])]
    /\ botRec' = [c \in Chats |-> Less(botRec[c])]
    /\ UNCHANGED <<handlerVars, wpc, readExtended, burst, ruled, pending,
                   botSent, muted, enabled, netVars, ghostVars>>

\* _seed_human_activity_from_store: the newest is_from_me record of a chat.
Seeded(c) == MaxOf(ownerRec[c], botRec[c])

\* The process dies between two steps and starts again from the database.
Restart ==
    /\ restarts < MaxRestarts
    /\ restarts' = restarts + 1
    /\ hpc' = [m \in Msgs |-> IF hpc[m] = "unseen" THEN "unseen" ELSE "done"]
    /\ wpc' = [m \in Msgs |-> IF wpc[m] = "none" THEN "none" ELSE "done"]
    /\ epc' = [m \in Msgs |-> IF epc[m] = "none" THEN "none" ELSE "done"]
    /\ pending' = [c \in Chats |-> NoReply]
    /\ botSent' = {}
    /\ outbox' = {}
    /\ human' = [c \in Chats |-> Seeded(c)]
    /\ UNCHANGED <<kind, timer, readExtended, burst, ruled, age, muted,
                   configVars, cooldown, recordVars, delivered, answered>>

\* connect() after a logout calls initialize() again in the same process.
Reinitialize ==
    /\ restarts < MaxRestarts
    /\ restarts' = restarts + 1
    /\ human' = [c \in Chats |-> MaxOf(human[c], Seeded(c))]
    /\ UNCHANGED <<handlerVars, workerVars, pending, botSent, muted,
                   configVars, cooldown, recordVars, netVars, answered>>

-----------------------------------------------------------------------------

HandlerStep(m) ==
    \/ PersistContact(m) \/ (\E ok \in BOOLEAN : PersistOwner(m, ok))
    \/ ReadEnabled(m) \/ ReadMuted(m) \/ QueueSuppressed(m)
    \/ (\E t \in Msgs : Fold(m, t)) \/ StartReply(m)
    \/ Apply(m) \/ FollowMute(m) \/ FollowUnmute(m)
    \/ SendReaction(m) \/ ReactionReturned(m) \/ HandlerFails(m)

WorkerStep(t) ==
    \/ Fire(t) \/ CheckSuppression(t) \/ ReadSuspension(t)
    \/ ClearSuspension(t) \/ MatchRules(t) \/ Compose(t) \/ TouchCooldown(t)
    \/ SendReply(t) \/ SendReturned(t)
    \/ (\E ok \in BOOLEAN : RecordReply(t, ok)) \/ WorkerFails(t)

EchoStep(b) == Echo(b) \/ (\E ok \in BOOLEAN : EchoAsOwner(b, ok))

Environment(m) ==
    \/ (\E k \in Kinds : Arrive(m, k) \/ PanelConfig(m, k))
    \/ (\E ok \in BOOLEAN : PanelSend(m, ok))
    \/ ReadReceipt(m)

Next ==
    \/ \E m \in Msgs : HandlerStep(m) \/ WorkerStep(m) \/ EchoStep(m)
                       \/ Environment(m) \/ Accept(m)
    \/ Tick \/ Restart \/ Reinitialize

Spec == Init /\ [][Next]_vars

\* The event loop runs every ready task, the client library's calls return (which
\* is assumed of the library: no call has a time limit), and time passes; messages,
\* the owner and restarts owe nothing.
Fairness ==
    /\ WF_vars(Tick)
    /\ \A m \in Msgs : WF_vars(HandlerStep(m)) /\ WF_vars(WorkerStep(m))
                       /\ WF_vars(Accept(m))

FairSpec == Spec /\ Fairness
-----------------------------------------------------------------------------
(* Type invariant.                                                         *)

TypeOK ==
    /\ hpc \in [Msgs -> HandlerPCs]
    /\ kind \in [Msgs -> MessageKinds \cup PanelKinds]
    /\ wpc \in [Msgs -> WorkerPCs]
    /\ timer \in [Msgs -> Nat]
    /\ readExtended \in [Msgs -> BOOLEAN]
    /\ burst \in [Msgs -> SUBSET Msgs]
    /\ ruled \in SUBSET Msgs
    /\ age \in [Msgs -> 0..Cooldown]
    /\ pending \in [Chats -> Msgs \cup {NoReply}]
    /\ human \in [Chats -> 0..Snooze]
    /\ botSent \in SUBSET Msgs
    /\ muted \in SUBSET Chats
    /\ enabled \in BOOLEAN
    /\ suspended \in NotSuspended..PauseFor
    /\ cooldown \in [Chats -> 0..Cooldown]
    /\ ownerRec \in [Chats -> 0..Snooze]
    /\ botRec \in [Chats -> 0..Snooze]
    /\ outbox \in SUBSET Msgs
    /\ delivered \in SUBSET Msgs
    /\ epc \in [Msgs -> {"none", "persist", "done"}]
    /\ answered \in SUBSET Msgs
    /\ restarts \in 0..MaxRestarts

-----------------------------------------------------------------------------
(* Properties of the code as it is.                                        *)

\* A chat's slot holds a worker of that chat that is still alive, and every
\* reply still in its debounce window is in the slot: there is at most one
\* per chat and whatever cancels the slot reaches it (_queue_auto_reply,
\* _cancel_pending_reply and the worker's finally clause together).
SlotMatchesWorkers ==
    /\ \A c \in Chats : pending[c] # NoReply =>
          ChatOf[pending[c]] = c /\ Live(pending[c])
    /\ \A t \in Msgs : wpc[t] = "waiting" => Registered(t)

\* Of the replies alive when the owner answered the chat, only one that was
\* already firing and had lost its slot to a newer message can live on.
OwnerBeatsRegistered ==
    \A t \in answered : Live(t) => wpc[t] \in Firing /\ ~Registered(t)

\* #mute writes the database, then cancels: between its write and its
\* cancellation, and at no other time, can the reply in the slot of a muted
\* chat be past its own check of the muted chats.
MuteBeatsRegistered ==
    \A t \in Msgs :
       Registered(t) /\ wpc[t] \in PastMuteCheck /\ ChatOf[t] \in muted
         => \E m \in Msgs : hpc[m] = "follow" /\ kind[m] = "mute"
                             /\ ChatOf[m] = ChatOf[t]

\* A message whose handler still runs has no worker of its own yet.
UnqueuedAreFresh ==
    \A m \in Msgs : hpc[m] # "done" => wpc[m] = "none" /\ m \notin answered

\* Every message taken into a reply sees that reply end (sent, silent,
\* cancelled or failed): no worker waits or hangs for ever.
AcceptedMessagesSettle ==
    \A m \in Msgs :
       (\E t \in Msgs : m \in burst[t])
         ~> (\E t \in Msgs : m \in burst[t] /\ wpc[t] = "done")

-----------------------------------------------------------------------------
(* What comments and field descriptions of the repository say.             *)

\* "cancelled if the owner replies first": no reply is handed to WhatsApp
\* for a burst the owner has answered since it was queued.
CancelledIfOwnerRepliesFirst ==
    [][\A t \in Msgs : wpc[t] = "send" /\ wpc'[t] = "sending"
                          => t \notin answered]_vars
=============================================================================
