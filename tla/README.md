# Specifications of the WhatsApp assistant

TLA+ modules, TLC configurations and TLAPS proofs about the program in `src/`: a
FastAPI service that holds one WhatsApp session (through the neonize client
library), answers incoming messages on the owner's behalf, hands chats back to the
owner when the owner shows up, and lets panels and agents send, schedule, search and
import messages.  All of it runs on one asyncio event loop; the client library and
MongoDB are outside.

`PROJECT.json` lists the components, the runs, the line of the source behind every
definition, the hazards, the findings and the theorems.  This file explains them.

## 1. Inventory

Paths are relative to `src/app` unless they say otherwise.

### Auto-reply engine and human handover (`core/whatsapp_client.py` 925-1300, 1440-1580)

* State: `_pending_replies` (one slot per chat key, each with a worker task, a
  deadline and the messages it answers), `_human_activity` (until when a chat is
  snoozed), `_bot_sent_ids`; in MongoDB the muted chats, `enabled`,
  `suspended_until`, the cooldown of each contact and the message records.
* Operations: the handler of an incoming message, `_queue_auto_reply`, the worker
  `_deliver_pending_reply`, the read-receipt handler, the owner's control commands,
  a send from the panel, the seeding of the owner's activity at start-up.
* Hard: every database call, every call of the client library and every model call
  is an await at which messages, receipts, commands and cancellations run.
* Correct when: a chat has one waiting reply at most and whatever cancels the chat
  reaches it; the owner's answer and `#mute` stop the replies queued before; the bot
  never takes its own sends for the owner's; every accepted message sees its reply
  end.

### Session lifecycle (`core/whatsapp_client.py` 90-470, 560-630, 1960-1990; `api/connection.py`)

* State: the cached connection state, `_client`, `_is_running`, the health task, the
  count of sends without a receipt; the session file; the library's own state.
* Operations: connect, pair code, disconnect, logout, status probe, preflight of a
  send, revalidation, the health loop, six kinds of library events.
* Hard: each operation reads `self._client` again after each await; the library's
  events arrive for clients the manager has dropped; a session can be lost without an
  event.
* Correct when: exactly one health loop watches a connected manager; a lost session is
  noticed; a session is wiped only when it is gone; `logged_out` and `disconnected`
  mean what the agents are told.

### Scheduled sends (`core/scheduler.py`, `core/database.py` 360-408, `api/schedule.py`)

* State: documents with a status and a date; the dispatcher's list of the sends it has
  read.
* Operations: create, cancel, list; the tick: read what is due, look at quiet hours and
  the connection, send one by one, record each outcome.
* Hard: the tick sends from a list it read before several awaits; the outcome is
  written after WhatsApp has the message.
* Correct when: nothing is sent twice unless its outcome was lost, every due send is
  settled, a cancelled send is not sent.

### Reply decision, control commands and quiet hours (`core/whatsapp_client.py` 882-924, 1047-1077, 1299-1562; `core/control_commands.py`, `core/quiet_hours.py`, `core/llm.py`, `core/database.py`, `api/assistant.py`)

* State: the configuration, rules in priority order, personas, the last answer of each
  rule to each contact; the default text mirrored in `settings`.
* Operations: `_evaluate_auto_reply` with `_rule_matches`, `find_persona_for_jid` and
  `_llm_reply`; the edits of the panel; parsing an owner's text as a command;
  `is_quiet_now`.
* Hard: configuration, rules, cooldown, personas and history are read in queries of their
  own, a call of the model apart from what is written afterwards; two evaluations of one
  contact overlap; windows over midnight; precedence of rules, personas and defaults.
* Correct when: an undisturbed evaluation decides in the documented order; a pause lasts;
  cooldowns keep answers apart; the provider gets a conversation it accepts, with the
  message to answer at its end.

### Message store, history and media (`core/whatsapp_client.py` 200-260, 1500-1580, 1990-2008; `core/message_history.py`, `core/media_store.py`, `api/messages.py`, `api/media.py`)

* State: the list in memory, its copy in MongoDB, blobs in GridFS.
* Operations: append and best-effort persist, reload, paging, clearing.
* Hard: a reload replaces the list while messages arrive; redelivered messages get a
  new timestamp; pages meet equal timestamps; a record names a file that must exist.
* Correct when: what is stored stays stored, every file a record names is there, and the
  list in memory forgets only what it has no room for.

### Import (`api/history_import.py`, `services/backup_import.py`, `services/media_import.py`, `src/scripts/export_ios_backup_bundle.py`)

* Operations: parse an export, insert in chunks, upgrade placeholders with media,
  reload the list.
* Hard: dying between chunks, importing again with other media, several imports at once;
  uploading the same or a later export again, with other forms filled in, when the
  records' identity is computed from their content and from a guessed owner.
* Correct when: an import that succeeds has stored every record and file it read, and
  none takes away what was there; every message is read whole, only repeats are dropped,
  and an export uploaded again adds nothing.

### Allow-list and the sends behind it (`services/allowed_contacts.py`, `api/permissions.py`, `api/messages.py`, `api/smart.py`, `api/assistant.py`)

* State: contacts with phones, a switch; each send's place in its list of numbers.
* Operations: add, update, remove, toggle; the check in front of every send of the panel,
  the assistant and the agents, one number, a bulk of them or a name.
* Hard: compare-then-write and check-then-send over awaits; suffix matching is not
  transitive; a bulk request of which one send fails.
* Correct when: who is not allowed is not written to; nobody is listed twice; the report
  tells what became of each number.

### One-time migration (`src/scripts/migrate_to_mongo.py`, `core/mongo.py`)

* State: the collections, the counters that number rules and sends.
* Operations: count, insert and raise the counter, collection after collection; the
  application beside it seeds, numbers, adds and deletes.
* Hard: dying between two of these and running again.
* Correct when: no number is given twice, no old row stays behind.

### Webhooks (`core/webhooks.py`, `api/webhooks.py`, `main.py` 82-88)

* State: the registered endpoints, a queue, one delivery worker.
* Operations: register, remove, emit, deliver, disable.
* Hard: the worker iterates over the live list; the queue is in memory.
* Correct when: each endpoint gets each event at most once and in order, nobody is
  passed over, a removed endpoint hears nothing new, no event stays.

### The rest

* Contacts, groups, contact resolution: read-only lookups and string scores.
* Smart endpoints and agent instructions: searches, one send (in the allow-list's model),
  and a text for agents.
* MongoDB access, authentication, configuration, request shapes: handles, stateless
  checks, constants.
* Start and stop of the application: the order of initialisation and shutdown.
* Web panel, deployment scripts.

### How they interact

The API calls the manager (`wa_client`) directly; the manager calls back the message
and event listeners, webhooks among them.  The scheduler calls
`wa_client.send_message`, which runs the session's preflight and, like a send from the
panel, notes the owner's activity and cancels the chat's pending reply.  The engine and
the scheduler read quiet hours from the same configuration.  The session's
`initialize()` seeds the engine's memory of the owner.  Everything persistent goes
through MongoDB, one document at a time.

## 2. Plan

| order | module | about | state |
|---|---|---|---|
| 1 | `AutoReply` | the engine and the handover | built, proved |
| 2 | `Session` | the session's life | built, proved |
| 3 | `ScheduledSends` | documents and dispatcher | built, proved |
| 4 | `MessageStore` | list, copy, loads, import in chunks, media and their upgrades | built, proved |
| 5 | `Webhooks` | registry, queue, worker, disabling | built, proved |
| 6 | `Outbox` | what the schedule API promises; `ScheduledSends` implements it | built, proved |
| 7 | `AllowList` | matching, edits, check before send, reports | built, proved |
| 8 | `ReplyDecision` | the evaluation beside edits of what it reads; commands, quiet hours, personas, prompts | built, proved |
| 9 | `BackupParsing` | what an upload is read as, and the records' identity | built, proved |
| 10 | `Migration` | the script, dying and repeated, beside the application | built, proved |

The modules meet where one says what another takes as given.  `AutoReply` leaves open what
text an evaluation yields and when it is silent; `ReplyDecision` says it.  `ScheduledSends`
and `AllowList` leave open whether a send is delivered; `Session` says when a client is
connected.  `MessageStore` takes the records of an import as given; `BackupParsing` says
which they are.  `Outbox` is what a caller may rely on without any of this.  The modules
share no variables: the code couples them through awaits of single calls, and each model
lets those calls end in every way the other side allows.

## 3. AutoReply

An action is the code between two awaits.  `Msgs` are the identities of incoming
messages and panel requests; the pending reply and worker a message creates, and the
WhatsApp message a worker or command sends, bear the same identity.

| TLA+ | code |
|---|---|
| `hpc`, `kind` | where the handler of a message is, and what the message is |
| `wpc`, `timer`, `readExtended`, `burst` | a worker, its deadline, `read_extended` and its messages |
| `ruled`, `age` | the worker replies by a rule with a cooldown; ticks since it read the clock |
| `pending`, `human`, `botSent` | `_pending_replies`, `_human_activity`, `_bot_sent_ids` |
| `muted`, `enabled`, `suspended`, `cooldown`, `ownerRec`, `botRec` | documents; the last two are the age of a chat's newest stored owner message and bot reply |
| `outbox`, `delivered`, `epc` | sends in the library's thread, accepted sends, handlers of their echoes |
| `answered` | history: the replies alive when the owner answered their chat |

Choices made in the abstraction:

* Durations are ticks left, so no clock has to be bounded: a stored instant that lies
  more than its effect in the past is 0.
* A database read is one step with the code that follows it where nothing between them
  could tell, and two where something could: `ReadMuted` then the queueing, the write
  of a command (`Apply`) then what it does in memory (`FollowMute`, `FollowUnmute`),
  the read of `suspended_until` then the write that clears it.
* Which rule, persona or default decides the text, and whether quiet hours do, is a
  nondeterministic choice in `MatchRules` and `Compose`: silence, a text sent at once,
  a text after a model call, or a rule with a cooldown.
* A record's age counts from the step that persists it; a failed write leaves nothing
  (`ok`).
* The answers to `#status` and to unknown commands have the shape of a reaction and are
  not a kind of their own.
* A panel request is one step, taken when the library has answered.
* `_bot_sent_ids` keeps a thousand ids; the instances stay far below.
* Chat keys do not change.  A contact whose LID becomes resolvable changes its key;
  that is listed as a hazard.

### What is checked

* `handover`: three messages or requests in one chat, with a snooze and a debounce of
  one tick, a read hold of two, echoes of the bot's own sends, and one restart or
  re-initialisation.  `SlotMatchesWorkers`: a slot holds a live worker and each waiting
  reply is in its slot.  `OwnerBeatsRegistered`: of the replies alive when the owner
  answered only displaced ones that fire live on.  `MuteBeatsRegistered`: a reply in the
  slot of a muted chat is past its mute check only between the write of `#mute` and its
  cancellation.  Three identities are what a displaced reply, the one that displaces it
  and the owner's answer need.  Of the ways to switch the bot on and off one each is in
  the run, because both set the same field.
* `settle`: two messages with echoes, a cooldown and one restart or re-initialisation:
  `AcceptedMessagesSettle` under `FairSpec`.
* `displaced_reply`: a field description the code does not keep; see section 12.

One chat is enough for the runs because no step reads another chat's slot; the
theorems cover any number.

Fairness: `Tick`, and for each identity its handler, its worker and the library's
answer.  The event loop runs whatever is ready, time passes, and the library's sends
return or raise.  The last is an assumption about the library: nothing in the code sets a
send a time limit, and one that never resolves keeps its reply for ever.  No fairness is assumed of the owner, of contacts, of echoes or of
restarts.

## 4. Session

A call of the client library is three steps: it is issued on the client the code has
read, takes effect in `Answer`, and its task goes on later, when `self._client` may be
another object or `None`.  `Tasks` are requests and logged-out handlers, `Watchers` runs
of `_health_check_loop`.

| TLA+ | code |
|---|---|
| `state`, `client`, `running`, `health`, `noReceipt` | `_state`, `_client`, `_is_running`, `_health_task`, `_consecutive_send_no_receipt` |
| `pc`, `role`, `target`, `answer` | a task, what it is for, the client it called, the call's answer |
| `net`, `device`, `inbox` | a client in the library: its connection, its device, its unhandled events |
| `file`, `opened`, `alive` | the session file, who has it open, the devices the phone lists |

Choices made in the abstraction:

* The library and WhatsApp are external: `Answer`, `Handshake`, `Scan`, `Drop`, `Redial`,
  `Replace`, `Unlink`, `Receipt` say what the code relies on and what it must expect.
* `/connect`'s look at `is_connected` is one step with the start of its task.
* The initial states are those of a process that starts with an empty session file, with
  a valid device or with one the phone has unlinked: restarts need no action.
* A login check that raises on a healthy session counts as not logged in, as in
  `_check_logged_in` (`Raises`), and leads to the same wipe.
* `byProbe` is history: the present `logged_out` was announced by a status probe.
* The removal of the session file is assumed to succeed; the code passes over an error
  there.
* Left out: phone numbers a pair code is refused for, the `pair_status` event, the QR
  image.

### What is checked

* `session_watch`: two requests of any kind, probes and pair codes among them, two
  clients, two health loops, at most two unhandled events per client.  `OneWatcher`:
  exactly the registered health loop is alive.  `WatchedWhileConnected`: a manager that
  says `connected` has a health loop, or a LoggedOut handler that will wipe the session.
  `LoggedOutMeansWiped`: what says `logged_out` has dropped its client, runs nothing and
  has no session file, unless a probe said it.  Two requests and the events of two clients
  are enough for a request that meets another's client, and for the loop that logs out and
  so stops itself.
* `session_notice`: `SessionLossNoticed` under `FairSpec`: a session lost without an event
  does not stay `connected`.  One client and one health loop are enough to lose a session
  and notice it, while two requests of every kind but a pair code, which dials like a
  connect, get in between; what a second client adds is `session_watch`'s.

`api/instructions.py:85` says "logged_out — session was wiped (by us, or by the phone
unlinking us)".  Of a probe this is false: `probe_session` sets `logged_out` (:1986) and
wipes nothing.  `byProbe` excepts exactly that; without it TLC refutes the property by one
connect and one probe.

Fairness: tasks go on, library calls return, events are handled; users, the phone and
the network owe nothing.  The health loop sleeps 60 seconds; that it wakes up is the
fairness of `Continue`.

A run stops where all its requests are used, so deadlock is not checked.

## 5. ScheduledSends

| TLA+ | code |
|---|---|
| `status`, `at` | a document's `status` and `scheduled_at` |
| `pc`, `batch`, `current` | the tick: where it is, what it has read and not attempted, what it attempts |
| `now`, `connected`, `quiet` | the clock, `is_connected`, `is_quiet_now` with deferral on |
| `delivered`, `lost` | history: deliveries, attempts whose outcome nobody recorded |

Choices made in the abstraction:

* `claim_due_scheduled` changes nothing: it reads the oldest `Limit` due documents.  The
  read is one step.
* The connection and the quiet window change at any time; `connected` is also lost by the
  preflight of the send itself (`Refused`).
* The read of the configuration is one step with what follows it.
* The write of an outcome may raise, applied or not, and so may the handler's own.
* `MaxFaults` bounds crashes and failed database calls in the run; the theorems hold for
  any number.
* Ids, error texts and the listing are left out.

### What is checked

* `schedule_dispatch`: three sends, two read at a time, two instants, one crash or failed
  database call anywhere.  `ResentOnlyAfterLoss`, `SentWasDelivered`, `SettledStaysUnsent`,
  `DueSendsSettle` under `FairSpec`, and `KeepsPromise`: the module implements `Outbox`.  Three sends and a limit of two are what a send
  needs to be left for a later poll.

`Outbox` is the abstract specification: a send waits until it is taken in hand, only a send
in hand goes out, it goes out again only when an attempt was forgotten, and a recorded
outcome is its end.  The mapping shows a document's status as the send's state, `batch`
and `current` as what is in hand, `delivered` as copies and `lost` as what was forgotten.
It is exact about cancelling: a send withdrawn while nobody has it in hand never goes out;
one withdrawn between the poll and the attempt still does, because the tick does not read
the document again.

Fairness: the dispatcher is not starved, the library's calls return, time passes.
`DueSendsSettle` speaks of runs in which the connection holds from some moment on and
quiet hours end; nothing makes them.  The model may stop when the clock has reached
its bound and nothing is pending, so deadlock is not checked.

## 6. MessageStore

A live record is in memory before it is in the database, an imported one the other way
round, and a load reads the database and replaces the list in memory with awaits in
between.  A record is named by its natural key (chat, id, timestamp); for each the model
keeps whether it is stored and whose file it names.

| TLA+ | code |
|---|---|
| `memory`, `now`, `date` | `_message_store`, the clock, the records' timestamps |
| `doc` | the messages collection: not there, there without a file, or naming the file that its own handler or an import has saved |
| `blobs` | the media store: pairs of a record and who saved its file |
| `hpc`, `saved` | the handler of a live message, the file it has saved |
| `lpc`, `file`, `media`, `todo`, `chunk`, `snap` | an import or load: where it is, its records, those with media, those not yet inserted, the chunk in hand, the list it has read |
| `excused` | history: records that a load may have dropped |

Choices made in the abstraction:

* `Live` records are those the process receives or sends; their timestamp is the time of
  handling, so a redelivered message is another record, in the code as in the model.
* A record stored without its file is a placeholder that a later import upgrades, but for
  the contacts and locations of an iPhone's backup (`Final`): their `media.placeholder` is
  False from the start (`services/backup_import.py:517`, :527), which the filter of the
  upgrade (`core/message_history.py:105`) passes over.
* An import takes its records in any order and any set of them carries media, with a
  thumbnail or not.  Thumbnails, sizes and names are left out.  (The Android parser gives
  its records no media, so bundles of that kind attach nothing.)
* The download of a live message's media, its saving and the append in memory are one
  step; nothing reads the blob in between.
* A call that raises ends the import; an unordered bulk write may then have applied any
  part of the chunk.  The error answer to a file without records changes nothing.
* A query is one step and the arrival of its last batch another (`Read`, `Assign`).
* Equal timestamps come in any order.
* `clear_all` and `delete_all` are not called by any code and have no action.
* `Kept` cuts in the same step as the append, as the code does without an await.

### What is checked

* `store_imports`: two live messages, one with media; a backup of two records, one dated
  before and one between the live ones, both with media and one of them a contact or
  location; two requests, each an import or a load, in chunks
  of one; a restart; a limit of three.  Two requests are what a placeholder left by one
  import and filled by another needs, and an import's reload that crosses another's.
  Four records exceed the limit, so that lists are cut and loads leave records out.
  `ImportsAreComplete`: an import that gets to its reload has stored all its records, with
  a file for each whose media it carried, but for a contact or location an earlier import
  left without.  `StoredForGood`: no step takes a document or
  its file away.  `FilesExist`: every file a document names has been saved.
  `OnlyLoadsForget`: a stored live record is missing from a list with room only if a load
  was under way when it came, or read the database before its write was done (or a
  restart's load failed).

No fairness is stated: nothing here has to happen.  Messages, requests and restarts run
out, so deadlock is not checked.

## 7. Webhooks

| TLA+ | code |
|---|---|
| `registry`, `idOf`, `active`, `failures` | `_webhooks` and the `id`, `active` and `failure_count` of its entries |
| `emitted`, `queue` | the events so far, which bear numbers, and `_event_queue` |
| `event`, `walk`, `at`, `shared` | `_deliver_event`: the event in hand, the list the loop goes through, its place, whether that list is still `_webhooks` |
| `attempts`, `due`, `until` | history: what was sent to whom, who had to hear an event, the last event taken before a removal |

Choices made in the abstraction:

* A post is the only await of the loop; the way from one answer to the next endpoint that
  wants the event is one step (`Advance`).
* The task of an event puts it in the queue at once; tasks start in the order in which
  they are made.
* An outcome is an answer below 400, an answer from 400 on, or an exception, which stands
  for a refused connection, a timeout and a payload that cannot be serialised.
* `Types` are those that `main.py` wires.  (`api/instructions.py` 357-368 lists others,
  `receipt` and `logged_out` among them, that nobody emits to webhooks.)
* The count of failures stops at `MaxFailures`, which the code compares with `>=`.
* `Without` says what the list comprehension of a removal leaves, so that it can be
  reasoned about without recursion.
* A stop and a start are one step; the queue, the registrations and the event in hand
  are gone.  Each endpoint is registered once.

### What is checked

* `webhooks_delivery`: two events of two types; the default endpoint and one that ask for
  both, one that asks for messages; one failure disables; one restart.  Three endpoints
  are what a removal in front of the worker's place, a registration behind it and an id
  in use twice need; with two events one waits while the other is delivered.
  `InOrderOnce`: no endpoint hears an event twice or after a later one.
  `EveryoneHears`: whoever was registered for an event when it was emitted, and is
  neither removed nor disabled since, has been called when the worker is through (an
  endpoint removed along with another that shares its id counts as removed).
  `RemovedHearNothingNew`: a removed endpoint hears at most what the worker had taken.
  `EventsAreHandled`, under `FairSpec`: no event stays in the queue or in hand.

Fairness: the worker goes on, as long as each post ends.  That is an assumption about the
endpoints: the limit of ten seconds is httpx's for connecting and for each read, so that it
ends a silent post but not one whose answer drips in.  A stop loses the events still
queued; `EventsAreHandled` counts them as handled, because nothing promises to keep them.
Nobody has to register, remove or restart anything.  The model stops when the
events are used up, so deadlock is not checked.

## 8. AllowList

An edit reads the list, compares and writes after an await; a check reads the switch, then
the list; a send awaits the client's calls between its check and the delivery.

| TLA+ | code |
|---|---|
| `enforced`, `contacts`, `nextId` | `permissions_config`; `allowed_contacts` in the order of insertion, which is the order of `find()` |
| `edit` | a request between its read and its write: add or update, the number, whose write it has not seen |
| `send` | a request that sends: where it is, the numbers left, whether the switch was on, the report |
| `connected` | `is_connected` |
| `raced`, `permitted`, `delivered` | history |

Choices made in the abstraction:

* A number is the sequence of digits that `normalize_phone` leaves.  `PhonesMatch` is the
  code's suffix rule, over digits.
* A request for one number, with or without media, is a bulk of one.  A name (`AskByName`)
  is resolved through the contacts whose names contain it, or through what was seen on
  WhatsApp under it (`Alias`, `Near`, `Known`), to at most one number.
* The check's two reads are two steps, and so are the send and its answer.  A line of the
  report is `refused` (not allowed), `failed` (before the send was tried), `raised` (the
  call raised: `success=False` with the exception's text), `sent` or `unacknowledged` (no
  id came back).  A call may raise or come back without an id before WhatsApp has the
  message and after; a lost connection may also end the request.
* Updates of names and notes are left out; they compare nothing.

### What is checked

* `permissions`: two edits, one sender with up to two numbers or a name, two contacts, and
  three numbers of which the shortest is the end of both others: the smallest set on which
  matching is not transitive.  `DuplicatesOnlyFromRaces`: contacts with matching numbers
  come only from edits of which one had not seen the other.  `SentWasAllowed`: who is
  written to was allowed at some moment since the check began.  `ReportMatches`: the report
  has a line for every number; `sent` was delivered, `refused` and `failed` were not, and of
  `raised` and `unacknowledged` nothing is known.  Two editors are what a race needs, and two
  numbers are what a report in which one fails and one succeeds needs.

What is allowed at one moment may be refused: the first match decides, so a disabled contact
hides an enabled one with a matching number.  No property says otherwise.

## 9. ReplyDecision

Every query of `_evaluate_auto_reply` is a step, and what it read stays as it was read.

| TLA+ | code |
|---|---|
| `config`, `rules`, `nextRule`, `personas`, `stamps` | `assistant_config`, `auto_reply_rules` and their counter, what each query of `find_persona_for_jid` would find, `rule_cooldowns` |
| `mirror` | whether `settings.AUTO_REPLY_MESSAGE` has a text |
| `eval` | an evaluation: where it is, the message, the configuration, rules and time it has read, the rule, the persona, the outcome |
| `prompt` | the conversation the model was given |
| `promised`, `serial`, `lost`, `fired`, `ghost` | history |

Choices made in the abstraction:

* A text is whether there is one: a reply is which rule, the away message, the default or
  the model it came from.
* Whom and what a rule matches is a set of contacts and of texts; a persona is whether it
  asks for the model, forbids it or says neither.
* A filter of a list is a fold (`Spoken`), as its loop is in the code; the prover knows
  nothing of `SelectSeq`.
* The clock counts minutes, and a day has `Day` of them, so that windows over midnight,
  empty and all-day ones occur in a short run.
* An owner's message is a sequence of words; `Parse` is the command grammar.  `#mute` and
  `#unmute` are `AutoReply`'s.  A stored record is whose it is and whether it is text,
  which is what the filters of `_recent_history_for_chat` look at.
* Each instance takes providers (`Providers`); a call of the model goes to any of them, or,
  if there is none, the model is not configured.  `TurnsApart` is what `_call_openai` sends,
  a turn for every record, whoever speaks first; `TurnsMerged` is what `_call_anthropic`
  sends.  OpenAI's empty answer is an answer, as in the code.
* `Recent` takes the last `2 * limit` records of the query or, where it fails, the messages
  in memory.  Those whose sender is the contact but whose chat is a group's are in `Logs`
  like any others.
* `Documented` is the order of decision as the docstring of `_evaluate_auto_reply` and the
  layers of `api/instructions.py` (385-411) state it: a set of allowed outcomes, written
  without the operators of the steps.  Of "if no rules exist and LLM is off" the docstring
  has the wider reading, in which the default text also stands in for a model that fails.

### What is checked

* `precedence`: one contact, two evaluations, two rules with and without text, model and
  cooldown, personas found by the first query or the second, three configurations (open,
  paused, in a quiet window over midnight), one edit or command, three instants, three
  answers.  `CooldownKept`: two answers by a rule are its cooldown apart unless an
  evaluation of it was overtaken by another's stamp.  `PauseHolds`: nobody is answered
  during a pause unless an evaluation older than the pause has cleared it.
  `DecisionMatches`: an evaluation that nothing disturbs decides as documented, but for one
  exception.  `PromptWellFormed`: what either provider is given ends with the message to
  answer, keeps each side's words in its own turns and is an unbroken end of what was said;
  Anthropic's alternates and begins with the contact.  Two evaluations are what overtakes a stamp or clears a
  newer pause; a third answer shows a stamp that went back.

The exceptions in `CooldownKept` and `PauseHolds` are what the code lacks a lock for: both
happen, and neither holds without them.  That of `DecisionMatches`
(`DefaultDespiteOptOut`) is a contact whose persona has `use_llm` off: `:409` promises that
nobody answers it when no rule matches, but with no rules at all the code sends the default
text (`core/whatsapp_client.py:1438`).  This happens too: without the exception TLC refutes
the property.  Nothing here has to happen, so no fairness is
stated; edits and answers run out, so deadlock is not checked.

## 10. BackupParsing

An upload is one step: the parsers await nothing, and `MessageStore` has the writing.

| TLA+ | code |
|---|---|
| `store` | the records, by chat, id and time; history: the message each is of (`origin`), the request that brought it and its place there (`how`) |
| `cache` | the names in `_contacts_cache`, by which rows of a database are signed |
| `upload`, `uploads` | the last upload as it was read; how many there were |

Choices made in the abstraction:

* A line is a message, a notice, a continuation or blank: what the two patterns of the
  parser tell apart.  A time is a minute.
* The digest is injective: `StableId` is the tuple it is computed from, whose parts do not
  hold the separator.
* A name contains another (`Alike`), is a number (`Digits`), has a slug (`Slug`).
* Where the code takes the first element of a Python set, whose order differs from process
  to process, any element may be the first (`OtherVotes`, `Owners`).
* A database's row has a key or none, a name in the backup or none; both schemas of Android
  and the one of iOS are read into such rows.
* `FilesAssumption` says what an upload is made of; `ExportsAgree` is about the phones that
  made it: a message reads the same in every export it is in, which holds unless it is
  edited in between, and two messages of a minute do not share a key.  An edit between two
  uploads is therefore not modelled: in a transcript it makes another record, under a row's
  key it is dropped.
* `Picked` is a loop that goes on where there is nothing to keep.  What the module specifies
  is called `UploadSpec`, as its theorems stand beside those of `MessageStore`.

### What is checked

* `transcripts`: any two uploads of every transcript of three lines, of a longer one and of
  a later export of it, of a group before and after its second member speaks, of archives with a clear, a doubtful and an absent owner,
  and of a database, with every form filled in or not, and a restart in between.
  `EntriesMatch`: each message is read with the lines that continue it and no others.
  `NothingElseLost`: what is dropped as a duplicate has the chat, time, sender and text of
  what stays; of `import-history`, which numbers the messages of a file, it has the place
  and the minute, so that a later export may lose messages to an earlier one.
  `ReuploadIsSafe`: a request made again (the same file, the same forms), at any time and
  with any names in memory, stores no message a second time, but for the two cases below;
  and no message is twice in one chat, whichever transcripts it was read from, with
  whichever forms and whoever was taken for the owner.  Two uploads are what a repetition
  needs; three lines hold every way in which a notice, a blank line and a continuation can
  follow each other.

"Re-uploading the same backup is safe" (`api/history_import.py:290`) is false in two cases,
which `InDoubt` names and TLC finds when either is struck out: the transcripts of an
archive whose owner can be guessed in more than one way, where the order of a Python set
decides and differs after a restart (`services/backup_import.py:207`), may be filed under
another chat; and a row without a key whose sender has no name in the backup is stored
again when the contacts in memory have one for him since (:611).  A chat exported before
and after its second member speaks is a person's the first time and a group's the second:
that is another file, and the two copies lie in two chats.

## 11. Migration

| TLA+ | code |
|---|---|
| `docs`, `seq` | the keys in each collection, the counters |
| `script`, `runs` | where the script is, the rows it has still to insert; how often it was run |
| `client` | a request of the application that has taken a number and not inserted yet |
| `ever`, `died`, `forestalled` | history |

Choices made in the abstraction:

* A row is its key.  The collections differ in whether their keys come from a counter.
* `insert_many` inserts row after row and stops at a duplicate; the script may die before,
  between and after any of its calls.

### What is checked

* `reruns`: a plain collection the application seeds, a numbered one, a plain one in which
  it writes a key the old rows have too; two clients, two runs, counters up to four.
  `NumbersCovered`: a document's number is one its counter has given, but for old rows on
  whose way to the counter a run is, or died.  `NothingLeftBehind`: at the end of a run
  every old row has been there, but for collections in which a run died or that the
  application wrote to first.  Two runs are what a collection skipped after a death needs.

The exceptions, `died` and `forestalled`, are real, and the properties are false without
them: a run that dies between the rows and the counter leaves numbers
that new rules collide with, and no later run repairs it; and a collection the application
has seeded is skipped, as its configuration always is when the script runs beside the
application.

## 12. What the checks found

`displaced_reply` states a line of the repository, and TLC refutes it: a message that
arrives while a reply fires takes its slot, so that the owner's answer cancels only the
newer reply, although `app/models/schemas.py:252` says "cancelled if the owner replies
first".

Other behaviour the models show, listed as hazards, without a run of its own:

* a folded message resets the deadline that a read receipt pushed out
  (`core/whatsapp_client.py:1198`, against :1023), and re-seeding counts the bot's recorded
  replies as the owner's (:1006, against :1921);
* after a replaced stream `_is_running` is still true and `/connect` does nothing (:303,
  against `api/instructions.py:452`); a probe announces `logged_out` without wiping
  (section 4); a
  check that meets a dropped connection wipes a session the phone still lists;
* a send cancelled after the tick read it is sent and recorded as sent (against
  `api/instructions.py:435`); a connection lost in the middle of a batch fails the rest of
  it instead of deferring it; a batch goes on into the quiet window;
* overlapping replies both pass a rule's cooldown; a pause set while an evaluation clears an
  expired one is lost; the default text goes out against a persona's opt-out where there
  are no rules (section 9);
* overlapping edits list a number twice; a disabled contact hides an enabled one;
* a webhook registered after a removal may share its id with another, and removing one
  removes both; an endpoint that answers 400 and above is never disabled;
* a send that raises after WhatsApp has taken the message is reported as not sent
  (`core/whatsapp_client.py:568`); a contact or location imported without its file never
  gets it;
* what sections 10 and 11 say of repeated uploads and of runs that die.

## 13. What is proved

The proofs hold for every value of the constants that the named assumptions allow
(`ConstantsAssumption`, `SessionAssumption`, `ScheduleAssumption`, `StoreAssumption`,
`WebhooksAssumption`, `AllowListAssumption`, `DecisionAssumption`, `MigrationAssumption`,
`ParsingAssumption`, `FilesAssumption`, `ExportsAgree`):
any number of messages, chats, requests, clients, health loops, sends, imports, endpoints,
events, contacts, rules, evaluations, logs, backups, collections and faults, any durations
and any limits.

* `AutoReplyProofs`: `TypeInvariant`; then one inductive invariant, `HandoverInv`, which
  is the conjunction of the three safety properties with `UnqueuedAreFresh` (a message
  whose handler still runs has no worker and was never answered).  The last part is what
  makes it inductive: a reply that starts must be none of those the owner answered.
  `SlotsMatch`, `OwnerComesFirst` and `MuteIsHeeded` follow.
* `SessionProofs`: `SessionTypes`; then `WatchInvariant`, which adds
  `WatchersKeepToTheirLoop` (a live watcher is at a point of its own loop, with its own
  role) to the two properties.  Without it a health loop could be thought to end like a
  request, leaving itself registered.  `OneHealthLoop` and `ConnectedIsWatched` follow.
  `LogoutWipesAll` is proved with every kind of request, probes included, and with the
  exception the property states.  `Wiped` adds that whatever client has the wiped file open
  and shows a code still has the event that announces it ahead, which ends `logged_out`
  before the code can be scanned into the file.
* `ScheduledSendsProofs`: `ScheduleTypes`; `Ledger`, which says that whatever may still be
  attempted has no delivery that a loss does not account for, and that what the
  dispatcher holds is not settled; from it `DeliveredOncePerLoss` and the action property
  `SettledForGood`.  `Delivery` (a send about to be recorded as sent was delivered) gives
  `SentMeansDelivered`.  `PromiseKept` is the refinement of `Outbox`: the initial states
  map to its initial state, and `PromiseStep` maps every action, one lemma per way in which
  an outcome is recorded (`WriteRecords`) or lost (`LossForgets`), with `Ledger` and
  `Delivery` as what makes `Deliver` and `Record` enabled.
* `MessageStoreProofs`: `StoreTypes`, with the limit of the list in memory;
  `StoredIsKept` from what each write does to a document.  `Inserted` (the records an
  import is through with are stored with their files, those of the chunk it upgrades are
  stored, it loads when none is left) gives `ImportsComplete`; without its second part the
  upgrade could complete a record that was never inserted.  `FilesSaved` (a file is there
  before anything can name it) gives `FilesBack`.  `Remembered` says of every list that is
  about to replace the one in memory what the property says of the latter, and gives
  `LoadsForget`.
* The second half of `MessageStoreProofs` is about `BackupParsing`, whose records
  `MessageStore` writes.  `TranscriptsReadWhole` says of a transcript of any length that it
  is read whole; `Agree` is what holds after each line, and needs that the last entry is open
  exactly while nothing but continuations and blank lines have followed it.
  `UploadsReadWhole` follows.  `Filed` is the invariant of the store: every document is of a
  message of some backup and says how it was read (`Lawful`), no two have one key
  (`Unique`), and of the last upload each record's key is taken.  `KeyTells` (what has one
  key is one message or says the same) gives `OnlyRepeatsAreDropped`.  `ReuploadsAreSafe`
  needs of each document that its chat, and so its key, follows from its request and from
  the owner guessed for its archive (`Request`, `Guessed`), or from its row and the name its
  sender went by (`Called`): outside `InDoubt` there is one owner and one name (`SameWay`).
  `SameChat` is its second half.

* `WebhooksProofs`: `WebhooksTypes`; then `Structure`: the queue holds the events after the
  last one taken, and the registry and the worker's list hold registered endpoints, each
  once.  `SentInOrder` adds that the event in hand was sent only to places the worker has
  passed, without which it could be sent twice, and gives `HeardInOrder`.
  `CalledOrAhead` (whoever an event is due to has been called or is ahead of the worker)
  gives `EveryoneIsCalled`, and `RemovedInTime` (who is in the worker's list may hear the
  event in hand) gives `RemovedIsQuiet`.

* `AllowListProofs`: `AllowListTypes`, split into the list's and the sends' parts.
  `DuplicatesRaced` needs `EditsSawTheRest`: whatever an edit in flight has not seen is
  either not a match or noted as stale.  `Noted` (a send that has read the switch, or
  passed, was permitted if it is let through) gives `SendsWereAllowed`; `Accurate`, which
  says of each line of a growing report what the property says of the finished one, gives
  `ReportsAreTrue`.
* `ReplyDecisionProofs`: `FirstRuleIsFirst`, that the sort has a first element and it is
  the one, by well-founded induction on priority and then age; `DecisionTypes`.  `Pausing`
  relates each evaluation's copy of the configuration to the owner's last pause, and gives
  `PausesHold`.  `Cooling` adds to `CooldownKept` that every stamp is the time of the last
  firing (`Stamped`), and that an evaluation past its check which nobody overtook is a
  cooldown later than it (`Spaced`); it gives `CooldownsKept`.  `Deciding` gives
  `DecisionsMatch`: what an undisturbed evaluation has read is still what is there
  (`UpToDate`), and whatever can still come out of it is among what was possible when it
  began (`Covered`); `PossibleRule` and `OpinionFound` show that the sort and the chain of
  queries find what the order of decision names.  `PromptsWellFormed` rests on
  `ConversationWellFormed`, which is about the operators alone, for a log of any length:
  the places picked are an unbroken end of the conversation (`Unbroken`), merging cuts it
  into pieces of one role each (`Cuts`), and putting the pieces together gives it back.
* `MigrationProofs`: `NumbersStayCovered`, inductive together with `Types`, in which a
  number taken and not used is at most its counter.  `Moved` (the collections the run has
  passed are settled, and in the one at hand every old row has been inserted or is still
  to be) gives `NothingIsLeftBehind`.

A fold over a list, such as `Said`, `Parse` or `Add` over the records, is a CHOOSE of a
function defined by recursion on finite sets.  The library's induction takes an operator
as a parameter, which the provers cannot instantiate; induction is instead the absence of a
least counterexample (`LeastExists`, from the well-foundedness of `<`, and `AllNumbers`).
`FoldExists` shows that the function chosen exists, `FoldRuns` that it takes the members one
after the other, and each fold of a model has a lemma (`SpokenRuns`, `TurnsRun`,
`PickedRuns`, `ParseRuns`, `AddRuns`) that says what it does at each.  `ReplyDecisionProofs`
and `MessageStoreProofs` both state the general ones: their models share no names, so
neither can extend the other.

Only model-checked: the liveness properties `AcceptedMessagesSettle`, `SessionLossNoticed`,
`DueSendsSettle` and `EventsAreHandled`, whose proofs need `ENABLED`.

Operators named `X_Deviation` (`Finish_AnySlot`, `Claim_LimitsFirst`, ...) are plausible
wrong versions of the operator `X` that follows them; no specification uses them.  For
each property of a passing run there is one that TLC refutes when it takes the place of
`X`, listed under `mutants`.

## 14. What is not modelled

* Contact matching by string distance, the searches, request shapes, authentication,
  formatting, the documentation endpoints, the panel and the deployment scripts keep no
  state across steps, or their correctness is about text.
* How WhatsApp maps LIDs to numbers: chat keys are fixed in `AutoReply`, contacts in
  `ReplyDecision` are whom a rule or persona would match.
* Dates, encodings and the media columns of exported databases, and the script that makes
  a bundle on a Mac.
* Paged queries of the history and slices of the list in memory, which change nothing;
  MongoDB's indexes.

## 15. Running

    tlc -workers 2 -config AutoReply_handover.cfg MCAutoReply.tla
    tlapm AutoReplyProofs.tla

`PROJECT.json` names the module and the configuration of every run.
