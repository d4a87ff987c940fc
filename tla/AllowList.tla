------------------------------- MODULE AllowList -------------------------------
(***************************************************************************)
(* The allow-list and the sends it guards: the contacts the assistant may  *)
(* write to, the master switch, the requests that edit them, and the       *)
(* endpoints that send (panel, assistant, media, bulk and smart), each of  *)
(* which checks a number before it is written to.                          *)
(*                                                                         *)
(* Nothing is locked.  An edit reads the list, compares, and writes after  *)
(* an await; a check reads the switch and then the list; a send awaits     *)
(* several calls of the client between its check and the delivery.         *)
(***************************************************************************)
EXTENDS Integers, Sequences, FiniteSets

CONSTANTS
    Digits, Numbers,       \* normalised numbers: sequences of digits
    SuffixMin,             \* _PHONE_SUFFIX_MIN
    DialMin, DialMax,      \* lengths send_message accepts
    MaxContacts,           \* BOUND: contacts ever added
    MaxBulk,               \* BOUND: numbers of one bulk request
    Editors, Senders,      \* BOUND: requests in flight
    Names, Alias, Near,    \* names, those of a contact, those containing another
    Known,                 \* the numbers seen with a name on WhatsApp
    None

ASSUME AllowListAssumption ==
    /\ Numbers \subseteq Seq(Digits)
    /\ SuffixMin \in Nat /\ DialMin \in Nat /\ DialMax \in Nat
    /\ MaxContacts \in Nat /\ MaxBulk \in Nat \ {0}
    /\ Alias \in [1..MaxContacts -> SUBSET Names]
    /\ Near \in [Names -> SUBSET Names] /\ Known \in [Names -> SUBSET Numbers]
    /\ None \notin [phone : Numbers, enabled : BOOLEAN]

Ids == 1..MaxContacts      \* in the order of insertion, which find() returns

VARIABLES
    enforced,     \* permissions_config
    contacts,     \* allowed_contacts: an entry or None for every id
    nextId,       \* the next id
    edit,         \* the edits between their read and their write
    send,         \* the sends in progress
    connected,
    \* history: pairs of contacts of which one was written without seeing the
    \* other's number; whether the number a send is busy with was allowed at
    \* some moment since its check began; the positions that were delivered
    raced, permitted, delivered

listVars  == <<enforced, contacts, nextId>>
ghostVars == <<raced, permitted, delivered>>
vars == <<listVars, edit, send, connected, ghostVars>>

Entry == [phone : Numbers, enabled : BOOLEAN]
NoEdit == [kind |-> "none", id |-> 0, phone |-> <<>>, stale |-> {}]
Idle == [pc |-> "idle", rest |-> <<>>, gate |-> FALSE, report |-> <<>>, size |-> 0]

-----------------------------------------------------------------------------
(* Matching and the decision.                                              *)

EndsWith(long, short) ==
    /\ Len(short) <= Len(long)
    /\ \A k \in 1..Len(short) : short[k] = long[Len(long) - Len(short) + k]

\* Equal, or the shorter is a long enough suffix of the longer.
PhonesMatch(a, b) ==
    /\ a # <<>> /\ b # <<>>
    /\ \/ a = b
       \/ Len(a) >= SuffixMin /\ EndsWith(b, a)
       \/ Len(b) >= SuffixMin /\ EndsWith(a, b)

Listed(i) == contacts[i] # None
Matching(n) == {i \in Ids : Listed(i) /\ PhonesMatch(contacts[i].phone, n)}

\* Deviation: a disabled entry lets its number through.
Decision_IgnoresEnabled(on, n) == ~on \/ Matching(n) # {}

\* check_allowed, with the switch as it was read: the first match decides.
Decision(on, n) ==
    ~on \/ \E i \in Matching(n) :
              contacts[i].enabled /\ \A j \in Matching(n) : i <= j

\* The rule as check_allowed's docstring states it.
Allowed(on, cs, n) ==
    ~on \/ \E i \in Ids : /\ cs[i] # None /\ cs[i].enabled
                          /\ PhonesMatch(cs[i].phone, n)

Busy(s) == send[s].rest # <<>>

\* History: what the list and the switch come to allow counts for every send.
NotePermitted(on, cs) ==
    permitted' = [s \in Senders |->
        permitted[s] \/ (Busy(s) /\ Allowed(on, cs, Head(send[s].rest)))]

-----------------------------------------------------------------------------
(* Editing the list.                                                       *)

Toggle ==
    /\ enforced' = ~enforced
    /\ NotePermitted(~enforced, contacts)
    /\ UNCHANGED <<contacts, nextId, edit, send, connected, raced, delivered>>

\* Deviation: the number of the other contacts is not compared on an update.
Free_AddOnly(i, n) == i = 0 => Matching(n) = {}

\* No contact but i has a matching number, as far as the request has read.
Free(i, n) == Matching(n) \ {i} = {}

\* add_contact and update_contact with a number: the list is read and compared;
\* an update first finds its contact.  A clash answers 400.
BeginEdit(e, i, n) ==
    /\ edit[e] = NoEdit /\ n # <<>>
    /\ IF i = 0 THEN nextId <= MaxContacts ELSE Listed(i)
    /\ Free(i, n)
    /\ edit' = [edit EXCEPT ![e] = [kind |-> IF i = 0 THEN "add" ELSE "update",
                                    id |-> i, phone |-> n, stale |-> {}]]
    /\ UNCHANGED <<listVars, send, connected, ghostVars>>

\* The number of contact i is written: whoever has read the list has not seen it.
Written(e, i) ==
    /\ edit' = [f \in Editors |->
           IF f = e THEN NoEdit
           ELSE IF edit[f] = NoEdit THEN NoEdit
           ELSE [edit[f] EXCEPT !.stale = @ \cup {i}]]
    /\ raced' = {p \in raced : i \notin p} \cup
                {{i, j} : j \in {k \in edit[e].stale : k # i}}
    /\ NotePermitted(enforced, contacts')
    /\ UNCHANGED <<enforced, send, connected, delivered>>

InsertContact(e) ==
    /\ edit[e].kind = "add" /\ nextId <= MaxContacts
    /\ \E b \in BOOLEAN :
          contacts' = [contacts EXCEPT ![nextId] = [phone |-> edit[e].phone, enabled |-> b]]
    /\ nextId' = nextId + 1
    /\ Written(e, nextId)

\* update_one sets the fields given; it matches nothing if the contact is gone.
UpdateContact(e) ==
    /\ edit[e].kind = "update"
    /\ \/ /\ Listed(edit[e].id)
          /\ contacts' = [contacts EXCEPT ![edit[e].id].phone = edit[e].phone]
          /\ UNCHANGED nextId
          /\ Written(e, edit[e].id)
       \/ /\ ~Listed(edit[e].id)
          /\ edit' = [edit EXCEPT ![e] = NoEdit]
          /\ UNCHANGED <<listVars, send, connected, ghostVars>>

\* An update without a number.
SetEnabled(i, b) ==
    /\ Listed(i) /\ contacts[i].enabled # b
    /\ contacts' = [contacts EXCEPT ![i].enabled = b]
    /\ NotePermitted(enforced, contacts')
    /\ UNCHANGED <<enforced, nextId, edit, send, connected, raced, delivered>>

DeleteContact(i) ==
    /\ Listed(i)
    /\ contacts' = [contacts EXCEPT ![i] = None]
    /\ raced' = {p \in raced : i \notin p}
    /\ NotePermitted(enforced, contacts')
    /\ UNCHANGED <<enforced, nextId, edit, send, connected, delivered>>

-----------------------------------------------------------------------------
(* Sending.                                                                *)

\* A number is about to be checked: what is allowed from here on counts.
Watch(s, numbers) ==
    permitted' = [permitted EXCEPT ![s] =
        numbers # <<>> /\ Allowed(enforced, contacts, Head(numbers))]

Turn(s, numbers, report, pc) ==
    /\ send' = [send EXCEPT ![s].pc = pc, ![s].rest = numbers,
                            ![s].gate = FALSE, ![s].report = report]
    /\ Watch(s, numbers)

\* Deviation: the loop goes on to a number after the last.
Finish_OneMore(s, outcome) ==
    /\ Turn(s, Tail(send[s].rest), Append(send[s].report, outcome), "asked")
    /\ UNCHANGED <<listVars, edit, raced>>

\* The number is done with: the next one of a bulk request, or the answer.
Finish(s, outcome) ==
    /\ LET rest == Tail(send[s].rest) IN
       Turn(s, rest, Append(send[s].report, outcome),
            IF rest = <<>> THEN "answered" ELSE "asked")
    /\ UNCHANGED <<listVars, edit, raced>>

\* The call raises: the request ends without a report.
Abort(s) ==
    /\ Turn(s, <<>>, send[s].report, "aborted")
    /\ UNCHANGED <<listVars, edit, raced>>

\* An endpoint is called; a disconnected client answers 503 at once.  Only bulk
\* requests have more than one number.
Ask(s, numbers) ==
    /\ send[s].pc \in {"idle", "answered", "aborted"}
    /\ connected
    /\ send' = [send EXCEPT ![s] = [pc |-> "asked", rest |-> numbers, gate |-> FALSE,
                                    report |-> <<>>, size |-> Len(numbers)]]
    /\ Watch(s, numbers)
    /\ delivered' = [delivered EXCEPT ![s] = {}]
    /\ UNCHANGED <<listVars, edit, connected, raced>>

\* _resolve_recipient: the first contact with that alias, the first whose alias
\* contains the name or is contained in it, enabled or not; then whoever wrote
\* under a similar name, whose number may be the digits of a LID.
Named(names) == {i \in Ids : Listed(i) /\ Alias[i] \cap names # {}}

Resolve(q) ==
    LET found == IF Named({q}) # {} THEN Named({q}) ELSE Named(Near[q])
    IN  IF found = {} THEN Known[q]
        ELSE {contacts[i].phone : i \in {j \in found : \A k \in found : j <= k}}

\* smart/send: a name nobody goes by is answered at once.
AskByName(s, q) == \E n \in Resolve(q) : Ask(s, <<n>>)

Move(s, pc) == send' = [send EXCEPT ![s].pc = pc]

\* check_allowed: the switch first, then the list.
ReadSwitch(s) ==
    /\ send[s].pc = "asked"
    /\ send' = [send EXCEPT ![s].pc = "gated", ![s].gate = enforced]
    /\ UNCHANGED <<listVars, edit, connected, ghostVars>>

Clear(s) ==
    /\ send[s].pc = "gated"
    /\ Decision(send[s].gate, Head(send[s].rest))
    /\ Move(s, "cleared")
    /\ UNCHANGED <<listVars, edit, connected, ghostVars>>

\* Deviation: a number that is refused is left out of the report.
Refuse_Unreported(s) ==
    /\ send[s].pc = "gated"
    /\ ~Decision(send[s].gate, Head(send[s].rest))
    /\ LET rest == Tail(send[s].rest) IN
       Turn(s, rest, send[s].report, IF rest = <<>> THEN "answered" ELSE "asked")
    /\ UNCHANGED <<listVars, edit, connected, raced, delivered>>

Refuse(s) ==
    /\ send[s].pc = "gated"
    /\ ~Decision(send[s].gate, Head(send[s].rest))
    /\ Finish(s, "refused")
    /\ UNCHANGED <<connected, delivered>>

\* send_message and send_media: not connected raises, and so does an upload that
\* is empty or too large, of a single number; a session found gone is logged
\* out; then the length of the number.
Preflight(s) ==
    /\ send[s].pc = "cleared"
    /\ \/ (~connected \/ send[s].size = 1) /\ Abort(s) /\ UNCHANGED connected
       \/ connected /\ connected' = FALSE /\ Finish(s, "failed")
       \/ /\ connected
          /\ IF Len(Head(send[s].rest)) \in DialMin..DialMax
             THEN Move(s, "sending") /\ UNCHANGED <<listVars, edit, raced, permitted>>
             ELSE Finish(s, "failed")
          /\ UNCHANGED connected
    /\ UNCHANGED delivered

\* The lookup fails or the number is not on WhatsApp, and the send is not even
\* tried; or it is, and raises or comes back empty without a delivery.
SendFails(s) ==
    /\ send[s].pc = "sending"
    /\ \E outcome \in {"failed", "raised", "unacknowledged"} : Finish(s, outcome)
    /\ UNCHANGED <<connected, delivered>>

Position(s) == send[s].size - Len(send[s].rest) + 1

\* WhatsApp takes the message.
Deliver(s) ==
    /\ send[s].pc = "sending"
    /\ Move(s, "delivered")
    /\ delivered' = [delivered EXCEPT ![s] = @ \cup {Position(s)}]
    /\ UNCHANGED <<listVars, edit, connected, raced, permitted>>

\* The response comes back, with an id and a timestamp or without, or the call
\* raises all the same (a timeout, a lost connection).
Respond(s) ==
    /\ send[s].pc = "delivered"
    /\ \E outcome \in {"sent", "raised", "unacknowledged"} : Finish(s, outcome)
    /\ UNCHANGED <<connected, delivered>>

ConnectionChanges ==
    /\ connected' = ~connected
    /\ UNCHANGED <<listVars, edit, send, ghostVars>>

-----------------------------------------------------------------------------

Init ==
    /\ enforced = FALSE
    /\ contacts = [i \in Ids |-> None] /\ nextId = 1
    /\ edit = [e \in Editors |-> NoEdit]
    /\ send = [s \in Senders |-> Idle]
    /\ connected = TRUE
    /\ raced = {}
    /\ permitted = [s \in Senders |-> FALSE]
    /\ delivered = [s \in Senders |-> {}]

Editing ==
    \/ Toggle
    \/ \E e \in Editors :
          \/ \E i \in Ids \cup {0}, n \in Numbers : BeginEdit(e, i, n)
          \/ InsertContact(e) \/ UpdateContact(e)
    \/ \E i \in Ids : DeleteContact(i) \/ \E b \in BOOLEAN : SetEnabled(i, b)

BulkLists == UNION {[1..k -> Numbers] : k \in 1..MaxBulk}

Sending == \E s \in Senders :
    \/ \E numbers \in BulkLists : Ask(s, numbers)
    \/ \E q \in Names : AskByName(s, q)
    \/ ReadSwitch(s) \/ Clear(s) \/ Refuse(s) \/ Preflight(s)
    \/ SendFails(s) \/ Deliver(s) \/ Respond(s)

Next == Editing \/ Sending \/ ConnectionChanges

Spec == Init /\ [][Next]_vars

-----------------------------------------------------------------------------
(* Properties.                                                             *)

PCs == {"idle", "asked", "gated", "cleared", "sending", "delivered", "answered", "aborted"}
EditRecord ==
    {NoEdit}
    \cup [kind : {"add"}, id : {0}, phone : Numbers, stale : SUBSET Ids]
    \cup [kind : {"update"}, id : Ids, phone : Numbers, stale : SUBSET Ids]
\* Only "sent" is a success.  The others differ in the error they carry: the
\* permission's reason, what was wrong before the send was tried, the text of
\* the exception the send raised, or "WhatsApp did not acknowledge the send".
Outcomes == {"refused", "failed", "raised", "sent", "unacknowledged"}

\* Type invariant: the list, the edits and the sends stay within their types,
\* ids are never reused, and a send works on a number exactly while it is busy.
TypeOK ==
    /\ enforced \in BOOLEAN /\ connected \in BOOLEAN
    /\ nextId \in 1..MaxContacts + 1
    /\ contacts \in [Ids -> Entry \cup {None}]
    /\ \A i \in Ids : i >= nextId => ~Listed(i)
    /\ edit \in [Editors -> EditRecord]
    /\ send \in [Senders -> [pc : PCs, rest : Seq(Numbers), gate : BOOLEAN,
                             report : Seq(Outcomes), size : Nat]]
    /\ \A s \in Senders :
          Busy(s) <=> send[s].pc \in {"asked", "gated", "cleared", "sending", "delivered"}
    /\ raced \in SUBSET (SUBSET Ids)
    /\ permitted \in [Senders -> BOOLEAN]
    /\ delivered \in [Senders -> SUBSET Int]

\* Two contacts with matching numbers exist only if the later of the two was
\* written by a request that had read the list before the other was in it: no
\* sequence of edits, deletions and updates one after the other gets there
\* (add_contact, update_contact).
DuplicatesOnlyFromRaces ==
    \A i, j \in Ids :
        i # j /\ Listed(i) /\ Listed(j) /\ PhonesMatch(contacts[i].phone, contacts[j].phone)
        => {i, j} \in raced

\* Whoever is written to was allowed, by the rule check_allowed documents, at
\* some moment since the check of that number began: reading the switch and the
\* list apart, with edits in between, lets nobody else through.
SentWasAllowed ==
    \A s \in Senders :
        send[s].pc \in {"cleared", "sending", "delivered"} => permitted[s]

\* The report of a request has a line for every number, in order, whichever of
\* the others were refused, failed or lost: sent was delivered, and what was
\* refused or failed before the send was tried was not (send_bulk_messages).  A
\* line with the text of an exception, or without an acknowledgement, leaves it
\* open: success is FALSE there although WhatsApp may have the message.  A
\* request that raises has no report.
ReportMatches ==
    \A s \in Senders : send[s].pc = "answered" =>
        /\ Len(send[s].report) = send[s].size
        /\ \A k \in 1..send[s].size :
              /\ send[s].report[k] = "sent" => k \in delivered[s]
              /\ send[s].report[k] \in {"refused", "failed"} => k \notin delivered[s]
=============================================================================
