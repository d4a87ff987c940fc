---------------------------- MODULE AllowListProofs ----------------------------
(* Type correctness, the races behind duplicates, the decision to send and   *)
(* the reports of AllowList, for any list, any matching threshold and any    *)
(* number of concurrent requests.                                            *)
EXTENDS AllowList, TLAPS

Working == {"asked", "gated", "cleared", "sending", "delivered"}

USE DEF listVars, ghostVars

\* The parts of the type invariant that concern the list, and those of a send.
ListTypes ==
    /\ enforced \in BOOLEAN /\ connected \in BOOLEAN
    /\ nextId \in 1..MaxContacts + 1
    /\ contacts \in [Ids -> Entry \cup {None}]
    /\ \A i \in Ids : i >= nextId => ~Listed(i)
    /\ edit \in [Editors -> EditRecord]
    /\ raced \in SUBSET (SUBSET Ids)

SendRecord == [pc : PCs, rest : Seq(Numbers), gate : BOOLEAN,
               report : Seq(Outcomes), size : Nat]

SendTypes ==
    /\ send \in [Senders -> SendRecord]
    /\ \A s \in Senders : send[s].rest # <<>> <=> send[s].pc \in Working
    /\ permitted \in [Senders -> BOOLEAN]
    /\ delivered \in [Senders -> SUBSET Int]

LEMMA TypeParts == TypeOK <=> ListTypes /\ SendTypes
BY DEF TypeOK, ListTypes, SendTypes, SendRecord, Busy, Working

\* An entry is a record, and None is not one.
LEMMA NoneIsNoEntry == None \notin Entry
BY AllowListAssumption DEF AllowListAssumption, Entry

\* Matching does not depend on which number is the stored one.
LEMMA MatchSymmetric ==
    ASSUME NEW a, NEW b PROVE PhonesMatch(a, b) <=> PhonesMatch(b, a)
BY DEF PhonesMatch

-----------------------------------------------------------------------------
(* Types.                                                                   *)

\* What an edit in flight carries.
LEMMA EditParts ==
    ASSUME NEW d \in EditRecord, d # NoEdit
    PROVE  /\ d.stale \in SUBSET Ids /\ d.phone \in Numbers
           /\ d.kind \in {"add", "update"}
           /\ d.kind = "update" => d.id \in Ids
           /\ d.kind = "add" => d.id = 0
BY DEF EditRecord

\* Seeing one more write keeps an edit an edit.
LEMMA StaleEdit ==
    ASSUME NEW d \in EditRecord, NEW i \in Ids, d # NoEdit
    PROVE  [d EXCEPT !.stale = @ \cup {i}] \in EditRecord
BY DEF EditRecord

LEMMA WrittenTypes ==
    ASSUME ListTypes, NEW e \in Editors, NEW i \in Ids, Written(e, i), edit[e] # NoEdit
    PROVE  edit' \in [Editors -> EditRecord] /\ raced' \in SUBSET (SUBSET Ids)
<1>1. \A f \in Editors : edit[f] \in EditRecord
  BY DEF ListTypes
<1>2. NoEdit \in EditRecord
  BY DEF EditRecord
<1>3. \A f \in Editors : edit'[f] \in EditRecord
  BY <1>1, <1>2, StaleEdit DEF Written
<1>4. edit' \in [Editors -> EditRecord]
  BY <1>3 DEF Written
<1>5. edit[e].stale \in SUBSET Ids
  BY <1>1, EditParts
<1>6. raced' \in SUBSET (SUBSET Ids)
  BY <1>5 DEF Written, ListTypes
<1>. QED  BY <1>4, <1>6

LEMMA EditingTypes == ListTypes /\ Editing => ListTypes'
<1>. SUFFICES ASSUME ListTypes, Editing PROVE ListTypes'
  OBVIOUS
<1>. USE DEF Listed
<1>1. CASE Toggle
  BY <1>1 DEF Toggle, ListTypes
<1>2. ASSUME NEW e \in Editors, NEW i \in Ids \cup {0}, NEW n \in Numbers, BeginEdit(e, i, n)
      PROVE  ListTypes'
  <2>1. [kind |-> IF i = 0 THEN "add" ELSE "update", id |-> i, phone |-> n, stale |-> {}]
            \in EditRecord
    BY DEF EditRecord
  <2>2. edit' \in [Editors -> EditRecord]
    BY <1>2, <2>1 DEF BeginEdit, ListTypes
  <2>. QED  BY <1>2, <2>2 DEF BeginEdit, ListTypes
<1>3. ASSUME NEW e \in Editors, InsertContact(e) PROVE ListTypes'
  <2>1. nextId \in Ids /\ nextId' \in 1..MaxContacts + 1
    BY <1>3, AllowListAssumption DEF InsertContact, ListTypes, Ids, AllowListAssumption
  <2>2. edit[e] # NoEdit /\ edit[e] \in EditRecord
    BY <1>3 DEF InsertContact, ListTypes, NoEdit
  <2>3. edit[e].phone \in Numbers
    BY <2>2, EditParts
  <2>4. contacts' \in [Ids -> Entry \cup {None}]
    BY <1>3, <2>1, <2>3 DEF InsertContact, ListTypes, Entry
  <2>5. \A i \in Ids : i >= nextId' => contacts'[i] = None
    <3>1. SUFFICES ASSUME NEW i \in Ids, i >= nextId' PROVE contacts'[i] = None
      OBVIOUS
    <3>2. i # nextId /\ i >= nextId
      <4>1. i >= nextId + 1 /\ i \in Int /\ nextId \in Int
        BY <1>3, <2>1, <3>1 DEF InsertContact, Ids
      <4>. QED  BY <4>1
    <3>3. contacts'[i] = contacts[i]
      BY <1>3, <3>1, <3>2 DEF InsertContact, ListTypes
    <3>4. contacts[i] = None
      BY <3>1, <3>2 DEF ListTypes
    <3>. QED  BY <3>3, <3>4
  <2>6. edit' \in [Editors -> EditRecord] /\ raced' \in SUBSET (SUBSET Ids)
    BY <1>3, <2>1, <2>2, WrittenTypes DEF InsertContact
  <2>7. UNCHANGED <<enforced, connected>>
    BY <1>3 DEF InsertContact, Written
  <2>. QED  BY <2>1, <2>4, <2>5, <2>6, <2>7 DEF ListTypes
<1>4. ASSUME NEW e \in Editors, UpdateContact(e) PROVE ListTypes'
  <2>1. edit[e] # NoEdit /\ edit[e] \in EditRecord
    BY <1>4 DEF UpdateContact, ListTypes, NoEdit
  <2>2. edit[e].id \in Ids /\ edit[e].phone \in Numbers
    BY <1>4, <2>1, EditParts DEF UpdateContact
  <2>3. CASE Listed(edit[e].id)
    <3>1. contacts[edit[e].id] \in Entry
      BY <2>2, <2>3 DEF ListTypes
    <3>2. contacts' = [contacts EXCEPT ![edit[e].id].phone = edit[e].phone]
      BY <1>4, <2>3 DEF UpdateContact
    <3>3. [contacts[edit[e].id] EXCEPT !.phone = edit[e].phone] \in Entry
      BY <2>2, <3>1 DEF Entry
    <3>4. contacts' \in [Ids -> Entry \cup {None}]
      BY <3>2, <3>3 DEF ListTypes
    <3>5. \A i \in Ids : i >= nextId => contacts'[i] = None
      BY <3>2, <2>2, <2>3 DEF ListTypes
    <3>6. edit' \in [Editors -> EditRecord] /\ raced' \in SUBSET (SUBSET Ids)
      BY <1>4, <2>1, <2>2, <2>3, WrittenTypes DEF UpdateContact
    <3>7. UNCHANGED <<enforced, nextId, connected>>
      BY <1>4, <2>3 DEF UpdateContact, Written
    <3>. QED  BY <3>4, <3>5, <3>6, <3>7 DEF ListTypes
  <2>4. CASE ~Listed(edit[e].id)
    <3>1. NoEdit \in EditRecord
      BY DEF EditRecord
    <3>2. edit' = [edit EXCEPT ![e] = NoEdit] /\ UNCHANGED <<listVars, connected, raced>>
      BY <1>4, <2>4 DEF UpdateContact
    <3>. QED  BY <3>1, <3>2 DEF ListTypes
  <2>. QED  BY <2>3, <2>4
<1>5. ASSUME NEW i \in Ids, DeleteContact(i) PROVE ListTypes'
  BY <1>5 DEF DeleteContact, ListTypes
<1>6. ASSUME NEW i \in Ids, NEW b \in BOOLEAN, SetEnabled(i, b) PROVE ListTypes'
  BY <1>6, NoneIsNoEntry DEF SetEnabled, ListTypes, Entry
<1>. QED  BY <1>1, <1>2, <1>3, <1>4, <1>5, <1>6 DEF Editing

\* A finished number keeps a send well typed.
LEMMA TurnTypes ==
    ASSUME SendTypes, NEW s \in Senders, NEW numbers \in Seq(Numbers),
           NEW report \in Seq(Outcomes), NEW pc \in PCs, Turn(s, numbers, report, pc),
           numbers # <<>> <=> pc \in Working, delivered' \in [Senders -> SUBSET Int]
    PROVE  SendTypes'
<1>1. [send[s] EXCEPT !.pc = pc, !.rest = numbers, !.gate = FALSE, !.report = report]
          \in SendRecord
  BY DEF SendTypes, SendRecord
<1>2. send' = [send EXCEPT ![s] = [send[s] EXCEPT !.pc = pc, !.rest = numbers,
                                                  !.gate = FALSE, !.report = report]]
  BY DEF Turn, SendTypes, SendRecord
<1>3. send' \in [Senders -> SendRecord]
  BY <1>1, <1>2 DEF SendTypes
<1>4. \A t \in Senders : send'[t].rest # <<>> <=> send'[t].pc \in Working
  BY <1>2 DEF SendTypes, SendRecord
<1>5. permitted' \in [Senders -> BOOLEAN]
  BY DEF Turn, Watch, SendTypes, Allowed
<1>. QED  BY <1>3, <1>4, <1>5 DEF SendTypes

\* The tail of the numbers still to do and the report with one more line.
LEMMA FinishTypes ==
    ASSUME SendTypes, NEW s \in Senders, NEW outcome \in Outcomes, Finish(s, outcome),
           send[s].pc \in Working, delivered' \in [Senders -> SUBSET Int]
    PROVE  SendTypes'
<1>1. send[s].rest \in Seq(Numbers) /\ send[s].report \in Seq(Outcomes) /\ send[s].rest # <<>>
  BY DEF SendTypes, SendRecord
<1>2. Tail(send[s].rest) \in Seq(Numbers)
  BY <1>1
<1>3. Append(send[s].report, outcome) \in Seq(Outcomes)
  BY <1>1
<1>. QED  BY <1>2, <1>3, TurnTypes DEF Finish, PCs, Working

LEMMA MoveTypes ==
    ASSUME SendTypes, NEW s \in Senders, NEW pc \in Working, Move(s, pc),
           send[s].pc \in Working, permitted' \in [Senders -> BOOLEAN],
           delivered' \in [Senders -> SUBSET Int]
    PROVE  SendTypes'
<1>1. [send[s] EXCEPT !.pc = pc] \in SendRecord
  BY DEF SendTypes, SendRecord, Working, PCs
<1>. QED  BY <1>1 DEF Move, SendTypes, SendRecord

LEMMA EditingKeepsSends == SendTypes /\ Editing => SendTypes'
<1>. SUFFICES ASSUME SendTypes, Editing PROVE SendTypes'
  OBVIOUS
<1>1. UNCHANGED <<send, delivered>>
  BY DEF Editing, Toggle, BeginEdit, InsertContact, UpdateContact, Written, SetEnabled, DeleteContact
<1>2. permitted' \in [Senders -> BOOLEAN]
  BY DEF Editing, Toggle, BeginEdit, InsertContact, UpdateContact, Written, SetEnabled,
         DeleteContact, NotePermitted, Allowed, Busy, SendTypes
<1>. QED  BY <1>1, <1>2 DEF SendTypes

\* Numbers that a name stands for are numbers.
LEMMA ResolveTypes ==
    ASSUME ListTypes, NEW q \in Names PROVE Resolve(q) \subseteq Numbers
<1>1. \A i \in Ids : Listed(i) => contacts[i].phone \in Numbers
  BY DEF ListTypes, Listed, Entry
<1>2. Known[q] \subseteq Numbers
  BY AllowListAssumption DEF AllowListAssumption
<1>. QED  BY <1>1, <1>2 DEF Resolve, Named

LEMMA AskTypes ==
    ASSUME SendTypes, NEW s \in Senders, NEW numbers \in Seq(Numbers), numbers # <<>>,
           Ask(s, numbers)
    PROVE  SendTypes'
<1>1. [pc |-> "asked", rest |-> numbers, gate |-> FALSE, report |-> <<>>, size |-> Len(numbers)]
          \in SendRecord
  BY DEF SendRecord, PCs
<1>2. permitted' \in [Senders -> BOOLEAN]
  BY DEF Ask, Watch, SendTypes, Allowed
<1>3. delivered' \in [Senders -> SUBSET Int]
  BY DEF Ask, SendTypes
<1>4. send' \in [Senders -> SendRecord]
  BY <1>1 DEF Ask, SendTypes
<1>5. \A t \in Senders : send'[t].rest # <<>> <=> send'[t].pc \in Working
  BY <1>1 DEF Ask, SendTypes, Working
<1>. QED  BY <1>2, <1>3, <1>4, <1>5 DEF SendTypes

LEMMA SendingTypes == ListTypes /\ SendTypes /\ Sending => ListTypes' /\ SendTypes'
<1>. SUFFICES ASSUME ListTypes, SendTypes, Sending PROVE ListTypes' /\ SendTypes'
  OBVIOUS
<1>1. ASSUME NEW s \in Senders, NEW numbers \in BulkLists, Ask(s, numbers)
      PROVE  ListTypes' /\ SendTypes'
  <2>1. numbers \in Seq(Numbers) /\ numbers # <<>>
    BY DEF BulkLists
  <2>. QED  BY <1>1, <2>1, AskTypes DEF Ask, ListTypes, Listed
<1>2. ASSUME NEW s \in Senders, NEW q \in Names, AskByName(s, q)
      PROVE  ListTypes' /\ SendTypes'
  <2>1. PICK n \in Resolve(q) : Ask(s, <<n>>)
    BY <1>2 DEF AskByName
  <2>2. <<n>> \in Seq(Numbers) /\ <<n>> # <<>>
    BY ResolveTypes
  <2>. QED  BY <2>1, <2>2, AskTypes DEF Ask, ListTypes, Listed
<1>3. ASSUME NEW s \in Senders, ReadSwitch(s) PROVE ListTypes' /\ SendTypes'
  <2>1. [send[s] EXCEPT !.pc = "gated", !.gate = enforced] \in SendRecord
    BY DEF SendTypes, SendRecord, PCs, ListTypes
  <2>2. send' = [send EXCEPT ![s] = [send[s] EXCEPT !.pc = "gated", !.gate = enforced]]
    BY <1>3 DEF ReadSwitch, SendTypes, SendRecord
  <2>3. send' \in [Senders -> SendRecord]
    BY <2>1, <2>2 DEF SendTypes
  <2>4. \A t \in Senders : send'[t].rest # <<>> <=> send'[t].pc \in Working
    BY <1>3, <2>2 DEF ReadSwitch, SendTypes, SendRecord, Working
  <2>. QED  BY <1>3, <2>3, <2>4 DEF ReadSwitch, SendTypes, ListTypes, Listed
<1>4. ASSUME NEW s \in Senders, Clear(s) PROVE ListTypes' /\ SendTypes'
  BY <1>4, MoveTypes DEF Clear, SendTypes, Working, ListTypes, Listed
<1>5. ASSUME NEW s \in Senders, Refuse(s) PROVE ListTypes' /\ SendTypes'
  <2>1. SendTypes'
    BY <1>5, FinishTypes DEF Refuse, SendTypes, Working, Outcomes
  <2>. QED  BY <1>5, <2>1 DEF Refuse, Finish, ListTypes, Listed
<1>6. ASSUME NEW s \in Senders, Preflight(s) PROVE ListTypes' /\ SendTypes'
  <2>1. send[s].pc \in Working /\ delivered' \in [Senders -> SUBSET Int]
    BY <1>6 DEF Preflight, SendTypes, Working
  <2>2. ASSUME Abort(s) PROVE SendTypes'
    <3>1. send[s].report \in Seq(Outcomes) /\ <<>> \in Seq(Numbers)
      BY DEF SendTypes, SendRecord
    <3>2. Turn(s, <<>>, send[s].report, "aborted")
      BY <2>2 DEF Abort
    <3>3. "aborted" \in PCs /\ (<<>> # <<>> <=> "aborted" \in Working)
      BY DEF PCs, Working
    <3>. QED  BY <2>1, <3>1, <3>2, <3>3, TurnTypes
  <2>3. ASSUME Finish(s, "failed") PROVE SendTypes'
    BY <2>1, <2>3, FinishTypes DEF Outcomes
  <2>4. ASSUME Move(s, "sending"), UNCHANGED permitted PROVE SendTypes'
    BY <2>1, <2>4, MoveTypes DEF Working, SendTypes
  <2>5. SendTypes'
    BY <1>6, <2>2, <2>3, <2>4 DEF Preflight
  <2>6. UNCHANGED <<listVars, edit, raced>> /\ connected' \in BOOLEAN
    BY <1>6 DEF Preflight, Abort, Finish, ListTypes
  <2>. QED  BY <2>5, <2>6 DEF ListTypes, Listed
<1>7. ASSUME NEW s \in Senders, SendFails(s) PROVE ListTypes' /\ SendTypes'
  <2>1. PICK outcome \in {"failed", "raised", "unacknowledged"} : Finish(s, outcome)
    BY <1>7 DEF SendFails
  <2>2. SendTypes'
    BY <1>7, <2>1, FinishTypes DEF SendFails, SendTypes, Working, Outcomes
  <2>. QED  BY <1>7, <2>1, <2>2 DEF SendFails, Finish, ListTypes, Listed
<1>8. ASSUME NEW s \in Senders, Deliver(s) PROVE ListTypes' /\ SendTypes'
  <2>1. send[s].rest \in Seq(Numbers) /\ send[s].size \in Nat
    BY DEF SendTypes, SendRecord
  <2>2. Position(s) \in Int
    BY <2>1 DEF Position
  <2>3. delivered' \in [Senders -> SUBSET Int]
    BY <1>8, <2>2 DEF Deliver, SendTypes
  <2>4. SendTypes'
    BY <1>8, <2>3, MoveTypes DEF Deliver, SendTypes, Working
  <2>. QED  BY <1>8, <2>4 DEF Deliver, ListTypes, Listed
<1>9. ASSUME NEW s \in Senders, Respond(s) PROVE ListTypes' /\ SendTypes'
  <2>1. PICK outcome \in {"sent", "raised", "unacknowledged"} : Finish(s, outcome)
    BY <1>9 DEF Respond
  <2>2. SendTypes'
    BY <1>9, <2>1, FinishTypes DEF Respond, SendTypes, Working, Outcomes
  <2>. QED  BY <1>9, <2>1, <2>2 DEF Respond, Finish, ListTypes, Listed
<1>. QED
  BY <1>1, <1>2, <1>3, <1>4, <1>5, <1>6, <1>7, <1>8, <1>9 DEF Sending

\* The list, the edits and the sends stay within their types.
THEOREM AllowListTypes == Spec => []TypeOK
<1>1. Init => ListTypes /\ SendTypes
  <2>. SUFFICES ASSUME Init PROVE ListTypes /\ SendTypes
    OBVIOUS
  <2>1. Idle \in SendRecord /\ Idle.rest = <<>> /\ Idle.pc \notin Working
    BY DEF Idle, SendRecord, PCs, Working
  <2>2. NoEdit \in EditRecord
    BY DEF EditRecord
  <2>3. 1 \in 1..MaxContacts + 1
    BY AllowListAssumption DEF AllowListAssumption
  <2>4. SendTypes
    BY <2>1 DEF Init, SendTypes
  <2>. QED  BY <2>2, <2>3, <2>4 DEF Init, ListTypes, Listed
<1>2. ListTypes /\ SendTypes /\ [Next]_vars => ListTypes' /\ SendTypes'
  <2>. SUFFICES ASSUME ListTypes, SendTypes, [Next]_vars PROVE ListTypes' /\ SendTypes'
    OBVIOUS
  <2>1. CASE ConnectionChanges
    BY <2>1 DEF ConnectionChanges, ListTypes, SendTypes, Listed
  <2>2. CASE UNCHANGED vars
    BY <2>2 DEF vars, ListTypes, SendTypes, Listed
  <2>3. CASE Editing
    BY <2>3, EditingTypes, EditingKeepsSends
  <2>4. CASE Sending
    BY <2>4, SendingTypes
  <2>. QED  BY <2>1, <2>2, <2>3, <2>4 DEF Next
<1>. QED  BY <1>1, <1>2, TypeParts, PTL DEF Spec

-----------------------------------------------------------------------------
(* Duplicates.  An edit in flight clashes with no contact but those written *)
(* since it read the list; that is what its own write turns into a pair of  *)
(* contacts that do not match, or that raced.                               *)

InFlight(e) == edit[e] # NoEdit

EditsSawTheRest ==
    \A e \in Editors : InFlight(e) =>
        \A j \in Ids : Listed(j) /\ j # edit[e].id /\ j \notin edit[e].stale
                     => ~PhonesMatch(contacts[j].phone, edit[e].phone)

Races == DuplicatesOnlyFromRaces /\ EditsSawTheRest

\* The write of a number keeps both, be it an insertion or an update.
LEMMA WriteKeepsRaces ==
    ASSUME ListTypes, Races, NEW e \in Editors, NEW i \in Ids, InFlight(e), Written(e, i),
           \A j \in Ids : j # i => contacts'[j] = contacts[j],
           contacts'[i] # None, contacts'[i].phone = edit[e].phone,
           edit[e].id \in {i, 0}
    PROVE  Races'
<1>a. \A f \in Editors : edit[f] \in EditRecord
  BY DEF ListTypes
<1>b. edit[e].stale \in SUBSET Ids
  BY <1>a, EditParts DEF InFlight
<1>1. ASSUME NEW j \in Ids, NEW k \in Ids, j # k, Listed(j)', Listed(k)',
             PhonesMatch(contacts'[j].phone, contacts'[k].phone)
      PROVE  {j, k} \in raced'
  <2>1. CASE j # i /\ k # i
    <3>1. {j, k} \in raced
      BY <1>1, <2>1 DEF Races, DuplicatesOnlyFromRaces, Listed
    <3>. QED  BY <2>1, <3>1 DEF Written
  <2>2. ASSUME NEW l \in Ids, l # i, Listed(l)', PhonesMatch(contacts'[l].phone, edit[e].phone)
        PROVE  {i, l} \in raced'
    <3>1. Listed(l) /\ contacts[l].phone = contacts'[l].phone
      BY <2>2 DEF Listed
    <3>2. l # edit[e].id
      BY <2>2, AllowListAssumption DEF Ids, AllowListAssumption
    <3>3. l \in edit[e].stale
      BY <2>2, <3>1, <3>2 DEF Races, EditsSawTheRest
    <3>. QED  BY <2>2, <3>3 DEF Written
  <2>3. CASE j = i
    BY <1>1, <2>2, <2>3, MatchSymmetric
  <2>4. CASE k = i
    <3>1. {i, j} \in raced'
      BY <1>1, <2>2, <2>4
    <3>2. {i, j} = {j, k}
      BY <2>4
    <3>. QED  BY <3>1, <3>2
  <2>. QED  BY <2>1, <2>3, <2>4
<1>2. ASSUME NEW f \in Editors, InFlight(f)',
             NEW j \in Ids, Listed(j)', j # edit'[f].id, j \notin edit'[f].stale
      PROVE  ~PhonesMatch(contacts'[j].phone, edit'[f].phone)
  <2>1. InFlight(f) /\ edit'[f] = [edit[f] EXCEPT !.stale = @ \cup {i}]
    BY <1>2 DEF Written, InFlight
  <2>2. /\ edit'[f].id = edit[f].id /\ edit'[f].phone = edit[f].phone
        /\ edit'[f].stale = edit[f].stale \cup {i}
    BY <2>1, <1>a DEF EditRecord, InFlight
  <2>3. j # i /\ contacts'[j] = contacts[j]
    BY <1>2, <2>2
  <2>. QED  BY <1>2, <2>1, <2>2, <2>3 DEF Races, EditsSawTheRest, Listed
<1>3. DuplicatesOnlyFromRaces'
  BY <1>1 DEF DuplicatesOnlyFromRaces
<1>4. EditsSawTheRest'
  BY <1>2 DEF EditsSawTheRest
<1>. QED  BY <1>3, <1>4 DEF Races

LEMMA RacesStep == ListTypes /\ Races /\ [Next]_vars => Races'
<1>. SUFFICES ASSUME ListTypes, Races, [Next]_vars PROVE Races'
  OBVIOUS
<1>. USE DEF Listed, InFlight
<1>1. ASSUME UNCHANGED <<contacts, edit, raced>> PROVE Races'
  BY <1>1 DEF Races, DuplicatesOnlyFromRaces, EditsSawTheRest
<1>2. ASSUME NEW e \in Editors, NEW i \in Ids \cup {0}, NEW n \in Numbers, BeginEdit(e, i, n)
      PROVE  Races'
  <2>1. edit' = [edit EXCEPT ![e] = [kind |-> IF i = 0 THEN "add" ELSE "update",
                                     id |-> i, phone |-> n, stale |-> {}]]
    BY <1>2 DEF BeginEdit
  <2>2. \A j \in Ids : Listed(j) /\ j # i => ~PhonesMatch(contacts[j].phone, n)
    BY <1>2 DEF BeginEdit, Free, Matching
  <2>3. EditsSawTheRest'
    BY <1>2, <2>1, <2>2 DEF BeginEdit, Races, EditsSawTheRest, ListTypes
  <2>. QED  BY <1>2, <2>3 DEF BeginEdit, Races, DuplicatesOnlyFromRaces
<1>3. ASSUME NEW e \in Editors, InsertContact(e) PROVE Races'
  <2>1. nextId \in Ids /\ ~Listed(nextId) /\ edit[e] # NoEdit
    BY <1>3, AllowListAssumption
    DEF InsertContact, ListTypes, Ids, NoEdit, AllowListAssumption
  <2>2. PICK b \in BOOLEAN :
            contacts' = [contacts EXCEPT ![nextId] = [phone |-> edit[e].phone, enabled |-> b]]
    BY <1>3 DEF InsertContact
  <2>3. edit[e] \in EditRecord
    BY DEF ListTypes
  <2>4. [phone |-> edit[e].phone, enabled |-> b] \in Entry
    BY <2>1, <2>3, EditParts DEF Entry
  <2>5. contacts'[nextId] = [phone |-> edit[e].phone, enabled |-> b] /\ contacts'[nextId] # None
    BY <2>1, <2>2, <2>4, NoneIsNoEntry DEF ListTypes
  <2>6. \A j \in Ids : j # nextId => contacts'[j] = contacts[j]
    BY <2>2 DEF ListTypes
  <2>7. edit[e].id = 0
    BY <1>3, <2>1, <2>3, EditParts DEF InsertContact
  <2>. QED  BY <1>3, <2>1, <2>5, <2>6, <2>7, WriteKeepsRaces DEF InsertContact
<1>4. ASSUME NEW e \in Editors, UpdateContact(e) PROVE Races'
  <2>1. edit[e] # NoEdit /\ edit[e] \in EditRecord
    BY <1>4 DEF UpdateContact, ListTypes, NoEdit
  <2>2. edit[e].id \in Ids /\ edit[e].phone \in Numbers
    BY <1>4, <2>1, EditParts DEF UpdateContact
  <2>3. CASE Listed(edit[e].id)
    <3>1. contacts[edit[e].id] \in Entry
      BY <2>2, <2>3 DEF ListTypes
    <3>2. contacts'[edit[e].id] = [contacts[edit[e].id] EXCEPT !.phone = edit[e].phone]
      BY <1>4, <2>2, <2>3 DEF UpdateContact, ListTypes
    <3>3. contacts'[edit[e].id].phone = edit[e].phone /\ contacts'[edit[e].id] \in Entry
      BY <2>2, <3>1, <3>2 DEF Entry
    <3>4. \A j \in Ids : j # edit[e].id => contacts'[j] = contacts[j]
      BY <1>4, <2>3 DEF UpdateContact, ListTypes
    <3>5. Written(e, edit[e].id)
      BY <1>4, <2>3 DEF UpdateContact
    <3>6. contacts'[edit[e].id] # None
      BY <3>3, NoneIsNoEntry
    <3>. QED  BY <2>1, <2>2, <3>3, <3>4, <3>5, <3>6, WriteKeepsRaces
  <2>4. CASE ~Listed(edit[e].id)
    <3>1. edit' = [edit EXCEPT ![e] = NoEdit] /\ UNCHANGED <<contacts, raced>>
      BY <1>4, <2>4 DEF UpdateContact
    <3>. QED
      BY <3>1 DEF Races, DuplicatesOnlyFromRaces, EditsSawTheRest, ListTypes
  <2>. QED  BY <2>3, <2>4
<1>5. ASSUME NEW i \in Ids, DeleteContact(i) PROVE Races'
  <2>1. \A j \in Ids : contacts'[j] # None => j # i /\ contacts'[j] = contacts[j]
    BY <1>5 DEF DeleteContact, ListTypes
  <2>. QED  BY <1>5, <2>1 DEF DeleteContact, Races, DuplicatesOnlyFromRaces, EditsSawTheRest
<1>6. ASSUME NEW i \in Ids, NEW b \in BOOLEAN, SetEnabled(i, b) PROVE Races'
  <2>1. \A j \in Ids : contacts'[j] # None =>
            contacts[j] # None /\ contacts'[j].phone = contacts[j].phone
    BY <1>6 DEF SetEnabled, ListTypes, Entry
  <2>. QED  BY <1>6, <2>1 DEF SetEnabled, Races, DuplicatesOnlyFromRaces, EditsSawTheRest
<1>7. CASE Toggle
  BY <1>1, <1>7 DEF Toggle
<1>8. CASE Sending
  BY <1>1, <1>8
  DEF Sending, Ask, AskByName, ReadSwitch, Clear, Refuse, Preflight, SendFails, Deliver,
      Respond, Finish, Abort
<1>9. CASE ConnectionChanges \/ UNCHANGED vars
  BY <1>1, <1>9 DEF ConnectionChanges, vars
<1>. QED
  BY <1>2, <1>3, <1>4, <1>5, <1>6, <1>7, <1>8, <1>9 DEF Next, Editing

\* Contacts with matching numbers come only from edits that overlapped.
THEOREM DuplicatesRaced == Spec => []DuplicatesOnlyFromRaces
<1>1. Init => Races
  BY DEF Init, Races, DuplicatesOnlyFromRaces, EditsSawTheRest, Listed, InFlight
<1>2. Spec => []ListTypes
  BY AllowListTypes, TypeParts, PTL
<1>3. Races => DuplicatesOnlyFromRaces
  BY DEF Races
<1>. QED  BY <1>1, <1>2, <1>3, RacesStep, PTL DEF Spec

-----------------------------------------------------------------------------
(* The decision.  What the list allows while a send is busy is noted; a send *)
(* that read the switch open has been allowed since, and a match of the list *)
(* as it is read allows it now.                                              *)

Noted ==
    \A s \in Senders :
        /\ Busy(s) /\ Allowed(enforced, contacts, Head(send[s].rest)) => permitted[s]
        /\ send[s].pc = "gated" /\ ~send[s].gate => permitted[s]
        /\ send[s].pc \in {"cleared", "sending", "delivered"} => permitted[s]

\* The first match being enabled is a match being enabled.
LEMMA DecisionAllows ==
    ASSUME NEW n, Decision(TRUE, n) PROVE Allowed(enforced, contacts, n)
BY DEF Decision, Allowed, Matching, Listed

LEMMA TurnNotes ==
    ASSUME SendTypes, Noted, NEW s \in Senders, NEW numbers, NEW report,
           NEW pc \in {"asked", "answered", "aborted"}, Turn(s, numbers, report, pc),
           UNCHANGED <<enforced, contacts>>
    PROVE  Noted'
<1>1. /\ send'[s].pc = pc /\ send'[s].rest = numbers
      /\ \A t \in Senders : t # s => send'[t] = send[t] /\ permitted'[t] = permitted[t]
      /\ permitted'[s] = (numbers # <<>> /\ Allowed(enforced, contacts, Head(numbers)))
  BY DEF Turn, Watch, SendTypes, SendRecord
<1>2. \A n : Allowed(enforced, contacts, n)' = Allowed(enforced, contacts, n)
  BY DEF Allowed
<1>. QED  BY <1>1, <1>2 DEF Noted, Busy, Allowed

LEMMA NotedStep == SendTypes /\ Noted /\ [Next]_vars => Noted'
<1>. SUFFICES ASSUME SendTypes, Noted, [Next]_vars PROVE Noted'
  OBVIOUS
<1>1. ASSUME UNCHANGED <<enforced, contacts, send, permitted>> PROVE Noted'
  BY <1>1 DEF Noted, Busy, Allowed
<1>2. ASSUME UNCHANGED send, NotePermitted(enforced', contacts') PROVE Noted'
  BY <1>2 DEF Noted, NotePermitted, Busy
<1>3. CASE Editing
  <2>1. CASE Toggle
    BY <1>2, <2>1 DEF Toggle, NotePermitted
  <2>2. ASSUME NEW e \in Editors, InsertContact(e) PROVE Noted'
    BY <1>2, <2>2 DEF InsertContact, Written, NotePermitted
  <2>3. ASSUME NEW e \in Editors, UpdateContact(e) PROVE Noted'
    BY <1>1, <1>2, <2>3 DEF UpdateContact, Written, NotePermitted
  <2>4. ASSUME NEW i \in Ids, DeleteContact(i) PROVE Noted'
    BY <1>2, <2>4 DEF DeleteContact, NotePermitted
  <2>5. ASSUME NEW i \in Ids, NEW b \in BOOLEAN, SetEnabled(i, b) PROVE Noted'
    BY <1>2, <2>5 DEF SetEnabled, NotePermitted
  <2>6. ASSUME NEW e \in Editors, NEW i \in Ids \cup {0}, NEW n \in Numbers, BeginEdit(e, i, n)
        PROVE  Noted'
    BY <1>1, <2>6 DEF BeginEdit
  <2>. QED  BY <1>3, <2>1, <2>2, <2>3, <2>4, <2>5, <2>6 DEF Editing
<1>4. ASSUME NEW s \in Senders, NEW numbers, Ask(s, numbers) PROVE Noted'
  <2>1. /\ send'[s].pc = "asked" /\ send'[s].rest = numbers
        /\ \A t \in Senders : t # s => send'[t] = send[t] /\ permitted'[t] = permitted[t]
        /\ permitted'[s] = (numbers # <<>> /\ Allowed(enforced, contacts, Head(numbers)))
        /\ UNCHANGED <<enforced, contacts>>
    BY <1>4 DEF Ask, Watch, SendTypes
  <2>. QED  BY <2>1 DEF Noted, Busy, Allowed
<1>5. ASSUME NEW s \in Senders, ReadSwitch(s) PROVE Noted'
  <2>1. /\ send'[s].pc = "gated" /\ send'[s].gate = enforced /\ send'[s].rest = send[s].rest
        /\ \A t \in Senders : t # s => send'[t] = send[t]
        /\ UNCHANGED <<enforced, contacts, permitted>>
    BY <1>5 DEF ReadSwitch, SendTypes, SendRecord
  <2>2. Busy(s)
    BY <1>5 DEF ReadSwitch, SendTypes, Busy, Working
  <2>3. ~enforced => permitted[s]
    BY <2>2 DEF Noted, Allowed
  <2>. QED  BY <2>1, <2>3 DEF Noted, Busy, Allowed
<1>6. ASSUME NEW s \in Senders, NEW pc \in {"cleared", "sending", "delivered"}, Move(s, pc),
             permitted[s], UNCHANGED <<enforced, contacts, permitted>>
      PROVE  Noted'
  <2>1. /\ send'[s].pc = pc /\ send'[s].rest = send[s].rest
        /\ \A t \in Senders : t # s => send'[t] = send[t]
    BY <1>6 DEF Move, SendTypes, SendRecord
  <2>. QED  BY <1>6, <2>1 DEF Noted, Busy, Allowed
<1>7. ASSUME NEW s \in Senders, Clear(s) PROVE Noted'
  <2>1. permitted[s]
    <3>1. CASE ~send[s].gate
      BY <1>7, <3>1 DEF Clear, Noted
    <3>2. CASE send[s].gate
      <4>1. Busy(s) /\ send[s].gate = TRUE
        BY <1>7, <3>2 DEF Clear, SendTypes, SendRecord, Busy, Working
      <4>2. Allowed(enforced, contacts, Head(send[s].rest))
        BY <1>7, <4>1, DecisionAllows DEF Clear
      <4>. QED  BY <4>1, <4>2 DEF Noted
    <3>. QED  BY <3>1, <3>2
  <2>. QED  BY <1>6, <1>7, <2>1 DEF Clear
<1>8. ASSUME NEW s \in Senders, NEW outcome, Finish(s, outcome) PROVE Noted'
  <2>1. PICK pc \in {"asked", "answered"} :
            Turn(s, Tail(send[s].rest), Append(send[s].report, outcome), pc)
    BY <1>8 DEF Finish
  <2>. QED  BY <1>8, <2>1, TurnNotes DEF Finish
<1>9. ASSUME NEW s \in Senders, Abort(s) PROVE Noted'
  BY <1>9, TurnNotes DEF Abort
<1>10. ASSUME NEW s \in Senders, Preflight(s) PROVE Noted'
  <2>1. permitted[s]
    BY <1>10 DEF Preflight, Noted
  <2>. QED  BY <1>6, <1>8, <1>9, <1>10, <2>1 DEF Preflight
<1>11. ASSUME NEW s \in Senders, Deliver(s) PROVE Noted'
  BY <1>6, <1>11 DEF Deliver, Noted
<1>12. CASE Sending
  BY <1>4, <1>5, <1>7, <1>8, <1>10, <1>11, <1>12
  DEF Sending, AskByName, Refuse, SendFails, Respond
<1>13. CASE ConnectionChanges \/ UNCHANGED vars
  BY <1>1, <1>13 DEF ConnectionChanges, vars
<1>. QED  BY <1>3, <1>12, <1>13 DEF Next

\* Whoever is written to was allowed at some moment since the check began.
THEOREM SendsWereAllowed == Spec => []SentWasAllowed
<1>1. Init => Noted
  BY DEF Init, Noted, Idle, Busy
<1>2. Spec => []SendTypes
  BY AllowListTypes, TypeParts, PTL
<1>3. Noted => SentWasAllowed
  BY DEF Noted, SentWasAllowed
<1>. QED  BY <1>1, <1>2, <1>3, NotedStep, PTL DEF Spec

-----------------------------------------------------------------------------
(* Reports.  A send that is not given up has a line for every number it is   *)
(* done with, and nothing was delivered beyond the number it is busy with.   *)

Lines(s) ==
    /\ Len(send[s].report) + Len(send[s].rest) = send[s].size
    /\ \A k \in 1..Len(send[s].report) :
          /\ send[s].report[k] = "sent" => k \in delivered[s]
          /\ send[s].report[k] \in {"refused", "failed"} => k \notin delivered[s]
    /\ \A k \in delivered[s] :
          k <= Len(send[s].report)
          \/ (send[s].pc = "delivered" /\ k = Len(send[s].report) + 1)
    /\ send[s].pc = "delivered" => Len(send[s].report) + 1 \in delivered[s]

Accurate == \A s \in Senders : send[s].pc # "aborted" => Lines(s)

\* Lines depend on the send alone.
LEMMA LinesKept ==
    ASSUME NEW t, Lines(t), delivered'[t] = delivered[t],
           \/ send'[t] = send[t]
           \/ /\ send[t].pc # "delivered" /\ send'[t].pc # "delivered"
              /\ send'[t].rest = send[t].rest
              /\ send'[t].report = send[t].report /\ send'[t].size = send[t].size
    PROVE  Lines(t)'
BY DEF Lines

\* A step of one send leaves the others accurate.
LEMMA OthersAccurate ==
    ASSUME Accurate, NEW s \in Senders, send'[s].pc # "aborted" => Lines(s)',
           \A t \in Senders : t # s => send'[t] = send[t] /\ delivered'[t] = delivered[t]
    PROVE  Accurate'
<1>1. \A t \in Senders : t # s /\ send'[t].pc # "aborted" => Lines(t)'
  <2>. SUFFICES ASSUME NEW t \in Senders, t # s, send'[t].pc # "aborted" PROVE Lines(t)'
    OBVIOUS
  <2>1. Lines(t) /\ send'[t] = send[t] /\ delivered'[t] = delivered[t]
    BY DEF Accurate
  <2>. QED  BY <2>1, LinesKept
<1>. QED  BY <1>1 DEF Accurate

\* One more line, that tells what happened, keeps the report accurate.
LEMMA FinishKeepsLines ==
    ASSUME SendTypes, Accurate, NEW s \in Senders, NEW outcome \in Outcomes,
           Finish(s, outcome), send[s].pc \in Working, UNCHANGED delivered,
           IF send[s].pc = "delivered" THEN outcome \notin {"refused", "failed"}
                                       ELSE outcome # "sent"
    PROVE  Accurate'
<1>. DEFINE report == send[s].report
            rest == send[s].rest
<1>1. /\ report \in Seq(Outcomes) /\ rest \in Seq(Numbers) /\ rest # <<>>
      /\ send[s].size \in Nat /\ send[s].pc # "aborted"
  BY DEF SendTypes, SendRecord, Working
<1>2. Lines(s)
  BY <1>1 DEF Accurate
<1>3. Len(Tail(rest)) = Len(rest) - 1 /\ Len(rest) \in Nat
  BY <1>1
<1>4. /\ Len(Append(report, outcome)) = Len(report) + 1 /\ Len(report) \in Nat
      /\ \A k \in 1..Len(report) : Append(report, outcome)[k] = report[k]
      /\ Append(report, outcome)[Len(report) + 1] = outcome
  BY <1>1
<1>5. /\ send'[s].report = Append(report, outcome) /\ send'[s].rest = Tail(rest)
      /\ send'[s].size = send[s].size /\ send'[s].pc \in {"asked", "answered"}
      /\ \A t \in Senders : t # s => send'[t] = send[t]
  BY DEF Finish, Turn, SendTypes, SendRecord
<1>6. delivered[s] \in SUBSET Int /\ delivered' = delivered
  BY DEF SendTypes
<1>7. \A k \in delivered[s] : k <= Len(report) + 1
  BY <1>2, <1>4, <1>6 DEF Lines
<1>8. ASSUME NEW k \in 1..Len(report) + 1
      PROVE  /\ Append(report, outcome)[k] = "sent" => k \in delivered[s]
             /\ Append(report, outcome)[k] \in {"refused", "failed"} => k \notin delivered[s]
  <2>1. CASE k \in 1..Len(report)
    BY <2>1, <1>2, <1>4 DEF Lines
  <2>2. CASE k = Len(report) + 1
    BY <2>2, <1>2, <1>4, <1>6 DEF Lines
  <2>. QED  BY <1>4, <2>1, <2>2
<1>9. Len(send'[s].report) + Len(send'[s].rest) = send'[s].size
  <2>1. Len(report) + Len(rest) = send[s].size
    BY <1>2 DEF Lines
  <2>2. /\ Len(send'[s].report) = Len(report) + 1
        /\ Len(send'[s].rest) = Len(rest) - 1
        /\ send'[s].size = send[s].size
    BY <1>3, <1>4, <1>5
  <2>3. Len(report) \in Nat /\ Len(rest) \in Nat
    BY <1>3, <1>4
  <2>. HIDE DEF report, rest
  <2>. QED  BY <2>1, <2>2, <2>3
<1>10. Lines(s)'
  <2>. HIDE DEF report, rest
  <2>. QED  BY <1>4, <1>5, <1>6, <1>7, <1>8, <1>9 DEF Lines
<1>. QED  BY <1>5, <1>6, <1>10, OthersAccurate

LEMMA AccurateStep == ListTypes /\ SendTypes /\ Accurate /\ [Next]_vars => Accurate'
<1>. SUFFICES ASSUME ListTypes, SendTypes, Accurate, [Next]_vars PROVE Accurate'
  OBVIOUS
<1>1. ASSUME UNCHANGED <<send, delivered>> PROVE Accurate'
  BY <1>1 DEF Accurate, Lines
<1>2. ASSUME NEW s \in Senders, NEW numbers \in Seq(Numbers), Ask(s, numbers) PROVE Accurate'
  <2>1. /\ send'[s].pc = "asked" /\ send'[s].rest = numbers /\ send'[s].report = <<>>
        /\ send'[s].size = Len(numbers) /\ delivered'[s] = {}
        /\ \A t \in Senders : t # s => send'[t] = send[t] /\ delivered'[t] = delivered[t]
    BY <1>2 DEF Ask, SendTypes
  <2>2. Len(<<>>) = 0 /\ Len(numbers) \in Nat
    OBVIOUS
  <2>3. Lines(s)'
    BY <2>1, <2>2 DEF Lines
  <2>. QED  BY <2>1, <2>3, OthersAccurate
<1>3. ASSUME NEW s \in Senders, NEW numbers \in BulkLists, Ask(s, numbers) PROVE Accurate'
  <2>1. numbers \in Seq(Numbers)
    BY DEF BulkLists
  <2>. QED  BY <1>2, <1>3, <2>1
<1>4. ASSUME NEW s \in Senders, NEW q \in Names, AskByName(s, q) PROVE Accurate'
  <2>1. PICK n \in Resolve(q) : Ask(s, <<n>>)
    BY <1>4 DEF AskByName
  <2>2. <<n>> \in Seq(Numbers)
    BY ResolveTypes
  <2>. QED  BY <1>2, <2>1, <2>2
<1>5. ASSUME NEW s \in Senders, NEW pc \in Working \ {"delivered"},
             send[s].pc \in Working \ {"delivered"}, UNCHANGED delivered,
             send'[s].pc = pc, send'[s].rest = send[s].rest,
             send'[s].report = send[s].report, send'[s].size = send[s].size,
             \A t \in Senders : t # s => send'[t] = send[t]
      PROVE  Accurate'
  <2>1. Lines(s)
    BY <1>5 DEF Accurate, Working
  <2>2. Lines(s)'
    BY <1>5, <2>1, LinesKept DEF Working
  <2>. QED  BY <1>5, <2>2, OthersAccurate
<1>6. ASSUME NEW s \in Senders, ReadSwitch(s) \/ Clear(s) PROVE Accurate'
  <2>1. /\ send'[s].pc \in {"gated", "cleared"} /\ send'[s].rest = send[s].rest
        /\ send'[s].report = send[s].report /\ send'[s].size = send[s].size
        /\ \A t \in Senders : t # s => send'[t] = send[t]
        /\ send[s].pc \in {"asked", "gated"} /\ UNCHANGED delivered
    BY <1>6 DEF ReadSwitch, Clear, Move, SendTypes, SendRecord
  <2>. QED  BY <1>5, <2>1 DEF Working
<1>7. ASSUME NEW s \in Senders, Refuse(s) PROVE Accurate'
  BY <1>7, FinishKeepsLines DEF Refuse, Outcomes, Working
<1>8. ASSUME NEW s \in Senders, Abort(s), UNCHANGED delivered PROVE Accurate'
  <2>1. /\ send'[s].pc = "aborted"
        /\ \A t \in Senders : t # s => send'[t] = send[t]
    BY <1>8 DEF Abort, Turn, SendTypes, SendRecord
  <2>. QED  BY <1>8, <2>1, OthersAccurate
<1>9. ASSUME NEW s \in Senders, Preflight(s) PROVE Accurate'
  <2>1. ASSUME Finish(s, "failed") PROVE Accurate'
    BY <1>9, <2>1, FinishKeepsLines DEF Preflight, Outcomes, Working
  <2>2. ASSUME Move(s, "sending") PROVE Accurate'
    <3>1. /\ send'[s].pc = "sending" /\ send'[s].rest = send[s].rest
          /\ send'[s].report = send[s].report /\ send'[s].size = send[s].size
          /\ \A t \in Senders : t # s => send'[t] = send[t]
          /\ send[s].pc = "cleared" /\ UNCHANGED delivered
      BY <1>9, <2>2 DEF Preflight, Move, SendTypes, SendRecord
    <3>. QED  BY <1>5, <3>1 DEF Working
  <2>. QED  BY <1>8, <1>9, <2>1, <2>2 DEF Preflight
<1>10. ASSUME NEW s \in Senders, SendFails(s) PROVE Accurate'
  BY <1>10, FinishKeepsLines DEF SendFails, Outcomes, Working
<1>11. ASSUME NEW s \in Senders, Deliver(s) PROVE Accurate'
  <2>1. /\ send'[s].pc = "delivered" /\ send'[s].rest = send[s].rest
        /\ send'[s].report = send[s].report /\ send'[s].size = send[s].size
        /\ \A t \in Senders : t # s => send'[t] = send[t] /\ delivered'[t] = delivered[t]
        /\ delivered'[s] = delivered[s] \cup {Position(s)}
    BY <1>11 DEF Deliver, Move, SendTypes, SendRecord
  <2>2. Lines(s) /\ send[s].pc # "delivered"
    BY <1>11 DEF Deliver, Accurate
  <2>3. /\ Len(send[s].report) \in Nat /\ Len(send[s].rest) \in Nat /\ send[s].size \in Nat
        /\ delivered[s] \in SUBSET Int
    BY DEF SendTypes, SendRecord
  <2>4. Position(s) = Len(send[s].report) + 1
    <3>1. Len(send[s].report) + Len(send[s].rest) = send[s].size
      BY <2>2 DEF Lines
    <3>2. Position(s) = send[s].size - Len(send[s].rest) + 1
      BY DEF Position
    <3>3. \A a, b, c \in Nat : a + b = c => c - b + 1 = a + 1
      OBVIOUS
    <3>. QED  BY ONLY <2>3, <3>1, <3>2, <3>3
  <2>5. delivered'[s] = delivered[s] \cup {Len(send[s].report) + 1}
    BY <2>1, <2>4
  <2>6. Lines(s)'
    <3>1. /\ Len(send'[s].report) = Len(send[s].report)
          /\ Len(send'[s].report) + Len(send'[s].rest) = send'[s].size
      BY <2>1, <2>2 DEF Lines
    <3>2. \A k \in 1..Len(send'[s].report) : k \in delivered'[s] <=> k \in delivered[s]
      BY <2>3, <2>5, <3>1
    <3>3. \A k \in 1..Len(send'[s].report) :
             /\ send'[s].report[k] = "sent" => k \in delivered'[s]
             /\ send'[s].report[k] \in {"refused", "failed"} => k \notin delivered'[s]
      BY <2>1, <2>2, <3>1, <3>2 DEF Lines
    <3>4. \A k \in delivered'[s] :
             k <= Len(send'[s].report) \/ k = Len(send'[s].report) + 1
      BY <2>2, <2>5, <3>1 DEF Lines
    <3>. QED  BY <2>1, <2>5, <3>1, <3>3, <3>4 DEF Lines
  <2>. QED  BY <2>1, <2>6, OthersAccurate
<1>12. ASSUME NEW s \in Senders, Respond(s) PROVE Accurate'
  BY <1>12, FinishKeepsLines DEF Respond, Outcomes, Working
<1>13. CASE Sending
  BY <1>3, <1>4, <1>6, <1>7, <1>9, <1>10, <1>11, <1>12, <1>13 DEF Sending
<1>14. CASE Editing
  BY <1>1, <1>14
  DEF Editing, Toggle, BeginEdit, InsertContact, UpdateContact, Written, SetEnabled, DeleteContact
<1>15. CASE ConnectionChanges \/ UNCHANGED vars
  BY <1>1, <1>15 DEF ConnectionChanges, vars
<1>. QED  BY <1>13, <1>14, <1>15 DEF Next

\* The report of every request tells what became of each of its numbers.
THEOREM ReportsAreTrue == Spec => []ReportMatches
<1>1. Init => Accurate
  <2>. SUFFICES ASSUME Init, NEW s \in Senders PROVE Lines(s)
    BY DEF Accurate
  <2>1. send[s] = Idle /\ delivered[s] = {} /\ Len(<<>>) = 0
    BY DEF Init
  <2>. QED  BY <2>1 DEF Lines, Idle
<1>2. ListTypes /\ SendTypes /\ Accurate => ReportMatches
  <2>. SUFFICES ASSUME SendTypes, Accurate, NEW s \in Senders, send[s].pc = "answered"
                PROVE  /\ Len(send[s].report) = send[s].size
                       /\ \A k \in 1..send[s].size :
                             /\ send[s].report[k] = "sent" => k \in delivered[s]
                             /\ send[s].report[k] \in {"refused", "failed"} => k \notin delivered[s]
    BY DEF ReportMatches
  <2>1. Lines(s) /\ send[s].rest = <<>>
    BY DEF Accurate, SendTypes, Working
  <2>2. Len(send[s].rest) = 0 /\ Len(send[s].report) \in Nat
    BY <2>1 DEF SendTypes, SendRecord
  <2>3. Len(send[s].report) = send[s].size
    BY <2>1, <2>2 DEF Lines
  <2>. QED  BY <2>1, <2>3 DEF Lines
<1>3. Spec => [](ListTypes /\ SendTypes)
  BY AllowListTypes, TypeParts, PTL
<1>. QED  BY <1>1, <1>2, <1>3, AccurateStep, PTL DEF Spec
=============================================================================
