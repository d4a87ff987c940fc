---------------------------- MODULE MigrationProofs ----------------------------
(* What a migration leaves behind, for any collections, old rows, numbers,   *)
(* requests of the application and runs.                                     *)
EXTENDS Migration, TLAPS

PCs == {"off", "count", "insert", "bump", "done"}
Script == [pc : PCs, at : 1..Len(Order), left : SUBSET Nat]
Held == [of : Numbered, key : Nat]

\* The rows still to be inserted are old rows of the collection at hand; a
\* number that was taken is below its counter.
Types ==
    /\ docs \in [Collections -> SUBSET Nat] /\ ever \in [Collections -> SUBSET Nat]
    /\ seq \in [Numbered -> Nat]
    /\ script \in Script
    /\ died \in [Collections -> BOOLEAN] /\ forestalled \in [Collections -> BOOLEAN]
    /\ client \in [Clients -> Held \cup {NoOne}]
    /\ Running => script.left \subseteq Legacy[Here]
    /\ \A p \in Clients : client[p] # NoOne =>
          client[p] \in Held /\ client[p].key <= seq[client[p].of]

LEMMA OffScript == Off \in Script
<1>1. Len(Order) \in Nat /\ Len(Order) > 0
  BY MigrationAssumption DEF MigrationAssumption
<1>. QED  BY <1>1 DEF Off, Script, PCs

LEMMA HereIs == Types => script.at \in 1..Len(Order) /\ Here \in Collections
BY DEF Types, Script, Here, Collections

LEMMA Orders == Len(Order) \in Nat /\ \A c \in Collections : Legacy[c] \in SUBSET Nat
BY MigrationAssumption DEF MigrationAssumption

\* What one step makes of the script.
LEMMA ScriptParts ==
    ASSUME NEW r \in Script, NEW pc \in PCs, NEW left \in SUBSET Nat
    PROVE  /\ [r EXCEPT !.pc = pc] \in Script /\ [r EXCEPT !.pc = pc].pc = pc
           /\ [r EXCEPT !.pc = pc].at = r.at /\ [r EXCEPT !.pc = pc].left = r.left
           /\ [r EXCEPT !.left = left] \in Script /\ [r EXCEPT !.left = left].pc = r.pc
           /\ [r EXCEPT !.left = left].at = r.at /\ [r EXCEPT !.left = left].left = left
BY DEF Script

LEMMA AdvanceParts ==
    ASSUME Types, Advance
    PROVE  /\ script' \in Script /\ script'.pc \in {"count", "done"} /\ script'.left = {}
           /\ script'.pc = "count" => script'.at = script.at + 1
           /\ script'.pc = "done" => script.at = Len(Order)
<1>1. script.at \in 1..Len(Order) /\ Len(Order) \in Nat
  BY HereIs, Orders
<1>2. CASE script.at < Len(Order)
  <2>1. script' = [pc |-> "count", at |-> script.at + 1, left |-> {}]
    BY <1>2 DEF Advance
  <2>. QED  BY <1>1, <1>2, <2>1 DEF Script, PCs
<1>3. CASE ~(script.at < Len(Order))
  <2>1. script' = [Off EXCEPT !.pc = "done"]
    BY <1>3 DEF Advance
  <2>2. script' = [pc |-> "done", at |-> 1, left |-> {}]
    BY <2>1 DEF Off
  <2>3. script.at = Len(Order)
    BY <1>1, <1>3
  <2>. QED  BY <1>1, <2>2, <2>3 DEF Script, PCs
<1>. QED  BY <1>2, <1>3

LEMMA DieParts ==
    ASSUME Types, Die
    PROVE  /\ script' \in Script /\ script'.pc = "off" /\ script'.left = {}
           /\ died' \in [Collections -> BOOLEAN]
           /\ \A c \in Collections : died[c] => died'[c]
           /\ script.pc # "count" => died'[Here]
<1>1. script' \in Script
  BY HereIs, Orders, OffScript DEF Die
<1>2. script'.pc = "off" /\ script'.left = {}
  BY DEF Die, Off
<1>3. Here \in Collections
  BY HereIs
<1>4. died' \in [Collections -> BOOLEAN]
  BY DEF Die, Types
<1>5. \A c \in Collections : died[c] => died'[c]
  BY DEF Die, Types
<1>6. script.pc # "count" => died'[Here]
  BY <1>3 DEF Die, Types
<1>. QED  BY <1>1, <1>2, <1>4, <1>5, <1>6

-----------------------------------------------------------------------------
(* Types.                                                                   *)

LEMMA AppearTypes ==
    ASSUME Types, NEW c \in Collections, NEW k \in Nat, Appear(c, k)
    PROVE  /\ docs' \in [Collections -> SUBSET Nat] /\ ever' \in [Collections -> SUBSET Nat]
           /\ forestalled' \in [Collections -> BOOLEAN]
<1>1. docs' \in [Collections -> SUBSET Nat] /\ ever' \in [Collections -> SUBSET Nat]
  BY DEF Appear, Types
<1>2. forestalled' \in [Collections -> BOOLEAN]
  BY DEF Appear, Types
<1>. QED  BY <1>1, <1>2

LEMMA ScriptStepTypes ==
    ASSUME Types, Start \/ Count \/ Inserted \/ Bump \/ Killed \/ \E k \in script.left : InsertRow(k)
    PROVE  Types'
<1>0. script.at \in 1..Len(Order) /\ Here \in Collections /\ script \in Script
  BY HereIs DEF Types
<1>1. CASE Start
  <2>1. script' = [pc |-> "count", at |-> 1, left |-> {}]
    BY <1>1 DEF Start
  <2>2. script' \in Script /\ script'.left = {}
    BY <1>0, <2>1, Orders DEF Script, PCs
  <2>. QED  BY <1>1, <2>2 DEF Start, Types
<1>2. CASE Count
  <2>1. CASE docs[Here] = {} /\ Legacy[Here] # {}
    <3>1. script' = [script EXCEPT !.pc = "insert", !.left = Legacy[Here]]
      BY <1>2, <2>1 DEF Count
    <3>2. script' \in Script /\ script'.at = script.at /\ script'.left = Legacy[Here]
      <4>1. Legacy[Here] \in SUBSET Nat /\ "insert" \in PCs
        BY <1>0, Orders DEF PCs
      <4>. DEFINE old == Legacy[Here]
      <4>2. old \in SUBSET Nat /\ script' = [script EXCEPT !.pc = "insert", !.left = old]
        BY <3>1, <4>1
      <4>. HIDE DEF old
      <4>3. script' \in Script /\ script'.at = script.at /\ script'.left = old
        BY <1>0, <4>2 DEF Script, PCs
      <4>. QED  BY <4>3 DEF old
    <3>3. Here' = Here
      BY <3>2 DEF Here
    <3>4. UNCHANGED <<docs, seq, client, ever, died, forestalled>>
      BY <1>2 DEF Count
    <3>5. script'.left \subseteq Legacy[Here']
      BY <3>2, <3>3
    <3>. QED  BY <3>2, <3>4, <3>5 DEF Types
  <2>2. CASE ~(docs[Here] = {} /\ Legacy[Here] # {})
    <3>1. script' \in Script /\ script'.left = {}
      BY <1>2, <2>2, AdvanceParts DEF Count
    <3>. QED  BY <1>2, <3>1 DEF Count, Types
  <2>. QED  BY <2>1, <2>2
<1>3. CASE Inserted
  <2>0. script.left = {} /\ script.pc = "insert"
    BY <1>3 DEF Inserted
  <2>1. CASE script' = [script EXCEPT !.pc = "bump"]
    <3>1. script' \in Script /\ script'.left = {}
      BY <1>0, <2>0, <2>1, ScriptParts DEF PCs
    <3>. QED  BY <1>3, <3>1 DEF Inserted, Types
  <2>2. CASE Advance
    <3>1. script' \in Script /\ script'.left = {}
      BY <2>2, AdvanceParts
    <3>. QED  BY <1>3, <3>1 DEF Inserted, Types
  <2>. QED  BY <1>3, <2>1, <2>2 DEF Inserted
<1>4. CASE Bump
  <2>1. script' \in Script /\ script'.left = {}
    BY <1>4, AdvanceParts DEF Bump
  <2>2. \A c \in Numbered : Top[c] \in Nat /\ seq[c] \in Nat
    BY MigrationAssumption DEF MigrationAssumption, Types
  <2>3. seq' \in [Numbered -> Nat] /\ \A c \in Numbered : seq[c] <= seq'[c]
    <3>. DEFINE v == IF seq[Here] < Top[Here] THEN Top[Here] ELSE seq[Here]
    <3>1. seq' = [seq EXCEPT ![Here] = v]
      BY <1>4 DEF Bump
    <3>2. Here \in Numbered => v \in Nat /\ seq[Here] <= v
      BY <2>2
    <3>. HIDE DEF v
    <3>3. \A c \in Numbered : seq'[c] = IF c = Here THEN v ELSE seq[c]
      BY <3>1 DEF Types
    <3>4. \A c \in Numbered : seq[c] <= seq[c]
      BY <2>2
    <3>5. \A c \in Numbered : seq[c] <= seq'[c]
      BY <3>2, <3>3, <3>4
    <3>6. seq' \in [Numbered -> Nat]
      BY <3>1, <3>2 DEF Types
    <3>. QED  BY <3>5, <3>6
  <2>4. \A p \in Clients : client[p] # NoOne => client[p].of \in Numbered /\ client[p].key \in Nat
    BY DEF Types, Held
  <2>5. \A p \in Clients : client[p] # NoOne => client[p].key <= seq'[client[p].of]
    BY <2>2, <2>3, <2>4 DEF Types
  <2>. QED  BY <1>4, <2>1, <2>3, <2>5 DEF Bump, Types
<1>5. CASE Killed
  <2>1. Die
    BY <1>5 DEF Killed
  <2>2. script' \in Script /\ script'.left = {} /\ died' \in [Collections -> BOOLEAN]
    BY <2>1, DieParts
  <2>3. UNCHANGED <<docs, seq, client, ever, forestalled>>
    BY <2>1 DEF Die
  <2>. QED  BY <2>2, <2>3 DEF Types
<1>6. ASSUME NEW k \in script.left, InsertRow(k) PROVE Types'
  <2>0. k \in Nat /\ script.pc = "insert" /\ script.left \subseteq Legacy[Here] /\ script.left \in SUBSET Nat
    BY <1>0, <1>6 DEF InsertRow, Types, Script, Running
  <2>1. CASE Die
    <3>1. script' \in Script /\ script'.left = {} /\ died' \in [Collections -> BOOLEAN]
      BY <2>1, DieParts
    <3>2. docs' = docs
      BY <2>1 DEF Die
    <3>. QED  BY <2>1, <3>1 DEF Die, Types
  <2>2. CASE ~Die
    <3>1. script' = [script EXCEPT !.left = @ \ {k}]
      BY <1>6, <2>2 DEF InsertRow
    <3>2. script' \in Script /\ script'.at = script.at /\ script'.left = script.left \ {k}
      BY <1>0, <2>0, <3>1, ScriptParts DEF PCs, Script
    <3>3. Here' = Here
      BY <3>2 DEF Here
    <3>4. docs' \in [Collections -> SUBSET Nat] /\ ever' \in [Collections -> SUBSET Nat]
      BY <1>6, <2>0, <2>2 DEF InsertRow, Types
    <3>. QED  BY <1>6, <2>0, <2>2, <3>2, <3>3, <3>4 DEF InsertRow, Types
  <2>. QED  BY <2>1, <2>2
<1>. QED  BY <1>1, <1>2, <1>3, <1>4, <1>5, <1>6

LEMMA ClientStepTypes ==
    ASSUME Types,
           \/ \E p \in Clients : AddNumbered(p) \/ \E c \in Numbered : TakeNumber(p, c)
           \/ \E c \in Collections : \E k \in Keys[c] : WritePlain(c, k)
           \/ \E c \in Collections : \E k \in docs[c] : Delete(c, k)
    PROVE  Types'
<1>1. ASSUME NEW p \in Clients, AddNumbered(p) PROVE Types'
  <2>0. client[p] \in Held /\ client[p].of \in Numbered /\ client[p].key \in Nat
    BY <1>1 DEF AddNumbered, Types, Held
  <2>1. client' \in [Clients -> Held \cup {NoOne}]
    BY <1>1 DEF AddNumbered, Types
  <2>2. \A q \in Clients : client'[q] = NoOne \/ client'[q] = client[q]
    BY <1>1 DEF AddNumbered, Types
  <2>3. UNCHANGED <<seq, script, died>>
    BY <1>1 DEF AddNumbered, Appear
  <2>4. /\ docs' \in [Collections -> SUBSET Nat] /\ ever' \in [Collections -> SUBSET Nat]
        /\ forestalled' \in [Collections -> BOOLEAN]
    <3>1. client[p].of \in Collections
      BY <2>0, MigrationAssumption DEF MigrationAssumption
    <3>2. CASE Appear(client[p].of, client[p].key)
      BY <2>0, <3>1, <3>2, AppearTypes
    <3>3. CASE UNCHANGED <<docs, ever, forestalled>>
      BY <3>3 DEF Types
    <3>. QED  BY <1>1, <3>2, <3>3 DEF AddNumbered
  <2>5. Here' = Here /\ Running' = Running
    BY <2>3 DEF Here, Running
  <2>. QED  BY <2>1, <2>2, <2>3, <2>4, <2>5 DEF Types
<1>2. ASSUME NEW p \in Clients, NEW c \in Numbered, TakeNumber(p, c) PROVE Types'
  <2>1. seq' = [seq EXCEPT ![c] = @ + 1] /\ seq[c] \in Nat
    BY <1>2 DEF TakeNumber, Types
  <2>2. seq' \in [Numbered -> Nat] /\ seq'[c] = seq[c] + 1 /\ \A d \in Numbered : seq[d] <= seq'[d]
    BY <2>1 DEF Types
  <2>. DEFINE h == [of |-> c, key |-> seq[c] + 1]
  <2>3. h \in Held /\ h.of = c /\ h.key = seq[c] + 1
    BY <2>1 DEF Held
  <2>4. client' = [client EXCEPT ![p] = h]
    BY <1>2 DEF TakeNumber
  <2>. HIDE DEF h
  <2>5. client' \in [Clients -> Held \cup {NoOne}]
    BY <2>3, <2>4 DEF Types
  <2>6. ASSUME NEW q \in Clients, client'[q] # NoOne
        PROVE  client'[q] \in Held /\ client'[q].key <= seq'[client'[q].of]
    <3>1. CASE q = p
      BY <2>2, <2>3, <2>4, <3>1 DEF Types
    <3>2. CASE q # p
      <4>1. client'[q] = client[q]
        BY <2>4, <3>2 DEF Types
      <4>2. client[q] \in Held /\ client[q].key <= seq[client[q].of]
        BY <2>6, <4>1 DEF Types
      <4>3. client[q].of \in Numbered /\ client[q].key \in Nat
        BY <4>2 DEF Held
      <4>4. seq[client[q].of] \in Nat /\ seq'[client[q].of] \in Nat
        BY <2>2, <4>3 DEF Types
      <4>. QED  BY <2>2, <4>1, <4>2, <4>3, <4>4
    <3>. QED  BY <3>1, <3>2
  <2>7. UNCHANGED <<docs, script, died, ever, forestalled>>
    BY <1>2 DEF TakeNumber
  <2>8. Here' = Here /\ Running' = Running
    BY <2>7 DEF Here, Running
  <2>. QED  BY <2>2, <2>5, <2>6, <2>7, <2>8 DEF Types
<1>3. ASSUME NEW c \in Collections, NEW k \in Keys[c], WritePlain(c, k) PROVE Types'
  <2>1. k \in Nat
    BY MigrationAssumption DEF MigrationAssumption
  <2>2. Appear(c, k) /\ UNCHANGED <<client, seq, script, died>>
    BY <1>3 DEF WritePlain, Appear
  <2>3. Here' = Here /\ Running' = Running
    BY <2>2 DEF Here, Running
  <2>. QED  BY <2>1, <2>2, <2>3, AppearTypes DEF Types
<1>4. ASSUME NEW c \in Collections, NEW k \in docs[c], Delete(c, k) PROVE Types'
  <2>1. docs' \in [Collections -> SUBSET Nat]
    BY <1>4 DEF Delete, Types
  <2>2. UNCHANGED <<seq, script, died, ever, forestalled, client>>
    BY <1>4 DEF Delete
  <2>3. Here' = Here /\ Running' = Running
    BY <2>2 DEF Here, Running
  <2>. QED  BY <2>1, <2>2, <2>3 DEF Types
<1>. QED  BY <1>1, <1>2, <1>3, <1>4

LEMMA TypesStep == Types /\ [Next]_vars => Types'
<1>1. CASE UNCHANGED vars
  BY <1>1 DEF vars, Types, Here, Running
<1>. QED  BY <1>1, ScriptStepTypes, ClientStepTypes DEF Next

LEMMA TypesAtFirst == Init => Types
<1>. SUFFICES ASSUME Init PROVE Types
  OBVIOUS
<1>1. script \in Script /\ ~Running
  BY OffScript DEF Init, Running, Off
<1>2. client \in [Clients -> Held \cup {NoOne}] /\ \A p \in Clients : client[p] = NoOne
  BY DEF Init
<1>3. seq \in [Numbered -> Nat]
  BY DEF Init
<1>4. docs \in [Collections -> SUBSET Nat] /\ ever \in [Collections -> SUBSET Nat]
  BY DEF Init
<1>5. died \in [Collections -> BOOLEAN] /\ forestalled \in [Collections -> BOOLEAN]
  BY DEF Init
<1>. QED  BY <1>1, <1>2, <1>3, <1>4, <1>5 DEF Types

-----------------------------------------------------------------------------
(* Numbers.                                                                 *)

LEMMA NumbersStep == Types /\ NumbersCovered /\ [Next]_vars => NumbersCovered'
<1>. SUFFICES ASSUME Types, NumbersCovered, [Next]_vars PROVE NumbersCovered'
  OBVIOUS
<1>. DEFINE Covered(c, k) ==
        \/ k <= seq[c]
        \/ /\ k \in Legacy[c]
           /\ died[c] \/ (script.pc \in {"insert", "bump"} /\ Here = c)
<1>0. /\ Here \in Collections /\ Numbered \subseteq Collections
      /\ \A c \in Numbered : seq[c] \in Nat /\ docs[c] \subseteq Nat
      /\ \A c \in Collections : Top[c] \in Nat /\ \A k \in Legacy[c] : k <= Top[c] /\ k \in Nat
  BY HereIs, MigrationAssumption DEF MigrationAssumption, Types
\* Nothing to do where documents, counters and the reasons for a gap stay.
<1>1. ASSUME UNCHANGED <<docs, seq>>,
             \A c \in Numbered : died[c] => died'[c],
             \A c \in Numbered : script.pc \in {"insert", "bump"} /\ Here = c
                => died'[c] \/ (script'.pc \in {"insert", "bump"} /\ Here' = c)
      PROVE  NumbersCovered'
  BY <1>1 DEF NumbersCovered
<1>2. CASE Start
  BY <1>1, <1>2 DEF Start, Running
<1>3. CASE Count
  <2>1. script.pc = "count" /\ UNCHANGED <<docs, seq, died>>
    BY <1>3 DEF Count
  <2>. QED  BY <1>1, <2>1
<1>4. CASE Inserted
  <2>1. UNCHANGED <<docs, seq, died>>
    BY <1>4 DEF Inserted
  <2>2. CASE Here \in Numbered
    <3>1. script' = [script EXCEPT !.pc = "bump"]
      BY <1>4, <2>2 DEF Inserted
    <3>2. script'.pc = "bump" /\ script'.at = script.at
      BY <3>1 DEF Types, Script
    <3>. QED  BY <1>1, <2>1, <3>2 DEF Here
  <2>3. CASE Here \notin Numbered
    BY <1>1, <2>1, <2>3
  <2>. QED  BY <2>2, <2>3
<1>5. CASE Bump
  <2>0. UNCHANGED <<docs, died>> /\ script.pc = "bump"
    BY <1>5 DEF Bump
  <2>1. ASSUME NEW c \in Numbered, NEW k \in docs'[c] PROVE Covered(c, k)'
    <3>1. Covered(c, k) /\ k \in Nat
      BY <1>0, <2>0, <2>1 DEF NumbersCovered
    <3>2. CASE c = Here
      <4>1. seq'[c] = IF seq[c] < Top[c] THEN Top[c] ELSE seq[c]
        BY <1>5, <3>2 DEF Bump, Types
      <4>2. seq[c] \in Nat /\ Top[c] \in Nat /\ (k \in Legacy[c] => k <= Top[c])
        BY <1>0, <3>2
      <4>3. k <= seq[c] \/ k <= Top[c]
        BY <3>1, <4>2
      <4>4. k <= seq'[c]
        BY <3>1, <4>1, <4>2, <4>3
      <4>. QED  BY <4>4
    <3>3. CASE c # Here
      <4>1. seq'[c] = seq[c]
        BY <1>5, <3>3 DEF Bump, Types
      <4>. QED  BY <2>0, <3>1, <3>3, <4>1
    <3>. QED  BY <3>2, <3>3
  <2>. QED  BY <2>1 DEF NumbersCovered
<1>6. ASSUME Die, script.pc \in {"count", "insert", "bump"} PROVE NumbersCovered'
  <2>1. UNCHANGED <<docs, seq>>
    BY <1>6 DEF Die
  <2>. QED  BY <1>0, <1>1, <1>6, <2>1, DieParts
<1>7. CASE Killed
  BY <1>6, <1>7 DEF Killed, Running
<1>8. ASSUME NEW k \in script.left, InsertRow(k) PROVE NumbersCovered'
  <2>1. CASE Die
    BY <1>6, <1>8, <2>1 DEF InsertRow
  <2>2. CASE ~Die
    <3>1. /\ docs' = [docs EXCEPT ![Here] = @ \cup {k}] /\ UNCHANGED <<seq, died>>
          /\ script' = [script EXCEPT !.left = @ \ {k}] /\ script.pc = "insert"
      BY <1>8, <2>2 DEF InsertRow
    <3>2. script'.pc = "insert" /\ script'.at = script.at
      BY <3>1 DEF Types, Script
    <3>3. k \in Legacy[Here]
      BY <1>8, <3>1 DEF Types, Running
    <3>4. ASSUME NEW c \in Numbered, NEW j \in docs'[c] PROVE Covered(c, j)'
      <4>1. j \in docs[c] \/ (c = Here /\ j = k)
        BY <1>0, <3>1 DEF Types
      <4>2. Here' = Here
        BY <3>2 DEF Here
      <4>3. CASE j \in docs[c]
        BY <3>1, <3>2, <4>2, <4>3 DEF NumbersCovered
      <4>4. CASE c = Here /\ j = k
        BY <3>2, <3>3, <4>2, <4>4
      <4>. QED  BY <4>1, <4>3, <4>4
    <3>. QED  BY <3>4 DEF NumbersCovered
  <2>. QED  BY <2>1, <2>2
\* A document that appears has a number its counter has given, or none.
<1>9. ASSUME NEW c \in Collections, NEW k \in Nat, Appear(c, k), UNCHANGED <<seq, script, died>>,
             c \in Numbered => k <= seq[c]
      PROVE  NumbersCovered'
  <2>1. docs' = [docs EXCEPT ![c] = @ \cup {k}] /\ Here' = Here
    BY <1>9 DEF Appear, Here
  <2>2. ASSUME NEW d \in Numbered, NEW j \in docs'[d] PROVE Covered(d, j)'
    <3>1. j \in docs[d] \/ (d = c /\ j = k)
      BY <1>0, <2>1 DEF Types
    <3>2. CASE j \in docs[d]
      BY <1>9, <2>1, <3>2 DEF NumbersCovered
    <3>3. CASE d = c /\ j = k
      BY <1>9, <3>3
    <3>. QED  BY <3>1, <3>2, <3>3
  <2>. QED  BY <2>2 DEF NumbersCovered
<1>10. ASSUME NEW p \in Clients, AddNumbered(p) PROVE NumbersCovered'
  <2>1. /\ client[p].of \in Numbered /\ client[p].key \in Nat
        /\ client[p].key <= seq[client[p].of]
    BY <1>10 DEF AddNumbered, Types, Held
  <2>2. CASE client[p].key \in docs[client[p].of]
    BY <1>10, <2>2, <1>1 DEF AddNumbered, Here
  <2>3. CASE client[p].key \notin docs[client[p].of]
    <3>1. Appear(client[p].of, client[p].key) /\ UNCHANGED <<seq, script, died>>
      BY <1>10, <2>3 DEF AddNumbered, Appear
    <3>. QED  BY <1>0, <1>9, <2>1, <3>1
  <2>. QED  BY <2>2, <2>3
<1>11. ASSUME NEW p \in Clients, NEW c \in Numbered, TakeNumber(p, c) PROVE NumbersCovered'
  <2>1. seq' = [seq EXCEPT ![c] = @ + 1] /\ UNCHANGED <<docs, script, died>>
    BY <1>11 DEF TakeNumber
  <2>2. \A d \in Numbered : seq'[d] = IF d = c THEN seq[d] + 1 ELSE seq[d]
    BY <2>1 DEF Types
  <2>3. ASSUME NEW d \in Numbered, NEW j \in docs'[d] PROVE Covered(d, j)'
    <3>1. Covered(d, j) /\ j \in Nat /\ seq[d] \in Nat
      BY <1>0, <2>1, <2>3 DEF NumbersCovered
    <3>2. j <= seq[d] => j <= seq'[d]
      BY <2>2, <3>1
    <3>. QED  BY <2>1, <3>1, <3>2 DEF Here
  <2>. QED  BY <2>3 DEF NumbersCovered
<1>12. ASSUME NEW c \in Collections, NEW k \in Keys[c], WritePlain(c, k) PROVE NumbersCovered'
  <2>1. k \in Nat /\ c \notin Numbered
    BY <1>12, MigrationAssumption DEF MigrationAssumption, WritePlain, Plain
  <2>2. Appear(c, k) /\ UNCHANGED <<seq, script, died>>
    BY <1>12 DEF WritePlain, Appear
  <2>. QED  BY <1>9, <2>1, <2>2
<1>13. ASSUME NEW c \in Collections, NEW k \in docs[c], Delete(c, k) PROVE NumbersCovered'
  <2>1. \A d \in Numbered : docs'[d] \subseteq docs[d]
    BY <1>0, <1>13 DEF Delete, Types
  <2>2. UNCHANGED <<seq, script, died, Here>>
    BY <1>13 DEF Delete, Here
  <2>. QED  BY <2>1, <2>2 DEF NumbersCovered
<1>14. CASE UNCHANGED vars
  BY <1>1, <1>14 DEF vars, Here
<1>. QED  BY <1>2, <1>3, <1>4, <1>5, <1>7, <1>8, <1>10, <1>11, <1>12, <1>13, <1>14 DEF Next

\* Whatever the application writes beside the script, a number its counter has
\* still to give belongs to a document only if the script is on its way to raise
\* the counter, or has died on it.
THEOREM NumbersStayCovered == Spec => []NumbersCovered
<1>1. Init => NumbersCovered
  BY MigrationAssumption DEF Init, NumbersCovered, MigrationAssumption
<1>. QED  BY <1>1, TypesAtFirst, TypesStep, NumbersStep, PTL DEF Spec

-----------------------------------------------------------------------------
(* Nothing left behind.  A collection is settled if its old rows have all    *)
(* been there or there is a reason why not.  One that ever had a document is *)
(* settled or being moved, and those before the script's place are settled.  *)

Settled(c) == Legacy[c] \subseteq ever[c] \/ died[c] \/ forestalled[c]

Moved ==
    /\ \A c \in Collections : docs[c] \subseteq ever[c]
    /\ script.pc = "insert" => Legacy[Here] \subseteq ever[Here] \cup script.left
    /\ script.pc = "bump" => Settled(Here)
    /\ \A c \in Collections : ever[c] # {} =>
          Settled(c) \/ (script.pc = "insert" /\ Here = c)
    /\ Running => \A i \in 1..Len(Order) : i < script.at => Settled(Order[i])
    /\ script.pc = "done" => \A c \in Collections : Settled(c)

LEMMA MovedStep == Types /\ Moved /\ [Next]_vars => Moved'
<1>. SUFFICES ASSUME Types, Moved, [Next]_vars PROVE Moved'
  OBVIOUS
<1>0. /\ Here \in Collections /\ script.at \in 1..Len(Order) /\ Len(Order) \in Nat
      /\ \A i \in 1..Len(Order) : Order[i] \in Collections
      /\ \A c \in Collections : \E i \in 1..Len(Order) : c = Order[i]
  BY HereIs, Orders DEF Collections
<1>1. Next => \A c \in Collections : Settled(c) => Settled(c)'
  <2>1. CASE Start \/ Count \/ Inserted \/ Bump
           \/ \E p \in Clients, c \in Numbered : TakeNumber(p, c)
    BY <2>1 DEF Start, Count, Inserted, Bump, TakeNumber, Settled
  <2>2. ASSUME Die PROVE \A c \in Collections : Settled(c) => Settled(c)'
    BY <2>2 DEF Die, Settled, Types
  <2>3. ASSUME NEW k \in script.left, InsertRow(k)
        PROVE  \A c \in Collections : Settled(c) => Settled(c)'
    <3>1. CASE ~Die
      <4>1. \A c \in Collections : ever[c] \subseteq ever'[c]
        BY <2>3, <3>1 DEF InsertRow, Types
      <4>. QED  BY <2>3, <3>1, <4>1 DEF InsertRow, Settled
    <3>. QED  BY <2>2, <3>1
  <2>4. ASSUME NEW c \in Collections, NEW k, Appear(c, k)
        PROVE  \A d \in Collections : Settled(d) => Settled(d)'
    <3>1. \A d \in Collections : ever[d] \subseteq ever'[d]
      BY <2>4 DEF Appear, Types
    <3>2. \A d \in Collections : forestalled[d] => forestalled'[d]
      BY <2>4 DEF Appear, Types
    <3>3. died' = died
      BY <2>4 DEF Appear
    <3>. QED  BY <3>1, <3>2, <3>3 DEF Settled
  <2>5. ASSUME NEW p \in Clients, AddNumbered(p)
        PROVE  \A c \in Collections : Settled(c) => Settled(c)'
    <3>1. client[p].of \in Collections
      BY <2>5, MigrationAssumption DEF AddNumbered, Types, Held, MigrationAssumption
    <3>2. CASE client[p].key \in docs[client[p].of]
      BY <2>5, <3>2 DEF AddNumbered, Settled
    <3>3. CASE client[p].key \notin docs[client[p].of]
      BY <2>4, <2>5, <3>1, <3>3 DEF AddNumbered
    <3>. QED  BY <3>2, <3>3
  <2>6. ASSUME NEW c \in Collections, NEW k, WritePlain(c, k) \/ Delete(c, k)
        PROVE  \A d \in Collections : Settled(d) => Settled(d)'
    <3>1. CASE WritePlain(c, k)
      BY <2>4, <3>1 DEF WritePlain
    <3>2. CASE Delete(c, k)
      BY <3>2 DEF Delete, Settled
    <3>. QED  BY <2>6, <3>1, <3>2
  <2>. QED  BY <2>1, <2>2, <2>3, <2>5, <2>6 DEF Next, Killed
\* A collection the script leaves, and is not done with the others.
<1>2. ASSUME Next, Advance, script.pc \in {"count", "insert", "bump"}, Settled(Here),
             UNCHANGED <<docs, ever, died, forestalled>>
      PROVE  Moved'
  <2>1. \A c \in Collections : Settled(c) => Settled(c)'
    BY <1>1, <1>2
  <2>2. /\ script'.pc \in {"count", "done"}
        /\ script'.pc = "count" => script'.at = script.at + 1
        /\ script'.pc = "done" => script.at = Len(Order)
    BY <1>2, AdvanceParts
  <2>3. \A i \in 1..Len(Order) : i <= script.at => Settled(Order[i])
    BY <1>0, <1>2 DEF Moved, Running, Here
  <2>4. \A c \in Collections : ever[c] # {} => Settled(c)
    BY <1>2 DEF Moved
  <2>5. script'.pc = "count" => \A i \in 1..Len(Order) : i < script'.at => Settled(Order[i])'
    <3>1. script'.pc = "count" => \A i \in 1..Len(Order) : i < script'.at => i <= script.at
      BY <1>0, <2>2
    <3>. QED  BY <1>0, <2>1, <2>3, <3>1
  <2>6. script'.pc = "done" => \A c \in Collections : Settled(c)'
    <3>1. script'.pc = "done" => \A i \in 1..Len(Order) : i <= script.at
      BY <1>0, <2>2
    <3>. QED  BY <1>0, <2>1, <2>3, <3>1
  <2>. QED  BY <1>2, <2>1, <2>2, <2>4, <2>5, <2>6 DEF Moved, Running
<1>3. CASE Start
  <2>1. script' = [pc |-> "count", at |-> 1, left |-> {}]
        /\ UNCHANGED <<docs, ever, died, forestalled>> /\ ~Running
    BY <1>3 DEF Start
  <2>2. \A c \in Collections : Settled(c)' <=> Settled(c)
    BY <2>1 DEF Settled
  <2>. QED  BY <2>1, <2>2 DEF Moved, Running
<1>4. CASE Count
  <2>0. script.pc = "count" /\ UNCHANGED <<docs, ever, died, forestalled>>
    BY <1>4 DEF Count
  <2>1. CASE docs[Here] = {} /\ Legacy[Here] # {}
    <3>1. script' = [script EXCEPT !.pc = "insert", !.left = Legacy[Here]]
      BY <1>4, <2>1 DEF Count
    <3>2. script'.pc = "insert" /\ script'.at = script.at /\ script'.left = Legacy[Here]
      BY <3>1 DEF Types, Script
    <3>3. Here' = Here /\ \A c \in Collections : Settled(c)' <=> Settled(c)
      BY <2>0, <3>2 DEF Here, Settled
    <3>. QED  BY <1>0, <2>0, <3>2, <3>3 DEF Moved, Running
  <2>2. CASE ~(docs[Here] = {} /\ Legacy[Here] # {})
    <3>1. Settled(Here)
      BY <1>0, <2>0, <2>2 DEF Moved, Settled
    <3>2. Advance
      BY <1>4, <2>2 DEF Count
    <3>. QED  BY <1>2, <1>4, <2>0, <3>1, <3>2 DEF Next
  <2>. QED  BY <2>1, <2>2
<1>5. CASE Inserted
  <2>0. script.pc = "insert" /\ script.left = {} /\ UNCHANGED <<docs, ever, died, forestalled>>
    BY <1>5 DEF Inserted
  <2>1. Settled(Here)
    BY <2>0 DEF Moved, Settled
  <2>2. CASE script' = [script EXCEPT !.pc = "bump"]
    <3>1. script'.pc = "bump" /\ script'.at = script.at
      BY <2>2 DEF Types, Script
    <3>2. Here' = Here /\ \A c \in Collections : Settled(c)' <=> Settled(c)
      BY <2>0, <3>1 DEF Here, Settled
    <3>. QED  BY <1>0, <2>0, <2>1, <3>1, <3>2 DEF Moved, Running
  <2>3. CASE Advance
    BY <1>2, <1>5, <2>0, <2>1, <2>3 DEF Next
  <2>. QED  BY <1>5, <2>2, <2>3 DEF Inserted
<1>6. CASE Bump
  <2>1. Advance /\ script.pc = "bump" /\ UNCHANGED <<docs, ever, died, forestalled>>
    BY <1>6 DEF Bump
  <2>. QED  BY <1>2, <1>6, <2>1 DEF Next, Moved
<1>7. ASSUME Next, Die, Running PROVE Moved'
  <2>1. script'.pc = "off" /\ UNCHANGED <<docs, ever, forestalled>>
    BY <1>7, DieParts DEF Die
  <2>2. \A c \in Collections : ever'[c] # {} => Settled(c)'
    <3>1. ASSUME NEW c \in Collections, ever[c] # {} PROVE Settled(c)'
      <4>1. CASE Settled(c)
        BY <1>1, <1>7, <4>1
      <4>2. CASE script.pc = "insert" /\ Here = c
        BY <1>7, <4>2, DieParts DEF Settled
      <4>. QED  BY <3>1, <4>1, <4>2 DEF Moved
    <3>. QED  BY <2>1, <3>1
  <2>. QED  BY <2>1, <2>2 DEF Moved, Running
<1>8. CASE Killed
  BY <1>7, <1>8 DEF Next, Killed
<1>9. ASSUME NEW k \in script.left, InsertRow(k) PROVE Moved'
  <2>1. CASE Die
    BY <1>7, <1>9, <2>1 DEF InsertRow, Next, Running
  <2>2. CASE ~Die
    <3>1. /\ docs' = [docs EXCEPT ![Here] = @ \cup {k}] /\ ever' = [ever EXCEPT ![Here] = @ \cup {k}]
          /\ UNCHANGED <<died, forestalled>> /\ script.pc = "insert"
          /\ script' = [script EXCEPT !.left = @ \ {k}]
      BY <1>9, <2>2 DEF InsertRow
    <3>2. script'.pc = "insert" /\ script'.at = script.at /\ script'.left = script.left \ {k}
      BY <3>1 DEF Types, Script
    <3>3. Here' = Here
      BY <3>2 DEF Here
    <3>4. \A c \in Collections :
             /\ docs'[c] = IF c = Here THEN docs[c] \cup {k} ELSE docs[c]
             /\ ever'[c] = IF c = Here THEN ever[c] \cup {k} ELSE ever[c]
      BY <3>1 DEF Types
    <3>5. \A c \in Collections : docs'[c] \subseteq ever'[c]
      BY <3>4 DEF Moved
    <3>6. Legacy[Here'] \subseteq ever'[Here'] \cup script'.left
      <4>1. Legacy[Here] \subseteq ever[Here] \cup script.left
        BY <3>1 DEF Moved
      <4>2. ever'[Here] = ever[Here] \cup {k}
        BY <1>0, <3>4
      <4>3. Legacy[Here] \subseteq ever'[Here] \cup script'.left
        BY <3>2, <4>1, <4>2
      <4>. QED  BY <3>3, <4>3
    <3>7. \A c \in Collections : Settled(c) => Settled(c)'
      BY <1>1, <1>9 DEF Next
    <3>8. \A c \in Collections : ever'[c] # {} => Settled(c)' \/ (script'.pc = "insert" /\ Here' = c)
      BY <3>2, <3>3, <3>4, <3>7 DEF Moved
    <3>9. Running => \A i \in 1..Len(Order) : i < script'.at => Settled(Order[i])'
      BY <1>0, <3>2, <3>7 DEF Moved
    <3>10. Running
      BY <3>1 DEF Running
    <3>. QED  BY <3>2, <3>5, <3>6, <3>8, <3>9, <3>10 DEF Moved
  <2>. QED  BY <2>1, <2>2
\* The application.
<1>10. ASSUME Next, UNCHANGED script, \A c \in Collections : docs'[c] \subseteq ever'[c],
              \A c \in Collections : ever[c] \subseteq ever'[c],
              \A c \in Collections : ever[c] = {} /\ ever'[c] # {} => Settled(c)'
       PROVE  Moved'
  <2>1. \A c \in Collections : Settled(c) => Settled(c)'
    BY <1>1, <1>10
  <2>2. Here' = Here /\ Running' = Running
    BY <1>10 DEF Here, Running
  <2>3. \A c \in Collections : ever'[c] # {} => Settled(c)' \/ (script'.pc = "insert" /\ Here' = c)
    BY <1>10, <2>1, <2>2 DEF Moved
  <2>4. script.pc = "insert" => Legacy[Here] \subseteq ever'[Here] \cup script.left
    BY <1>0, <1>10 DEF Moved
  <2>5. Running => \A i \in 1..Len(Order) : i < script.at => Settled(Order[i])'
    BY <1>0, <2>1 DEF Moved
  <2>6. script.pc = "done" => \A c \in Collections : Settled(c)'
    BY <2>1 DEF Moved
  <2>7. script.pc = "bump" => Legacy[Here'] \subseteq ever'[Here'] \/ died'[Here'] \/ forestalled'[Here']
    <3>1. script.pc = "bump" =>
             Legacy[Here] \subseteq ever'[Here] \/ died'[Here] \/ forestalled'[Here]
      BY <1>0, <2>1 DEF Moved, Settled
    <3>. QED  BY <2>2, <3>1
  <2>. QED  BY <1>10, <2>2, <2>3, <2>4, <2>5, <2>6, <2>7 DEF Moved, Settled
<1>11. ASSUME Next, NEW c \in Collections, NEW k, Appear(c, k) PROVE Moved'
  <2>1. \A d \in Collections :
           /\ docs'[d] = IF d = c THEN docs[d] \cup {k} ELSE docs[d]
           /\ ever'[d] = IF d = c THEN ever[d] \cup {k} ELSE ever[d]
    BY <1>11 DEF Appear, Types
  <2>2. ever[c] = {} => Settled(c)'
    <3>1. CASE Legacy[c] \subseteq ever[c]
      BY <2>1, <3>1 DEF Settled
    <3>2. CASE ~(Legacy[c] \subseteq ever[c])
      <4>1. forestalled'[c]
        BY <1>11, <3>2 DEF Appear, Types
      <4>. QED  BY <4>1 DEF Settled
    <3>. QED  BY <3>1, <3>2
  <2>3. script' = script
    BY <1>11 DEF Appear
  <2>4. \A d \in Collections : docs'[d] \subseteq ever'[d] /\ ever[d] \subseteq ever'[d]
    BY <2>1 DEF Moved
  <2>5. \A d \in Collections : ever[d] = {} /\ ever'[d] # {} => Settled(d)'
    BY <2>1, <2>2
  <2>. QED  BY <1>10, <1>11, <2>3, <2>4, <2>5
<1>12. ASSUME NEW p \in Clients, AddNumbered(p) PROVE Moved'
  <2>1. client[p].of \in Collections
    BY <1>12, MigrationAssumption DEF AddNumbered, Types, Held, MigrationAssumption
  <2>2. CASE client[p].key \in docs[client[p].of]
    <3>1. UNCHANGED <<docs, ever, script>>
      BY <1>12, <2>2 DEF AddNumbered
    <3>2. \A c \in Collections : docs[c] \subseteq ever[c]
      BY DEF Moved
    <3>. QED  BY <1>10, <1>12, <3>1, <3>2 DEF Next
  <2>3. CASE client[p].key \notin docs[client[p].of]
    BY <1>11, <1>12, <2>1, <2>3 DEF AddNumbered, Next
  <2>. QED  BY <2>2, <2>3
<1>13. ASSUME NEW p \in Clients, NEW c \in Numbered, TakeNumber(p, c) PROVE Moved'
  <2>1. UNCHANGED <<docs, ever, script>>
    BY <1>13 DEF TakeNumber
  <2>2. \A d \in Collections : docs[d] \subseteq ever[d]
    BY DEF Moved
  <2>. QED  BY <1>10, <1>13, <2>1, <2>2 DEF Next
<1>14. ASSUME NEW c \in Collections, NEW k \in Keys[c], WritePlain(c, k) PROVE Moved'
  BY <1>11, <1>14 DEF WritePlain, Next
<1>15. ASSUME NEW c \in Collections, NEW k \in docs[c], Delete(c, k) PROVE Moved'
  <2>1. UNCHANGED <<ever, script>> /\ \A d \in Collections : docs'[d] \subseteq docs[d]
    BY <1>15 DEF Delete, Types
  <2>2. \A d \in Collections : docs'[d] \subseteq ever[d]
    BY <2>1 DEF Moved
  <2>. QED  BY <1>10, <1>15, <2>1, <2>2 DEF Next
<1>16. CASE UNCHANGED vars
  BY <1>16 DEF vars, Moved, Settled, Here, Running
<1>. QED  BY <1>3, <1>4, <1>5, <1>6, <1>8, <1>9, <1>12, <1>13, <1>14, <1>15, <1>16 DEF Next

\* When the script has come to its end, however often it was run and died, every
\* old row has been in MongoDB, but for collections the application wrote to
\* first and those in which a run stopped.
THEOREM NothingIsLeftBehind == Spec => []NothingLeftBehind
<1>1. Init => Moved
  BY DEF Init, Moved, Off, Running
<1>2. Moved => NothingLeftBehind
  BY DEF Moved, NothingLeftBehind, Settled
<1>. QED  BY <1>1, <1>2, TypesAtFirst, TypesStep, MovedStep, PTL DEF Spec
=============================================================================
