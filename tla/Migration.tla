------------------------------- MODULE Migration -------------------------------
(***************************************************************************)
(* The one-time move from SQLite to MongoDB, scripts/migrate_to_mongo.py,  *)
(* beside the application it is run next to.                               *)
(*                                                                         *)
(* The script takes one collection after the other: it counts, inserts the *)
(* old rows, and for the two that number their documents raises the        *)
(* counter.  It may die, or stop at a duplicate key, between any two of    *)
(* these, and be run again; the application seeds its configuration and    *)
(* takes new numbers meanwhile.                                            *)
(***************************************************************************)
EXTENDS Integers, Sequences

CONSTANTS
    Order,          \* the collections in the script's order
    Numbered,       \* those whose keys come from counters
    Legacy, Top,    \* the keys of the old rows; the largest of them
    Keys,           \* the keys the application writes in the others
    Clients,        \* requests of the application in flight
    MaxRuns, MaxSeq \* BOUNDS

Collections == {Order[i] : i \in 1..Len(Order)}
Plain == Collections \ Numbered

ASSUME MigrationAssumption ==
    /\ Order \in Seq(STRING) /\ Order # <<>> /\ Numbered \subseteq Collections
    /\ Legacy \in [Collections -> SUBSET Nat] /\ Keys \in [Collections -> SUBSET Nat]
    /\ Top \in [Collections -> Nat]
    /\ \A c \in Collections : \A k \in Legacy[c] : k <= Top[c]
    /\ MaxRuns \in Nat /\ MaxSeq \in Nat

VARIABLES
    docs,       \* the keys in each collection
    seq,        \* counters
    script,     \* where the script is, and the rows it has still to insert
    runs,
    client,     \* a number taken for a document, before it is inserted
    \* history, per collection: rows that were ever there; whether a run stopped
    \* in it; whether the application wrote to it before it was imported
    ever, died, forestalled

vars == <<docs, seq, script, runs, client, ever, died, forestalled>>

Off == [pc |-> "off", at |-> 1, left |-> {}]
NoOne == [of |-> "", key |-> 0]

-----------------------------------------------------------------------------
(* The script.                                                             *)

Here == Order[script.at]
Running == script.pc \in {"count", "insert", "bump"}

\* main(), again whenever it is not running.
Start ==
    /\ ~Running /\ runs < MaxRuns
    /\ script' = [pc |-> "count", at |-> 1, left |-> {}]
    /\ runs' = runs + 1
    /\ UNCHANGED <<docs, seq, client, ever, died, forestalled>>

Advance ==
    script' = IF script.at < Len(Order)
              THEN [pc |-> "count", at |-> script.at + 1, left |-> {}]
              ELSE [Off EXCEPT !.pc = "done"]

\* Deviation: a collection that has data ends the run.
Count_Returns ==
    /\ script.pc = "count"
    /\ script' = IF docs[Here] = {} /\ Legacy[Here] # {}
                 THEN [script EXCEPT !.pc = "insert", !.left = Legacy[Here]]
                 ELSE [Off EXCEPT !.pc = "done"]
    /\ UNCHANGED <<docs, seq, runs, client, ever, died, forestalled>>

\* count_documents({}) == 0: a collection with anything in it is skipped.
Count ==
    /\ script.pc = "count"
    /\ IF docs[Here] = {} /\ Legacy[Here] # {}
       THEN script' = [script EXCEPT !.pc = "insert", !.left = Legacy[Here]]
       ELSE Advance
    /\ UNCHANGED <<docs, seq, runs, client, ever, died, forestalled>>

Die ==
    /\ script' = Off
    /\ died' = [died EXCEPT ![Here] = @ \/ script.pc # "count"]
    /\ UNCHANGED <<docs, seq, runs, client, ever, forestalled>>

\* insert_many sends row after row; a key that is there raises.
InsertRow(k) ==
    /\ script.pc = "insert" /\ k \in script.left
    /\ \/ k \in docs[Here] /\ Die
       \/ /\ k \notin docs[Here]
          /\ docs' = [docs EXCEPT ![Here] = @ \cup {k}]
          /\ ever' = [ever EXCEPT ![Here] = @ \cup {k}]
          /\ script' = [script EXCEPT !.left = @ \ {k}]
          /\ UNCHANGED <<seq, runs, client, died, forestalled>>

Inserted ==
    /\ script.pc = "insert" /\ script.left = {}
    /\ IF Here \in Numbered THEN script' = [script EXCEPT !.pc = "bump"] ELSE Advance
    /\ UNCHANGED <<docs, seq, runs, client, ever, died, forestalled>>

\* Deviation: the counter is set, not raised.
Bump_Sets ==
    /\ script.pc = "bump"
    /\ seq' = [seq EXCEPT ![Here] = Top[Here]]
    /\ Advance
    /\ UNCHANGED <<docs, runs, client, ever, died, forestalled>>

\* $max.
Bump ==
    /\ script.pc = "bump"
    /\ seq' = [seq EXCEPT ![Here] = IF @ < Top[Here] THEN Top[Here] ELSE @]
    /\ Advance
    /\ UNCHANGED <<docs, runs, client, ever, died, forestalled>>

Killed == Running /\ Die

-----------------------------------------------------------------------------
(* The application.                                                        *)

\* A document appears; if not all old rows have been there, it comes first.
Appear(c, k) ==
    /\ docs' = [docs EXCEPT ![c] = @ \cup {k}]
    /\ ever' = [ever EXCEPT ![c] = @ \cup {k}]
    /\ forestalled' = [forestalled EXCEPT ![c] = @ \/ ~(Legacy[c] \subseteq ever[c])]
    /\ UNCHANGED <<seq, script, runs, died>>

\* next_sequence.
TakeNumber(p, c) ==
    /\ client[p] = NoOne /\ c \in Numbered /\ seq[c] < MaxSeq
    /\ seq' = [seq EXCEPT ![c] = @ + 1]
    /\ client' = [client EXCEPT ![p] = [of |-> c, key |-> seq[c] + 1]]
    /\ UNCHANGED <<docs, script, runs, ever, died, forestalled>>

\* add_rule and add_scheduled: a number that is there raises.
AddNumbered(p) ==
    /\ client[p] # NoOne
    /\ client' = [client EXCEPT ![p] = NoOne]
    /\ IF client[p].key \in docs[client[p].of]
       THEN UNCHANGED <<docs, seq, script, runs, ever, died, forestalled>>
       ELSE Appear(client[p].of, client[p].key)

\* initialize seeds the configuration; personas, messages, contacts, cooldowns.
WritePlain(c, k) ==
    /\ c \in Plain /\ k \in Keys[c] \ docs[c]
    /\ Appear(c, k) /\ UNCHANGED client

Delete(c, k) ==
    /\ k \in docs[c]
    /\ docs' = [docs EXCEPT ![c] = @ \ {k}]
    /\ UNCHANGED <<seq, script, runs, client, ever, died, forestalled>>

Init ==
    /\ docs = [c \in Collections |-> {}]
    /\ seq = [c \in Numbered |-> 0]
    /\ script = Off /\ runs = 0
    /\ client = [p \in Clients |-> NoOne]
    /\ ever = [c \in Collections |-> {}]
    /\ died = [c \in Collections |-> FALSE]
    /\ forestalled = [c \in Collections |-> FALSE]

Next ==
    \/ Start \/ Count \/ Inserted \/ Bump \/ Killed
    \/ \E k \in script.left : InsertRow(k)
    \/ \E p \in Clients : AddNumbered(p) \/ \E c \in Numbered : TakeNumber(p, c)
    \/ \E c \in Collections : \E k \in Keys[c] : WritePlain(c, k)
    \/ \E c \in Collections : \E k \in docs[c] : Delete(c, k)

Spec == Init /\ [][Next]_vars

-----------------------------------------------------------------------------
(* Properties.                                                             *)

\* No document has a number that its counter has still to give, so that adding
\* another cannot fail, but for the old rows while the script has inserted them
\* and not raised the counter, or if a run died in between and the next one
\* skipped the collection ("so post-migration inserts don't collide with
\* imported ids").
NumbersCovered ==
    \A c \in Numbered : \A k \in docs[c] :
        \/ k <= seq[c]
        \/ /\ k \in Legacy[c]
           /\ died[c] \/ (script.pc \in {"insert", "bump"} /\ Here = c)

\* When a run has come to its end, every old row has been in MongoDB, but for
\* collections the application wrote to before their rows were there and those
\* in which a run died ("Safe to re-run").
NothingLeftBehind ==
    script.pc = "done" =>
        \A c \in Collections :
            Legacy[c] \subseteq ever[c] \/ died[c] \/ forestalled[c]
=============================================================================
