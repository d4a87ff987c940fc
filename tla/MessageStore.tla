----------------------------- MODULE MessageStore -----------------------------
(***************************************************************************)
(* The message store: the list in memory (_message_store), its persistent  *)
(* copy (the messages collection, one document per chat, id and            *)
(* timestamp), the media blobs, the handlers that record live messages,    *)
(* the imports of a backup, and the loads that replace the list in memory  *)
(* by what the database holds.                                             *)
(*                                                                         *)
(* A record is named by its natural key.  A live record is in memory       *)
(* before it is in the database; an imported one is in the database before *)
(* it is in memory; a load reads the one and writes the other with awaits  *)
(* in between.                                                             *)
(***************************************************************************)
EXTENDS Integers, Sequences, FiniteSets

CONSTANTS
    Live,        \* BOUND: messages received or sent while the process runs
    Backup,      \* the records of a backup
    WithMedia,   \* records that carry media
    Final,       \* those of the backup that are never placeholders: contacts, locations
    DateOf,      \* timestamps of the backup's records
    Start,       \* the clock when the process starts
    Loaders,     \* BOUND: import requests and re-initialisations
    Limit,       \* MAX_STORED_MESSAGES
    Chunk,       \* _INSERT_CHUNK
    MaxRestarts  \* BOUND: process restarts

Records == Live \cup Backup

ASSUME StoreAssumption ==
    /\ Live \cap Backup = {} /\ WithMedia \subseteq Records /\ Final \subseteq WithMedia
    /\ DateOf \in [Backup -> Nat] /\ Start \in Nat
    /\ Loaders \cap {"absent", "bare", "own"} = {}
    /\ Limit \in Nat \ {0} /\ Chunk \in Nat \ {0} /\ MaxRestarts \in Nat

VARIABLES
    \* the list in memory, the clock and the timestamps of the records
    memory, now, date,
    \* the database: of each record, whether it is stored and with which file
    doc, blobs,
    \* handlers of live messages, and the file each has saved
    hpc, saved,
    \* imports and loads: where each is, the records of its file, those with
    \* media in it, those still to insert, the chunk in hand, the list it read
    lpc, file, media, todo, chunk, snap,
    \* history: records a load may have dropped
    restarts, excused

memoryVars == <<memory, now, date>>
storeVars  == <<doc, blobs>>
liveVars   == <<hpc, saved>>
fileVars   == <<file, media>>
importVars == <<lpc, file, media, todo, chunk, snap>>
ghostVars  == <<restarts, excused>>
vars == <<memoryVars, storeVars, liveVars, importVars, ghostVars>>

\* Where a record's file comes from: its own handler, or an import.
Sources == Loaders \cup {"own"}
Contents == Sources \cup {"absent", "bare"}
Stored == {r \in Records : doc[r] # "absent"}

HandlerPCs == {"unseen", "fetching", "persist", "done"}
LoaderPCs  == {"idle", "attach", "upsert", "upgrade", "load", "assign", "done", "failed"}

InList(r, s) == \E k \in 1..Len(s) : s[k] = r

\* load_recent: the newest Limit documents, oldest first; any order of equal
\* timestamps.
Newest(D) ==
    {s \in UNION {[1..n -> D] : n \in 0..Limit} :
        /\ \A j, k \in 1..Len(s) : j < k => s[j] # s[k] /\ date[s[j]] <= date[s[k]]
        /\ Len(s) = Limit \/ \A r \in D : InList(r, s)
        /\ \A r \in D, k \in 1..Len(s) : InList(r, s) \/ date[r] <= date[s[k]]}

\* A process that has started on an empty database.
Init ==
    /\ memory = <<>> /\ now = Start
    /\ date = [r \in Records |-> IF r \in Backup THEN DateOf[r] ELSE 0]
    /\ doc = [r \in Records |-> "absent"] /\ blobs = {}
    /\ hpc = [r \in Live |-> "unseen"] /\ saved = [r \in Live |-> "bare"]
    /\ lpc = [i \in Loaders |-> "idle"]
    /\ file = [i \in Loaders |-> {}] /\ media = [i \in Loaders |-> {}]
    /\ todo = [i \in Loaders |-> {}] /\ chunk = [i \in Loaders |-> {}]
    /\ snap = [i \in Loaders |-> <<>>]
    /\ restarts = 0 /\ excused = {}

-----------------------------------------------------------------------------
(* Live messages: received, sent from the panel, or sent by the bot.       *)

\* Deviation: the list is never cut.
Kept_All(s) == s

\* The list is cut to its last Limit records.
Kept(s) == IF Len(s) > Limit THEN SubSeq(s, Len(s) - Limit + 1, Len(s)) ELSE s

\* The record is appended in memory; its write is under way.
Remember(r) ==
    /\ memory' = Kept(Append(memory, r))
    /\ hpc' = [hpc EXCEPT ![r] = "persist"]
    /\ excused' = IF \E i \in Loaders : lpc[i] = "assign"
                  THEN excused \cup {r} ELSE excused

\* A message event: the record takes the time of its handling.  Media are
\* fetched first.
Arrive(r) ==
    /\ hpc[r] = "unseen"
    /\ date' = [date EXCEPT ![r] = now] /\ now' = now + 1
    /\ \/ /\ r \notin WithMedia /\ Remember(r)
       \/ /\ r \in WithMedia
          /\ hpc' = [hpc EXCEPT ![r] = "fetching"]
          /\ UNCHANGED <<memory, excused>>
    /\ UNCHANGED <<storeVars, saved, importVars, restarts>>

\* Deviation: the id is kept although saving the file failed.
Fetched_KeepsId(r) ==
    /\ hpc[r] = "fetching"
    /\ saved' = [saved EXCEPT ![r] = "own"]
    /\ blobs' \in {blobs, blobs \cup {<<r, "own">>}}
    /\ Remember(r)
    /\ UNCHANGED <<now, date, doc, importVars, restarts>>

\* _store_incoming_media: the file is in the media store, or the record stays
\* a placeholder.
Fetched(r) ==
    /\ hpc[r] = "fetching"
    /\ \/ /\ saved' = [saved EXCEPT ![r] = "own"]
          /\ blobs' = blobs \cup {<<r, "own">>}
       \/ UNCHANGED <<saved, blobs>>
    /\ Remember(r)
    /\ UNCHANGED <<now, date, doc, importVars, restarts>>

\* _persist_message, best effort: an upsert that leaves an existing document.
Persist(r, ok) ==
    /\ hpc[r] = "persist"
    /\ hpc' = [hpc EXCEPT ![r] = "done"]
    /\ doc' = IF ok /\ doc[r] = "absent" THEN [doc EXCEPT ![r] = saved[r]] ELSE doc
    /\ UNCHANGED <<memoryVars, blobs, saved, importVars, ghostVars>>

-----------------------------------------------------------------------------
(* Imports.                                                                *)

Goto(i, at) == lpc' = [lpc EXCEPT ![i] = at]

\* The uploaded file: some records of the backup, some with their media.  A
\* file without records answers an error and changes nothing.
StartImport(i) ==
    /\ lpc[i] = "idle"
    /\ \E records \in SUBSET Backup \ {{}}, m \in SUBSET WithMedia :
          /\ m \subseteq records
          /\ file' = [file EXCEPT ![i] = records]
          /\ media' = [media EXCEPT ![i] = m]
          /\ todo' = [todo EXCEPT ![i] = records]
          /\ Goto(i, IF m = {} THEN "upsert" ELSE "attach")
    /\ UNCHANGED <<memoryVars, storeVars, liveVars, chunk, snap, ghostVars>>

\* attach_media_from_zip saves the files one by one.
Attach(i) ==
    /\ lpc[i] = "attach"
    /\ \E r \in media[i] :
          /\ <<r, i>> \notin blobs
          /\ blobs' = blobs \cup {<<r, i>>}
          /\ Goto(i, IF \A m \in media[i] : <<m, i>> \in blobs' THEN "upsert" ELSE "attach")
    /\ UNCHANGED <<memoryVars, doc, liveVars, fileVars, todo, chunk, snap, ghostVars>>

\* What the documents of the records in c are after an upsert of import i.
Upserted(i, c) ==
    [r \in Records |-> IF r \in c /\ doc[r] = "absent"
                       THEN (IF r \in media[i] THEN i ELSE "bare") ELSE doc[r]]

\* Deviation: the chunk's media replace what is stored.
Upgraded_Overwrites(i, c) ==
    [r \in Records |-> IF r \in c \cap media[i] THEN i ELSE doc[r]]

\* ... and after the upgrade of placeholders.
Upgraded(i, c) ==
    [r \in Records |-> IF r \in (c \cap media[i]) \ Final /\ doc[r] = "bare" THEN i ELSE doc[r]]

NextChunk(i, c) ==
    /\ c \subseteq todo[i]
    /\ Cardinality(c) = Chunk \/ (c = todo[i] /\ Cardinality(c) <= Chunk)

\* The chunk is done with: the next one, or the reload.
Done(i, rest) ==
    /\ todo' = [todo EXCEPT ![i] = rest]
    /\ Goto(i, IF rest = {} THEN "load" ELSE "upsert")

\* Deviation: existing documents are left as they are.
Upsert_NoUpgrade(i) ==
    /\ lpc[i] = "upsert"
    /\ \E c \in SUBSET todo[i] :
          /\ NextChunk(i, c)
          /\ doc' = Upserted(i, c)
          /\ Done(i, todo[i] \ c)
    /\ UNCHANGED <<memoryVars, blobs, liveVars, fileVars, chunk, snap, ghostVars>>

\* insert_many: the bulk upsert of a chunk, then, if the file has media for it,
\* the upgrade of the placeholders that were there before.
Upsert(i) ==
    /\ lpc[i] = "upsert"
    /\ \E c \in SUBSET todo[i] :
          /\ NextChunk(i, c)
          /\ doc' = Upserted(i, c)
          /\ \/ /\ c \cap media[i] = {}
                /\ Done(i, todo[i] \ c) /\ UNCHANGED chunk
             \/ /\ c \cap media[i] # {}
                /\ chunk' = [chunk EXCEPT ![i] = c]
                /\ Goto(i, "upgrade") /\ UNCHANGED todo
    /\ UNCHANGED <<memoryVars, blobs, liveVars, fileVars, snap, ghostVars>>

Upgrade(i) ==
    /\ lpc[i] = "upgrade"
    /\ doc' = Upgraded(i, chunk[i])
    /\ Done(i, todo[i] \ chunk[i])
    /\ chunk' = [chunk EXCEPT ![i] = {}]
    /\ UNCHANGED <<memoryVars, blobs, liveVars, fileVars, snap, ghostVars>>

\* A call raises and the request ends: an unordered bulk write may have been
\* applied to any part of the chunk.
ImportFails(i) ==
    /\ lpc[i] \in {"attach", "upsert", "upgrade"}
    /\ Goto(i, "failed")
    /\ \/ /\ lpc[i] = "upsert"
          /\ \E c \in SUBSET todo[i] : Cardinality(c) <= Chunk /\ doc' = Upserted(i, c)
       \/ /\ lpc[i] = "upgrade"
          /\ \E c \in SUBSET chunk[i] : doc' = Upgraded(i, c)
       \/ UNCHANGED doc
    /\ UNCHANGED <<memoryVars, blobs, liveVars, fileVars, todo, chunk, snap, ghostVars>>

-----------------------------------------------------------------------------
(* Loads: after an import, and by initialize() on a later connect.         *)

StartReload(i) ==
    /\ lpc[i] = "idle"
    /\ Goto(i, "load")
    /\ UNCHANGED <<memoryVars, storeVars, liveVars, fileVars, todo, chunk, snap, ghostVars>>

\* The query is answered ...
Read(i) ==
    /\ lpc[i] = "load"
    /\ \E s \in Newest(Stored) : snap' = [snap EXCEPT ![i] = s]
    /\ Goto(i, "assign")
    /\ excused' = excused \cup {r \in Live : hpc[r] = "persist"}
    /\ UNCHANGED <<memoryVars, storeVars, liveVars, fileVars, todo, chunk, restarts>>

\* ... and its last batch has arrived: the list in memory is replaced.
Assign(i) ==
    /\ lpc[i] = "assign"
    /\ memory' = snap[i]
    /\ snap' = [snap EXCEPT ![i] = <<>>]
    /\ Goto(i, "done")
    /\ UNCHANGED <<now, date, storeVars, liveVars, fileVars, todo, chunk, ghostVars>>

\* Deviation: a load that fails leaves an empty list.
LoadFails_Empties(i) ==
    /\ lpc[i] \in {"load", "assign"}
    /\ memory' = <<>>
    /\ snap' = [snap EXCEPT ![i] = <<>>]
    /\ Goto(i, "done")
    /\ UNCHANGED <<now, date, storeVars, liveVars, fileVars, todo, chunk, ghostVars>>

\* A load that fails leaves the list as it is.
LoadFails(i) ==
    /\ lpc[i] \in {"load", "assign"}
    /\ snap' = [snap EXCEPT ![i] = <<>>]
    /\ Goto(i, "done")
    /\ UNCHANGED <<memoryVars, storeVars, liveVars, fileVars, todo, chunk, ghostVars>>

\* The process dies and starts again; its first load may fail.
Restart ==
    /\ restarts < MaxRestarts /\ restarts' = restarts + 1
    /\ hpc' = [r \in Live |-> IF hpc[r] = "unseen" THEN "unseen" ELSE "done"]
    /\ lpc' = [i \in Loaders |-> IF lpc[i] \in {"idle", "done"} THEN lpc[i] ELSE "failed"]
    /\ snap' = [i \in Loaders |-> <<>>]
    /\ \/ memory' \in Newest(Stored) /\ UNCHANGED excused
       \/ memory' = <<>> /\ excused' = excused \cup (Live \cap Stored)
    /\ UNCHANGED <<now, date, storeVars, saved, fileVars, todo, chunk>>

-----------------------------------------------------------------------------

Handler(r) == Arrive(r) \/ Fetched(r) \/ \E ok \in BOOLEAN : Persist(r, ok)

Loader(i) ==
    \/ StartImport(i) \/ Attach(i) \/ Upsert(i) \/ Upgrade(i) \/ ImportFails(i)
    \/ StartReload(i) \/ Read(i) \/ Assign(i) \/ LoadFails(i)

Next ==
    \/ \E r \in Live : Handler(r)
    \/ \E i \in Loaders : Loader(i)
    \/ Restart

Spec == Init /\ [][Next]_vars

-----------------------------------------------------------------------------
(* Properties.                                                             *)

\* Type invariant; the list in memory never outgrows its limit.
TypeOK ==
    /\ memory \in Seq(Records) /\ Len(memory) <= Limit
    /\ now \in Nat /\ date \in [Records -> Nat]
    /\ doc \in [Records -> Contents]
    /\ blobs \in SUBSET (Records \X Sources)
    /\ hpc \in [Live -> HandlerPCs] /\ saved \in [Live -> {"bare", "own"}]
    /\ lpc \in [Loaders -> LoaderPCs]
    /\ file \in [Loaders -> SUBSET Backup] /\ media \in [Loaders -> SUBSET Backup]
    /\ todo \in [Loaders -> SUBSET Backup] /\ chunk \in [Loaders -> SUBSET Backup]
    /\ snap \in [Loaders -> Seq(Records)]
    /\ \A i \in Loaders : Len(snap[i]) <= Limit
    /\ restarts \in 0..MaxRestarts /\ excused \in SUBSET Live

\* No import, repeated, concurrent or broken off, takes a stored message or
\* the file of one away again (insert and insert_many: "duplicates are
\* skipped").
StoredForGood ==
    [][\A r \in Records :
          /\ doc[r] # "absent" => doc'[r] # "absent"
          /\ doc[r] \in Sources => doc'[r] = doc[r]]_vars

\* An import that gets to its reload has stored every record of its file, and
\* a file for each whose media the upload held, even where an earlier import
\* had left a placeholder (insert_many, _insert_chunked); a contact or location
\* that an earlier import left without its file stays without it.
ImportsAreComplete ==
    \A i \in Loaders : lpc[i] \in {"load", "assign", "done"} =>
        \A r \in file[i] : /\ doc[r] # "absent"
                           /\ r \in media[i] \ Final => doc[r] \in Sources

\* Every file a stored message refers to is in the media store, whatever
\* failed on the way (_store_incoming_media, attach_media_from_zip).
FilesExist ==
    \A r \in Records : doc[r] \in Sources => <<r, doc[r]>> \in blobs

\* A stored live message is missing from the list in memory only if the list
\* is full, or if a load was between its query and its assignment when the
\* message came, or met it before its own write was done
\* (_load_message_store_from_db, _persist_message).
OnlyLoadsForget ==
    \A r \in (Live \cap Stored) \ excused :
        InList(r, memory) \/ Len(memory) = Limit
=============================================================================
