-------------------------- MODULE MessageStoreProofs --------------------------
(* Type correctness of MessageStore, and that imports keep, complete and    *)
(* back by files what they store, for any number of messages, records,      *)
(* imports and restarts and any limits; then, of BackupParsing, which gives *)
(* an import its records, that transcripts of any length are read whole and *)
(* that only repeats are dropped or kept twice.                             *)
EXTENDS MessageStore, BackupParsing, WellFoundedInduction, TLAPS

USE StoreAssumption
    DEF StoreAssumption, Records, memoryVars, storeVars, liveVars, fileVars,
        importVars, ghostVars, vars, Sources, Contents, HandlerPCs, LoaderPCs

-----------------------------------------------------------------------------
(* The list operators.                                                     *)

\* Cutting a list one longer than the limit leaves a list within it.
LEMMA KeptIsList ==
    ASSUME NEW s \in Seq(Records), Len(s) <= Limit, NEW r \in Records
    PROVE  /\ Kept(Append(s, r)) \in Seq(Records)
           /\ Len(Kept(Append(s, r))) <= Limit
<1>. DEFINE t == Append(s, r)
<1>1. t \in Seq(Records) /\ Len(t) = Len(s) + 1 /\ Len(s) \in Nat
  OBVIOUS
<1>2. CASE Len(t) > Limit
  <2>1. Len(t) = Limit + 1
    BY <1>1, <1>2
  <2>2. Kept(t) = SubSeq(t, 2, Len(t))
    BY <1>2, <2>1 DEF Kept
  <2>3. SubSeq(t, 2, Len(t)) \in Seq(Records) /\ Len(SubSeq(t, 2, Len(t))) = Len(t) - 1
    BY <1>1, <2>1
  <2>. QED  BY <2>1, <2>2, <2>3
<1>3. CASE ~(Len(t) > Limit)
  BY <1>1, <1>3 DEF Kept
<1>. QED  BY <1>2, <1>3

\* What a load reads is a list within the limit.
LEMMA NewestIsList ==
    ASSUME NEW s \in Newest(Stored)
    PROVE  s \in Seq(Records) /\ Len(s) <= Limit
<1>1. PICK n \in 0..Limit : s \in [1..n -> Stored]
  BY DEF Newest
<1>2. Stored \subseteq Records
  BY DEF Stored
<1>3. s \in [1..n -> Records] /\ n \in Nat
  BY <1>1, <1>2
<1>4. s \in Seq(Records)
  BY <1>3
<1>5. Len(s) = n
  BY <1>3, <1>4
<1>. QED  BY <1>4, <1>5

-----------------------------------------------------------------------------
(* Type correctness.                                                       *)

\* An upsert or an upgrade leaves documents within their type.
LEMMA WritesTyped ==
    ASSUME TypeOK, NEW i \in Loaders, NEW c
    PROVE  Upserted(i, c) \in [Records -> Contents] /\ Upgraded(i, c) \in [Records -> Contents]
BY DEF Upserted, Upgraded, TypeOK

\* Giving one import another set of backup records.
LEMMA SetUpdated ==
    ASSUME NEW f \in [Loaders -> SUBSET Backup], NEW i \in Loaders,
           NEW S, S \subseteq Backup
    PROVE  [f EXCEPT ![i] = S] \in [Loaders -> SUBSET Backup]
OBVIOUS

\* Remembering a record leaves a list within the limit.
LEMMA RememberTyped ==
    ASSUME TypeOK, NEW r \in Live, Remember(r)
    PROVE  memory' \in Seq(Records) /\ Len(memory') <= Limit
BY KeptIsList DEF Remember, TypeOK

\* The store keeps within its types, and the list in memory within its limit.
THEOREM StoreTypes == Spec => []TypeOK
<1>1. Init => TypeOK
  <2>. SUFFICES ASSUME Init PROVE TypeOK
    OBVIOUS
  <2>1. date \in [Records -> Nat]
    BY DEF Init
  <2>2. memory \in Seq(Records) /\ Len(memory) <= Limit
    BY DEF Init
  <2>3. snap \in [Loaders -> Seq(Records)] /\ \A i \in Loaders : Len(snap[i]) <= Limit
    BY DEF Init
  <2>. QED  BY <2>1, <2>2, <2>3 DEF Init, TypeOK
<1>2. TypeOK /\ [Next]_vars => TypeOK'
  <2>. SUFFICES ASSUME TypeOK, [Next]_vars PROVE TypeOK'
    OBVIOUS
  <2>1. ASSUME NEW r \in Live, Arrive(r) PROVE TypeOK'
    <3>1. date' \in [Records -> Nat] /\ now' \in Nat
      BY <2>1 DEF Arrive, TypeOK
    <3>2. memory' \in Seq(Records) /\ Len(memory') <= Limit
      <4>1. Remember(r) \/ memory' = memory
        BY <2>1 DEF Arrive
      <4>. QED  BY <4>1, RememberTyped DEF TypeOK
    <3>. QED  BY <2>1, <3>1, <3>2 DEF Arrive, Remember, TypeOK
  <2>2. ASSUME NEW r \in Live, Fetched(r) PROVE TypeOK'
    <3>1. memory' \in Seq(Records) /\ Len(memory') <= Limit
      BY <2>2, RememberTyped DEF Fetched
    <3>2. <<r, "own">> \in Records \X Sources
      OBVIOUS
    <3>3. blobs' \in SUBSET (Records \X Sources)
      BY <2>2, <3>2 DEF Fetched, TypeOK
    <3>4. saved' \in [Live -> {"bare", "own"}]
      BY <2>2 DEF Fetched, TypeOK
    <3>. QED  BY <2>2, <3>1, <3>3, <3>4 DEF Fetched, Remember, TypeOK
  <2>3. ASSUME NEW r \in Live, NEW ok \in BOOLEAN, Persist(r, ok) PROVE TypeOK'
    BY <2>3 DEF Persist, TypeOK
  <2>4. ASSUME NEW i \in Loaders, StartImport(i) PROVE TypeOK'
    BY <2>4 DEF StartImport, Goto, TypeOK
  <2>5. ASSUME NEW i \in Loaders, Attach(i) PROVE TypeOK'
    <3>1. blobs' \in SUBSET (Records \X Sources)
      BY <2>5 DEF Attach, TypeOK
    <3>. QED  BY <2>5, <3>1 DEF Attach, Goto, TypeOK
  <2>6. ASSUME NEW i \in Loaders, Upsert(i) PROVE TypeOK'
    <3>1. PICK c \in SUBSET todo[i] :
            /\ doc' = Upserted(i, c)
            /\ \/ Done(i, todo[i] \ c) /\ UNCHANGED chunk
               \/ /\ chunk' = [chunk EXCEPT ![i] = c]
                  /\ Goto(i, "upgrade") /\ UNCHANGED todo
      BY <2>6 DEF Upsert
    <3>2. doc' \in [Records -> Contents]
      BY <3>1, WritesTyped
    <3>3. c \subseteq Backup /\ todo[i] \ c \subseteq Backup
      BY DEF TypeOK
    <3>4. lpc' \in [Loaders -> LoaderPCs]
      BY <3>1 DEF Done, Goto, TypeOK
    <3>5. todo' \in [Loaders -> SUBSET Backup]
      <4>1. [todo EXCEPT ![i] = todo[i] \ c] \in [Loaders -> SUBSET Backup]
        BY <3>3, SetUpdated DEF TypeOK
      <4>2. todo' = [todo EXCEPT ![i] = todo[i] \ c] \/ todo' = todo
        BY <3>1 DEF Done
      <4>. QED  BY <4>1, <4>2 DEF TypeOK
    <3>6. chunk' \in [Loaders -> SUBSET Backup]
      <4>1. [chunk EXCEPT ![i] = c] \in [Loaders -> SUBSET Backup]
        BY <3>3, SetUpdated DEF TypeOK
      <4>2. chunk' = [chunk EXCEPT ![i] = c] \/ chunk' = chunk
        BY <3>1
      <4>. QED  BY <4>1, <4>2 DEF TypeOK
    <3>. QED  BY <2>6, <3>2, <3>4, <3>5, <3>6 DEF Upsert, TypeOK
  <2>7. ASSUME NEW i \in Loaders, Upgrade(i) PROVE TypeOK'
    <3>1. doc' \in [Records -> Contents]
      BY <2>7, WritesTyped DEF Upgrade
    <3>. QED  BY <2>7, <3>1 DEF Upgrade, Done, Goto, TypeOK
  <2>8. ASSUME NEW i \in Loaders, ImportFails(i) PROVE TypeOK'
    <3>1. doc' \in [Records -> Contents]
      <4>1. ASSUME NEW c, doc' = Upserted(i, c) \/ doc' = Upgraded(i, c)
            PROVE  doc' \in [Records -> Contents]
        BY <4>1, WritesTyped
      <4>2. CASE doc' = doc
        BY <4>2 DEF TypeOK
      <4>3. (\E c : doc' = Upserted(i, c) \/ doc' = Upgraded(i, c)) \/ doc' = doc
        BY <2>8 DEF ImportFails
      <4>. QED  BY <4>1, <4>2, <4>3
    <3>. QED  BY <2>8, <3>1 DEF ImportFails, Goto, TypeOK
  <2>9. ASSUME NEW i \in Loaders, StartReload(i) PROVE TypeOK'
    BY <2>9 DEF StartReload, Goto, TypeOK
  <2>10. ASSUME NEW i \in Loaders, Read(i) PROVE TypeOK'
    <3>1. PICK s \in Newest(Stored) : snap' = [snap EXCEPT ![i] = s]
      BY <2>10 DEF Read
    <3>2. s \in Seq(Records) /\ Len(s) <= Limit
      BY NewestIsList
    <3>3. snap' \in [Loaders -> Seq(Records)] /\ \A j \in Loaders : Len(snap'[j]) <= Limit
      BY <3>1, <3>2 DEF TypeOK
    <3>. QED  BY <2>10, <3>3 DEF Read, Goto, TypeOK
  <2>11. ASSUME NEW i \in Loaders, Assign(i) \/ LoadFails(i) PROVE TypeOK'
    <3>1. snap' \in [Loaders -> Seq(Records)] /\ \A j \in Loaders : Len(snap'[j]) <= Limit
      <4>1. snap' = [snap EXCEPT ![i] = <<>>]
        BY <2>11 DEF Assign, LoadFails
      <4>2. <<>> \in Seq(Records) /\ Len(<<>>) = 0
        OBVIOUS
      <4>. QED  BY <4>1, <4>2 DEF TypeOK
    <3>2. memory' \in Seq(Records) /\ Len(memory') <= Limit
      BY <2>11 DEF Assign, LoadFails, TypeOK
    <3>. QED  BY <2>11, <3>1, <3>2 DEF Assign, LoadFails, Goto, TypeOK
  <2>12. CASE Restart
    <3>1. memory' \in Seq(Records) /\ Len(memory') <= Limit
      <4>1. CASE memory' \in Newest(Stored)
        <5>. DEFINE s == memory'
        <5>1. s \in Newest(Stored)
          BY <4>1
        <5>. HIDE DEF s
        <5>2. s \in Seq(Records) /\ Len(s) <= Limit
          BY <5>1, NewestIsList
        <5>. QED  BY <5>2 DEF s
      <4>2. CASE memory' = <<>>
        BY <4>2
      <4>3. memory' \in Newest(Stored) \/ memory' = <<>>
        BY <2>12 DEF Restart
      <4>. QED  BY <4>1, <4>2, <4>3
    <3>2. snap' \in [Loaders -> Seq(Records)] /\ \A j \in Loaders : Len(snap'[j]) <= Limit
      BY <2>12 DEF Restart
    <3>. QED  BY <2>12, <3>1, <3>2 DEF Restart, TypeOK
  <2>13. CASE UNCHANGED vars
    BY <2>13 DEF TypeOK
  <2>. QED
    BY <2>1, <2>2, <2>3, <2>4, <2>5, <2>6, <2>7, <2>8, <2>9, <2>10, <2>11,
       <2>12, <2>13 DEF Next, Handler, Loader
<1>. QED  BY <1>1, <1>2, PTL DEF Spec
-----------------------------------------------------------------------------
(* Documents only grow, and imports account for what they inserted.        *)

\* What a step may do to the documents.
DocsGrow ==
    \A r \in Records : /\ doc[r] # "absent" => doc'[r] # "absent"
                       /\ doc[r] \in Sources => doc'[r] = doc[r]

\* No step takes a document or its file away.
LEMMA EveryStepKeepsDocs == TypeOK /\ [Next]_vars => DocsGrow
<1>. SUFFICES ASSUME TypeOK, [Next]_vars PROVE DocsGrow
  OBVIOUS
<1>1. ASSUME NEW r \in Live, NEW ok \in BOOLEAN, Persist(r, ok) PROVE DocsGrow
  BY <1>1 DEF Persist, DocsGrow, TypeOK
<1>2. ASSUME NEW i \in Loaders, NEW c, doc' = Upserted(i, c) \/ doc' = Upgraded(i, c)
      PROVE  DocsGrow
  BY <1>2 DEF Upserted, Upgraded, DocsGrow, TypeOK
<1>3. ASSUME NEW i \in Loaders, Upsert(i) \/ Upgrade(i) \/ ImportFails(i) PROVE DocsGrow
  <2>1. (\E c : doc' = Upserted(i, c) \/ doc' = Upgraded(i, c)) \/ doc' = doc
    BY <1>3 DEF Upsert, Upgrade, ImportFails
  <2>. QED  BY <1>2, <2>1 DEF DocsGrow
<1>4. CASE doc' = doc
  BY <1>4 DEF DocsGrow
<1>. QED
  BY <1>1, <1>3, <1>4
  DEF Next, Handler, Loader, Arrive, Fetched, StartImport, Attach, StartReload,
      Read, Assign, LoadFails, Restart

\* What is stored stays stored, and keeps the file it has.
THEOREM StoredIsKept == Spec => StoredForGood
<1>1. TypeOK /\ [Next]_vars =>
        [\A r \in Records : /\ doc[r] # "absent" => doc'[r] # "absent"
                            /\ doc[r] \in Sources => doc'[r] = doc[r]]_vars
  BY EveryStepKeepsDocs DEF DocsGrow
<1>. QED  BY <1>1, StoreTypes, PTL DEF Spec, StoredForGood

Loading == {"load", "assign", "done"}

\* The records an import is through with are stored, with their files; those
\* of the chunk it is upgrading are stored; it loads when it is through.
Inserted ==
    \A i \in Loaders :
        /\ \A r \in file[i] \ todo[i] : doc[r] # "absent" /\ (r \in media[i] \ Final => doc[r] \in Sources)
        /\ lpc[i] = "upgrade" => \A r \in chunk[i] : doc[r] # "absent"
        /\ lpc[i] \in Loading => todo[i] = {}
        /\ lpc[i] = "idle" => file[i] = {} /\ todo[i] = {}

\* A chunk that was upserted without media, or upgraded, is inserted.
LEMMA DoneKeepsInserted ==
    ASSUME TypeOK, TypeOK', Inserted, NEW i \in Loaders, NEW c, lpc[i] \in {"upsert", "upgrade"},
           Done(i, todo[i] \ c), UNCHANGED fileVars, DocsGrow,
           \A r \in c \cap Records : doc'[r] # "absent" /\ (r \in media[i] \ Final => doc'[r] \in Sources),
           \A j \in Loaders : j # i => chunk'[j] = chunk[j]
    PROVE  Inserted'
<1>1. \A j \in Loaders : j # i => todo'[j] = todo[j] /\ lpc'[j] = lpc[j]
  BY DEF Done, Goto, TypeOK
<1>2. todo'[i] = todo[i] \ c /\ lpc'[i] = IF todo[i] \ c = {} THEN "load" ELSE "upsert"
  BY DEF Done, Goto, TypeOK
<1>3. ASSUME NEW j \in Loaders, NEW r \in file'[j] \ todo'[j]
      PROVE  doc'[r] # "absent" /\ (r \in media'[j] \ Final => doc'[r] \in Sources)
  BY <1>1, <1>2, <1>3 DEF Inserted, DocsGrow, TypeOK
<1>4. ASSUME NEW j \in Loaders, lpc'[j] = "upgrade", NEW r \in chunk'[j]
      PROVE  doc'[r] # "absent"
  BY <1>1, <1>2, <1>4 DEF Inserted, DocsGrow, TypeOK
<1>5. ASSUME NEW j \in Loaders, lpc'[j] \in Loading PROVE todo'[j] = {}
  BY <1>1, <1>2, <1>5 DEF Inserted, Loading
<1>6. ASSUME NEW j \in Loaders, lpc'[j] = "idle" PROVE file'[j] = {} /\ todo'[j] = {}
  BY <1>1, <1>2, <1>6 DEF Inserted
<1>. QED  BY <1>3, <1>4, <1>5, <1>6 DEF Inserted

\* Every step keeps the account of the imports.
LEMMA InsertedStep == TypeOK /\ TypeOK' /\ Inserted /\ [Next]_vars => Inserted'
<1>. SUFFICES ASSUME TypeOK, TypeOK', Inserted, [Next]_vars PROVE Inserted'
  OBVIOUS
<1>1. DocsGrow
  BY EveryStepKeepsDocs
<1>2. ASSUME UNCHANGED importVars PROVE Inserted'
  BY <1>1, <1>2 DEF Inserted, DocsGrow, TypeOK
<1>3. ASSUME NEW i \in Loaders, StartImport(i) PROVE Inserted'
  BY <1>1, <1>3 DEF StartImport, Goto, Inserted, Loading, TypeOK, DocsGrow
<1>4. ASSUME NEW i \in Loaders, Attach(i) PROVE Inserted'
  BY <1>4 DEF Attach, Goto, Inserted, Loading, TypeOK
<1>5. ASSUME NEW i \in Loaders, Upsert(i) PROVE Inserted'
  <2>1. PICK c \in SUBSET todo[i] :
          /\ doc' = Upserted(i, c)
          /\ \/ /\ c \cap media[i] = {}
                /\ Done(i, todo[i] \ c) /\ UNCHANGED chunk
             \/ /\ c \cap media[i] # {}
                /\ chunk' = [chunk EXCEPT ![i] = c]
                /\ Goto(i, "upgrade") /\ UNCHANGED todo
    BY <1>5 DEF Upsert
  <2>2. lpc[i] = "upsert" /\ UNCHANGED fileVars
    BY <1>5 DEF Upsert
  <2>3. \A r \in c \cap Records : doc'[r] # "absent"
    BY <2>1 DEF Upserted, TypeOK
  <2>4. CASE c \cap media[i] = {} /\ Done(i, todo[i] \ c) /\ UNCHANGED chunk
    BY <1>1, <2>2, <2>3, <2>4, DoneKeepsInserted
  <2>5. CASE chunk' = [chunk EXCEPT ![i] = c] /\ Goto(i, "upgrade") /\ UNCHANGED todo
    BY <1>1, <2>2, <2>3, <2>5 DEF Goto, Inserted, DocsGrow, Loading, TypeOK
  <2>. QED  BY <2>1, <2>4, <2>5
<1>6. ASSUME NEW i \in Loaders, Upgrade(i) PROVE Inserted'
  <2>1. \A r \in chunk[i] \cap Records : doc'[r] # "absent" /\ (r \in media[i] \ Final => doc'[r] \in Sources)
    BY <1>6 DEF Upgrade, Upgraded, Inserted, TypeOK
  <2>2. \A j \in Loaders : j # i => chunk'[j] = chunk[j]
    BY <1>6 DEF Upgrade, TypeOK
  <2>3. lpc[i] = "upgrade" /\ Done(i, todo[i] \ chunk[i]) /\ UNCHANGED fileVars
    BY <1>6 DEF Upgrade
  <2>. QED  BY <1>1, <2>1, <2>2, <2>3, DoneKeepsInserted
<1>7. ASSUME NEW i \in Loaders, ImportFails(i) PROVE Inserted'
  BY <1>1, <1>7 DEF ImportFails, Goto, Inserted, DocsGrow, Loading, TypeOK
<1>8. ASSUME NEW i \in Loaders, StartReload(i) PROVE Inserted'
  BY <1>8 DEF StartReload, Goto, Inserted, Loading, TypeOK
<1>9. ASSUME NEW i \in Loaders, Read(i) \/ Assign(i) \/ LoadFails(i) PROVE Inserted'
  <2>1. UNCHANGED <<doc, file, media, todo, chunk>>
    BY <1>9 DEF Read, Assign, LoadFails, fileVars
  <2>2. \A j \in Loaders : j # i => lpc'[j] = lpc[j]
    BY <1>9 DEF Read, Assign, LoadFails, Goto, TypeOK
  <2>3. lpc[i] \in {"load", "assign"} /\ lpc'[i] \in Loading
    BY <1>9 DEF Read, Assign, LoadFails, Goto, Loading, TypeOK
  <2>. QED  BY <2>1, <2>2, <2>3 DEF Inserted, Loading
<1>10. CASE Restart
  BY <1>10 DEF Restart, Inserted, Loading, TypeOK
<1>. QED
  BY <1>2, <1>3, <1>4, <1>5, <1>6, <1>7, <1>8, <1>9, <1>10
  DEF Next, Handler, Loader, Arrive, Fetched, Persist

\* An import that gets to its reload has stored its file with its media, for
\* any file, any chunk size and any other imports and failures.
THEOREM ImportsComplete == Spec => []ImportsAreComplete
<1>1. Init => Inserted
  BY DEF Init, Inserted, Loading
<1>2. Inserted => ImportsAreComplete
  BY DEF Inserted, ImportsAreComplete, Loading
<1>. QED  BY <1>1, <1>2, InsertedStep, StoreTypes, PTL DEF Spec

-----------------------------------------------------------------------------
(* Files.                                                                  *)

\* A file is in the media store before anything can write its id: those of a
\* handler, and those of an import that inserts.
FilesSaved ==
    /\ FilesExist
    /\ \A r \in Live : saved[r] = "own" => <<r, "own">> \in blobs
    /\ \A i \in Loaders : lpc[i] \in {"upsert", "upgrade"} =>
          \A r \in media[i] : <<r, i>> \in blobs

\* An import that writes documents writes ids of files it has saved.
LEMMA WritesSavedFiles ==
    ASSUME TypeOK, FilesSaved, NEW i \in Loaders, lpc[i] \in {"upsert", "upgrade"},
           blobs' = blobs, NEW c, doc' = Upserted(i, c) \/ doc' = Upgraded(i, c)
    PROVE  FilesExist'
<1>. SUFFICES ASSUME NEW r \in Records, doc'[r] \in Sources PROVE <<r, doc'[r]>> \in blobs
  BY DEF FilesExist
<1>1. doc'[r] = doc[r] \/ (r \in media[i] /\ doc'[r] = i)
  BY DEF Upserted, Upgraded, TypeOK
<1>. QED  BY <1>1 DEF FilesSaved, FilesExist

\* Every step keeps it.
LEMMA FilesSavedStep == TypeOK /\ TypeOK' /\ FilesSaved /\ [Next]_vars => FilesSaved'
<1>. SUFFICES ASSUME TypeOK, TypeOK', FilesSaved, [Next]_vars PROVE FilesSaved'
  OBVIOUS
<1>1. ASSUME UNCHANGED <<doc, blobs, saved, lpc, media>> PROVE FilesSaved'
  BY <1>1 DEF FilesSaved, FilesExist
<1>2. ASSUME NEW r \in Live, Fetched(r) PROVE FilesSaved'
  <2>1. blobs \subseteq blobs' /\ UNCHANGED <<doc, lpc, media>>
    BY <1>2 DEF Fetched
  <2>2. \A s \in Live : saved'[s] = "own" => <<s, "own">> \in blobs'
    BY <1>2 DEF Fetched, FilesSaved, TypeOK
  <2>. QED  BY <2>1, <2>2 DEF FilesSaved, FilesExist
<1>3. ASSUME NEW r \in Live, NEW ok \in BOOLEAN, Persist(r, ok) PROVE FilesSaved'
  <2>1. UNCHANGED <<blobs, saved, lpc, media>>
    BY <1>3 DEF Persist
  <2>2. \A s \in Records : doc'[s] = doc[s] \/ (s = r /\ doc'[s] = saved[r])
    BY <1>3 DEF Persist, TypeOK
  <2>3. saved[r] \in Sources => saved[r] = "own"
    BY DEF TypeOK
  <2>. QED  BY <2>1, <2>2, <2>3 DEF FilesSaved, FilesExist
<1>4. ASSUME NEW i \in Loaders, StartImport(i) PROVE FilesSaved'
  <2>1. UNCHANGED <<doc, blobs, saved>>
    BY <1>4 DEF StartImport
  <2>2. ASSUME NEW j \in Loaders, lpc'[j] \in {"upsert", "upgrade"}, NEW r \in media'[j]
        PROVE  <<r, j>> \in blobs'
    BY <1>4, <2>1, <2>2 DEF StartImport, Goto, FilesSaved, TypeOK
  <2>. QED  BY <2>1, <2>2 DEF FilesSaved, FilesExist
<1>5. ASSUME NEW i \in Loaders, Attach(i) PROVE FilesSaved'
  <2>1. blobs \subseteq blobs' /\ UNCHANGED <<doc, saved, media>>
    BY <1>5 DEF Attach
  <2>2. ASSUME NEW j \in Loaders, lpc'[j] \in {"upsert", "upgrade"}, NEW r \in media'[j]
        PROVE  <<r, j>> \in blobs'
    BY <1>5, <2>1, <2>2 DEF Attach, Goto, FilesSaved, TypeOK
  <2>. QED  BY <2>1, <2>2 DEF FilesSaved, FilesExist
<1>6. ASSUME NEW i \in Loaders, Upsert(i) \/ Upgrade(i) \/ ImportFails(i) PROVE FilesSaved'
  <2>1. UNCHANGED <<blobs, saved, media>>
    BY <1>6 DEF Upsert, Upgrade, ImportFails
  <2>2. FilesExist'
    <3>1. \/ lpc[i] \in {"upsert", "upgrade"} /\ \E c : doc' = Upserted(i, c) \/ doc' = Upgraded(i, c)
          \/ doc' = doc
      BY <1>6 DEF Upsert, Upgrade, ImportFails
    <3>2. CASE doc' = doc
      BY <2>1, <3>2 DEF FilesSaved, FilesExist
    <3>. QED  BY <2>1, <3>1, <3>2, WritesSavedFiles
  <2>3. ASSUME NEW j \in Loaders, lpc'[j] \in {"upsert", "upgrade"}
        PROVE  lpc[j] \in {"upsert", "upgrade"}
    BY <1>6, <2>3 DEF Upsert, Upgrade, ImportFails, Done, Goto, TypeOK
  <2>. QED  BY <2>1, <2>2, <2>3 DEF FilesSaved
<1>7. ASSUME UNCHANGED <<doc, blobs, saved, media>>,
             NEW i \in Loaders, NEW at \in {"load", "assign", "done"}, Goto(i, at)
      PROVE  FilesSaved'
  BY <1>7 DEF Goto, FilesSaved, FilesExist, TypeOK
<1>8. CASE Restart
  BY <1>8 DEF Restart, FilesSaved, FilesExist, TypeOK
<1>. QED
  BY <1>1, <1>2, <1>3, <1>4, <1>5, <1>6, <1>7, <1>8
  DEF Next, Handler, Loader, Arrive, StartReload, Read, Assign, LoadFails

\* No stored message refers to a file that is not there, for any imports,
\* failures and restarts.
THEOREM FilesBack == Spec => []FilesExist
<1>1. Init => FilesSaved
  BY DEF Init, FilesSaved, FilesExist
<1>2. FilesSaved => FilesExist
  BY DEF FilesSaved
<1>. QED  BY <1>1, <1>2, FilesSavedStep, StoreTypes, PTL DEF Spec

-----------------------------------------------------------------------------
(* What the list in memory holds.                                          *)

\* The list holds a record, or is full.
Holds(s, r) == InList(r, s) \/ Len(s) = Limit

\* The live messages that are in the database, or about to be, and that no
\* load may have dropped, are held by the list in memory and by every list
\* that is about to replace it.
Remembered ==
    \A r \in Live \ excused :
        doc[r] # "absent" \/ hpc[r] = "persist" =>
            /\ Holds(memory, r)
            /\ \A i \in Loaders : lpc[i] = "assign" => Holds(snap[i], r)

\* A record appended to a list is held, and so are those that were.
LEMMA KeptHolds ==
    ASSUME NEW s \in Seq(Records), Len(s) <= Limit, NEW r \in Records, NEW q,
           q = r \/ Holds(s, q)
    PROVE  Holds(Kept(Append(s, r)), q)
<1>. DEFINE t == Append(s, r)
<1>1. t \in Seq(Records) /\ Len(t) = Len(s) + 1 /\ Len(s) \in Nat
  OBVIOUS
<1>2. CASE Len(t) > Limit
  <2>1. Len(t) = Limit + 1
    BY <1>1, <1>2
  <2>2. Kept(t) = SubSeq(t, 2, Len(t))
    BY <1>2, <2>1 DEF Kept
  <2>3. Len(SubSeq(t, 2, Len(t))) = Limit
    BY <1>1, <2>1
  <2>. QED  BY <2>2, <2>3 DEF Holds
<1>3. CASE ~(Len(t) > Limit)
  <2>1. Kept(t) = t /\ Len(s) # Limit
    BY <1>1, <1>3 DEF Kept
  <2>2. q = r \/ \E k \in 1..Len(s) : s[k] = q
    BY <2>1 DEF Holds, InList
  <2>3. t[Len(t)] = r /\ \A k \in 1..Len(s) : t[k] = s[k]
    BY <1>1
  <2>4. \E k \in 1..Len(t) : t[k] = q
    BY <1>1, <2>2, <2>3
  <2>. QED  BY <2>1, <2>4 DEF Holds, InList
<1>. QED  BY <1>2, <1>3

\* What a load reads holds all that is stored.
LEMMA NewestHolds ==
    ASSUME NEW s \in Newest(Stored), NEW r \in Stored
    PROVE  Holds(s, r)
BY DEF Newest, Holds

\* Remembering one more record keeps what is remembered.
LEMMA RememberStep ==
    ASSUME TypeOK, Remembered, NEW r \in Live, Remember(r), hpc[r] # "persist",
           UNCHANGED <<doc, lpc, snap>>
    PROVE  Remembered'
<1>. SUFFICES ASSUME NEW q \in Live \ excused', doc'[q] # "absent" \/ hpc'[q] = "persist"
     PROVE  /\ Holds(memory', q)
            /\ \A i \in Loaders : lpc'[i] = "assign" => Holds(snap'[i], q)
  BY DEF Remembered, Holds, InList
<1>1. q \in Live \ excused
  BY DEF Remember
<1>2. q = r \/ (Holds(memory, q) /\ \A i \in Loaders : lpc[i] = "assign" => Holds(snap[i], q))
  BY <1>1 DEF Remember, Remembered, TypeOK
<1>3. Holds(memory', q)
  BY <1>2, KeptHolds DEF Remember, TypeOK
<1>4. q = r => \A i \in Loaders : lpc[i] # "assign"
  BY DEF Remember
<1>. QED  BY <1>2, <1>3, <1>4

\* Every step keeps what is remembered, or excuses it.
LEMMA RememberedStep == TypeOK /\ Remembered /\ [Next]_vars => Remembered'
<1>. SUFFICES ASSUME TypeOK, Remembered, [Next]_vars PROVE Remembered'
  OBVIOUS
\* Nothing that matters is added, to the database or to the lists.
<1>1. ASSUME UNCHANGED <<memory, snap, excused>>,
             \A i \in Loaders : lpc'[i] = "assign" => lpc[i] = "assign",
             \A r \in Live : doc'[r] # "absent" => doc[r] # "absent" \/ hpc[r] = "persist",
             \A r \in Live : hpc'[r] = "persist" => hpc[r] = "persist"
      PROVE  Remembered'
  BY <1>1 DEF Remembered, Holds, InList
<1>2. ASSUME NEW r \in Live, Arrive(r) PROVE Remembered'
  <2>1. CASE Remember(r)
    BY <1>2, <2>1, RememberStep DEF Arrive
  <2>2. CASE hpc' = [hpc EXCEPT ![r] = "fetching"] /\ UNCHANGED <<memory, excused>>
    BY <1>1, <1>2, <2>2 DEF Arrive, TypeOK
  <2>. QED  BY <1>2, <2>1, <2>2 DEF Arrive
<1>3. ASSUME NEW r \in Live, Fetched(r) PROVE Remembered'
  BY <1>3, RememberStep DEF Fetched
<1>4. ASSUME NEW r \in Live, NEW ok \in BOOLEAN, Persist(r, ok) PROVE Remembered'
  BY <1>1, <1>4 DEF Persist, TypeOK
<1>5. ASSUME NEW i \in Loaders, StartImport(i) \/ Attach(i) \/ StartReload(i) PROVE Remembered'
  BY <1>1, <1>5 DEF StartImport, Attach, StartReload, Goto, TypeOK
<1>6. ASSUME NEW i \in Loaders, Upsert(i) \/ Upgrade(i) \/ ImportFails(i) PROVE Remembered'
  <2>1. \/ \E c \in SUBSET todo[i] : doc' = Upserted(i, c)
        \/ \E c : doc' = Upgraded(i, c)
        \/ doc' = doc
    BY <1>6 DEF Upsert, Upgrade, ImportFails
  <2>2. \A r \in Live : doc'[r] # "absent" => doc[r] # "absent"
    <3>1. ASSUME NEW c \in SUBSET todo[i], doc' = Upserted(i, c), NEW r \in Live
          PROVE  doc'[r] # "absent" => doc[r] # "absent"
      <4>1. r \notin c
        BY DEF TypeOK
      <4>. QED  BY <3>1, <4>1 DEF Upserted
    <3>2. ASSUME NEW c, doc' = Upgraded(i, c), NEW r \in Live
          PROVE  doc'[r] # "absent" => doc[r] # "absent"
      BY <3>2 DEF Upgraded
    <3>. QED  BY <2>1, <3>1, <3>2
  <2>3. \A j \in Loaders : lpc'[j] = "assign" => lpc[j] = "assign"
    BY <1>6 DEF Upsert, Upgrade, ImportFails, Done, Goto, TypeOK
  <2>. QED  BY <1>1, <1>6, <2>2, <2>3 DEF Upsert, Upgrade, ImportFails
<1>7. ASSUME NEW i \in Loaders, Read(i) PROVE Remembered'
  <2>1. PICK s \in Newest(Stored) : snap' = [snap EXCEPT ![i] = s]
    BY <1>7 DEF Read
  <2>2. ASSUME NEW r \in Live \ excused', doc'[r] # "absent" \/ hpc'[r] = "persist"
        PROVE  Holds(memory, r) /\ \A j \in Loaders : lpc'[j] = "assign" => Holds(snap'[j], r)
    <3>1. r \in Live \ excused /\ r \in Stored
      BY <1>7, <2>2 DEF Read, Stored
    <3>2. Holds(s, r)
      BY <3>1, NewestHolds
    <3>3. Holds(memory, r) /\ \A j \in Loaders : lpc[j] = "assign" => Holds(snap[j], r)
      BY <3>1 DEF Remembered, Stored
    <3>4. \A j \in Loaders : j # i => snap'[j] = snap[j] /\ lpc'[j] = lpc[j]
      BY <1>7, <2>1 DEF Read, Goto, TypeOK
    <3>5. snap'[i] = s
      BY <2>1 DEF TypeOK
    <3>. QED  BY <3>2, <3>3, <3>4, <3>5
  <2>3. memory' = memory
    BY <1>7 DEF Read
  <2>. QED  BY <2>2, <2>3 DEF Remembered, Holds, InList
<1>8. ASSUME NEW i \in Loaders, Assign(i) \/ LoadFails(i) PROVE Remembered'
  <2>1. /\ \A j \in Loaders : lpc'[j] = "assign" => lpc[j] = "assign" /\ snap'[j] = snap[j]
        /\ UNCHANGED <<doc, hpc, excused>>
    BY <1>8 DEF Assign, LoadFails, Goto, TypeOK
  <2>2. memory' = memory \/ (lpc[i] = "assign" /\ memory' = snap[i])
    BY <1>8 DEF Assign, LoadFails
  <2>3. ASSUME NEW r \in Live \ excused, doc[r] # "absent" \/ hpc[r] = "persist"
        PROVE  Holds(memory', r) /\ \A j \in Loaders : lpc'[j] = "assign" => Holds(snap'[j], r)
    BY <2>1, <2>2, <2>3 DEF Remembered
  <2>. QED  BY <2>1, <2>3 DEF Remembered, Holds, InList
<1>9. CASE Restart
  <2>1. \A r \in Live : hpc'[r] # "persist"
    BY <1>9 DEF Restart, TypeOK
  <2>2. \A i \in Loaders : lpc'[i] # "assign"
    BY <1>9 DEF Restart, TypeOK
  <2>3. doc' = doc
    BY <1>9 DEF Restart
  <2>4. ASSUME NEW r \in Live \ excused', doc[r] # "absent" PROVE Holds(memory', r)
    <3>1. r \in Stored
      BY <2>4 DEF Stored
    <3>2. memory' \in Newest(Stored)
      BY <1>9, <2>4, <3>1 DEF Restart
    <3>. QED  BY <3>1, <3>2, NewestHolds
  <2>. QED  BY <2>1, <2>2, <2>3, <2>4 DEF Remembered, Holds, InList
<1>10. CASE UNCHANGED vars
  BY <1>1, <1>10
<1>. QED
  BY <1>2, <1>3, <1>4, <1>5, <1>6, <1>7, <1>8, <1>9, <1>10 DEF Next, Handler, Loader

\* Only a load that met a message on its way makes the list in memory forget
\* it, whatever else happens, for any limit and any number of loads.
THEOREM LoadsForget == Spec => []OnlyLoadsForget
<1>1. Init => Remembered
  BY DEF Init, Remembered
<1>2. Remembered => OnlyLoadsForget
  BY DEF Remembered, OnlyLoadsForget, Holds, Stored
<1>. QED  BY <1>1, <1>2, RememberedStep, StoreTypes, PTL DEF Spec

-----------------------------------------------------------------------------
(* What an upload is read as and which of its records are stored: theorems   *)
(* of BackupParsing, for backups of any number and length.                   *)

HIDE StoreAssumption
    DEF StoreAssumption, Records, memoryVars, storeVars, liveVars, fileVars,
        importVars, ghostVars, vars, Sources, Contents, HandlerPCs, LoaderPCs

\* A fold is a CHOOSE of a recursive function: FoldExists shows that there is one,
\* FoldRuns what it does step by step, both by induction on the numbers as the
\* absence of a least counterexample.

\* Some numbers have a least.
LEMMA LeastExists ==
    ASSUME NEW T, T \subseteq Nat, T # {}
    PROVE  \E x \in T : \A y \in T : x <= y
<1>1. PICK x \in T : \A y \in T : ~ (<<y, x>> \in OpToRel(<, Nat))
  BY WFMin, NatLessThanWellFounded
<1>2. \A y \in T : <<y, x>> \in Nat \X Nat /\ ~(y < x)
  BY <1>1 DEF OpToRel
<1>3. \A y \in T : x \in Nat /\ y \in Nat /\ ~(y < x)
  BY <1>2
<1>4. \A y \in T : x <= y
  BY <1>3
<1>. QED  BY <1>4
\* A set of numbers that has 0 and, with each number, the next, has all.
LEMMA AllNumbers ==
    ASSUME NEW T, 0 \in T, \A n \in Nat : n \in T => n + 1 \in T
    PROVE  \A n \in Nat : n \in T
<1>. SUFFICES ASSUME NEW k \in Nat, k \notin T PROVE FALSE
  OBVIOUS
<1>. DEFINE U == {n \in Nat : n \notin T}
<1>1. PICK m \in U : \A y \in U : m <= y
  <2>1. U \subseteq Nat /\ U # {}
    OBVIOUS
  <2>. QED  BY <2>1, LeastExists
<1>2. m \in Nat /\ m \notin T /\ m # 0 /\ m - 1 \in Nat
  BY <1>1
<1>3. m - 1 \in T
  BY <1>1, <1>2
<1>4. m - 1 + 1 = m
  BY <1>2
<1>. QED  BY <1>2, <1>3, <1>4

\* The greatest of some numbers.
LEMMA MaxIs ==
    ASSUME NEW n \in Nat, NEW s \in SUBSET (1..n), s # {}
    PROVE  Max(s) \in s /\ \A y \in s : y <= Max(s)
<1>. DEFINE T == {n - y : y \in s}
<1>1. \A y \in s : y \in 1..n
  OBVIOUS
<1>2. T \subseteq Nat /\ T # {}
  <2>1. \A y \in s : n - y \in Nat
    BY <1>1
  <2>. QED  BY <2>1
<1>3. PICK x \in T : \A y \in T : x <= y
  BY <1>2, LeastExists
<1>4. PICK z \in s : x = n - z
  BY <1>3
<1>5. \A y \in s : z >= y
  <2>1. ASSUME NEW y \in s PROVE z >= y
    <3>1. n - y \in T
      OBVIOUS
    <3>2. n - z <= n - y
      BY <3>1, <1>3, <1>4
    <3>. QED  BY <3>2, <1>1
  <2>. QED  BY <2>1
<1>6. Max(s) \in s /\ \A y \in s : Max(s) >= y
  BY <1>4, <1>5 DEF Max
<1>. QED  BY <1>6, <1>1

\* G folds the numbers up to n, the greatest last.
Folds(G, n, base, step) ==
    /\ G[{}] = base
    /\ \A s \in SUBSET (1..n) : s # {} => G[s] = step[Max(s)][G[s \ {Max(s)}]]

\* A fold over 1..n that takes the numbers in order, as a function of the numbers
\* folded.
LEMMA FoldExists ==
    ASSUME NEW n \in Nat, NEW T, NEW base \in T, NEW step \in [1..n -> [T -> T]]
    PROVE  \E G \in [SUBSET (1..n) -> T] : Folds(G, n, base, step)
<1>. DEFINE Good(m, G) == /\ G \in [SUBSET (1..m) -> T]
                          /\ G[{}] = base
                          /\ \A s \in SUBSET (1..m) : s # {} => G[s] = step[Max(s)][G[s \ {Max(s)}]]
            Built == {m \in Nat : m <= n => \E G : Good(m, G)}
<1>1. 0 \in Built
  <2>. DEFINE g == [s \in SUBSET (1..0) |-> base]
  <2>1. SUBSET (1..0) = {{}}
    OBVIOUS
  <2>2. g \in [SUBSET (1..0) -> T] /\ g[{}] = base
    BY <2>1
  <2>3. \A s \in SUBSET (1..0) : s = {}
    BY <2>1
  <2>4. Good(0, g)
    <3>. HIDE DEF g
    <3>. QED  BY <2>2, <2>3
  <2>. HIDE DEF Good
  <2>. QED  BY <2>4
<1>2. ASSUME NEW m \in Nat, m \in Built PROVE m + 1 \in Built
  <2>. SUFFICES ASSUME m + 1 <= n PROVE \E G : Good(m + 1, G)
    <3>. HIDE DEF Good
    <3>. QED  OBVIOUS
  <2>1. PICK g : Good(m, g)
    <3>. HIDE DEF Good
    <3>. QED  BY <1>2
  <2>. DEFINE h == [s \in SUBSET (1..m+1) |->
                      IF m + 1 \in s THEN step[m + 1][g[s \ {m + 1}]] ELSE g[s]]
  <2>2. \A s \in SUBSET (1..m+1) :
           /\ m + 1 \notin s => s \in SUBSET (1..m)
           /\ s \ {m + 1} \in SUBSET (1..m)
           /\ \A x : s \ {x} \in SUBSET (1..m+1)
    <3>1. \A y \in 1..m+1 : y # m + 1 => y \in 1..m
      OBVIOUS
    <3>. QED  BY <3>1
  <2>3. h \in [SUBSET (1..m+1) -> T]
    <3>1. ASSUME NEW s \in SUBSET (1..m+1) PROVE h[s] \in T
      <4>1. CASE m + 1 \in s
        <5>1. g[s \ {m + 1}] \in T /\ m + 1 \in 1..n
          BY <2>1, <2>2
        <5>. QED  BY <4>1, <5>1
      <4>2. CASE m + 1 \notin s
        BY <4>2, <2>1, <2>2
      <4>. QED  BY <4>1, <4>2
    <3>. QED  BY <3>1
  <2>4. h[{}] = base
    BY <2>1
  <2>5. ASSUME NEW s \in SUBSET (1..m+1), s # {}
        PROVE  h[s] = step[Max(s)][h[s \ {Max(s)}]]
    <3>1. Max(s) \in s /\ \A y \in s : y <= Max(s)
      <4>1. m + 1 \in Nat
        OBVIOUS
      <4>. QED  BY <4>1, <2>5, MaxIs
    <3>2. CASE m + 1 \in s
      <4>1. Max(s) = m + 1
        <5>1. Max(s) \in 1..m+1 /\ m + 1 <= Max(s)
          BY <3>1, <3>2
        <5>. QED  BY <5>1
      <4>2. h[s \ {m + 1}] = g[s \ {m + 1}]
        BY <2>2
      <4>. QED  BY <4>1, <4>2, <3>2
    <3>3. CASE m + 1 \notin s
      <4>1. h[s] = g[s] /\ h[s \ {Max(s)}] = g[s \ {Max(s)}]
        BY <3>3, <2>2
      <4>. QED  BY <4>1, <2>1, <2>2, <2>5, <3>3
    <3>. QED  BY <3>2, <3>3
  <2>6. Good(m + 1, h)
    <3>. HIDE DEF h
    <3>. QED  BY <2>3, <2>4, <2>5
  <2>. HIDE DEF Good
  <2>. QED  BY <2>6
<1>. HIDE DEF Built
<1>3. n \in Built
  BY <1>1, <1>2, AllNumbers
<1>. USE DEF Built
<1>4. PICK G : Good(n, G)
  <2>. HIDE DEF Good
  <2>. QED  BY <1>3
<1>. QED  BY <1>4 DEF Folds
\* The numbers up to k.
LEMMA UpTo ==
    ASSUME NEW k \in Nat \ {0}
    PROVE  Max(1..k) = k /\ (1..k) \ {k} = 1..k-1 /\ 1..k # {}
<1>1. k \in 1..k /\ 1..k \in SUBSET (1..k) /\ 1..k # {}
  OBVIOUS
<1>2. Max(1..k) \in 1..k /\ \A y \in 1..k : y <= Max(1..k)
  <2>1. k \in Nat
    OBVIOUS
  <2>. QED  BY <1>1, <2>1, MaxIs
<1>3. k <= Max(1..k)
  BY <1>1, <1>2
<1>4. Max(1..k) = k
  BY <1>2, <1>3
<1>. QED  BY <1>1, <1>4

\* F[k] is what a fold has made of the first k.
Runs(F, n, base, step) == F[0] = base /\ \A k \in 1..n : F[k] = step[k][F[k-1]]

\* What a fold in the order of the numbers does, one number after the other.
LEMMA FoldRuns ==
    ASSUME NEW n \in Nat, NEW T, NEW base \in T, NEW step \in [1..n -> [T -> T]],
           NEW iter, iter[{}] = base,
           \A k \in 1..n : iter[1..k-1] \in T => iter[1..k] = step[k][iter[1..k-1]]
    PROVE  \E F \in [0..n -> T] : F[n] = iter[1..n] /\ Runs(F, n, base, step)
<1>. DEFINE D == {k \in Nat : k <= n => iter[1..k] \in T}
<1>0. 1..0 = {}
  OBVIOUS
<1>1. 0 \in D
  BY <1>0
<1>2. ASSUME NEW k \in Nat, k \in D PROVE k + 1 \in D
  <2>1. k + 1 <= n => k + 1 \in 1..n /\ k + 1 - 1 = k /\ k <= n
    OBVIOUS
  <2>. SUFFICES ASSUME k + 1 <= n PROVE iter[1..k+1] \in T
    OBVIOUS
  <2>2. iter[1..k] \in T
    BY <1>2, <2>1
  <2>3. iter[1..k+1] = step[k+1][iter[1..k]]
    BY <2>1, <2>2
  <2>. QED  BY <2>1, <2>2, <2>3
<1>3. \A k \in 0..n : iter[1..k] \in T
  <2>. HIDE DEF D
  <2>1. \A k \in Nat : k \in D
    BY <1>1, <1>2, AllNumbers
  <2>. USE DEF D
  <2>. QED  BY <2>1
<1>. DEFINE F == [k \in 0..n |-> iter[1..k]]
<1>4. F \in [0..n -> T]
  BY <1>3
<1>5. F[0] = base /\ F[n] = iter[1..n]
  BY <1>0
<1>6. ASSUME NEW k \in 1..n PROVE F[k] = step[k][F[k-1]]
  <2>1. k \in 0..n /\ k - 1 \in 0..n
    OBVIOUS
  <2>. QED  BY <1>3, <2>1
<1>. HIDE DEF F
<1>. QED  BY <1>4, <1>5, <1>6 DEF Runs


\* F[k] is what has been picked when k places were looked at.
PickedBy(F, S, s, places) ==
    /\ F \in [0..Len(s) -> Seq(S)]
    /\ F[0] = <<>> /\ F[Len(s)] = Picked(s, places)
    /\ \A k \in 1..Len(s) : F[k] = IF k \in places THEN Append(F[k-1], s[k]) ELSE F[k-1]

\* Picked is such a run.
LEMMA PickedRuns ==
    ASSUME NEW S, NEW s \in Seq(S), NEW places
    PROVE  \E F : PickedBy(F, S, s, places)
<1>. DEFINE n == Len(s)
            T == Seq(S)
            seq == [k \in DOMAIN s |-> k]
            Op(t, k) == IF k \in places THEN Append(t, s[k]) ELSE t
            base == <<>>
            step == [i \in 1..n |-> [t \in T |-> Op(t, i)]]
            Fold(g) == g = [d \in SUBSET (DOMAIN seq) |->
                               IF d = {} THEN base ELSE LET x == Max(d) IN Op(g[d \ {x}], seq[x])]
            iter == CHOOSE g : Fold(g)
<1>1. n \in Nat /\ DOMAIN seq = 1..n /\ \A i \in 1..n : seq[i] = i
  OBVIOUS
<1>2. Picked(s, places) = iter[DOMAIN seq]
  BY Zenon DEF Picked, FoldLeft, MapThenFoldSet
<1>3. base \in T /\ \A t \in T, i \in 1..n : Op(t, i) \in T
  OBVIOUS
<1>. HIDE DEF n, T, Op, base, seq
<1>4. step \in [1..n -> [T -> T]]
  BY <1>1, <1>3
<1>5. PICK G \in [SUBSET (1..n) -> T] : Folds(G, n, base, step)
  <2>. HIDE DEF step
  <2>. QED  BY <1>1, <1>3, <1>4, FoldExists
<1>6. Fold(G)
  <2>1. ASSUME NEW d \in SUBSET (DOMAIN seq), d # {}
        PROVE  G[d] = Op(G[d \ {Max(d)}], seq[Max(d)])
    <3>1. d \in SUBSET (1..n) /\ d \ {Max(d)} \in SUBSET (1..n)
      BY <1>1
    <3>2. Max(d) \in 1..n /\ G[d \ {Max(d)}] \in T
      BY <2>1, <3>1, <1>1, <1>5, MaxIs
    <3>3. G[d] = step[Max(d)][G[d \ {Max(d)}]]
      <4>. HIDE DEF step
      <4>. QED  BY <2>1, <3>1, <1>5 DEF Folds
    <3>. QED  BY <1>1, <3>2, <3>3
  <2>2. G[{}] = base /\ DOMAIN G = SUBSET (DOMAIN seq)
    BY <1>1, <1>5 DEF Folds
  <2>. QED  BY <2>1, <2>2, <1>5
<1>7. Fold(iter)
  <2>. HIDE DEF Fold
  <2>. QED  BY <1>6
<1>. HIDE DEF iter
<1>8. iter[{}] = base
  BY <1>7
<1>9. ASSUME NEW k \in 1..n PROVE iter[1..k] = Op(iter[1..k-1], seq[k])
  <2>1. Max(1..k) = k /\ (1..k) \ {k} = 1..k-1 /\ 1..k # {}
    <3>1. k \in Nat \ {0}
      BY <1>1
    <3>. QED  BY <3>1, UpTo
  <2>2. 1..k \in SUBSET (DOMAIN seq)
    BY <1>1
  <2>. QED  BY <1>7, <2>1, <2>2
<1>10. PICK F \in [0..n -> T] : F[n] = iter[1..n] /\ Runs(F, n, base, step)
  <2>1. ASSUME NEW k \in 1..n, iter[1..k-1] \in T PROVE iter[1..k] = step[k][iter[1..k-1]]
    BY <1>1, <1>9, <2>1
  <2>. HIDE DEF step
  <2>. QED  BY <1>1, <1>3, <1>4, <1>8, <2>1, FoldRuns
<1>11. ASSUME NEW k \in 1..n PROVE F[k] = Op(F[k-1], seq[k])
  <2>1. F[k-1] \in T
    BY <1>1, <1>10
  <2>. QED  BY <1>1, <1>10, <2>1 DEF Runs
<1>12. \A k \in 1..n : F[k] = Op(F[k-1], k)
  BY <1>1, <1>11
<1>13. F[0] = base /\ F[n] = Picked(s, places)
  BY <1>1, <1>2, <1>10 DEF Runs
<1>. QED  BY <1>10, <1>12, <1>13 DEF PickedBy, Op, n, T, base

-----------------------------------------------------------------------------
(* A transcript.                                                           *)

\* What the lines of a transcript are read into.
States(lines) ==
    [entries : Seq([sender : {lines[i].sender : i \in DOMAIN lines},
                    at     : {lines[i].at : i \in DOMAIN lines},
                    text   : Seq({lines[i].text : i \in DOMAIN lines}),
                    origin : {lines[i].origin : i \in DOMAIN lines}]),
     open : BOOLEAN]

\* A line is read into another such state.
LEMMA TakeType ==
    ASSUME NEW lines, NEW i \in DOMAIN lines, NEW state \in States(lines)
    PROVE  Take(state, lines[i]) \in States(lines)
<1>. DEFINE line == lines[i]
            X == {lines[j].text : j \in DOMAIN lines}
            E == [sender : {lines[j].sender : j \in DOMAIN lines},
                  at     : {lines[j].at : j \in DOMAIN lines},
                  text   : Seq(X),
                  origin : {lines[j].origin : j \in DOMAIN lines}]
<1>1. States(lines) = [entries : Seq(E), open : BOOLEAN]
  BY DEF States
<1>2. line.text \in X
  OBVIOUS
<1>3. Entry(line) \in E
  <2>1. <<line.text>> \in Seq(X)
    BY <1>2
  <2>. HIDE DEF X
  <2>. QED  BY <2>1 DEF Entry
<1>4. \A e \in E : [e EXCEPT !.text = Append(@, line.text)] \in E
  <2>1. ASSUME NEW e \in E PROVE [e EXCEPT !.text = Append(@, line.text)] \in E
    <3>1. Append(e.text, line.text) \in Seq(X)
      <4>1. e.text \in Seq(X)
        OBVIOUS
      <4>. HIDE DEF X, E
      <4>. QED  BY <1>2, <4>1
    <3>. HIDE DEF X
    <3>. QED  BY <3>1
  <2>. QED  BY <2>1
<1>. HIDE DEF E, X
<1>5. state.entries \in Seq(E) /\ state.open \in BOOLEAN
  BY <1>1
<1>6. Append(state.entries, Entry(line)) \in Seq(E)
  BY <1>3, <1>5
<1>7. Continued(state.entries, line.text) \in Seq(E)
  <2>. DEFINE q == state.entries
              m == Len(q)
  <2>. HIDE DEF q
  <2>1. q \in Seq(E) /\ Continued(q, line.text) = [q EXCEPT ![m] = [q[m] EXCEPT !.text = Append(@, line.text)]]
    BY <1>5 DEF Continued, q
  <2>2. CASE m = 0
    <3>1. m \notin DOMAIN q
      BY <2>1, <2>2
    <3>2. Continued(q, line.text) = q
      BY <2>1, <3>1
    <3>. QED  BY <2>1, <3>2 DEF q
  <2>3. CASE m # 0
    <3>1. m \in DOMAIN q /\ q[m] \in E
      BY <2>1, <2>3
    <3>2. [q[m] EXCEPT !.text = Append(@, line.text)] \in E
      BY <1>4, <3>1
    <3>3. [q EXCEPT ![m] = [q[m] EXCEPT !.text = Append(@, line.text)]] \in Seq(E)
      <4>. DEFINE z == [q[m] EXCEPT !.text = Append(@, line.text)]
      <4>1. z \in E
        BY <3>2
      <4>2. [q EXCEPT ![m] = z] \in Seq(E)
        <5>. HIDE DEF z, m
        <5>. DEFINE l == Len(q)
                    f == [q EXCEPT ![m] = z]
        <5>1. l \in Nat /\ q \in [1..l -> E]
          BY <2>1
        <5>2. f \in [1..l -> E]
          BY <4>1, <5>1
        <5>. HIDE DEF l, f
        <5>3. f \in Seq(E)
          BY <5>1, <5>2
        <5>. QED  BY <5>3 DEF f
      <4>. QED  BY <4>2
    <3>. QED  BY <2>1, <3>3 DEF q
  <2>. QED  BY <2>2, <2>3
<1>8. /\ [entries |-> Append(state.entries, Entry(line)), open |-> TRUE] \in States(lines)
      /\ [entries |-> state.entries, open |-> FALSE] \in States(lines)
      /\ [entries |-> Continued(state.entries, line.text), open |-> TRUE] \in States(lines)
  BY <1>1, <1>5, <1>6, <1>7
<1>. HIDE DEF line
<1>9. Take(state, line) \in States(lines)
  BY <1>8 DEF Take
<1>. QED  BY <1>9 DEF line

\* What Parse does, line after line.
LEMMA ParseRuns ==
    ASSUME NEW lines, IsSequence(lines)
    PROVE  \E F \in [0..Len(lines) -> States(lines)] :
              /\ F[0] = [entries |-> <<>>, open |-> FALSE]
              /\ F[Len(lines)].entries = Parse(lines)
              /\ \A k \in 1..Len(lines) : F[k] = Take(F[k-1], lines[k])
<1>. DEFINE n == Len(lines)
            T == States(lines)
            seq == lines
            Op(t, line) == Take(t, line)
            base == [entries |-> <<>>, open |-> FALSE]
            step == [i \in 1..n |-> [t \in T |-> Op(t, seq[i])]]
            Fold(g) == g = [d \in SUBSET (DOMAIN seq) |->
                               IF d = {} THEN base ELSE LET x == Max(d) IN Op(g[d \ {x}], seq[x])]
            iter == CHOOSE g : Fold(g)
<1>1. n \in Nat /\ DOMAIN seq = 1..n
  BY DEF IsSequence
<1>2. Parse(lines) = iter[DOMAIN seq].entries
  BY Zenon DEF Parse, FoldLeft, MapThenFoldSet
<1>3. base \in T /\ \A t \in T, i \in 1..n : Op(t, seq[i]) \in T
  <2>1. base \in T
    BY DEF States
  <2>2. \A t \in T, i \in 1..n : Op(t, seq[i]) \in T
    BY <1>1, TakeType
  <2>. QED  BY <2>1, <2>2
<1>. HIDE DEF n, T, Op, base, seq
<1>4. step \in [1..n -> [T -> T]]
  BY <1>1, <1>3
<1>5. PICK G \in [SUBSET (1..n) -> T] : Folds(G, n, base, step)
  <2>. HIDE DEF step
  <2>. QED  BY <1>1, <1>3, <1>4, FoldExists
<1>6. Fold(G)
  <2>1. ASSUME NEW d \in SUBSET (DOMAIN seq), d # {}
        PROVE  G[d] = Op(G[d \ {Max(d)}], seq[Max(d)])
    <3>1. d \in SUBSET (1..n) /\ d \ {Max(d)} \in SUBSET (1..n)
      BY <1>1
    <3>2. Max(d) \in 1..n /\ G[d \ {Max(d)}] \in T
      BY <2>1, <3>1, <1>1, <1>5, MaxIs
    <3>3. G[d] = step[Max(d)][G[d \ {Max(d)}]]
      <4>. HIDE DEF step
      <4>. QED  BY <2>1, <3>1, <1>5 DEF Folds
    <3>. QED  BY <1>1, <3>2, <3>3
  <2>2. G[{}] = base /\ DOMAIN G = SUBSET (DOMAIN seq)
    BY <1>1, <1>5 DEF Folds
  <2>. QED  BY <2>1, <2>2, <1>5
<1>7. Fold(iter)
  <2>. HIDE DEF Fold
  <2>. QED  BY <1>6
<1>. HIDE DEF iter
<1>8. iter[{}] = base
  BY <1>7
<1>9. ASSUME NEW k \in 1..n PROVE iter[1..k] = Op(iter[1..k-1], seq[k])
  <2>1. Max(1..k) = k /\ (1..k) \ {k} = 1..k-1 /\ 1..k # {}
    <3>1. k \in Nat \ {0}
      BY <1>1
    <3>. QED  BY <3>1, UpTo
  <2>2. 1..k \in SUBSET (DOMAIN seq)
    BY <1>1
  <2>. QED  BY <1>7, <2>1, <2>2
<1>10. PICK F \in [0..n -> T] : F[n] = iter[1..n] /\ Runs(F, n, base, step)
  <2>1. ASSUME NEW k \in 1..n, iter[1..k-1] \in T PROVE iter[1..k] = step[k][iter[1..k-1]]
    BY <1>1, <1>9, <2>1
  <2>. HIDE DEF step
  <2>. QED  BY <1>1, <1>3, <1>4, <1>8, <2>1, FoldRuns
<1>11. ASSUME NEW k \in 1..n PROVE F[k] = Op(F[k-1], seq[k])
  <2>1. F[k-1] \in T
    BY <1>1, <1>10
  <2>. QED  BY <1>1, <1>10, <2>1 DEF Runs
<1>12. F[0] = base /\ F[n].entries = Parse(lines)
  BY <1>1, <1>2, <1>10 DEF Runs
<1>. QED  BY <1>10, <1>11, <1>12 DEF Op, n, T, base, seq

-----------------------------------------------------------------------------
(* The store.                                                              *)

\* F[k] is the store when k of the records have been added.
AddedBy(F, docs, records) ==
    /\ F \in [0..Len(records) -> SUBSET (docs \cup ToSet(records))]
    /\ F[0] = docs /\ F[Len(records)] = FoldLeft(Add, docs, records)
    /\ \A k \in 1..Len(records) : F[k] = Add(F[k-1], records[k])

\* Storing is such a run.
LEMMA AddRuns ==
    ASSUME NEW docs, NEW records, IsSequence(records)
    PROVE  \E F : AddedBy(F, docs, records)
<1>. DEFINE n == Len(records)
            T == SUBSET (docs \cup ToSet(records))
            seq == records
            Op(t, record) == Add(t, record)
            base == docs
            step == [i \in 1..n |-> [t \in T |-> Op(t, seq[i])]]
            Fold(g) == g = [d \in SUBSET (DOMAIN seq) |->
                               IF d = {} THEN base ELSE LET x == Max(d) IN Op(g[d \ {x}], seq[x])]
            iter == CHOOSE g : Fold(g)
<1>1. n \in Nat /\ DOMAIN seq = 1..n
  BY DEF IsSequence
<1>2. FoldLeft(Add, docs, records) = iter[DOMAIN seq]
  BY Zenon DEF FoldLeft, MapThenFoldSet
<1>3. base \in T /\ \A t \in T, i \in 1..n : Op(t, seq[i]) \in T
  BY <1>1 DEF Add, ToSet
<1>. HIDE DEF n, T, Op, base, seq
<1>4. step \in [1..n -> [T -> T]]
  BY <1>1, <1>3
<1>5. PICK G \in [SUBSET (1..n) -> T] : Folds(G, n, base, step)
  <2>. HIDE DEF step
  <2>. QED  BY <1>1, <1>3, <1>4, FoldExists
<1>6. Fold(G)
  <2>1. ASSUME NEW d \in SUBSET (DOMAIN seq), d # {}
        PROVE  G[d] = Op(G[d \ {Max(d)}], seq[Max(d)])
    <3>1. d \in SUBSET (1..n) /\ d \ {Max(d)} \in SUBSET (1..n)
      BY <1>1
    <3>2. Max(d) \in 1..n /\ G[d \ {Max(d)}] \in T
      BY <2>1, <3>1, <1>1, <1>5, MaxIs
    <3>3. G[d] = step[Max(d)][G[d \ {Max(d)}]]
      <4>. HIDE DEF step
      <4>. QED  BY <2>1, <3>1, <1>5 DEF Folds
    <3>. QED  BY <1>1, <3>2, <3>3
  <2>2. G[{}] = base /\ DOMAIN G = SUBSET (DOMAIN seq)
    BY <1>1, <1>5 DEF Folds
  <2>. QED  BY <2>1, <2>2, <1>5
<1>7. Fold(iter)
  <2>. HIDE DEF Fold
  <2>. QED  BY <1>6
<1>. HIDE DEF iter
<1>8. iter[{}] = base
  BY <1>7
<1>9. ASSUME NEW k \in 1..n PROVE iter[1..k] = Op(iter[1..k-1], seq[k])
  <2>1. Max(1..k) = k /\ (1..k) \ {k} = 1..k-1 /\ 1..k # {}
    <3>1. k \in Nat \ {0}
      BY <1>1
    <3>. QED  BY <3>1, UpTo
  <2>2. 1..k \in SUBSET (DOMAIN seq)
    BY <1>1
  <2>. QED  BY <1>7, <2>1, <2>2
<1>10. PICK F \in [0..n -> T] : F[n] = iter[1..n] /\ Runs(F, n, base, step)
  <2>1. ASSUME NEW k \in 1..n, iter[1..k-1] \in T PROVE iter[1..k] = step[k][iter[1..k-1]]
    BY <1>1, <1>9, <2>1
  <2>. HIDE DEF step
  <2>. QED  BY <1>1, <1>3, <1>4, <1>8, <2>1, FoldRuns
<1>11. ASSUME NEW k \in 1..n PROVE F[k] = Op(F[k-1], seq[k])
  <2>1. F[k-1] \in T
    BY <1>1, <1>10
  <2>. QED  BY <1>1, <1>10, <2>1 DEF Runs
<1>12. F[0] = base /\ F[n] = FoldLeft(Add, docs, records)
  BY <1>1, <1>2, <1>10 DEF Runs
<1>. QED  BY <1>10, <1>11, <1>12 DEF AddedBy, Op, n, T, base, seq

-----------------------------------------------------------------------------
(* What is read is what was written.                                        *)

\* F[k] is the picked of the first k places.
PickRun(lines, places, F) ==
    /\ F \in [0..Len(lines) -> Seq(1..Len(lines))]
    /\ F[0] = <<>> /\ F[Len(lines)] = Picked(Places(lines), places)
    /\ \A k \in 1..Len(lines) : F[k] = IF k \in places THEN Append(F[k-1], k) ELSE F[k-1]

PickRunOf(lines, places) == CHOOSE F : PickRun(lines, places, F)

\* Picking any places of a transcript is such a run.
LEMMA PlacesRun ==
    ASSUME NEW lines, IsSequence(lines), NEW places
    PROVE  PickRun(lines, places, PickRunOf(lines, places))
<1>. DEFINE n == Len(lines)
            s == Places(lines)
<1>1. n \in Nat /\ DOMAIN lines = 1..n
  BY DEF IsSequence
<1>2. s \in Seq(1..n) /\ Len(s) = n /\ \A k \in 1..n : s[k] = k
  BY <1>1 DEF Places
<1>. HIDE DEF s, n
<1>3. PICK F : PickedBy(F, 1..n, s, places)
  BY <1>2, PickedRuns
<1>4. PickRun(lines, places, F)
  <2>1. F \in [0..n -> Seq(1..n)] /\ F[0] = <<>> /\ F[n] = Picked(Places(lines), places)
    BY <1>2, <1>3 DEF s, PickedBy
  <2>2. \A k \in 1..n : F[k] = IF k \in places THEN Append(F[k-1], k) ELSE F[k-1]
    BY <1>2, <1>3 DEF PickedBy
  <2>. QED  BY <2>1, <2>2 DEF PickRun, n
<1>. QED  BY <1>4 DEF PickRunOf

\* The text of the message that line i begins, as far as line k.
Quoted(lines, i, k) ==
    LET s == PickRunOf(lines, TextPlaces(lines, i))[k]
    IN  [x \in DOMAIN s |-> lines[s[x]].text]

\* The next line is in the text if it is one of its places.
LEMMA QuotedStep ==
    ASSUME NEW lines, IsSequence(lines), NEW i, NEW k \in 1..Len(lines)
    PROVE  Quoted(lines, i, k) = IF k \in TextPlaces(lines, i)
                                 THEN Append(Quoted(lines, i, k-1), lines[k].text)
                                 ELSE Quoted(lines, i, k-1)
<1>. DEFINE n == Len(lines)
            F == PickRunOf(lines, TextPlaces(lines, i))
            s == F[k-1]
            X == {lines[x].text : x \in 1..n}
            q == [x \in DOMAIN s |-> lines[s[x]].text]
<1>. HIDE DEF F
<1>1. n \in Nat
  BY DEF IsSequence
<1>2. PickRun(lines, TextPlaces(lines, i), F)
  BY PlacesRun DEF F
<1>3. s \in Seq(1..n)
  <2>1. k - 1 \in 0..n
    BY <1>1
  <2>. QED  BY <1>2, <2>1 DEF PickRun
<1>4. F[k] = IF k \in TextPlaces(lines, i) THEN Append(s, k) ELSE s
  BY <1>2 DEF PickRun
<1>5. Quoted(lines, i, k-1) = q
  BY DEF Quoted, F
<1>6. q \in Seq(X) /\ Len(q) = Len(s) /\ \A x \in 1..Len(s) : q[x] = lines[s[x]].text
  <2>. HIDE DEF s
  <2>1. \A x \in 1..Len(s) : s[x] \in 1..n
    BY <1>3
  <2>2. DOMAIN s = 1..Len(s) /\ Len(s) \in Nat
    BY <1>3
  <2>3. \A x \in 1..Len(s) : lines[s[x]].text \in X
    BY <2>1
  <2>. HIDE DEF X
  <2>. QED  BY <2>2, <2>3
<1>. HIDE DEF s, q
<1>7. CASE k \in TextPlaces(lines, i)
  <2>. DEFINE a == Append(s, k)
              r == [x \in DOMAIN a |-> lines[a[x]].text]
  <2>1. Quoted(lines, i, k) = r
    BY <1>4, <1>7 DEF Quoted, F
  <2>2. a \in Seq(1..n) /\ Len(a) = Len(s) + 1 /\ Len(s) \in Nat /\ a[Len(s) + 1] = k
        /\ \A x \in 1..Len(s) : a[x] = s[x]
    BY <1>3
  <2>. HIDE DEF a
  <2>3. r \in Seq(X) /\ Len(r) = Len(s) + 1 /\ r[Len(s) + 1] = lines[k].text
        /\ \A x \in 1..Len(s) : r[x] = lines[s[x]].text
    BY <2>2
  <2>. HIDE DEF r
  <2>4. lines[k].text \in X
    OBVIOUS
  <2>5. Append(q, lines[k].text) \in Seq(X) /\ Len(Append(q, lines[k].text)) = Len(s) + 1
        /\ Append(q, lines[k].text)[Len(s) + 1] = lines[k].text
        /\ \A x \in 1..Len(s) : Append(q, lines[k].text)[x] = lines[s[x]].text
    <3>. HIDE DEF X
    <3>. QED  BY <1>3, <1>6, <2>4
  <2>6. r = Append(q, lines[k].text)
    <3>. DEFINE t == Append(q, lines[k].text)
    <3>. HIDE DEF t, X
    <3>1. \A x \in 1..Len(r) : r[x] = t[x]
      <4>1. \A x \in 1..Len(r) : x \in 1..Len(s) \/ x = Len(s) + 1
        BY <1>3, <2>3
      <4>. QED  BY <2>3, <2>5, <4>1 DEF t
    <3>2. r \in Seq(X) /\ t \in Seq(X) /\ Len(r) = Len(t)
      BY <2>3, <2>5 DEF t
    <3>3. r = t
      BY <3>1, <3>2
    <3>. QED  BY <3>3 DEF t
  <2>. QED  BY <1>5, <1>7, <2>1, <2>6
<1>8. CASE k \notin TextPlaces(lines, i)
  BY <1>4, <1>8 DEF Quoted, F, s
<1>. QED  BY <1>7, <1>8

\* Of a message there is nothing before the line that begins it.
LEMMA QuotedBefore ==
    ASSUME NEW lines, IsSequence(lines), NEW i \in 1..Len(lines)
    PROVE  Quoted(lines, i, i-1) = <<>>
<1>. DEFINE D == {k \in Nat : k < i => Quoted(lines, i, k) = <<>>}
<1>1. Len(lines) \in Nat /\ i \in Nat /\ i - 1 \in Nat /\ i - 1 < i
  BY DEF IsSequence
<1>2. 0 \in D
  <2>1. PickRun(lines, TextPlaces(lines, i), PickRunOf(lines, TextPlaces(lines, i)))
    BY PlacesRun
  <2>2. PickRunOf(lines, TextPlaces(lines, i))[0] = <<>>
    BY <2>1 DEF PickRun
  <2>3. Quoted(lines, i, 0) = <<>>
    BY <2>2 DEF Quoted
  <2>. QED  BY <2>3
<1>3. ASSUME NEW k \in Nat, k \in D PROVE k + 1 \in D
  <2>. SUFFICES ASSUME k + 1 < i PROVE Quoted(lines, i, k + 1) = <<>>
    OBVIOUS
  <2>1. k + 1 \in 1..Len(lines) /\ (k + 1) - 1 = k /\ k < i /\ k + 1 # i /\ ~(k + 1 > i)
    BY <1>1
  <2>2. k + 1 \notin TextPlaces(lines, i)
    BY <2>1 DEF TextPlaces, Continues
  <2>3. Quoted(lines, i, k + 1) = Quoted(lines, i, k)
    BY <2>1, <2>2, QuotedStep
  <2>. QED  BY <1>3, <2>1, <2>3
<1>. HIDE DEF D
<1>4. i - 1 \in D
  BY <1>1, <1>2, <1>3, AllNumbers
<1>. USE DEF D
<1>. QED  BY <1>1, <1>4

\* The first k lines of a transcript are read into a state as they were written,
\* those in msgs beginning its messages.
Agree(lines, k, state, msgs) ==
    /\ Len(state.entries) = Len(msgs)
    /\ \A j \in 1..Len(msgs) :
          /\ msgs[j] \in 1..k /\ lines[msgs[j]].kind = "message"
          /\ state.entries[j].origin = lines[msgs[j]].origin
          /\ state.entries[j].text = Quoted(lines, msgs[j], k)
    /\ \A j \in 1..Len(msgs) : j < Len(msgs) => msgs[j] < msgs[Len(msgs)]
    /\ state.open <=> /\ Len(msgs) # 0
                      /\ \A x \in msgs[Len(msgs)]+1..k : lines[x].kind \in {"more", "blank"}

\* A line that does not begin a message, and is not one more of the last, leaves
\* the messages and their texts as they are.
LEMMA AgreeOn ==
    ASSUME NEW lines, IsSequence(lines), NEW k \in 1..Len(lines),
           NEW state \in States(lines), NEW msgs \in Seq(1..Len(lines)),
           Agree(lines, k-1, state, msgs),
           lines[k].kind # "message"
    PROVE  \A j \in 1..Len(msgs) :
              /\ msgs[j] \in 1..k
              /\ k \in TextPlaces(lines, msgs[j]) <=>
                    j = Len(msgs) /\ state.open /\ lines[k].kind = "more"
<1>. DEFINE n == Len(lines)
            m == Len(msgs)
<1>1. n \in Nat /\ k \in Nat /\ m \in Nat /\ k \in DOMAIN lines
  BY DEF IsSequence
<1>. SUFFICES ASSUME NEW j \in 1..m
              PROVE  /\ msgs[j] \in 1..k
                     /\ k \in TextPlaces(lines, msgs[j]) <=>
                           j = m /\ state.open /\ lines[k].kind = "more"
  OBVIOUS
<1>2. msgs[j] \in 1..k-1 /\ msgs[m] \in 1..k-1 /\ lines[msgs[m]].kind = "message"
  BY <1>1 DEF Agree
<1>3. msgs[j] \in 1..k /\ k > msgs[j] /\ k # msgs[j]
  BY <1>1, <1>2
<1>4. CASE j < m
  <2>1. msgs[m] \in msgs[j]+1..k
    <3>1. msgs[j] < msgs[m]
      BY <1>4 DEF Agree
    <3>. QED  BY <1>1, <1>2, <3>1
  <2>2. ~Continues(lines, msgs[j], k)
    BY <1>2, <2>1 DEF Continues
  <2>. QED  BY <1>1, <1>3, <1>4, <2>2 DEF TextPlaces
<1>5. CASE j = m
  <2>. DEFINE i == msgs[m]
  <2>1. state.open <=> \A x \in i+1..k-1 : lines[x].kind \in {"more", "blank"}
    BY <1>1, <1>5 DEF Agree
  <2>. HIDE DEF i
  <2>2. \A x : x \in i+1..k <=> x \in i+1..k-1 \/ x = k
    <3>1. i \in 1..k-1
      BY <1>2 DEF i
    <3>. QED  BY <1>1, <3>1
  <2>3. Continues(lines, i, k) <=> state.open /\ lines[k].kind = "more"
    <3>1. k > i
      BY <1>3, <1>5 DEF i
    <3>. QED  BY <2>1, <2>2, <3>1 DEF Continues
  <2>4. k \in TextPlaces(lines, i) <=> Continues(lines, i, k)
    BY <1>1, <1>3, <1>5 DEF TextPlaces, i
  <2>. QED  BY <1>3, <1>5, <2>3, <2>4 DEF i
<1>6. j < m \/ j = m
  BY <1>1
<1>. QED  BY <1>4, <1>5, <1>6

\* One line more is read as it was written.
LEMMA AgreeStep ==
    ASSUME NEW lines, IsSequence(lines), NEW k \in 1..Len(lines),
           lines[k].kind \in LineKinds,
           NEW state \in States(lines), NEW msgs \in Seq(1..Len(lines)),
           Agree(lines, k-1, state, msgs)
    PROVE  Agree(lines, k, Take(state, lines[k]),
                 IF lines[k].kind = "message" THEN Append(msgs, k) ELSE msgs)
<1>. DEFINE n == Len(lines)
            m == Len(msgs)
            es == state.entries
            line == lines[k]
<1>1. n \in Nat /\ k \in Nat /\ m \in Nat /\ k \in DOMAIN lines /\ Len(es) = m
  BY DEF IsSequence, Agree
<1>2. PICK Z : es \in Seq(Z)
  BY DEF States
<1>3. \A j \in 1..m : msgs[j] \in 1..k-1 /\ msgs[j] \in 1..k /\ lines[msgs[j]].kind = "message"
                       /\ es[j].origin = lines[msgs[j]].origin
                       /\ es[j].text = Quoted(lines, msgs[j], k-1)
  BY <1>1 DEF Agree
<1>4. CASE line.kind = "message"
  <2>. DEFINE e == Entry(line)
              a == Append(msgs, k)
              b == Append(es, e)
  <2>1. Take(state, line) = [entries |-> b, open |-> TRUE]
    BY <1>4 DEF Take
  <2>2. Len(a) = m + 1 /\ a[m+1] = k /\ \A j \in 1..m : a[j] = msgs[j]
    <3>1. k \in 1..n
      OBVIOUS
    <3>. QED  BY <1>1, <3>1
  <2>3. Len(b) = m + 1 /\ b[m+1] = e /\ \A j \in 1..m : b[j] = es[j]
    <3>. HIDE DEF e, es
    <3>. QED  BY <1>1, <1>2
  <2>4. e.origin = line.origin /\ e.text = <<line.text>>
    BY DEF Entry
  <2>. HIDE DEF a, b, e
  <2>5. \A j \in 1..m : Quoted(lines, msgs[j], k) = Quoted(lines, msgs[j], k-1)
    <3>1. ASSUME NEW j \in 1..m PROVE k \notin TextPlaces(lines, msgs[j])
      <4>1. k # msgs[j]
        BY <1>1, <1>3
      <4>2. ~Continues(lines, msgs[j], k)
        BY <1>4 DEF Continues
      <4>. QED  BY <4>1, <4>2 DEF TextPlaces
    <3>. QED  BY <3>1, QuotedStep
  <2>6. Quoted(lines, k, k) = <<line.text>>
    <3>1. Quoted(lines, k, k-1) = <<>>
      BY QuotedBefore
    <3>2. k \in TextPlaces(lines, k)
      BY <1>1 DEF TextPlaces
    <3>3. Quoted(lines, k, k) = Append(<<>>, line.text)
      BY <3>1, <3>2, QuotedStep
    <3>. QED  BY <3>3
  <2>7. \A j \in 1..m+1 : /\ a[j] \in 1..k /\ lines[a[j]].kind = "message"
                          /\ b[j].origin = lines[a[j]].origin
                          /\ b[j].text = Quoted(lines, a[j], k)
    <3>1. \A j \in 1..m+1 : j \in 1..m \/ j = m + 1
      BY <1>1
    <3>2. k \in 1..k
      BY <1>1
    <3>. QED  BY <1>3, <1>4, <2>2, <2>3, <2>4, <2>5, <2>6, <3>1, <3>2
  <2>8. \A j \in 1..m+1 : j < m + 1 => a[j] < a[m+1]
    <3>1. \A j \in 1..m+1 : j < m + 1 => j \in 1..m
      BY <1>1
    <3>2. \A j \in 1..m : msgs[j] < k
      BY <1>1, <1>3
    <3>. QED  BY <2>2, <3>1, <3>2
  <2>9. m + 1 # 0 /\ \A x \in a[m+1]+1..k : FALSE
    BY <1>1, <2>2
  <2>10. Agree(lines, k, [entries |-> b, open |-> TRUE], a)
    BY <2>2, <2>3, <2>7, <2>8, <2>9 DEF Agree
  <2>. QED  BY <1>4, <2>1, <2>10 DEF a
<1>5. CASE line.kind # "message"
  <2>1. \A j \in 1..m : k \in TextPlaces(lines, msgs[j]) <=>
                           j = m /\ state.open /\ line.kind = "more"
    BY <1>5, AgreeOn
  <2>2. \A j \in 1..m : j < m => msgs[j] < msgs[m]
    BY DEF Agree
  <2>3. state.open <=> m # 0 /\ \A x \in msgs[m]+1..k-1 : lines[x].kind \in {"more", "blank"}
    BY DEF Agree
  <2>4. m # 0 => \A x : x \in msgs[m]+1..k <=> x \in msgs[m]+1..k-1 \/ x = k
    <3>1. m # 0 => msgs[m] \in 1..k-1
      BY <1>1, <1>3
    <3>. QED  BY <1>1, <3>1
  <2>5. CASE ~(state.open /\ line.kind = "more")
    <3>1. \A j \in 1..m : Quoted(lines, msgs[j], k) = Quoted(lines, msgs[j], k-1)
      BY <2>1, <2>5, QuotedStep
    <3>2. \E o \in BOOLEAN : /\ Take(state, line) = [entries |-> es, open |-> o]
                             /\ o <=> state.open /\ line.kind # "notice"
      <4>1. CASE line.kind = "notice"
        BY <4>1 DEF Take
      <4>2. CASE line.kind # "notice"
        <5>1. Take(state, line) = state
          BY <1>5, <2>5, <4>2 DEF Take
        <5>2. state = [entries |-> state.entries, open |-> state.open] /\ state.open \in BOOLEAN
          BY DEF States
        <5>. QED  BY <4>2, <5>1, <5>2
      <4>. QED  BY <4>1, <4>2
    <3>3. PICK o \in BOOLEAN : /\ Take(state, line) = [entries |-> es, open |-> o]
                               /\ o <=> state.open /\ line.kind # "notice"
      BY <3>2
    <3>4. o <=> m # 0 /\ \A x \in msgs[m]+1..k : lines[x].kind \in {"more", "blank"}
      <4>1. line.kind \in {"notice", "more", "blank"}
        BY <1>5 DEF LineKinds
      <4>2. o => line.kind = "blank"
        BY <2>5, <3>3, <4>1
      <4>. QED  BY <2>3, <2>4, <2>5, <3>3, <4>1, <4>2
    <3>5. Agree(lines, k, [entries |-> es, open |-> o], msgs)
      BY <1>1, <1>3, <2>2, <3>1, <3>4 DEF Agree
    <3>. QED  BY <1>5, <3>3, <3>5
  <2>6. CASE state.open /\ line.kind = "more"
    <3>. DEFINE b == Continued(es, line.text)
    <3>1. Take(state, line) = [entries |-> b, open |-> TRUE]
      BY <2>6 DEF Take
    <3>2. m # 0 /\ m \in 1..m
      BY <1>1, <2>3, <2>6
    <3>3. Len(b) = m /\ (\A j \in 1..m : j # m => b[j] = es[j])
          /\ b[m] = [es[m] EXCEPT !.text = Append(@, line.text)]
      <4>. DEFINE z == [es[m] EXCEPT !.text = Append(@, line.text)]
      <4>1. b = [es EXCEPT ![m] = z]
        BY <1>1 DEF Continued
      <4>2. DOMAIN es = 1..m
        BY <1>1, <1>2
      <4>. HIDE DEF es, z, b, m
      <4>3. DOMAIN b = 1..m /\ (\A j \in 1..m : j # m => b[j] = es[j]) /\ b[m] = z
        BY <4>1, <4>2, <3>2
      <4>4. Len(b) = m
        BY <4>3, <1>1
      <4>. QED  BY <4>3, <4>4 DEF z
    <3>4. b[m].origin = es[m].origin /\ b[m].text = Append(es[m].text, line.text)
      <4>. DEFINE E == [sender : {lines[i].sender : i \in DOMAIN lines},
                         at     : {lines[i].at : i \in DOMAIN lines},
                         text   : Seq({lines[i].text : i \in DOMAIN lines}),
                         origin : {lines[i].origin : i \in DOMAIN lines}]
      <4>1. es \in Seq(E)
        BY DEF States
      <4>2. es[m] \in E
        <5>. HIDE DEF E, es
        <5>. QED  BY <1>1, <3>2, <4>1
      <4>. HIDE DEF b, es
      <4>. QED  BY <3>3, <4>2
    <3>. HIDE DEF b
    <3>5. \A j \in 1..m : Quoted(lines, msgs[j], k) =
                IF j = m THEN Append(Quoted(lines, msgs[j], k-1), line.text)
                ELSE Quoted(lines, msgs[j], k-1)
      BY <2>1, <2>6, QuotedStep
    <3>6. \A j \in 1..m : b[j].origin = lines[msgs[j]].origin /\ b[j].text = Quoted(lines, msgs[j], k)
      BY <1>3, <3>3, <3>4, <3>5
    <3>7. \A x \in msgs[m]+1..k : lines[x].kind \in {"more", "blank"}
      BY <2>3, <2>4, <2>6
    <3>8. Agree(lines, k, [entries |-> b, open |-> TRUE], msgs)
      BY <1>1, <1>3, <2>2, <3>2, <3>3, <3>6, <3>7 DEF Agree
    <3>. QED  BY <1>5, <3>1, <3>8
  <2>. QED  BY <2>5, <2>6
<1>. QED  BY <1>4, <1>5

\* A transcript of any length is read whole: each message once, in order, with
\* the lines that continue it and no others (parse_txt_transcript).
THEOREM TranscriptsReadWhole ==
    ASSUME NEW lines, IsSequence(lines), \A k \in DOMAIN lines : lines[k].kind \in LineKinds
    PROVE  ReadWhole(lines, Parse(lines))
<1>. DEFINE n == Len(lines)
            starts == {k \in DOMAIN lines : lines[k].kind = "message"}
            M == PickRunOf(lines, starts)
<1>1. n \in Nat /\ DOMAIN lines = 1..n
  BY DEF IsSequence
<1>2. PICK F \in [0..n -> States(lines)] :
         /\ F[0] = [entries |-> <<>>, open |-> FALSE] /\ F[n].entries = Parse(lines)
         /\ \A k \in 1..n : F[k] = Take(F[k-1], lines[k])
  BY ParseRuns
<1>3. PickRun(lines, starts, M)
  BY PlacesRun
<1>. HIDE DEF M
<1>4. /\ M \in [0..n -> Seq(1..n)] /\ M[0] = <<>> /\ M[n] = Messages(lines)
      /\ \A k \in 1..n : M[k] = IF lines[k].kind = "message" THEN Append(M[k-1], k) ELSE M[k-1]
  BY <1>1, <1>3 DEF PickRun, Messages
<1>. DEFINE D == {k \in Nat : k <= n => Agree(lines, k, F[k], M[k])}
<1>5. 0 \in D
  <2>1. Len(M[0]) = 0 /\ Len(F[0].entries) = 0 /\ F[0].open = FALSE
    BY <1>2, <1>4
  <2>2. Agree(lines, 0, F[0], M[0])
    BY <2>1 DEF Agree
  <2>. QED  BY <2>2
<1>6. ASSUME NEW k \in Nat, k \in D PROVE k + 1 \in D
  <2>. SUFFICES ASSUME k + 1 <= n PROVE Agree(lines, k + 1, F[k+1], M[k+1])
    OBVIOUS
  <2>. DEFINE p == k + 1
  <2>1. p \in 1..n /\ p - 1 = k /\ k \in 0..n /\ k <= n
    BY <1>1
  <2>2. Agree(lines, k, F[k], M[k])
    BY <1>6, <2>1
  <2>. HIDE DEF p
  <2>3. F[k] \in States(lines) /\ M[k] \in Seq(1..n) /\ lines[p].kind \in LineKinds
    BY <1>1, <1>2, <1>4, <2>1
  <2>4. Agree(lines, p, Take(F[k], lines[p]),
              IF lines[p].kind = "message" THEN Append(M[k], p) ELSE M[k])
    BY <2>1, <2>2, <2>3, AgreeStep
  <2>5. F[p] = Take(F[k], lines[p])
        /\ M[p] = IF lines[p].kind = "message" THEN Append(M[k], p) ELSE M[k]
    BY <1>2, <1>4, <2>1
  <2>6. Agree(lines, p, F[p], M[p])
    BY <2>4, <2>5
  <2>. QED  BY <2>6 DEF p
<1>. HIDE DEF D
<1>7. n \in D
  BY <1>1, <1>5, <1>6, AllNumbers
<1>. USE DEF D
<1>8. Agree(lines, n, F[n], Messages(lines))
  BY <1>1, <1>4, <1>7
<1>9. \A j \in DOMAIN Messages(lines) :
         Quoted(lines, Messages(lines)[j], n) =
            [k \in DOMAIN TextOf(lines, Messages(lines)[j]) |->
               lines[TextOf(lines, Messages(lines)[j])[k]].text]
  <2>1. ASSUME NEW i PROVE PickRunOf(lines, TextPlaces(lines, i))[n] = TextOf(lines, i)
    <3>1. PickRun(lines, TextPlaces(lines, i), PickRunOf(lines, TextPlaces(lines, i)))
      BY PlacesRun
    <3>. QED  BY <3>1 DEF PickRun, TextOf
  <2>. QED  BY <2>1 DEF Quoted
<1>10. Messages(lines) \in Seq(1..n)
  BY <1>1, <1>4
<1>. HIDE DEF n, starts, D
<1>11. \A m \in DOMAIN Messages(lines) : m \in 1..Len(Messages(lines))
  BY <1>10
<1>. QED  BY <1>2, <1>8, <1>9, <1>11 DEF ReadWhole, Agree

-----------------------------------------------------------------------------
(* Sequences of records.                                                    *)

\* What has numbered places is a sequence.
LEMMA SequenceIs ==
    ASSUME NEW s, NEW n \in Nat, DOMAIN s = 1..n, s = [i \in DOMAIN s |-> s[i]]
    PROVE  IsSequence(s) /\ Len(s) = n
<1>1. s \in [1..n -> ToSet(s)]
  BY DEF ToSet
<1>2. s \in Seq(ToSet(s))
  BY <1>1
<1>. QED  BY <1>2 DEF IsSequence

\* What is picked is a sequence of the same members.
LEMMA PickedIn ==
    ASSUME NEW S, NEW s \in Seq(S), NEW places
    PROVE  Picked(s, places) \in Seq(S)
<1>1. PICK F : PickedBy(F, S, s, places)
  BY PickedRuns
<1>2. Len(s) \in 0..Len(s)
  OBVIOUS
<1>. QED  BY <1>1, <1>2 DEF PickedBy

\* Sequences put one after the other are a sequence of their members.
LEMMA FlattenIn ==
    ASSUME NEW R, NEW seqs \in Seq(Seq(R))
    PROVE  FlattenSeq(seqs) \in Seq(R)
<1>. DEFINE n == Len(seqs)
            T == Seq(R)
            Flat(g) == g = [i \in 1..Len(seqs) |->
                               IF i = 1 THEN seqs[i] ELSE g[i - 1] \o seqs[i]]
            flatten == CHOOSE g : Flat(g)
            step == [i \in 1..n |-> [t \in T |-> t \o seqs[i]]]
<1>1. FlattenSeq(seqs) = IF Len(seqs) = 0 THEN seqs ELSE flatten[Len(seqs)]
  BY Zenon DEF FlattenSeq
<1>2. n \in Nat /\ \A i \in 1..n : seqs[i] \in T
  OBVIOUS
<1>3. CASE n = 0
  <2>1. seqs = <<>> /\ <<>> \in T
    BY <1>3
  <2>. HIDE DEF flatten
  <2>. QED  BY <1>1, <1>3, <2>1
<1>4. CASE n # 0
  <2>1. step \in [1..n -> [T -> T]] /\ <<>> \in T
    BY <1>2
  <2>. HIDE DEF T, n
  <2>2. PICK G \in [SUBSET (1..n) -> T] : Folds(G, n, <<>>, step)
    <3>. HIDE DEF step
    <3>. QED  BY <1>2, <2>1, FoldExists
  <2>3. ASSUME NEW i \in 1..n
        PROVE  /\ G[1..i] \in T /\ G[1..i-1] \in T
               /\ G[1..i] = G[1..i-1] \o seqs[i]
    <3>1. Max(1..i) = i /\ (1..i) \ {i} = 1..i-1 /\ 1..i # {}
      <4>1. i \in Nat \ {0}
        BY <1>2
      <4>. QED  BY <4>1, UpTo
    <3>2. 1..i \in SUBSET (1..n) /\ 1..i-1 \in SUBSET (1..n)
      BY <1>2
    <3>3. G[1..i] = step[i][G[1..i-1]]
      <4>. HIDE DEF step
      <4>. QED  BY <2>2, <3>1, <3>2 DEF Folds
    <3>4. G[1..i] \in T /\ G[1..i-1] \in T
      BY <2>2, <3>2
    <3>. QED  BY <3>3, <3>4
  <2>. DEFINE g == [i \in 1..n |-> G[1..i]]
  <2>4. Flat(g)
    <3>1. ASSUME NEW i \in 1..n PROVE g[i] = IF i = 1 THEN seqs[i] ELSE g[i - 1] \o seqs[i]
      <4>1. CASE i = 1
        <5>1. 1..i-1 = {}
          BY <4>1
        <5>2. G[1..i-1] = <<>>
          BY <5>1, <2>2 DEF Folds
        <5>3. G[1..i] = <<>> \o seqs[i]
          BY <5>2, <2>3
        <5>4. <<>> \o seqs[i] = seqs[i]
          <6>1. seqs[i] \in T
            BY <1>2
          <6>. QED  BY <6>1 DEF T
        <5>. QED  BY <4>1, <5>3, <5>4
      <4>2. CASE i # 1
        <5>1. i - 1 \in 1..n
          BY <1>2, <4>2
        <5>2. g[i-1] = G[1..i-1] /\ g[i] = G[1..i]
          BY <5>1
        <5>. QED  BY <2>3, <4>2, <5>2
      <4>. QED  BY <4>1, <4>2
    <3>. QED  BY <3>1 DEF n
  <2>5. Flat(flatten)
    <3>. HIDE DEF Flat
    <3>. QED  BY <2>4
  <2>. HIDE DEF flatten
  <2>6. \A i \in 1..n : flatten[i] = IF i = 1 THEN seqs[i] ELSE flatten[i - 1] \o seqs[i]
    BY <2>5 DEF n
  <2>. DEFINE D == {i \in Nat : i + 1 <= n => flatten[i+1] \in T}
  <2>7. 0 \in D
    <3>1. 0 + 1 = 1 /\ 1 \in 1..n
      BY <1>2, <1>4
    <3>2. flatten[1] \in T
      BY <1>2, <2>6, <3>1
    <3>. QED  BY <3>1, <3>2
  <2>8. ASSUME NEW i \in Nat, i \in D PROVE i + 1 \in D
    <3>. SUFFICES ASSUME (i + 1) + 1 <= n PROVE flatten[(i+1)+1] \in T
      OBVIOUS
    <3>. DEFINE j == (i + 1) + 1
    <3>1. j \in 1..n /\ j - 1 = i + 1 /\ j # 1 /\ i + 1 <= n
      BY <1>2
    <3>2. flatten[i+1] \in T
      BY <2>8, <3>1
    <3>. HIDE DEF j
    <3>3. flatten[j] = flatten[i+1] \o seqs[j] /\ seqs[j] \in T
      BY <1>2, <2>6, <3>1
    <3>4. flatten[j] \in T
      BY <3>2, <3>3 DEF T
    <3>. QED  BY <3>4 DEF j
  <2>. HIDE DEF D
  <2>9. n - 1 \in D /\ n - 1 \in Nat /\ (n - 1) + 1 = n
    <3>1. n - 1 \in Nat /\ (n - 1) + 1 = n
      BY <1>2, <1>4
    <3>. QED  BY <3>1, <2>7, <2>8, AllNumbers
  <2>. USE DEF D
  <2>10. flatten[(n - 1) + 1] \in T
    <3>1. (n - 1) + 1 <= n
      BY <1>2, <2>9
    <3>. QED  BY <2>9, <3>1
  <2>. QED  BY <1>1, <1>4, <2>9, <2>10 DEF T, n
<1>. QED  BY <1>3, <1>4

-----------------------------------------------------------------------------
(* The documents.                                                          *)

\* The owner taken for an archive's, by which its transcripts are filed, is one of
\* those that may be guessed; otherwise nobody is.
Guessed(export, owner) ==
    IF export.kind = "zip" /\ Len(ChatsIn(export)) > 1 THEN owner \in Owners(ChatsIn(export))
    ELSE owner = None

\* What a request says of a transcript: whose it is, what it is called, its number.
Request(how, entries, subject, phone) ==
    LET export == how.file
        single == export.kind = "txt" \/ Len(ChatsIn(export)) = 1
        chat ==
            IF export.kind = "txt"
            THEN [subject |-> export.chats[1].subject, entries |-> Parse(export.chats[1].lines)]
            ELSE ChatsIn(export)[how.place]
    IN  /\ how.way = "transcript"
        /\ entries = chat.entries
        /\ subject = IF single /\ how.other # None THEN how.other ELSE chat.subject
        /\ phone = IF single THEN how.phone ELSE None

\* From which message of an upload, and how read, a document is.
TranscribedAs(d, e, entries, subject, owner, phone) ==
    /\ e \in Entries
    /\ d.chat = ChatOf(Others(entries, subject, owner), subject, phone) /\ d.at = e.at
    /\ d.id = StableId(d.chat, e.at, e.sender, e.text)
    /\ d.said = <<e.at, e.sender, e.text>> /\ d.origin = e.origin
    /\ Guessed(d.how.file, owner) /\ Request(d.how, entries, subject, phone)

NumberedAs(d, e, phone, k) ==
    /\ e \in Entries
    /\ d.chat = <<"phone", phone>> /\ d.at = e.at /\ d.id = <<"line", phone, k>>
    /\ d.said = <<k, e.at>> /\ d.origin = e.origin
    /\ d.how.way = "history" /\ d.how.phone = phone /\ d.how.place = k

\* By what name a row's sender went.
Called(row, name) ==
    /\ row.me => name = "Me"
    /\ ~row.me /\ row.known # None => name = row.known

TabledAs(d, r, name) ==
    /\ r \in Rows
    /\ d.chat = <<"jid", r.chat>> /\ d.at = r.at
    /\ d.id = IF r.key # None THEN <<"key", r.key>> ELSE StableId(r.chat, r.at, name, r.text)
    /\ d.said = <<r.at, name, r.text>> /\ d.origin = r.origin
    /\ d.how.way = "rows" /\ r = ReadableRows(d.how.file)[d.how.place] /\ Called(r, name)

Transcribed(d) ==
    \E e, entries, subject, owner, phone : TranscribedAs(d, e, entries, subject, owner, phone)
Numbered(d) == \E e, phone, k : NumberedAs(d, e, phone, k)
Tabled(d) == \E r, name : TabledAs(d, r, name)

Lawful(d) == Transcribed(d) \/ Numbered(d) \/ Tabled(d)

\* The three ways in which a document is identified.
ByWordsOf(d, chat, sender, text) ==
    d.id = <<"import", chat, d.at, sender, text>> /\ d.said = <<d.at, sender, text>>
ByPlaceOf(d, phone, k) == d.id = <<"line", phone, k>> /\ d.said = <<k, d.at>>
ByKeyOf(d, r) ==
    /\ r \in Rows /\ r.key # None
    /\ d.chat = <<"jid", r.chat>> /\ d.at = r.at
    /\ d.id = <<"key", r.key>> /\ d.origin = r.origin

ByWords(d) == \E chat, sender, text : ByWordsOf(d, chat, sender, text)
ByPlace(d) == \E phone, k : ByPlaceOf(d, phone, k)
ByKey(d) == \E r : ByKeyOf(d, r)

\* Every document is identified in one of them.
LEMMA Identified ==
    ASSUME NEW d, Lawful(d)
    PROVE  ByWords(d) \/ ByPlace(d) \/ ByKey(d)
<1>1. CASE Transcribed(d)
  <2>1. PICK e, entries, subject, owner, phone :
           TranscribedAs(d, e, entries, subject, owner, phone)
    BY <1>1 DEF Transcribed
  <2>2. ByWordsOf(d, d.chat, e.sender, e.text)
    BY <2>1 DEF TranscribedAs, StableId, ByWordsOf
  <2>. QED  BY <2>2 DEF ByWords
<1>2. CASE Numbered(d)
  <2>1. PICK e, phone, k : NumberedAs(d, e, phone, k)
    BY <1>2 DEF Numbered
  <2>2. ByPlaceOf(d, phone, k)
    BY <2>1 DEF NumberedAs, ByPlaceOf
  <2>. QED  BY <2>2 DEF ByPlace
<1>3. CASE Tabled(d)
  <2>1. PICK r, name : TabledAs(d, r, name)
    BY <1>3 DEF Tabled
  <2>2. CASE r.key # None
    <3>1. ByKeyOf(d, r)
      BY <2>1, <2>2 DEF TabledAs, ByKeyOf
    <3>. QED  BY <3>1 DEF ByKey
  <2>3. CASE r.key = None
    <3>1. ByWordsOf(d, r.chat, name, r.text)
      BY <2>1, <2>3 DEF TabledAs, StableId, ByWordsOf
    <3>. QED  BY <3>1 DEF ByWords
  <2>. QED  BY <2>2, <2>3
<1>. QED  BY <1>1, <1>2, <1>3 DEF Lawful

\* What stands in another's way says the same or is the same message.
LEMMA KeyTells ==
    ASSUME NEW d, NEW e, Lawful(d), Lawful(e), SameKey(d, e)
    PROVE  d.chat = e.chat /\ (d.origin = e.origin \/ d.said = e.said)
<1>1. d.chat = e.chat /\ d.id = e.id /\ d.at = e.at
  BY DEF SameKey
<1>2. ASSUME NEW x
      PROVE  /\ ByWords(x) => x.id[1] = "import"
             /\ ByPlace(x) => x.id[1] = "line"
             /\ ByKey(x) => x.id[1] = "key"
  BY DEF ByWords, ByPlace, ByKey, ByWordsOf, ByPlaceOf, ByKeyOf
<1>3. \/ ByWords(d) /\ ByWords(e)
      \/ ByPlace(d) /\ ByPlace(e)
      \/ ByKey(d) /\ ByKey(e)
  <2>1. ByWords(d) \/ ByPlace(d) \/ ByKey(d)
    BY Identified
  <2>2. ByWords(e) \/ ByPlace(e) \/ ByKey(e)
    BY Identified
  <2>. QED  BY <1>1, <1>2, <2>1, <2>2
<1>4. CASE ByWords(d) /\ ByWords(e)
  <2>1. PICK c1, s1, t1 : ByWordsOf(d, c1, s1, t1)
    BY <1>4 DEF ByWords
  <2>2. PICK c2, s2, t2 : ByWordsOf(e, c2, s2, t2)
    BY <1>4 DEF ByWords
  <2>3. d.id[4] = s1 /\ d.id[5] = t1 /\ e.id[4] = s2 /\ e.id[5] = t2
    BY <2>1, <2>2 DEF ByWordsOf
  <2>. QED  BY <1>1, <2>1, <2>2, <2>3 DEF ByWordsOf
<1>5. CASE ByPlace(d) /\ ByPlace(e)
  <2>1. PICK p1, k1 : ByPlaceOf(d, p1, k1)
    BY <1>5 DEF ByPlace
  <2>2. PICK p2, k2 : ByPlaceOf(e, p2, k2)
    BY <1>5 DEF ByPlace
  <2>3. d.id[3] = k1 /\ e.id[3] = k2
    BY <2>1, <2>2 DEF ByPlaceOf
  <2>. QED  BY <1>1, <2>1, <2>2, <2>3 DEF ByPlaceOf
<1>6. CASE ByKey(d) /\ ByKey(e)
  <2>1. PICK r : ByKeyOf(d, r)
    BY <1>6 DEF ByKey
  <2>2. PICK t : ByKeyOf(e, t)
    BY <1>6 DEF ByKey
  <2>3. d.chat[2] = r.chat /\ d.id[2] = r.key /\ e.chat[2] = t.chat /\ e.id[2] = t.key
    BY <2>1, <2>2 DEF ByKeyOf
  <2>4. r.origin = t.origin
    <3>1. r.key # None /\ r.key = t.key /\ r.chat = t.chat /\ r.at = t.at /\ r \in Rows /\ t \in Rows
      BY <1>1, <2>1, <2>2, <2>3 DEF ByKeyOf
    <3>. QED  BY <3>1, ExportsAgree
  <2>. QED  BY <1>1, <2>1, <2>2, <2>4 DEF ByKeyOf
<1>. QED  BY <1>3, <1>4, <1>5, <1>6

\* Which way a document was read.
LEMMA HowTells ==
    ASSUME NEW d
    PROVE  /\ Transcribed(d) => d.how.way = "transcript"
           /\ Numbered(d) => d.how.way = "history"
           /\ Tabled(d) => d.how.way = "rows"
<1>1. Transcribed(d) => d.how.way = "transcript"
  BY DEF Transcribed, TranscribedAs, Request
<1>2. Numbered(d) => d.how.way = "history"
  BY DEF Numbered, NumberedAs
<1>3. Tabled(d) => d.how.way = "rows"
  BY DEF Tabled, TabledAs
<1>. QED  BY <1>1, <1>2, <1>3

\* A message of a chat is stored there once, whichever transcripts it was read from.
LEMMA SameChat ==
    ASSUME NEW d, NEW e, Transcribed(d), Transcribed(e), d.origin = e.origin, d.chat = e.chat
    PROVE  SameKey(d, e)
<1>1. PICK x, n1, s1, o1, p1 : TranscribedAs(d, x, n1, s1, o1, p1)
  BY DEF Transcribed
<1>2. PICK y, n2, s2, o2, p2 : TranscribedAs(e, y, n2, s2, o2, p2)
  BY DEF Transcribed
<1>3. /\ d.at = x.at /\ d.id = StableId(d.chat, x.at, x.sender, x.text)
      /\ e.at = y.at /\ e.id = StableId(e.chat, y.at, y.sender, y.text)
      /\ x \in Entries /\ y \in Entries /\ x.origin = y.origin
  BY <1>1, <1>2 DEF TranscribedAs
<1>4. x = y
  BY <1>3, ExportsAgree
<1>. QED  BY <1>3, <1>4 DEF SameKey

\* A transcript read again on the same request, and not in doubt, is filed again
\* under the same chat.
LEMMA SameTranscript ==
    ASSUME NEW d, NEW e, Transcribed(d), Transcribed(e), d.how = e.how, ~InDoubt(d.how)
    PROVE  d.chat = e.chat
<1>1. PICK x, n1, s1, o1, p1 : TranscribedAs(d, x, n1, s1, o1, p1)
  BY DEF Transcribed
<1>2. PICK y, n2, s2, o2, p2 : TranscribedAs(e, y, n2, s2, o2, p2)
  BY DEF Transcribed
<1>3. /\ d.chat = ChatOf(Others(n1, s1, o1), s1, p1)
      /\ e.chat = ChatOf(Others(n2, s2, o2), s2, p2)
      /\ Request(d.how, n1, s1, p1) /\ Request(d.how, n2, s2, p2)
      /\ Guessed(d.how.file, o1) /\ Guessed(d.how.file, o2)
  BY <1>1, <1>2 DEF TranscribedAs
<1>4. n1 = n2 /\ s1 = s2 /\ p1 = p2 /\ d.how.way = "transcript"
  BY <1>3 DEF Request
<1>5. o1 = o2
  BY <1>3, <1>4 DEF Guessed, InDoubt
<1>. QED  BY <1>3, <1>4, <1>5

\* Whatever is read again on the same request, and is not in doubt, stands in its
\* own way.
LEMMA SameWay ==
    ASSUME NEW d, NEW e, Lawful(d), Lawful(e), d.origin = e.origin, d.how = e.how,
           ~InDoubt(d.how)
    PROVE  SameKey(d, e)
<1>1. \/ Transcribed(d) /\ Transcribed(e)
      \/ Numbered(d) /\ Numbered(e)
      \/ Tabled(d) /\ Tabled(e)
  BY HowTells DEF Lawful
<1>2. CASE Transcribed(d) /\ Transcribed(e)
  BY <1>2, SameTranscript, SameChat
<1>3. CASE Numbered(d) /\ Numbered(e)
  <2>1. PICK x, p1, k1 : NumberedAs(d, x, p1, k1)
    BY <1>3 DEF Numbered
  <2>2. PICK y, p2, k2 : NumberedAs(e, y, p2, k2)
    BY <1>3 DEF Numbered
  <2>3. p1 = p2 /\ k1 = k2
    BY <2>1, <2>2 DEF NumberedAs
  <2>4. x = y
    BY <2>1, <2>2, ExportsAgree DEF NumberedAs
  <2>. QED  BY <2>1, <2>2, <2>3, <2>4 DEF SameKey, NumberedAs
<1>4. CASE Tabled(d) /\ Tabled(e)
  <2>1. PICK r, n1 : TabledAs(d, r, n1)
    BY <1>4 DEF Tabled
  <2>2. PICK t, n2 : TabledAs(e, t, n2)
    BY <1>4 DEF Tabled
  <2>3. /\ r = t /\ r = ReadableRows(d.how.file)[d.how.place] /\ d.how.way = "rows"
        /\ Called(r, n1) /\ Called(r, n2)
    BY <2>1, <2>2 DEF TabledAs
  <2>4. r.key # None \/ r.me \/ r.known # None
    BY <2>3 DEF InDoubt
  <2>5. r.key # None \/ n1 = n2
    BY <2>3, <2>4 DEF Called
  <2>6. /\ d.chat = <<"jid", r.chat>> /\ e.chat = <<"jid", r.chat>>
        /\ d.at = r.at /\ e.at = r.at
        /\ d.id = IF r.key # None THEN <<"key", r.key>> ELSE StableId(r.chat, r.at, n1, r.text)
        /\ e.id = IF r.key # None THEN <<"key", r.key>> ELSE StableId(r.chat, r.at, n2, r.text)
    BY <2>1, <2>2, <2>3 DEF TabledAs
  <2>. QED  BY <2>5, <2>6 DEF SameKey
<1>. QED  BY <1>1, <1>2, <1>3, <1>4

\* No two documents have one key.
Unique(docs) == \A d, e \in docs : SameKey(d, e) => d = e

\* Storing records adds nothing else, drops nothing, keeps the keys unique and
\* leaves a document with the key of each.
LEMMA AddsKeep ==
    ASSUME NEW docs, Unique(docs), NEW records, IsSequence(records)
    PROVE  LET after == FoldLeft(Add, docs, records) IN
           /\ after \subseteq docs \cup ToSet(records) /\ docs \subseteq after
           /\ Unique(after)
           /\ \A r \in ToSet(records) : \E d \in after : SameKey(d, r)
<1>. DEFINE n == Len(records)
<1>1. n \in Nat /\ DOMAIN records = 1..n
  BY DEF IsSequence
<1>2. PICK F : AddedBy(F, docs, records)
  BY AddRuns
<1>2a. /\ F \in [0..n -> SUBSET (docs \cup ToSet(records))]
       /\ F[0] = docs /\ F[n] = FoldLeft(Add, docs, records)
       /\ \A k \in 1..n : F[k] = Add(F[k-1], records[k])
  BY <1>2 DEF AddedBy
<1>. DEFINE Held(k) == /\ docs \subseteq F[k] /\ Unique(F[k])
                       /\ \A j \in 1..k : \E d \in F[k] : SameKey(d, records[j])
            D == {k \in Nat : k <= n => Held(k)}
<1>3. 0 \in D
  BY <1>2a
<1>4. ASSUME NEW k \in Nat, k \in D PROVE k + 1 \in D
  <2>. SUFFICES ASSUME k + 1 <= n PROVE Held(k + 1)
    OBVIOUS
  <2>. DEFINE p == k + 1
              r == records[p]
  <2>1. p \in 1..n /\ p - 1 = k /\ k <= n /\ \A j \in 1..p : j \in 1..k \/ j = p
    BY <1>1
  <2>2. Held(k)
    BY <1>4, <2>1
  <2>. HIDE DEF p
  <2>3. F[p] = IF \E d \in F[k] : SameKey(d, r) THEN F[k] ELSE F[k] \cup {r}
    BY <1>2a, <2>1 DEF Add
  <2>4. F[k] \subseteq F[p] /\ \E d \in F[p] : SameKey(d, r)
    BY <2>3 DEF SameKey
  <2>5. Unique(F[p])
    <3>1. CASE \E d \in F[k] : SameKey(d, r)
      BY <2>2, <2>3, <3>1
    <3>2. CASE ~ \E d \in F[k] : SameKey(d, r)
      <4>1. F[p] = F[k] \cup {r}
        BY <2>3, <3>2
      <4>2. \A d \in F[k] : ~SameKey(d, r) /\ ~SameKey(r, d)
        BY <3>2 DEF SameKey
      <4>. QED  BY <2>2, <4>1, <4>2 DEF Unique
    <3>. QED  BY <3>1, <3>2
  <2>6. \A j \in 1..p : \E d \in F[p] : SameKey(d, records[j])
    BY <2>1, <2>2, <2>4
  <2>7. Held(p)
    BY <2>2, <2>4, <2>5, <2>6
  <2>. QED  BY <2>7 DEF p
<1>. HIDE DEF D
<1>5. n \in D
  BY <1>1, <1>3, <1>4, AllNumbers
<1>. USE DEF D
<1>6. Held(n)
  BY <1>1, <1>5
<1>7. F[n] \subseteq docs \cup ToSet(records)
  BY <1>1, <1>2a
<1>8. \A r \in ToSet(records) : \E j \in 1..n : r = records[j]
  BY <1>1 DEF ToSet
<1>9. \A r \in ToSet(records) : \E d \in F[n] : SameKey(d, r)
  BY <1>6, <1>8
<1>. QED  BY <1>2a, <1>6, <1>7, <1>9

-----------------------------------------------------------------------------
(* The records of an upload.                                               *)

\* The records of an upload, each as a document should be.
LawfulRecords(records) == IsSequence(records) /\ \A r \in ToSet(records) : Lawful(r)

\* The transcripts of a file are sequences of lines, and read as entries.
LEMMA TranscriptLines ==
    ASSUME NEW export \in Files, export.kind # "db", NEW c \in DOMAIN export.chats
    PROVE  LET lines == export.chats[c].lines IN
           /\ ReadWhole(lines, Parse(lines))
           /\ IsSequence(Parse(lines)) /\ ToSet(Parse(lines)) \subseteq Entries
<1>. DEFINE lines == export.chats[c].lines
<1>1. export.chats[c] \in ToSet(export.chats)
  BY DEF ToSet
<1>2. IsSequence(lines) /\ \A line \in ToSet(lines) : line.kind \in LineKinds
  BY <1>1, FilesAssumption
<1>3. \A k \in DOMAIN lines : lines[k].kind \in LineKinds
  BY <1>2 DEF ToSet
<1>4. export.chats[c] \in Transcripts
  BY <1>1 DEF Transcripts
<1>5. ToSet(Parse(lines)) \subseteq Entries
  BY <1>4 DEF Entries
<1>. HIDE DEF lines
<1>6. IsSequence(Parse(lines))
  <2>1. PICK F \in [0..Len(lines) -> States(lines)] : F[Len(lines)].entries = Parse(lines)
    BY <1>2, ParseRuns
  <2>2. Len(lines) \in 0..Len(lines)
    BY <1>2 DEF IsSequence
  <2>3. F[Len(lines)].entries \in Seq([sender : {lines[i].sender : i \in DOMAIN lines},
                    at     : {lines[i].at : i \in DOMAIN lines},
                    text   : Seq({lines[i].text : i \in DOMAIN lines}),
                    origin : {lines[i].origin : i \in DOMAIN lines}])
    BY <2>1, <2>2 DEF States
  <2>4. PICK S : Parse(lines) \in Seq(S)
    BY <2>1, <2>3
  <2>5. Len(Parse(lines)) \in Nat /\ DOMAIN Parse(lines) = 1..Len(Parse(lines))
        /\ Parse(lines) = [i \in DOMAIN Parse(lines) |-> Parse(lines)[i]]
    BY <2>4
  <2>. QED  BY <2>5, SequenceIs
<1>7. ReadWhole(lines, Parse(lines))
  BY <1>2, <1>3, TranscriptsReadWhole
<1>. QED  BY <1>5, <1>6, <1>7 DEF lines

\* The records of a transcript (records_from_transcript).
LEMMA TranscriptRecords ==
    ASSUME NEW entries, IsSequence(entries), ToSet(entries) \subseteq Entries,
           NEW subject, NEW owner, NEW phone, NEW how,
           Guessed(how.file, owner), Request(how, entries, subject, phone)
    PROVE  LawfulRecords(FromTranscript(entries, subject, owner, phone, how))
<1>. DEFINE records == FromTranscript(entries, subject, owner, phone, how)
            others == Others(entries, subject, owner)
            chat == ChatOf(others, subject, phone)
<1>1. Len(entries) \in Nat /\ DOMAIN entries = 1..Len(entries)
  BY DEF IsSequence
<1>2. records = [k \in DOMAIN entries |->
           [chat |-> chat, at |-> entries[k].at,
            id |-> StableId(chat, entries[k].at, entries[k].sender, entries[k].text),
            me |-> IsMe(entries[k].sender, subject, owner),
            said |-> <<entries[k].at, entries[k].sender, entries[k].text>>,
            origin |-> entries[k].origin, how |-> how]]
  BY Zenon DEF FromTranscript
<1>. HIDE DEF records, chat, others
<1>3. IsSequence(records)
  <2>1. DOMAIN records = 1..Len(entries) /\ records = [k \in DOMAIN records |-> records[k]]
    BY <1>1, <1>2
  <2>. QED  BY <1>1, <2>1, SequenceIs
<1>4. ASSUME NEW k \in DOMAIN entries PROVE Lawful(records[k])
  <2>. DEFINE e == entries[k]
              d == records[k]
  <2>1. e \in Entries
    BY DEF ToSet
  <2>2. d = [chat |-> chat, at |-> e.at, id |-> StableId(chat, e.at, e.sender, e.text),
             me |-> IsMe(e.sender, subject, owner), said |-> <<e.at, e.sender, e.text>>,
             origin |-> e.origin, how |-> how]
    BY <1>2
  <2>. HIDE DEF e, d
  <2>3. /\ d.chat = chat /\ d.at = e.at /\ d.id = StableId(chat, e.at, e.sender, e.text)
        /\ d.said = <<e.at, e.sender, e.text>> /\ d.origin = e.origin
        /\ d.how = how
    BY <2>2
  <2>4. TranscribedAs(d, e, entries, subject, owner, phone)
    BY <2>1, <2>3 DEF TranscribedAs, chat, others
  <2>5. Lawful(d)
    BY <2>4 DEF Lawful, Transcribed
  <2>. QED  BY <2>5 DEF d
<1>5. \A r \in ToSet(records) : Lawful(r)
  BY <1>2, <1>4 DEF ToSet
<1>. QED  BY <1>3, <1>5 DEF LawfulRecords, records

\* The records of import-history (parse_whatsapp_export).
LEMMA HistoryRecords ==
    ASSUME NEW entries, IsSequence(entries), ToSet(entries) \subseteq Entries,
           NEW export, NEW phone, NEW other
    PROVE  LawfulRecords(FromHistory(entries, export, phone, other))
<1>. DEFINE records == FromHistory(entries, export, phone, other)
<1>1. Len(entries) \in Nat /\ DOMAIN entries = 1..Len(entries)
  BY DEF IsSequence
<1>2. records = [k \in DOMAIN entries |->
           [chat |-> <<"phone", phone>>, at |-> entries[k].at, id |-> <<"line", phone, k>>,
            me |-> ~Similar(other, entries[k].sender), said |-> <<k, entries[k].at>>,
            origin |-> entries[k].origin, how |-> How("history", export, k, phone, other)]]
  BY Zenon DEF FromHistory
<1>. HIDE DEF records
<1>3. IsSequence(records)
  <2>1. DOMAIN records = 1..Len(entries) /\ records = [k \in DOMAIN records |-> records[k]]
    BY <1>1, <1>2
  <2>. QED  BY <1>1, <2>1, SequenceIs
<1>4. ASSUME NEW k \in DOMAIN entries PROVE Lawful(records[k])
  <2>. DEFINE e == entries[k]
              d == records[k]
  <2>1. e \in Entries
    BY DEF ToSet
  <2>2. d = [chat |-> <<"phone", phone>>, at |-> e.at, id |-> <<"line", phone, k>>,
             me |-> ~Similar(other, e.sender), said |-> <<k, e.at>>,
             origin |-> e.origin, how |-> How("history", export, k, phone, other)]
    BY <1>2
  <2>. HIDE DEF e, d
  <2>3. /\ d.chat = <<"phone", phone>> /\ d.at = e.at /\ d.id = <<"line", phone, k>>
        /\ d.said = <<k, e.at>> /\ d.origin = e.origin
        /\ d.how.way = "history" /\ d.how.phone = phone /\ d.how.place = k
    BY <2>2 DEF How
  <2>4. NumberedAs(d, e, phone, k)
    BY <2>1, <2>3, Zenon DEF NumberedAs
  <2>5. Lawful(d)
    BY <2>4 DEF Lawful, Numbered
  <2>. QED  BY <2>5 DEF d
<1>5. \A r \in ToSet(records) : Lawful(r)
  BY <1>2, <1>4 DEF ToSet
<1>. QED  BY <1>3, <1>5 DEF LawfulRecords, records

\* The records of a database (_sqlite_rows_to_records).
LEMMA RowRecords ==
    ASSUME NEW export, IsSequence(export.rows), ToSet(export.rows) \subseteq Rows
    PROVE  LawfulRecords(FromRows(export))
<1>. DEFINE readable == ReadableRows(export)
            records == FromRows(export)
            Id(r) == IF r.key # None THEN <<"key", r.key>>
                     ELSE StableId(r.chat, r.at, SenderName(r), r.text)
<1>0. readable \in Seq(ToSet(export.rows))
  BY PickedIn DEF IsSequence, ReadableRows
<1>1. records = [k \in DOMAIN readable |->
           [chat |-> <<"jid", readable[k].chat>>, at |-> readable[k].at, id |-> Id(readable[k]),
            me |-> readable[k].me,
            said |-> <<readable[k].at, SenderName(readable[k]), readable[k].text>>,
            origin |-> readable[k].origin,
            how |-> How("rows", export, k, None, None)]]
  BY Zenon DEF FromRows
<1>. HIDE DEF readable, records, Id
<1>2. Len(readable) \in Nat /\ DOMAIN readable = 1..Len(readable)
      /\ \A k \in DOMAIN readable : readable[k] \in Rows
  BY <1>0
<1>3. IsSequence(records)
  <2>1. DOMAIN records = 1..Len(readable) /\ records = [k \in DOMAIN records |-> records[k]]
    BY <1>1, <1>2
  <2>. QED  BY <1>2, <2>1, SequenceIs
<1>4. ASSUME NEW k \in DOMAIN readable PROVE Lawful(records[k])
  <2>. DEFINE r == readable[k]
              d == records[k]
              name == SenderName(r)
  <2>1. r \in Rows
    BY <1>2
  <2>2. d = [chat |-> <<"jid", r.chat>>, at |-> r.at, id |-> Id(r), me |-> r.me,
             said |-> <<r.at, name, r.text>>, origin |-> r.origin,
             how |-> How("rows", export, k, None, None)]
    BY <1>1
  <2>. HIDE DEF r, d, name
  <2>3. /\ d.chat = <<"jid", r.chat>> /\ d.at = r.at /\ d.id = Id(r)
        /\ d.said = <<r.at, name, r.text>> /\ d.origin = r.origin
        /\ d.how = How("rows", export, k, None, None)
    BY <2>2
  <2>4. d.how.way = "rows" /\ r = ReadableRows(d.how.file)[d.how.place]
    BY <2>3 DEF How, r, readable
  <2>5. Called(r, name)
    BY DEF Called, SenderName, name
  <2>6. TabledAs(d, r, name)
    BY <2>1, <2>3, <2>4, <2>5, Zenon DEF TabledAs, Id, name
  <2>7. Lawful(d)
    BY <2>6 DEF Lawful, Tabled
  <2>. QED  BY <2>7 DEF d
<1>5. \A d \in ToSet(records) : Lawful(d)
  BY <1>1, <1>4 DEF ToSet
<1>. QED  BY <1>3, <1>5 DEF LawfulRecords, records

-----------------------------------------------------------------------------
(* The invariant.                                                          *)

\* Every document is of a message of some upload, no two have one key, and of the
\* last upload everything is there or its place is taken.
Filed ==
    /\ \A d \in store : Lawful(d)
    /\ Unique(store)
    /\ \A r \in ToSet(upload.records) : Lawful(r) /\ \E d \in store : SameKey(d, r)

\* Storing lawful records keeps the invariant, whatever they are.
LEMMA ReceivedFiles ==
    ASSUME NEW records, NEW parsed, LawfulRecords(records), Filed, Received(records, parsed)
    PROVE  Filed'
<1>1. store' = FoldLeft(Add, store, records) /\ upload'.records = records
  BY DEF Received
<1>2. /\ store' \subseteq store \cup ToSet(records) /\ Unique(store')
      /\ \A r \in ToSet(records) : \E d \in store' : SameKey(d, r)
  BY <1>1, AddsKeep DEF Filed, LawfulRecords
<1>3. \A d \in store' : Lawful(d)
  BY <1>2 DEF Filed, LawfulRecords
<1>4. \A r \in ToSet(upload'.records) : Lawful(r) /\ \E d \in store' : SameKey(d, r)
  BY <1>1, <1>2 DEF LawfulRecords
<1>. QED  BY <1>2, <1>3, <1>4 DEF Filed

\* import-backup with a transcript.
LEMMA TextFiles ==
    ASSUME NEW export \in Files, NEW phone, NEW other, Filed, UploadText(export, phone, other)
    PROVE  Filed' /\ EntriesMatch'
<1>. DEFINE chat == export.chats[1]
            subject == IF other # None THEN other ELSE chat.subject
            how == How("transcript", export, 1, phone, other)
            parsed == <<[lines |-> chat.lines, entries |-> Parse(chat.lines)]>>
<1>1. /\ export.kind = "txt"
      /\ Received(FromTranscript(Parse(chat.lines), subject, None, phone, how), parsed)
  BY Zenon DEF UploadText
<1>2. 1 \in DOMAIN export.chats
  <2>1. export.kind # "db"
    BY <1>1
  <2>2. export.chats \in Seq(ToSet(export.chats)) /\ export.chats # <<>>
    BY <2>1, FilesAssumption DEF IsSequence
  <2>. HIDE DEF chat
  <2>. QED  BY <2>2
<1>3. /\ ReadWhole(chat.lines, Parse(chat.lines)) /\ IsSequence(Parse(chat.lines))
      /\ ToSet(Parse(chat.lines)) \subseteq Entries
  <2>1. export.kind # "db"
    BY <1>1
  <2>. QED  BY <1>2, <2>1, TranscriptLines
<1>3a. Guessed(how.file, None) /\ Request(how, Parse(chat.lines), subject, phone)
  BY <1>1, Zenon DEF Guessed, Request, How
<1>. HIDE DEF chat, subject, how
<1>4. LawfulRecords(FromTranscript(Parse(chat.lines), subject, None, phone, how))
  BY <1>3, <1>3a, TranscriptRecords
<1>5. Filed'
  BY <1>1, <1>4, ReceivedFiles
<1>6. upload'.parsed = parsed
  BY <1>1 DEF Received
<1>7. \A p \in ToSet(parsed) : p.lines = chat.lines /\ p.entries = Parse(chat.lines)
  BY DEF ToSet
<1>8. EntriesMatch'
  BY <1>3, <1>6, <1>7 DEF EntriesMatch
<1>. QED  BY <1>5, <1>8

\* import-history.
LEMMA HistoryFiles ==
    ASSUME NEW export \in Files, NEW phone, NEW other, Filed, ImportHistory(export, phone, other)
    PROVE  Filed' /\ EntriesMatch'
<1>. DEFINE lines == export.chats[1].lines
            parsed == <<[lines |-> lines, entries |-> Parse(lines)]>>
<1>1. export.kind = "txt" /\ Received(FromHistory(Parse(lines), export, phone, other), parsed)
  BY Zenon DEF ImportHistory
<1>2. 1 \in DOMAIN export.chats
  <2>1. export.kind # "db"
    BY <1>1
  <2>2. export.chats \in Seq(ToSet(export.chats)) /\ export.chats # <<>>
    BY <2>1, FilesAssumption DEF IsSequence
  <2>. HIDE DEF lines
  <2>. QED  BY <2>2
<1>3. /\ ReadWhole(lines, Parse(lines)) /\ IsSequence(Parse(lines))
      /\ ToSet(Parse(lines)) \subseteq Entries
  <2>1. export.kind # "db"
    BY <1>1
  <2>. QED  BY <1>2, <2>1, TranscriptLines
<1>. HIDE DEF lines
<1>4. LawfulRecords(FromHistory(Parse(lines), export, phone, other))
  BY <1>3, HistoryRecords
<1>5. Filed'
  BY <1>1, <1>4, ReceivedFiles
<1>6. upload'.parsed = parsed
  BY <1>1 DEF Received
<1>7. \A p \in ToSet(parsed) : p.lines = lines /\ p.entries = Parse(lines)
  BY DEF ToSet
<1>8. EntriesMatch'
  BY <1>3, <1>6, <1>7 DEF EntriesMatch
<1>. QED  BY <1>5, <1>8

\* import-backup with a database.
LEMMA RowsFiles ==
    ASSUME NEW export \in Files, Filed, UploadRows(export)
    PROVE  Filed' /\ EntriesMatch'
<1>1. export.kind = "db" /\ Received(FromRows(export), <<>>)
  BY DEF UploadRows
<1>2. IsSequence(export.rows) /\ ToSet(export.rows) \subseteq Rows
  BY <1>1, FilesAssumption DEF Rows
<1>3. LawfulRecords(FromRows(export))
  BY <1>2, RowRecords
<1>4. PICK records : records = FromRows(export)
  OBVIOUS
<1>5. LawfulRecords(records) /\ Received(records, <<>>)
  <2>1. LawfulRecords(records)
    BY <1>3, <1>4
  <2>2. Received(records, <<>>)
    BY <1>1, <1>4
  <2>. QED  BY <2>1, <2>2
<1>6. Filed'
  BY <1>5, ReceivedFiles
<1>7. upload'.parsed = <<>>
  BY <1>5 DEF Received
<1>8. EntriesMatch'
  BY <1>7 DEF EntriesMatch, ToSet
<1>. QED  BY <1>6, <1>8

\* import-backup with an archive, whoever is taken for its owner.
LEMMA ArchiveFiles ==
    ASSUME NEW export \in Files, NEW phone, NEW other, Filed, UploadArchive(export, phone, other)
    PROVE  Filed' /\ EntriesMatch'
<1>. DEFINE read == [c \in DOMAIN export.chats |->
                      [subject |-> export.chats[c].subject, entries |-> Parse(export.chats[c].lines)]]
            chats == ChatsIn(export)
            single == Len(chats) = 1
            parsed == [c \in DOMAIN export.chats |->
                         [lines |-> export.chats[c].lines, entries |-> Parse(export.chats[c].lines)]]
            Subject(c) == IF single /\ other # None THEN other ELSE chats[c].subject
            Phone == IF single THEN phone ELSE None
            Asked(c) == How("transcript", export, c, phone, other)
            Of(c, owner) == FromTranscript(chats[c].entries, Subject(c), owner, Phone, Asked(c))
            All(owner) == [c \in DOMAIN chats |-> Of(c, owner)]
<1>1. /\ export.kind = "zip"
      /\ \E owner \in IF Len(chats) > 1 THEN Owners(chats) ELSE {None} :
            Received(FlattenSeq(All(owner)), parsed)
  BY Zenon DEF UploadArchive
<1>2. PICK owner : Guessed(export, owner) /\ Received(FlattenSeq(All(owner)), parsed)
  <2>1. PICK owner \in IF Len(chats) > 1 THEN Owners(chats) ELSE {None} :
            Received(FlattenSeq(All(owner)), parsed)
    BY <1>1
  <2>2. Guessed(export, owner)
    <3>. HIDE DEF parsed, All
    <3>. QED  BY <1>1, <2>1, Zenon DEF Guessed
  <2>. QED  BY <2>1, <2>2
<1>3. export.kind # "db"
  BY <1>1
<1>4. /\ Len(export.chats) \in Nat /\ DOMAIN export.chats = 1..Len(export.chats)
  BY <1>3, FilesAssumption DEF IsSequence
<1>5. \A c \in DOMAIN export.chats :
         LET lines == export.chats[c].lines IN
         /\ ReadWhole(lines, Parse(lines))
         /\ IsSequence(Parse(lines)) /\ ToSet(Parse(lines)) \subseteq Entries
  BY <1>3, TranscriptLines
<1>6. \A c \in DOMAIN chats : IsSequence(chats[c].entries) /\ ToSet(chats[c].entries) \subseteq Entries
  <2>. DEFINE R == ToSet(read)
  <2>1. \A x \in R : IsSequence(x.entries) /\ ToSet(x.entries) \subseteq Entries
    <3>1. ASSUME NEW x \in R
          PROVE  \E c \in DOMAIN export.chats : x.entries = Parse(export.chats[c].lines)
      <4>1. PICK c \in DOMAIN read : x = read[c]
        BY DEF ToSet
      <4>2. c \in DOMAIN export.chats /\ read[c].entries = Parse(export.chats[c].lines)
        OBVIOUS
      <4>. HIDE DEF read
      <4>. QED  BY <4>1, <4>2
    <3>. HIDE DEF R
    <3>. QED  BY <1>5, <3>1
  <2>2. IsSequence(read)
    <3>1. DOMAIN read = 1..Len(export.chats) /\ read = [c \in DOMAIN read |-> read[c]]
      BY <1>4
    <3>. HIDE DEF read
    <3>. QED  BY <1>4, <3>1, SequenceIs
  <2>. HIDE DEF read
  <2>3. chats \in Seq(R)
    BY <2>2, PickedIn DEF IsSequence, ChatsIn, read
  <2>. HIDE DEF chats, R
  <2>4. \A c \in DOMAIN chats : chats[c] \in R
    BY <2>3
  <2>. QED  BY <2>1, <2>4
<1>7. Len(chats) \in Nat /\ DOMAIN chats = 1..Len(chats)
  <2>1. IsSequence(read)
    <3>1. DOMAIN read = 1..Len(export.chats) /\ read = [c \in DOMAIN read |-> read[c]]
      BY <1>4
    <3>. HIDE DEF read
    <3>. QED  BY <1>4, <3>1, SequenceIs
  <2>. HIDE DEF read
  <2>2. chats \in Seq(ToSet(read))
    BY <2>1, PickedIn DEF IsSequence, ChatsIn, read
  <2>. HIDE DEF chats
  <2>. QED  BY <2>2
<1>7a. \A c \in DOMAIN chats : Request(Asked(c), chats[c].entries, Subject(c), Phone)
  <2>. HIDE DEF parsed, read
  <2>. QED  BY <1>1, Zenon DEF Request, How
<1>7b. \A c : Asked(c).file = export
  BY DEF How
<1>. HIDE DEF chats, Subject, single, read, Phone, Asked
<1>8. \A c \in DOMAIN chats : LawfulRecords(Of(c, owner))
  BY <1>2, <1>6, <1>7a, <1>7b, TranscriptRecords
<1>. DEFINE R == {r \in UNION {ToSet(Of(c, owner)) : c \in DOMAIN chats} : TRUE}
<1>. HIDE DEF Of
<1>9. \A c \in DOMAIN chats : Of(c, owner) \in Seq(R)
  <2>1. ASSUME NEW c \in DOMAIN chats PROVE Of(c, owner) \in Seq(R)
    <3>. DEFINE s == Of(c, owner)
    <3>1. s \in Seq(ToSet(s))
      BY <1>8 DEF LawfulRecords, IsSequence
    <3>2. ToSet(s) \subseteq R
      OBVIOUS
    <3>. HIDE DEF s, R
    <3>3. s \in Seq(R)
      BY <3>1, <3>2
    <3>. QED  BY <3>3 DEF s
  <2>. QED  BY <2>1
<1>10. All(owner) \in Seq(Seq(R))
  <2>. DEFINE f == All(owner)
              T == Seq(R)
  <2>1. f \in [1..Len(chats) -> T]
    BY <1>7, <1>9
  <2>. HIDE DEF f, T
  <2>2. f \in Seq(T)
    BY <1>7, <2>1
  <2>. QED  BY <2>2 DEF f, T
<1>11. \A r \in R : Lawful(r)
  BY <1>8 DEF LawfulRecords
<1>. HIDE DEF All, R
<1>12. FlattenSeq(All(owner)) \in Seq(R)
  BY <1>10, FlattenIn
<1>13. LawfulRecords(FlattenSeq(All(owner)))
  <2>. DEFINE s == FlattenSeq(All(owner))
  <2>. HIDE DEF s
  <2>1. s \in Seq(R)
    BY <1>12 DEF s
  <2>2. Len(s) \in Nat /\ DOMAIN s = 1..Len(s) /\ s = [i \in DOMAIN s |-> s[i]]
    BY <2>1
  <2>3. IsSequence(s)
    BY <2>2, SequenceIs
  <2>4. \A r \in ToSet(s) : r \in R
    BY <2>1 DEF ToSet
  <2>5. LawfulRecords(s)
    BY <1>11, <2>3, <2>4 DEF LawfulRecords
  <2>. QED  BY <2>5 DEF s
<1>14. Filed'
  <2>. HIDE DEF parsed
  <2>. QED  BY <1>2, <1>13, ReceivedFiles
<1>15. upload'.parsed = parsed
  BY <1>2 DEF Received
<1>16. \A p \in ToSet(parsed) : ReadWhole(p.lines, p.entries)
  <2>1. ASSUME NEW p \in ToSet(parsed)
        PROVE  \E c \in DOMAIN export.chats :
                  p.lines = export.chats[c].lines /\ p.entries = Parse(export.chats[c].lines)
    <3>1. PICK c \in DOMAIN parsed : p = parsed[c]
      BY DEF ToSet
    <3>2. c \in DOMAIN export.chats /\ parsed[c].lines = export.chats[c].lines
          /\ parsed[c].entries = Parse(export.chats[c].lines)
      OBVIOUS
    <3>. HIDE DEF parsed
    <3>. QED  BY <3>1, <3>2
  <2>. HIDE DEF parsed
  <2>. QED  BY <1>5, <2>1
<1>17. EntriesMatch'
  BY <1>15, <1>16 DEF EntriesMatch
<1>. QED  BY <1>14, <1>17

\* Every step keeps the invariant.
LEMMA UploadsFile ==
    Filed /\ EntriesMatch /\ [UploadNext]_uploadVars => Filed' /\ EntriesMatch'
<1>. SUFFICES ASSUME Filed, EntriesMatch, [UploadNext]_uploadVars
              PROVE  Filed' /\ EntriesMatch'
  OBVIOUS
<1>1. CASE \E export \in Files : UploadRows(export)
  BY <1>1, RowsFiles
<1>2. CASE \E export \in Files, phone \in Phones \cup {None}, other \in Given \cup {None} :
              UploadText(export, phone, other)
  BY <1>2, TextFiles
<1>3. CASE \E export \in Files, phone \in Phones \cup {None}, other \in Given \cup {None} :
              UploadArchive(export, phone, other)
  BY <1>3, ArchiveFiles
<1>4. CASE \E export \in Files, phone \in Phones \cup {None}, other \in Given \cup {None} :
              ImportHistory(export, phone, other)
  BY <1>4, HistoryFiles
<1>5. CASE CacheChanges \/ UNCHANGED uploadVars
  <2>1. store' = store /\ upload' = upload
    BY <1>5 DEF CacheChanges, uploadVars
  <2>. QED  BY <2>1 DEF Filed, EntriesMatch
<1>6. \/ \E export \in Files : UploadRows(export)
      \/ \E export \in Files, phone \in Phones \cup {None}, other \in Given \cup {None} :
            UploadText(export, phone, other)
      \/ \E export \in Files, phone \in Phones \cup {None}, other \in Given \cup {None} :
            UploadArchive(export, phone, other)
      \/ \E export \in Files, phone \in Phones \cup {None}, other \in Given \cup {None} :
            ImportHistory(export, phone, other)
      \/ CacheChanges \/ UNCHANGED uploadVars
  BY Zenon DEF UploadNext
<1>. QED  BY <1>1, <1>2, <1>3, <1>4, <1>5, <1>6

\* So it always holds.
LEMMA UploadsFiled == UploadSpec => [](Filed /\ EntriesMatch)
<1>1. UploadInit => Filed /\ EntriesMatch
  BY DEF UploadInit, Filed, EntriesMatch, Unique, ToSet
<1>2. Filed /\ EntriesMatch /\ [UploadNext]_uploadVars => (Filed /\ EntriesMatch)'
  BY UploadsFile
<1>. QED  BY <1>1, <1>2, PTL DEF UploadSpec

\* Of any upload, every message of every transcript is read as one entry, in
\* order, with exactly the lines that continue it (parse_txt_transcript).
THEOREM UploadsReadWhole == UploadSpec => []EntriesMatch
BY UploadsFiled, PTL

\* What insert_many skips as a duplicate is there in other words: under its key
\* stands a document of the same message or that says the same.
THEOREM OnlyRepeatsAreDropped == UploadSpec => []NothingElseLost
<1>1. Filed => NothingElseLost
  <2>. SUFFICES ASSUME Filed, NEW r \in ToSet(upload.records)
                PROVE  \E d \in store : d.chat = r.chat /\ (d.origin = r.origin \/ d.said = r.said)
    BY DEF NothingElseLost
  <2>1. PICK d \in store : SameKey(d, r)
    BY DEF Filed
  <2>2. Lawful(d) /\ Lawful(r)
    BY DEF Filed
  <2>. QED  BY <2>1, <2>2, KeyTells
<1>. QED  BY <1>1, UploadsFiled, PTL

\* A request made again stores nothing twice, unless it is in doubt, and a message
\* of a chat is there once, whichever transcripts it was read from.
THEOREM ReuploadsAreSafe == UploadSpec => []ReuploadIsSafe
<1>1. Filed => ReuploadIsSafe
  <2>. SUFFICES ASSUME Filed, NEW d \in store, NEW e \in store,
                       d.origin = e.origin, d # e
                PROVE  /\ d.how = e.how => InDoubt(d.how)
                       /\ d.how.way = "transcript" /\ e.how.way = "transcript" => d.chat # e.chat
    BY DEF ReuploadIsSafe
  <2>1. Lawful(d) /\ Lawful(e) /\ ~SameKey(d, e)
    BY DEF Filed, Unique
  <2>2. d.how = e.how => InDoubt(d.how)
    BY <2>1, SameWay
  <2>3. d.how.way = "transcript" /\ e.how.way = "transcript" => Transcribed(d) /\ Transcribed(e)
    BY <2>1, HowTells DEF Lawful
  <2>4. d.how.way = "transcript" /\ e.how.way = "transcript" => d.chat # e.chat
    BY <2>1, <2>3, SameChat
  <2>. QED  BY <2>2, <2>4
<1>. QED  BY <1>1, UploadsFiled, PTL
=============================================================================
