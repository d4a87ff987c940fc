----------------------------- MODULE BackupParsing -----------------------------
(***************************************************************************)
(* What an uploaded backup becomes: the transcripts of WhatsApp's "Export  *)
(* chat" (.txt, .zip) and the message tables of its databases, read into   *)
(* records, and the identity under which each record is stored.            *)
(*                                                                         *)
(* A record's identity is computed from the export: its chat, its minute,  *)
(* its sender and its text, or its row's key, or its place in the file.    *)
(* Uploads may be repeated, before or after a restart, with other forms    *)
(* filled in, and with exports made later.  How the records are written,   *)
(* chunk by chunk, is MessageStore's, beside which this module is proved   *)
(* about: its specification has names of its own.                          *)
(***************************************************************************)
EXTENDS Integers, SequencesExt

CONSTANTS
    Files,       \* the backups that may be uploaded
    Phones,      \* what may be given as the other's number
    Names, Given,   \* senders and subjects; those given as the other's name
    Alike,       \* the pairs of names of which one contains the other
    Slug,        \* _slug, of a name
    Digits,      \* _phone_from_name: a name that is a number, or None
    Caches,      \* what _contact_name_lookup may return
    MaxUploads,  \* BOUND
    None

ASSUME ParsingAssumption == MaxUploads \in Nat /\ Given \subseteq Names /\ Alike \subseteq Names \X Names

VARIABLES
    store,       \* the documents; origin and how are history
    cache,       \* the names of contacts in memory
    upload,      \* the last upload: what was read, and as what
    uploads      \* how many there were

uploadVars == <<store, cache, upload, uploads>>

\* The members of a sequence at some places, in their order: what a loop keeps
\* that goes on to the next when there is nothing to keep.
Picked(s, places) ==
    FoldLeft(LAMBDA picked, k : IF k \in places THEN Append(picked, s[k]) ELSE picked,
             <<>>, [k \in DOMAIN s |-> k])

-----------------------------------------------------------------------------
(* Transcripts: a line is a message, a notice, the continuation of what     *)
(* came before, or blank.  A line's origin is the message it comes from.    *)

LineKinds == {"message", "notice", "more", "blank"}

Entry(line) ==
    [sender |-> line.sender, at |-> line.at, text |-> <<line.text>>, origin |-> line.origin]

\* The last entry, one line longer.
Continued(entries, text) == [entries EXCEPT ![Len(entries)].text = Append(@, text)]

\* Deviation: a notice does not end the message before it.
Take_GluesOn(state, line) ==
    CASE line.kind = "message" ->
           [entries |-> Append(state.entries, Entry(line)), open |-> TRUE]
      [] line.kind = "more" /\ state.open ->
           [entries |-> Continued(state.entries, line.text), open |-> TRUE]
      [] OTHER -> state

\* One line of parse_txt_transcript's loop, and of parse_whatsapp_export's.
Take(state, line) ==
    CASE line.kind = "message" ->
           [entries |-> Append(state.entries, Entry(line)), open |-> TRUE]
      [] line.kind = "notice" -> [entries |-> state.entries, open |-> FALSE]
      [] line.kind = "more" /\ state.open ->
           [entries |-> Continued(state.entries, line.text), open |-> TRUE]
      [] OTHER -> state

Parse(lines) == FoldLeft(Take, [entries |-> <<>>, open |-> FALSE], lines).entries

-----------------------------------------------------------------------------
(* What may be uploaded.                                                   *)

IsSequence(s) == s \in Seq(ToSet(s))

ASSUME FilesAssumption ==
    \A file \in Files :
        IF file.kind = "db" THEN IsSequence(file.rows)
        ELSE /\ file.kind \in {"txt", "zip"}
             /\ IsSequence(file.chats) /\ file.chats # <<>>
             /\ \A chat \in ToSet(file.chats) :
                    IsSequence(chat.lines) /\ \A line \in ToSet(chat.lines) : line.kind \in LineKinds

Transcripts == UNION {ToSet(file.chats) : file \in {f \in Files : f.kind # "db"}}
Entries == UNION {ToSet(Parse(chat.lines)) : chat \in Transcripts}
Rows == UNION {ToSet(file.rows) : file \in {f \in Files : f.kind = "db"}}

\* A message reads the same in every export it is in, as it does unless it is
\* edited between two of them, and two messages of a chat and a minute do not
\* share a key.
ASSUME ExportsAgree ==
    /\ \A e, f \in Entries : e.origin = f.origin => e = f
    /\ \A r, t \in Rows :
          /\ r.origin = t.origin => r.chat = t.chat /\ r.at = t.at /\ r.key = t.key /\ r.text = t.text
          /\ r.key # None /\ r.key = t.key /\ r.chat = t.chat /\ r.at = t.at => r.origin = t.origin

-----------------------------------------------------------------------------
(* Who is who.                                                             *)

Similar(a, b) == a = b \/ <<a, b>> \in Alike \/ <<b, a>> \in Alike

Senders(entries) == {e.sender : e \in ToSet(entries)}

\* The chats of an archive in which a subject picks one of two senders.
Telling(chats) ==
    {c \in DOMAIN chats :
        /\ chats[c].subject # None /\ Cardinality(Senders(chats[c].entries)) = 2
        /\ \E s \in Senders(chats[c].entries) : Similar(chats[c].subject, s)}

\* What the votes of those chats may be; when the subject is like both names,
\* the order of a set decides.
OtherVotes(chats) ==
    {f \in [Telling(chats) -> Names] : \A c \in Telling(chats) :
        \E s \in Senders(chats[c].entries) :
            Similar(chats[c].subject, s) /\ Senders(chats[c].entries) = {s, f[c]} /\ s # f[c]}

\* detect_owner: three votes per chat that tells, one per chat for those seen in
\* several; of the leaders the one first voted for, and of those first seen in
\* one chat any, as its senders are a set.
Owners(chats) ==
    LET Seen(s)      == {c \in DOMAIN chats : s \in Senders(chats[c].entries)}
        everyone     == UNION {Senders(chats[c].entries) : c \in DOMAIN chats}
        Told(f, s)   == {c \in DOMAIN f : f[c] = s}
        Votes(f, s)  == 3 * Cardinality(Told(f, s))
                        + (IF Cardinality(Seen(s)) >= 2 THEN Cardinality(Seen(s)) ELSE 0)
        Turn(f, s)   == IF Told(f, s) # {} THEN Min(Told(f, s)) ELSE Len(chats) + Min(Seen(s))
        Leaders(f)   == {s \in everyone : Votes(f, s) > 0
                            /\ \A t \in everyone : Votes(f, t) <= Votes(f, s)}
        First(f)     == {s \in Leaders(f) : \A t \in Leaders(f) : Turn(f, s) <= Turn(f, t)}
    IN  UNION {IF First(f) = {} THEN {None} ELSE First(f) : f \in OtherVotes(chats)}

IsMe(sender, subject, owner) ==
    IF owner # None THEN sender = owner
    ELSE subject # None /\ ~Similar(subject, sender)

Others(entries, subject, owner) == {s \in Senders(entries) : ~IsMe(s, subject, owner)}

\* The chat a transcript is filed under: a number, or the name of a group or of
\* the other person.
ChatOf(others, subject, phone) ==
    LET group  == Cardinality(others) > 1
        digits == IF phone # None THEN phone
                  ELSE IF group \/ subject = None THEN None ELSE Digits[subject]
    IN  IF digits # None THEN <<"phone", digits>>
        ELSE IF group THEN <<"group", IF subject = None THEN "group" ELSE Slug[subject]>>
        ELSE <<"chat", IF subject # None THEN Slug[subject]
                       ELSE IF others = {} THEN "chat" ELSE Slug[CHOOSE s \in others : TRUE]>>

-----------------------------------------------------------------------------
(* Records.                                                                *)

\* The request that brought a record, and the record's place in what it uploaded:
\* its transcript in the archive, its row, or its number in the transcript.
How(way, file, place, phone, other) ==
    [way |-> way, file |-> file, place |-> place, phone |-> phone, other |-> other]

\* Deviation: the text is not part of the identity.
StableId_NoText(chat, at, sender, text) == <<"import", chat, at, sender>>

StableId(chat, at, sender, text) == <<"import", chat, at, sender, text>>

\* Deviation: the identity has the name a message is stored under, which is "Me"
\* for the owner's own.
FromTranscript_AsMe(entries, subject, owner, phone, how) ==
    LET others == Others(entries, subject, owner)
        chat   == ChatOf(others, subject, phone)
    IN  [k \in DOMAIN entries |->
           LET e    == entries[k]
               me   == IsMe(e.sender, subject, owner)
               name == IF me THEN "Me" ELSE e.sender
           IN
           [chat |-> chat, at |-> e.at, id |-> StableId(chat, e.at, name, e.text),
            me |-> me, said |-> <<e.at, e.sender, e.text>>,
            origin |-> e.origin, how |-> how]]

\* records_from_transcript.
FromTranscript(entries, subject, owner, phone, how) ==
    LET others == Others(entries, subject, owner)
        chat   == ChatOf(others, subject, phone)
    IN  [k \in DOMAIN entries |->
           LET e == entries[k] IN
           [chat |-> chat, at |-> e.at, id |-> StableId(chat, e.at, e.sender, e.text),
            me |-> IsMe(e.sender, subject, owner), said |-> <<e.at, e.sender, e.text>>,
            origin |-> e.origin, how |-> how]]

\* parse_whatsapp_export numbers the messages of the file.
FromHistory(entries, file, phone, other) ==
    [k \in DOMAIN entries |->
       LET e == entries[k] IN
       [chat |-> <<"phone", phone>>, at |-> e.at, id |-> <<"line", phone, k>>,
        me |-> ~Similar(other, e.sender), said |-> <<k, e.at>>,
        origin |-> e.origin, how |-> How("history", file, k, phone, other)]]

\* The name a row's sender goes by: his own in the backup, else what the cache
\* of contacts says, else what his address says.
SenderName(row) ==
    IF row.me THEN "Me"
    ELSE IF row.known # None THEN row.known
    ELSE IF cache[row.sender] # None THEN cache[row.sender] ELSE row.sender

\* Status updates, and rows with neither text nor media, are left out.
Readable(row) == ~row.status /\ (row.text # None \/ row.media)

ReadableRows(file) == Picked(file.rows, {k \in DOMAIN file.rows : Readable(file.rows[k])})

\* A row's own key is its identity, if it has one.
FromRows(file) ==
    LET rows == ReadableRows(file)
    IN  [k \in DOMAIN rows |->
           LET r == rows[k]  name == SenderName(r) IN
           [chat |-> <<"jid", r.chat>>, at |-> r.at,
            id |-> IF r.key # None THEN <<"key", r.key>> ELSE StableId(r.chat, r.at, name, r.text),
            me |-> r.me, said |-> <<r.at, name, r.text>>, origin |-> r.origin,
            how |-> How("rows", file, k, None, None)]]

SameKey(a, b) == a.chat = b.chat /\ a.id = b.id /\ a.at = b.at

\* insert_many: a document that is there stays as it is.
Add(docs, record) ==
    IF \E d \in docs : SameKey(d, record) THEN docs ELSE docs \cup {record}

-----------------------------------------------------------------------------

Received(records, parsed) ==
    /\ records # <<>>
    /\ store' = FoldLeft(Add, store, records)
    /\ upload' = [records |-> records, parsed |-> parsed]
    /\ uploads' = uploads + 1
    /\ UNCHANGED cache

\* import-backup with a transcript: the name given stands for the file's.
UploadText(file, phone, other) ==
    LET chat    == file.chats[1]
        subject == IF other # None THEN other ELSE chat.subject
    IN  /\ file.kind = "txt"
        /\ Received(FromTranscript(Parse(chat.lines), subject, None, phone,
                                   How("transcript", file, 1, phone, other)),
                    <<[lines |-> chat.lines, entries |-> Parse(chat.lines)]>>)

\* The transcripts of an archive; those without messages are skipped.
ChatsIn(file) ==
    LET read == [c \in DOMAIN file.chats |->
                   [subject |-> file.chats[c].subject, entries |-> Parse(file.chats[c].lines)]]
    IN  Picked(read, {c \in DOMAIN read : read[c].entries # <<>>})

\* import-backup with an archive: the forms count only if one transcript is left,
\* and the owner is guessed only if several are.
UploadArchive(file, phone, other) ==
    LET chats  == ChatsIn(file)
        single == Len(chats) = 1
    IN  /\ file.kind = "zip"
        /\ \E owner \in IF Len(chats) > 1 THEN Owners(chats) ELSE {None} :
              Received(FlattenSeq([c \in DOMAIN chats |-> FromTranscript(chats[c].entries,
                                 IF single /\ other # None THEN other ELSE chats[c].subject,
                                 owner, IF single THEN phone ELSE None,
                                 How("transcript", file, c, phone, other))]),
                       [c \in DOMAIN file.chats |->
                          [lines |-> file.chats[c].lines, entries |-> Parse(file.chats[c].lines)]])

\* import-backup with a database.
UploadRows(file) ==
    /\ file.kind = "db"
    /\ Received(FromRows(file), <<>>)

\* import-history wants a number and a name.
ImportHistory(file, phone, other) ==
    LET lines == file.chats[1].lines IN
    /\ file.kind = "txt" /\ phone # None /\ other # None
    /\ Received(FromHistory(Parse(lines), file, phone, other),
                <<[lines |-> lines, entries |-> Parse(lines)]>>)

\* get_contacts fills the cache; a restart empties it.
CacheChanges ==
    /\ cache' \in Caches
    /\ UNCHANGED <<store, upload, uploads>>

UploadInit ==
    /\ store = {} /\ cache \in Caches
    /\ upload = [records |-> <<>>, parsed |-> <<>>]
    /\ uploads = 0

UploadNext ==
    \/ /\ uploads < MaxUploads
       /\ \E file \in Files :
          \/ UploadRows(file)
          \/ \E phone \in Phones \cup {None}, other \in Given \cup {None} :
                \/ UploadText(file, phone, other) \/ UploadArchive(file, phone, other)
                \/ ImportHistory(file, phone, other)
    \/ CacheChanges

UploadSpec == UploadInit /\ [][UploadNext]_uploadVars

-----------------------------------------------------------------------------
(* Properties.                                                             *)

\* The lines of a transcript that begin a message.
Places(lines) == [k \in DOMAIN lines |-> k]
Messages(lines) == Picked(Places(lines), {k \in DOMAIN lines : lines[k].kind = "message"})

\* Line k continues the message that line i begins.
Continues(lines, i, k) ==
    /\ k > i /\ lines[k].kind = "more"
    /\ \A j \in i+1..k : lines[j].kind \in {"more", "blank"}
TextPlaces(lines, i) == {k \in DOMAIN lines : k = i \/ Continues(lines, i, k)}
TextOf(lines, i) == Picked(Places(lines), TextPlaces(lines, i))

\* The entries are the messages, in order, each with its lines.
ReadWhole(lines, entries) ==
    LET messages == Messages(lines)
        text(i)  == TextOf(lines, i)
    IN  /\ Len(entries) = Len(messages)
        /\ \A m \in DOMAIN messages :
              /\ entries[m].origin = lines[messages[m]].origin
              /\ entries[m].text =
                    [k \in DOMAIN text(messages[m]) |-> lines[text(messages[m])[k]].text]

\* Every message of a transcript is read as one entry, in order, with exactly
\* the lines that continue it: those up to the next message or notice, blank
\* ones aside (parse_txt_transcript; "don't glue continuations").
EntriesMatch == \A p \in ToSet(upload.parsed) : ReadWhole(p.lines, p.entries)

\* A message that was read is in the store, in its chat, unless another took its
\* place there that said the same in the same minute, or, by import-history,
\* stood at the same place of a file in the same minute ("duplicates are
\* skipped": of what is skipped nothing else is lost).
NothingElseLost ==
    \A r \in ToSet(upload.records) : \E d \in store :
        d.chat = r.chat /\ (d.origin = r.origin \/ d.said = r.said)

\* What a request may store under another identity when it is made again: the
\* transcripts of an archive whose owner can be guessed in more than one way, and
\* a row that has no key and a sender only the cache of contacts can name.
InDoubt(how) ==
    \/ /\ how.way = "transcript" /\ how.file.kind = "zip" /\ Len(ChatsIn(how.file)) > 1
       /\ \E a, b \in Owners(ChatsIn(how.file)) : a # b
    \/ /\ how.way = "rows"
       /\ LET row == ReadableRows(how.file)[how.place]
          IN  row.key = None /\ ~row.me /\ row.known = None

\* "Re-uploading the same backup is safe": a request made again, at any time, stores
\* no message a second time, save in the two cases that are in doubt; and a message
\* read from transcripts, of any backups and with any forms (import_backup), is
\* not twice in one chat.
ReuploadIsSafe ==
    \A d, e \in store : d.origin = e.origin /\ d # e =>
        /\ d.how = e.how => InDoubt(d.how)
        /\ d.how.way = "transcript" /\ e.how.way = "transcript" => d.chat # e.chat
=============================================================================
