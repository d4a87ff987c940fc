-------------------------- MODULE MCBackupParsing ---------------------------
(* An instance of BackupParsing for TLC: every transcript of three lines,     *)
(* exports made later, one with another speaker, archives whose owner is     *)
(* clear, in doubt and absent from one chat, and a database with and without *)
(* row keys.                                                                 *)
EXTENDS BackupParsing, TLC

Message(n, at, sender, text) ==
    [kind |-> "message", at |-> at, sender |-> sender, text |-> text, origin |-> <<<<>>, n>>]
Notice == [kind |-> "notice"]
Blank == [kind |-> "blank"]
More(text) == [kind |-> "more", text |-> text]

MCNames == {"Ali", "Alina", "Sara", "Me", "Team"}
MCAlike == {<<"Ali", "Alina">>}
MCSlug == [n \in MCNames |-> n]
MCDigits == [n \in MCNames |-> None]
MCCaches == {[s \in {"x"} |-> None], [s \in {"x"} |-> "Ali"]}

Txt(lines) == [kind |-> "txt", chats |-> <<[subject |-> "Ali", lines |-> lines]>>]
Archive(chats) == [kind |-> "zip", chats |-> chats]
Chat(subject, lines) == [subject |-> subject, lines |-> lines]

\* Every transcript of three lines, its messages all alike.
Line(f, k) ==
    CASE f[k] = "message" -> [Message(0, 1, "Ali", "a") EXCEPT !.origin = <<f, k>>]
      [] f[k] = "notice" -> Notice [] f[k] = "blank" -> Blank [] OTHER -> More("b")
Small == {[k \in DOMAIN f |-> Line(f, k)] :
          f \in [1..3 -> {"message", "notice", "blank", "more"}]}
Talk == <<Message(1, 1, "Ali", "hi"), Message(2, 1, "Ali", "hi"), Message(3, 1, "Me", "yo"),
          More("b"), Message(4, 2, "Ali", "hi")>>
Later == Append(SubSeq(Talk, 2, 5), Message(5, 2, "Me", "ok"))
Group == <<Message(6, 1, "Ali", "a"), Message(7, 1, "Sara", "a")>>
Founded == <<Message(6, 1, "Ali", "a")>>
Pair == <<Message(8, 1, "Ali", "a"), Notice, More("b"), Message(9, 1, "Me", "a")>>
Namesakes == <<Message(10, 1, "Alina", "a"), Message(11, 1, "Ali", "a")>>

Row == [key |-> "k", me |-> FALSE, at |-> 1, text |-> "a", media |-> FALSE, chat |-> "x",
        sender |-> "x", known |-> None, status |-> FALSE, origin |-> <<<<>>, 20>>]
MCRows == <<Row, [Row EXCEPT !.key = None, !.origin = <<<<>>, 21>>],
         [Row EXCEPT !.key = None, !.text = None, !.media = TRUE, !.origin = <<<<>>, 22>>],
         [Row EXCEPT !.key = None, !.text = None, !.origin = <<<<>>, 23>>],
         [Row EXCEPT !.status = TRUE, !.key = "s", !.origin = <<<<>>, 24>>],
         [Row EXCEPT !.key = None, !.known = "Sara", !.text = "b", !.origin = <<<<>>, 25>>]>>

MCFiles ==
    {Txt(lines) : lines \in Small} \cup {Txt(Talk), Txt(Later), Txt(Group), Txt(Founded)}
    \cup {Archive(<<Chat("Ali", Talk), Chat("Team", Group), Chat("Team", Pair)>>),
          Archive(<<Chat("Team", Pair), Chat("Team", Talk), Chat("Team", Group)>>),
          Archive(<<Chat("Ali", Namesakes), Chat("Team", Group)>>),
          Archive(<<Chat(None, Talk), Chat("Team", <<Notice>>)>>)}
    \cup {[kind |-> "db", rows |-> MCRows]}
=============================================================================
