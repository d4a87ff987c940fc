----------------------------- MODULE MCAllowList -----------------------------
(* An instance of AllowList for TLC: a local number and two international   *)
(* numbers that end with it but do not match each other.                    *)
EXTENDS AllowList, TLC

CONSTANTS e1, e2, s1

MCNumbers == {<<1, 2>>, <<3, 1, 2>>, <<4, 1, 2>>}
\* Both contacts are found under "ali", the second also under "boss"; a sender
\* on WhatsApp goes by a name no contact has.
MCNames == {"ali", "boss", "sara"}
MCAlias == 1 :> {"ali"} @@ 2 :> {"ali", "boss"}
MCNear == [q \in MCNames |-> IF q = "sara" THEN {} ELSE {"ali", "boss"}]
MCKnown == [q \in MCNames |-> IF q = "sara" THEN {<<4, 1, 2>>} ELSE {}]

Symmetric == Permutations({e1, e2})
=============================================================================
