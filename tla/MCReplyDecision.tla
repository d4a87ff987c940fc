--------------------------- MODULE MCReplyDecision ---------------------------
(* An instance of ReplyDecision for TLC: one contact, two evaluations, two    *)
(* rules with a cooldown each, from a few settings the panel can make.       *)
EXTENDS ReplyDecision, TLC

CONSTANTS e1, e2

Base == [enabled |-> TRUE, until |-> 0, quiet |-> None, away |-> FALSE,
         llm |-> FALSE, text |-> TRUE]
Paused1 == [Base EXCEPT !.until = 1, !.llm = TRUE]
Night == [Base EXCEPT !.quiet = <<2, 1>>, !.away = TRUE]
MCConfigs == {Base, Paused1, Night}

Rule == [on |-> TRUE, who |-> Contacts, words |-> Texts, text |-> TRUE,
         llm |-> FALSE, cool |-> 2, rank |-> 1]
ByModel == [Rule EXCEPT !.llm = TRUE, !.rank = 0]
Empty == [Rule EXCEPT !.text = FALSE, !.cool = 0, !.rank = 0]
Other == [Rule EXCEPT !.words = {}]
MCKinds == {Rule, ByModel, Empty, Other}
MCRules == {[i \in RuleIds |-> None],
            (1 :> ByModel @@ 2 :> None),
            (1 :> Rule @@ 2 :> ByModel)}
MCPersonas == {[c \in Contacts |-> [k \in 1..Lookups |-> "none"]],
               [c \in Contacts |-> [k \in 1..Lookups |-> IF k = 1 THEN "none" ELSE "block"]]}

Say(words) == [prefixed |-> TRUE, control |-> FALSE, words |-> words]
MCMessages == {Say(<<"bot", "off", "2h">>), Say(<<"on">>), Say(<<"off", "0m">>)}
MCSeconds == "2h" :> 2 @@ "0m" :> 0 @@ "on" :> 0

Them == [role |-> "user", kind |-> "text"]
Us == [role |-> "assistant", kind |-> "text"]
Skipped == [role |-> "assistant", kind |-> "command"]
MCLogs == {<<>>, <<Us, Them, Them>>, <<Them, Us, Us>>, <<Us, Skipped, Them, Us>>,
           <<Them, Us, Skipped, Skipped, Skipped>>}

Symmetric == Permutations({e1, e2})
=============================================================================
