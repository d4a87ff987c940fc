----------------------------- MODULE ReplyDecision -----------------------------
(***************************************************************************)
(* What the assistant answers: _evaluate_auto_reply with the configuration,*)
(* the rules and their cooldowns, the personas, the quiet hours and the    *)
(* conversation it hands to the model; and everything that edits them      *)
(* meanwhile, the owner's commands included.                               *)
(*                                                                         *)
(* An evaluation reads each of these in a query of its own and works on    *)
(* what it read; nothing keeps two evaluations, or an edit, apart.         *)
(***************************************************************************)
EXTENDS Integers, SequencesExt

CONSTANTS
    Evals,              \* BOUND: evaluations that can overlap
    MaxAnswers, MaxEdits, MaxTime,     \* BOUNDS
    Contacts, Texts,    \* who writes, and what
    MaxRules,           \* BOUND: rules ever added
    RuleKinds,          \* the rules that can be written
    StartConfigs, StartRules, StartPersonas,   \* what the database holds
    Lookups,            \* find_persona_for_jid's queries, as 1..n in their order
    OwnerMessages,      \* the owner's messages, as words
    Seconds,            \* what parse_duration makes of a word; 0 for none
    Logs,               \* conversations, as stored
    HistorySize,        \* LLM_HISTORY_SIZE
    Providers,          \* the model's providers there can be; none: it is not configured
    EnvText,            \* settings.AUTO_REPLY_MESSAGE at the start: has it a text
    Day,                \* minutes of a day
    None

Times == 0..MaxTime
RuleIds == 1..MaxRules
Configs == [enabled : BOOLEAN, until : Nat, quiet : {None} \cup (0..Day-1) \X (0..Day-1),
            away : BOOLEAN, llm : BOOLEAN, text : BOOLEAN]
Rules == [on : BOOLEAN, who : SUBSET Contacts, words : SUBSET Texts,
          text : BOOLEAN, llm : BOOLEAN, cool : Nat, rank : Nat]
Opinions == {"none", "use", "block"}
LogRecords == [role : {"user", "assistant"}, kind : {"text", "command", "marker", "answered"}]

ASSUME DecisionAssumption ==
    /\ MaxAnswers \in Nat /\ MaxEdits \in Nat /\ MaxTime \in Nat
    /\ MaxRules \in Nat /\ HistorySize \in Nat /\ Day \in Nat \ {0}
    /\ Lookups \in Nat \ {0}
    /\ None \notin Rules /\ None \notin Nat /\ RuleKinds \subseteq Rules
    /\ \A message \in OwnerMessages :
          message.words # <<>> /\ Seconds[Last(message.words)] \in Nat
    /\ StartConfigs \subseteq Configs
    /\ StartRules \subseteq [RuleIds -> Rules \cup {None}]
    /\ StartPersonas \subseteq [Contacts -> [1..Lookups -> Opinions]]
    /\ Providers \subseteq {"openai", "anthropic"} /\ EnvText \in BOOLEAN
    /\ \A log \in Logs : log \in Seq(LogRecords)

VARIABLES
    clock,
    config,       \* assistant_config
    mirror,       \* settings.AUTO_REPLY_MESSAGE has a text
    rules,        \* auto_reply_rules
    nextRule,     \* the next id of a rule
    personas,     \* what each query of find_persona_for_jid would find
    stamps,       \* rule_cooldowns
    eval,         \* the evaluations
    prompt,       \* the conversation given to the model, and what it was made from
    edits,
    \* history: the owner's last pause, how often one was given or lifted, and whether an
    \* evaluation that had not seen it cleared it; the firings of rules with a
    \* cooldown; and per evaluation whether nothing changed around it, what may
    \* come out if so, whether another has stamped its rule, the pause it saw
    promised, serial, lost, fired, ghost

data == <<config, mirror, rules, nextRule, personas>>
vars == <<clock, data, stamps, eval, prompt, edits, promised, serial, lost, fired, ghost>>

Silent == [by |-> "silent", rule |-> 0]
Idle == [pc |-> "idle", from |-> None, text |-> None, cfg |-> None, table |-> None,
         now |-> 0, rule |-> 0, look |-> 1, opinion |-> "none", out |-> Silent]
Outcomes == [by : {"silent", "away", "static", "default", "model"}, rule : RuleIds \cup {0}]
NoGhost == [calm |-> FALSE, may |-> {}, crossed |-> FALSE, under |-> FALSE, seen |-> 0]

-----------------------------------------------------------------------------
(* Quiet hours, rules, personas.                                           *)

\* is_quiet_now: a window that starts where it ends is the whole day.
Quiet(window, t) ==
    /\ window # None
    /\ LET start == window[1]  end == window[2]  now == t % Day IN
       \/ start = end
       \/ start < end /\ start <= now /\ now < end
       \/ start > end /\ (now >= start \/ now < end)

Matches(rule, from, text) == from \in rule.who /\ text \in rule.words

\* list_rules sorts by priority, then id.
Before(table, i, j) ==
    table[i].rank < table[j].rank \/ (table[i].rank = table[j].rank /\ i <= j)

Hits(table, from, text) ==
    {i \in RuleIds : table[i] # None /\ table[i].on /\ Matches(table[i], from, text)}

FirstRule(table, from, text) ==
    LET hits == Hits(table, from, text) IN
    IF hits = {} THEN 0 ELSE CHOOSE i \in hits : \A j \in hits : Before(table, i, j)

NoRules(table) == \A i \in RuleIds : table[i] = None

\* LLMClient.is_configured
ModelConfigured == Providers # {}

\* Deviation: a rule that asks for the model overrides the persona's opt-out.
WantsModel_RuleFirst(cfg, table, rule, opinion) ==
    \/ rule # 0 /\ table[rule].llm
    \/ opinion = "use"
    \/ opinion # "block" /\ cfg.llm /\ (rule = 0 \/ ~table[rule].text)

WantsModel(cfg, table, rule, opinion) ==
    /\ opinion # "block"
    /\ \/ opinion = "use"
       \/ cfg.llm /\ (rule = 0 \/ ~table[rule].text)
       \/ rule # 0 /\ table[rule].llm

\* Path B falls back on the text in settings, path A does not.
WithoutModel(cfg, table, rule) ==
    IF rule # 0
    THEN IF table[rule].text \/ cfg.text THEN [by |-> "static", rule |-> rule] ELSE Silent
    ELSE IF NoRules(table) /\ (cfg.text \/ mirror) THEN [by |-> "default", rule |-> 0]
    ELSE Silent

-----------------------------------------------------------------------------
(* The conversation the model is given.                                    *)

Speaks(turns, role) == turns # <<>> /\ Last(turns).role = role

\* Deviation: turns of one role are not merged.
AddTurn_Apart(turns, role, part) == Append(turns, [role |-> role, parts |-> <<part>>])

\* _call_anthropic merges what one side says in a row.
AddTurn(turns, role, part) ==
    IF Speaks(turns, role)
    THEN [turns EXCEPT ![Len(turns)].parts = Append(@, part)]
    ELSE Append(turns, [role |-> role, parts |-> <<part>>])

Tails(s, n) == SubSeq(s, IF Len(s) > n THEN Len(s) - n + 1 ELSE 1, Len(s))

\* Markers, the owner's commands and the messages being answered are left out.
InConversation(record) == record.kind = "text"

\* Of some places in the log, those that are part of the conversation.
Spoken(log, places) ==
    FoldLeft(LAMBDA kept, k : IF InConversation(log[k]) THEN Append(kept, k) ELSE kept, <<>>, places)

\* The places in the log that _recent_history_for_chat returns. The query brings
\* the last 2 * limit; if it fails, the messages in memory are taken, uncut.
Recent(log, stored) ==
    LET all == [k \in DOMAIN log |-> k] IN
    Tails(Spoken(log, IF stored THEN Tails(all, 2 * HistorySize) ELSE all), HistorySize)

Turn(role, part) == [role |-> role, parts |-> <<part>>]

\* _call_openai: every record is a turn of its own, whoever speaks first.
TurnsApart(log, places) ==
    Append([i \in DOMAIN places |-> Turn(log[places[i]].role, places[i])], Turn("user", 0))

\* _call_anthropic: turns are merged, and a leading assistant turn is dropped.
TurnsMerged(log, places) ==
    LET said  == FoldLeft(LAMBDA turns, k : AddTurn(turns, log[k].role, k), <<>>, places)
        turns == AddTurn(said, "user", 0)
    IN  IF turns[1].role = "assistant" THEN Tail(turns) ELSE turns

\* What generate_reply sends; the message that is answered is part 0.
Conversation(log, stored, provider) ==
    IF provider = "openai" THEN TurnsApart(log, Recent(log, stored))
    ELSE TurnsMerged(log, Recent(log, stored))

-----------------------------------------------------------------------------
(* An evaluation.                                                          *)

Table(m) == eval[m].table

\* The order of decision as the docstring of _evaluate_auto_reply and the layers
\* of instructions.py (385-411) state it: what may come out for the state as it
\* is, if nothing changes. The model may fail wherever it is asked; what the
\* layers say of "LLM is off" is then read as the docstring has it, which names
\* the default text for whatever no rule and no model has answered.
Documented(from, text) ==
    LET hits    == Hits(rules, from, text)
        first   == {i \in hits : \A j \in hits : rules[i].rank <= rules[j].rank}
        rule    == IF hits = {} THEN 0 ELSE CHOOSE i \in first : \A j \in first : i <= j
        asked   == {k \in 1..Lookups : personas[from][k] # "none"}
        opinion == IF asked = {} THEN "none"
                   ELSE personas[from][CHOOSE k \in asked : \A j \in asked : k <= j]
        off     == ~config.enabled \/ clock < config.until
        quiet   == Quiet(config.quiet, clock)
        cooling == /\ rule # 0 /\ rules[rule].cool > 0 /\ stamps[rule][from] # None
                   /\ clock - stamps[rule][from] < rules[rule].cool
        \* in or out by persona, or else by rule or by the global toggle
        due     == \/ opinion = "use"
                   \/ opinion = "none" /\ IF rule = 0 THEN config.llm
                                          ELSE rules[rule].llm \/ (config.llm /\ ~rules[rule].text)
        own     == rule # 0 /\ (rules[rule].text \/ config.text)
        default == NoRules(rules) /\ (config.text \/ mirror) /\ opinion # "block"
        Allowed(out) ==
            \/ out.by = "silent" /\ (off \/ IF quiet THEN ~config.away ELSE cooling \/ ~(own \/ default))
            \/ out.by = "away" /\ ~off /\ quiet /\ config.away
            \/ out.by = "static" /\ ~off /\ ~quiet /\ ~cooling /\ own
            \/ out.by = "default" /\ ~off /\ ~quiet /\ rule = 0 /\ default
            \/ out.by = "model" /\ ~off /\ ~quiet /\ ~cooling /\ due /\ ModelConfigured
    IN  {out \in Outcomes : Allowed(out) /\ out.rule = IF out.by \in {"static", "model"} THEN rule ELSE 0}

\* Where the code departs from it: with no rules at all, a contact whose persona
\* has use_llm off gets the default text, where instructions.py:409 has nobody
\* answered.
DefaultDespiteOptOut(from) ==
    {out \in {[by |-> "default", rule |-> 0]} :
        /\ NoRules(rules) /\ (config.text \/ mirror)
        /\ config.enabled /\ ~(clock < config.until) /\ ~Quiet(config.quiet, clock)
        /\ \E k \in 1..Lookups :
              personas[from][k] = "block" /\ \A j \in 1..k-1 : personas[from][j] = "none"}

\* Something other than evaluation e has changed.
Disturbed(e) == [f \in Evals |-> IF f = e THEN ghost[f] ELSE [ghost[f] EXCEPT !.calm = FALSE]]

Running(e) == eval[e].pc \notin {"idle", "done"}

\* Past the cooldown of the rule; past the match of one.
Cleared == {"persona", "reading", "asking", "touching"}
Matched == Cleared \cup {"cooling"}

Step(e, r) == eval' = [eval EXCEPT ![e] = r]
Settle(e, out) == Step(e, [Idle EXCEPT !.pc = "done", !.out = out])

AfterPause(e, r) ==
    IF ~Quiet(r.cfg.quiet, clock) THEN Step(e, [r EXCEPT !.pc = "listing"])
    ELSE Settle(e, IF r.cfg.away THEN [by |-> "away", rule |-> 0] ELSE Silent)

\* Deviation: a pause is taken for expired whenever it is found.
Paused_Never(until) == FALSE

Paused(until) == clock < until

\* A message is to be answered: the configuration is read once, for good.
ReadConfig(e, from, text) ==
    /\ ~Running(e)
    /\ LET r == [Idle EXCEPT !.pc = "clearing", !.from = from, !.text = text, !.cfg = config]
       IN  IF ~config.enabled \/ Paused(config.until) THEN Settle(e, Silent)
           ELSE IF config.until # 0 THEN Step(e, r)
           ELSE AfterPause(e, r)
    /\ ghost' = [ghost EXCEPT ![e] = [calm |-> TRUE, may |-> Documented(from, text)
                                                             \cup DefaultDespiteOptOut(from),
                                      crossed |-> FALSE, under |-> clock < promised /\ ~lost,
                                      seen |-> serial]]
    /\ UNCHANGED <<clock, data, stamps, prompt, edits, promised, serial, lost, fired>>

\* update_config(suspended_until=""), whatever is there by now.
Clear(e) ==
    /\ eval[e].pc = "clearing"
    /\ config' = [config EXCEPT !.until = 0]
    /\ lost' = (lost \/ ghost[e].seen # serial)
    /\ AfterPause(e, eval[e])
    /\ ghost' = Disturbed(e)
    /\ UNCHANGED <<clock, mirror, rules, nextRule, personas, stamps, prompt, edits, promised, serial, fired>>

\* list_rules; now_ts is taken after it.
ReadRules(e) ==
    /\ eval[e].pc = "listing"
    /\ LET rule == FirstRule(rules, eval[e].from, eval[e].text) IN
       Step(e, [eval[e] EXCEPT !.table = rules, !.now = clock, !.rule = rule,
                    !.pc = IF rule # 0 /\ rules[rule].cool > 0 THEN "cooling" ELSE "persona"])
    /\ UNCHANGED <<clock, data, stamps, prompt, edits, promised, serial, lost, fired, ghost>>

\* get_cooldown: a rule that fired too recently silences the rest as well.
ReadCooldown(e) ==
    /\ eval[e].pc = "cooling"
    /\ LET r == eval[e]  last == stamps[r.rule][r.from] IN
       IF last # None /\ r.now - last < r.table[r.rule].cool
       THEN Settle(e, Silent)
       ELSE Step(e, [r EXCEPT !.pc = "persona"])
    /\ UNCHANGED <<clock, data, stamps, prompt, edits, promised, serial, lost, fired, ghost>>

\* Deviation: every reply by a rule is stamped.
Answer_AlwaysStamped(e, r, out) ==
    IF out.by # "silent" /\ out.rule # 0
    THEN Step(e, [r EXCEPT !.pc = "touching", !.out = out])
    ELSE Settle(e, out)

\* A reply by a rule with a cooldown is stamped before it is returned.
Answer(e, r, out) ==
    IF out.by # "silent" /\ out.rule # 0 /\ r.table[out.rule].cool > 0
    THEN Step(e, [r EXCEPT !.pc = "touching", !.out = out])
    ELSE Settle(e, out)

\* find_persona_for_jid: one query after the other until one finds somebody.
LookUp(e) ==
    /\ eval[e].pc = "persona"
    /\ LET r == eval[e]  found == personas[r.from][r.look]  IN
       IF found = "none" /\ r.look < Lookups
       THEN Step(e, [r EXCEPT !.look = @ + 1])
       ELSE LET d == [r EXCEPT !.opinion = found] IN
            IF ModelConfigured /\ WantsModel(d.cfg, d.table, d.rule, d.opinion)
            THEN Step(e, [d EXCEPT !.pc = "reading"])
            ELSE Answer(e, d, WithoutModel(d.cfg, d.table, d.rule))
    /\ UNCHANGED <<clock, data, stamps, prompt, edits, promised, serial, lost, fired, ghost>>

\* The chat's history is read, from the database or the memory, and the model of
\* some provider is asked.
Ask(e) ==
    /\ eval[e].pc = "reading"
    /\ \E log \in Logs, stored \in BOOLEAN, provider \in Providers :
          prompt' = [log |-> log, provider |-> provider,
                     turns |-> Conversation(log, stored, provider)]
    /\ Step(e, [eval[e] EXCEPT !.pc = "asking"])
    /\ UNCHANGED <<clock, data, stamps, edits, promised, serial, lost, fired, ghost>>

\* The model answers, be it with nothing, or the call fails and the static text
\* takes its place.
ModelReturns(e) ==
    /\ eval[e].pc = "asking"
    /\ LET r == eval[e] IN
       \/ Answer(e, r, [by |-> "model", rule |-> r.rule])
       \/ Answer(e, r, WithoutModel(r.cfg, r.table, r.rule))
    /\ prompt' = None
    /\ UNCHANGED <<clock, data, stamps, edits, promised, serial, lost, fired, ghost>>

\* Deviation: the reply is stamped only if the model has written it.
TouchCooldown_ModelOnly(e) ==
    /\ eval[e].pc = "touching"
    /\ LET r == eval[e] IN
       /\ stamps' = IF r.out.by = "model" THEN [stamps EXCEPT ![r.rule][r.from] = r.now] ELSE stamps
       /\ Settle(e, r.out)
       /\ fired' = Append(fired, [rule |-> r.rule, from |-> r.from, now |-> r.now,
                                  cool |-> r.table[r.rule].cool, alone |-> ~ghost[e].crossed])
    /\ ghost' = Disturbed(e)
    /\ UNCHANGED <<clock, data, prompt, edits, promised, serial, lost>>

\* touch_cooldown, with the time at which the rules were read.
TouchCooldown(e) ==
    /\ eval[e].pc = "touching"
    /\ LET r == eval[e] IN
       /\ stamps' = [stamps EXCEPT ![r.rule][r.from] = r.now]
       /\ Settle(e, r.out)
       /\ fired' = Append(fired, [rule |-> r.rule, from |-> r.from, now |-> r.now,
                                  cool |-> r.table[r.rule].cool, alone |-> ~ghost[e].crossed])
       /\ ghost' = [f \in Evals |->
              IF f = e THEN ghost[f]
              ELSE [ghost[f] EXCEPT !.calm = FALSE,
                       !.crossed = @ \/ (/\ eval[f].pc \in Cleared
                                         /\ eval[f].rule = r.rule /\ eval[f].from = r.from)]]
    /\ UNCHANGED <<clock, data, prompt, edits, promised, serial, lost>>

-----------------------------------------------------------------------------
(* Edits: the panel and the owner's commands.                              *)

Edit ==
    /\ edits < MaxEdits
    /\ edits' = edits + 1
    /\ ghost' = [f \in Evals |-> [ghost[f] EXCEPT !.calm = FALSE]]
    /\ UNCHANGED <<clock, stamps, eval, prompt, fired>>

\* PUT /config: the fields given are set; a default text is mirrored.
Configure ==
    /\ Edit
    /\ \E c \in StartConfigs : config' = [c EXCEPT !.until = config.until]
    /\ mirror' = (mirror \/ config'.text)
    /\ UNCHANGED <<rules, nextRule, personas, promised, serial, lost>>

\* POST /rules wants a text or the model.
AddRule ==
    /\ Edit
    /\ nextRule <= MaxRules
    /\ \E kind \in RuleKinds :
          (kind.text \/ kind.llm) /\ rules' = [rules EXCEPT ![nextRule] = kind]
    /\ nextRule' = nextRule + 1
    /\ UNCHANGED <<config, mirror, personas, promised, serial, lost>>

\* PATCH and DELETE /rules: an update may leave a rule without either.
ChangeRule ==
    /\ Edit
    /\ \E i \in RuleIds, kind \in RuleKinds \cup {None} :
          rules[i] # None /\ rules' = [rules EXCEPT ![i] = kind]
    /\ UNCHANGED <<config, mirror, nextRule, personas, promised, serial, lost>>

\* upsert_persona and delete_persona: a query finds somebody else, or nobody.
ChangePersona ==
    /\ Edit
    /\ \E c \in Contacts, k \in 1..Lookups, opinion \in Opinions :
          personas' = [personas EXCEPT ![c][k] = opinion]
    /\ UNCHANGED <<config, mirror, rules, nextRule, promised, serial, lost>>

\* parse_command: prefixed, or bare in the control chat; the whole message is
\* one command, with the noun "bot" or without it.
Parse(message) ==
    LET words == IF message.words # <<>> /\ Head(message.words) = "bot"
                 THEN Tail(message.words) ELSE message.words
        Says(names) == words # <<>> /\ Head(words) \in names
        alone       == Len(words) = 1
    IN  IF ~(message.prefixed \/ message.control) THEN "none"
        ELSE IF Says({"on", "enable"}) /\ alone THEN "on"
        ELSE IF Says({"off", "disable"}) /\ alone THEN "off"
        ELSE IF Says({"off", "disable"}) /\ Len(words) = 2 /\ Seconds[words[2]] > 0 THEN "pause"
        ELSE "none"

\* _maybe_handle_command, as far as the configuration goes: #mute and #unmute
\* are AutoReply's, the others only answer.
Obey(message) ==
    config' = IF Parse(message) = "on" THEN [config EXCEPT !.enabled = TRUE, !.until = 0]
              ELSE IF Parse(message) = "off" THEN [config EXCEPT !.enabled = FALSE]
              ELSE IF Parse(message) = "pause"
              THEN [config EXCEPT !.until = clock + Seconds[Last(message.words)]]
              ELSE config

OwnerSays(message) ==
    /\ Edit
    /\ Obey(message)
    /\ IF Parse(message) \in {"on", "pause"}
       THEN promised' = config'.until /\ serial' = serial + 1 /\ lost' = FALSE
       ELSE UNCHANGED <<promised, serial, lost>>
    /\ UNCHANGED <<mirror, rules, nextRule, personas>>

Tick ==
    /\ clock < MaxTime
    /\ clock' = clock + 1
    /\ ghost' = [f \in Evals |-> [ghost[f] EXCEPT !.calm = FALSE]]
    /\ UNCHANGED <<data, stamps, eval, prompt, edits, promised, serial, lost, fired>>

-----------------------------------------------------------------------------

Init ==
    /\ clock = 0
    /\ config \in StartConfigs
    /\ mirror = (EnvText \/ config.text)
    /\ rules \in StartRules
    /\ nextRule = Cardinality({i \in RuleIds : rules[i] # None}) + 1
    /\ personas \in StartPersonas
    /\ stamps = [i \in RuleIds |-> [c \in Contacts |-> None]]
    /\ eval = [e \in Evals |-> Idle]
    /\ prompt = None /\ edits = 0
    /\ promised = config.until /\ serial = 0 /\ lost = FALSE
    /\ fired = <<>>
    /\ ghost = [e \in Evals |-> NoGhost]

Evaluating == \E e \in Evals :
    \/ /\ Len(fired) < MaxAnswers
       /\ \E from \in Contacts, text \in Texts : ReadConfig(e, from, text)
    \/ Clear(e) \/ ReadRules(e) \/ ReadCooldown(e) \/ LookUp(e)
    \/ Ask(e) \/ ModelReturns(e) \/ TouchCooldown(e)

Editing ==
    \/ Configure \/ AddRule \/ ChangeRule \/ ChangePersona
    \/ \E message \in OwnerMessages : OwnerSays(message)

Next == Evaluating \/ Editing \/ Tick

Spec == Init /\ [][Next]_vars

-----------------------------------------------------------------------------
(* Properties.                                                             *)

PCs == {"idle", "clearing", "listing", "cooling", "persona", "reading", "asking",
        "touching", "done"}
Tables == [RuleIds -> Rules \cup {None}]
Evaluation == [pc : PCs, from : Contacts \cup {None}, text : Texts \cup {None},
               cfg : Configs \cup {None}, table : Tables \cup {None}, now : Times,
               rule : RuleIds \cup {0}, look : 1..Lookups, opinion : Opinions, out : Outcomes]
Firing == [rule : RuleIds, from : Contacts, now : Times, cool : Nat, alone : BOOLEAN]
GhostRecord == [calm : BOOLEAN, may : SUBSET Outcomes, crossed : BOOLEAN,
                under : BOOLEAN, seen : Nat]

\* Type invariant; an evaluation that looks at a cooldown, or is about to stamp
\* one, has matched a rule that has one, and answers by that rule.
TypeOK ==
    /\ clock \in Times /\ config \in Configs /\ mirror \in BOOLEAN
    /\ rules \in Tables /\ nextRule \in Nat
    /\ personas \in [Contacts -> [1..Lookups -> Opinions]]
    /\ stamps \in [RuleIds -> [Contacts -> Times \cup {None}]]
    /\ eval \in [Evals -> Evaluation]
    /\ promised \in Nat /\ serial \in Nat /\ lost \in BOOLEAN
    /\ fired \in Seq(Firing) /\ ghost \in [Evals -> GhostRecord]
    /\ \A e \in Evals :
          /\ Running(e) => eval[e].from \in Contacts /\ eval[e].cfg \in Configs
          /\ eval[e].pc \in Matched =>
                /\ eval[e].table \in Tables
                /\ eval[e].rule # 0 => Table(e)[eval[e].rule] \in Rules
          /\ eval[e].pc \in {"cooling", "touching"} =>
                eval[e].rule # 0 /\ Table(e)[eval[e].rule].cool > 0
          /\ eval[e].pc = "touching" => eval[e].out.rule = eval[e].rule

\* A rule answers a contact sooner than its cooldown after an earlier answer
\* only if, since that one, an evaluation of the rule has overlapped another
\* (the check of get_cooldown and the stamp of touch_cooldown lie a call of the
\* model apart, and a stamp may go back in time).
CooldownKept ==
    \A i, j \in 1..Len(fired) :
        /\ i < j /\ fired[i].rule = fired[j].rule /\ fired[i].from = fired[j].from
        /\ \A k \in i+1..j :
              fired[k].rule = fired[j].rule /\ fired[k].from = fired[j].from => fired[k].alone
        => fired[j].now - fired[i].now >= fired[j].cool

\* A message that comes while the owner's pause lasts is not answered, unless an
\* evaluation that had read the configuration before that pause was given has
\* cleared it (suspended_until).
PauseHolds ==
    \A e \in Evals : ghost[e].under => eval[e].out = Silent

\* If nothing changes while a message is evaluated, the answer is one that the
\* documented order of decision gives for the state it started in: pause, quiet
\* hours, first matching rule and its cooldown, persona, model, text; but for the
\* default text that a contact may get against the persona (whatsapp_client.py:1440).
DecisionMatches ==
    \A e \in Evals :
        eval[e].pc = "done" /\ ghost[e].calm => eval[e].out \in ghost[e].may

\* Turns that the provider accepts (only Anthropic wants them to alternate and to
\* begin with the contact), and that leave out nothing said in between.
WellFormed(log, provider, turns) ==
    LET parts == FlattenSeq([k \in DOMAIN turns |-> turns[k].parts])
        said  == {k \in DOMAIN log : log[k].kind = "text"}
    IN  /\ turns # <<>> /\ Last(turns).role = "user"
        /\ provider = "anthropic" =>
              /\ Head(turns).role = "user"
              /\ \A k \in 1..Len(turns)-1 : turns[k].role # turns[k+1].role
        /\ \A t \in DOMAIN turns : \A k \in DOMAIN turns[t].parts :
              LET part == turns[t].parts[k] IN
              part # 0 => log[part].role = turns[t].role
        /\ Len(parts) <= HistorySize + 1 /\ Last(parts) = 0
        /\ \A i \in 1..Len(parts)-1 :
              /\ parts[i] \in said
              /\ {k \in said : k > parts[i]} = {parts[j] : j \in i+1..Len(parts)-1}

\* What either provider is given ends with the message to answer, has everything
\* in its own side's turn, and is an unbroken end of the conversation, no longer
\* than LLM_HISTORY_SIZE; for Anthropic it alternates between the two sides and
\* begins with the contact.
PromptWellFormed == prompt # None => WellFormed(prompt.log, prompt.provider, prompt.turns)
=============================================================================
