-------------------------- MODULE ReplyDecisionProofs --------------------------
(* Type correctness, cooldowns, pauses and the order of decision of          *)
(* ReplyDecision, for any rules, personas, configurations and owner's        *)
(* messages and any number of overlapping evaluations, and the form of the   *)
(* conversation its model is given, for logs of any length.                  *)
EXTENDS ReplyDecision, FiniteSetTheorems, WellFoundedInduction, TLAPS

Data ==
    /\ clock \in Times /\ config \in Configs /\ mirror \in BOOLEAN
    /\ rules \in Tables /\ nextRule \in Nat
    /\ personas \in [Contacts -> [1..Lookups -> Opinions]]

Records ==
    /\ stamps \in [RuleIds -> [Contacts -> Times \cup {None}]]
    /\ promised \in Nat /\ serial \in Nat /\ lost \in BOOLEAN
    /\ fired \in Seq(Firing) /\ ghost \in [Evals -> GhostRecord]

\* What TypeOK says of one evaluation.
Sound(r) ==
    /\ r \in Evaluation
    /\ r.pc \notin {"idle", "done"} => r.from \in Contacts /\ r.cfg \in Configs
    /\ r.pc \in Matched =>
          /\ r.table \in Tables
          /\ r.rule # 0 => r.table[r.rule] \in Rules
    /\ r.pc \in {"cooling", "touching"} => r.rule # 0 /\ r.table[r.rule].cool > 0
    /\ r.pc = "touching" => r.out.rule = r.rule

AllSound == eval \in [Evals -> Evaluation] /\ \A e \in Evals : Sound(eval[e])

LEMMA TypeParts == TypeOK <=> Data /\ Records /\ AllSound
BY DEF TypeOK, Data, Records, AllSound, Sound, Running, Table

-----------------------------------------------------------------------------
(* The operators.                                                           *)

LEMMA LeastExists ==
    ASSUME NEW T, T \subseteq Nat, T # {}
    PROVE  \E x \in T : \A y \in T : x <= y
<1>1. PICK x \in T : \A y \in T : ~ (<<y, x>> \in OpToRel(<, Nat))
  BY WFMin, NatLessThanWellFounded
<1>2. \A y \in T : <<y, x>> \in Nat \X Nat /\ ~(y < x)
  BY <1>1 DEF OpToRel
<1>3. \A y \in T : x \in Nat /\ y \in Nat /\ ~(y < x)
  BY <1>2
<1>4. \A y \in T : x <= y
  BY <1>3
<1>. QED  BY <1>4

\* The rules that match have a rank.
LEMMA HitsAreRules ==
    ASSUME NEW table \in Tables, NEW from, NEW text
    PROVE  \A i \in Hits(table, from, text) : i \in RuleIds /\ table[i] \in Rules /\ table[i].rank \in Nat
BY DEF Hits, Tables, Rules

\* The rule that decides: the one of the least priority that matches, and the
\* oldest of those.
THEOREM FirstRuleIsFirst ==
    ASSUME NEW table \in Tables, NEW from, NEW text
    PROVE  LET hits == Hits(table, from, text) IN
           IF hits = {} THEN FirstRule(table, from, text) = 0
           ELSE /\ FirstRule(table, from, text) \in hits
                /\ \A j \in hits : Before(table, FirstRule(table, from, text), j)
<1>. DEFINE hits == Hits(table, from, text)
<1>0. \A i \in hits : i \in RuleIds /\ table[i] \in Rules /\ table[i].rank \in Nat
  BY HitsAreRules
<1>1. CASE hits = {}
  BY <1>1 DEF FirstRule
<1>2. CASE hits # {}
  <2>1. PICK m \in {table[i].rank : i \in hits} : \A n \in {table[i].rank : i \in hits} : m <= n
    <3>. DEFINE T == {table[i].rank : i \in hits}
    <3>1. T \subseteq Nat /\ T # {}
      BY <1>0, <1>2
    <3>. QED  BY <3>1, LeastExists
  <2>. DEFINE best == {i \in hits : table[i].rank = m}
  <2>2. best \subseteq Nat /\ best # {}
    BY <1>0, <2>1, DecisionAssumption DEF RuleIds
  <2>3. PICK i \in best : \A j \in best : i <= j
    BY <2>2, LeastExists
  <2>4. i \in hits /\ \A j \in hits : Before(table, i, j)
    <3>1. i \in hits /\ table[i].rank = m
      BY <2>3
    <3>2. ASSUME NEW j \in hits PROVE Before(table, i, j)
      <4>1. m <= table[j].rank /\ m \in Nat /\ table[j].rank \in Nat
        BY <2>1, <1>0
      <4>2. CASE table[j].rank = m
        BY <4>2, <3>1, <2>3 DEF Before
      <4>3. CASE table[j].rank # m
        BY <4>3, <4>1, <3>1 DEF Before
      <4>. QED  BY <4>2, <4>3
    <3>. QED  BY <3>1, <3>2
  <2>. HIDE DEF best
  <2>5. FirstRule(table, from, text) = CHOOSE k \in hits : \A j \in hits : Before(table, k, j)
    BY <1>2 DEF FirstRule
  <2>. HIDE DEF hits
  <2>6. /\ FirstRule(table, from, text) \in hits
        /\ \A j \in hits : Before(table, FirstRule(table, from, text), j)
    BY <2>4, <2>5
  <2>. QED  BY <1>2, <2>6 DEF hits
<1>. QED  BY <1>1, <1>2

LEMMA FirstRuleType ==
    ASSUME NEW table \in Tables, NEW from, NEW text
    PROVE  /\ FirstRule(table, from, text) \in RuleIds \cup {0}
           /\ FirstRule(table, from, text) # 0 => table[FirstRule(table, from, text)] \in Rules
BY FirstRuleIsFirst, HitsAreRules

LEMMA WithoutModelType ==
    ASSUME NEW cfg \in Configs, NEW table, NEW rule \in RuleIds \cup {0}
    PROVE  /\ WithoutModel(cfg, table, rule) \in Outcomes
           /\ WithoutModel(cfg, table, rule).rule \in {0, rule}
BY DEF WithoutModel, Outcomes, Silent

\* What may come out of an evaluation that nothing disturbs.
Possible(from, text) == Documented(from, text) \cup DefaultDespiteOptOut(from)

LEMMA PossibleType ==
    ASSUME NEW from, NEW text
    PROVE  Possible(from, text) \subseteq Outcomes
<1>1. Documented(from, text) \subseteq Outcomes
  BY DEF Documented
<1>2. [by |-> "default", rule |-> 0] \in Outcomes
  BY DEF Outcomes
<1>. QED  BY <1>1, <1>2 DEF Possible, DefaultDespiteOptOut

-----------------------------------------------------------------------------
(* Types.                                                                   *)

LEMMA IdleSound == Idle \in Evaluation /\ Idle.pc = "idle" /\ Sound(Idle)
BY DecisionAssumption DEF Idle, Evaluation, Sound, PCs, Outcomes, Silent, Times, Opinions,
   DecisionAssumption, Matched, Cleared

LEMMA DoneSound ==
    ASSUME NEW out \in Outcomes
    PROVE  Sound([Idle EXCEPT !.pc = "done", !.out = out])
<1>1. [Idle EXCEPT !.pc = "done", !.out = out] \in Evaluation
  BY IdleSound DEF Evaluation, PCs
<1>2. [Idle EXCEPT !.pc = "done", !.out = out].pc = "done"
  BY DEF Idle
<1>. QED  BY <1>1, <1>2 DEF Sound, Matched, Cleared

LEMMA StepSound ==
    ASSUME AllSound, NEW e \in Evals, NEW r, Sound(r), Step(e, r)
    PROVE  AllSound'
<1>1. r \in Evaluation
  BY DEF Sound
<1>2. eval' \in [Evals -> Evaluation]
  BY <1>1 DEF Step, AllSound
<1>3. \A f \in Evals : eval'[f] = r \/ eval'[f] = eval[f]
  BY DEF Step, AllSound
<1>4. \A f \in Evals : Sound(eval'[f])
  BY <1>3 DEF AllSound
<1>. QED  BY <1>2, <1>4 DEF AllSound

LEMMA SettleSound ==
    ASSUME AllSound, NEW e \in Evals, NEW out \in Outcomes, Settle(e, out)
    PROVE  AllSound'
BY DoneSound, StepSound DEF Settle

\* Moving on within the evaluation.
LEMMA MoveSound ==
    ASSUME NEW r, Sound(r), NEW pc \in PCs \ {"touching"},
           r.pc \notin {"idle", "done"},
           pc \in Matched => r.pc \in Matched,
           pc = "cooling" => r.pc = "cooling"
    PROVE  Sound([r EXCEPT !.pc = pc])
<1>. DEFINE q == [r EXCEPT !.pc = pc]
<1>1. q \in Evaluation /\ q.pc = pc
  BY DEF Sound, Evaluation
<1>2. q.from = r.from /\ q.cfg = r.cfg /\ q.table = r.table /\ q.rule = r.rule
  BY DEF Sound, Evaluation
<1>3. pc # "touching"
  OBVIOUS
<1>. HIDE DEF q
<1>4. q.from \in Contacts /\ q.cfg \in Configs
  BY <1>2 DEF Sound
<1>5. q.pc \in Matched =>
        q.table \in Tables /\ (q.rule # 0 => q.table[q.rule] \in Rules)
  BY <1>1, <1>2 DEF Sound
<1>6. q.pc \in {"cooling", "touching"} => q.rule # 0 /\ q.table[q.rule].cool > 0
  BY <1>1, <1>2, <1>3 DEF Sound
<1>7. Sound(q)
  BY <1>1, <1>3, <1>4, <1>5, <1>6 DEF Sound
<1>. QED  BY <1>7 DEF q

LEMMA AwayType == Silent \in Outcomes /\ [by |-> "away", rule |-> 0] \in Outcomes
BY DEF Silent, Outcomes

LEMMA AfterPauseSound ==
    ASSUME AllSound, NEW e \in Evals, NEW r, Sound(r), r.pc = "clearing", AfterPause(e, r)
    PROVE  AllSound'
<1>1. CASE Step(e, [r EXCEPT !.pc = "listing"])
  <2>1. Sound([r EXCEPT !.pc = "listing"])
    BY MoveSound DEF PCs, Matched, Cleared
  <2>. QED  BY <1>1, <2>1, StepSound
<1>2. CASE Settle(e, IF r.cfg.away THEN [by |-> "away", rule |-> 0] ELSE Silent)
  BY <1>2, AwayType, SettleSound
<1>. QED  BY <1>1, <1>2 DEF AfterPause

LEMMA AnswerSound ==
    ASSUME AllSound, NEW e \in Evals, NEW r, Sound(r), r.pc \in Cleared,
           NEW out \in Outcomes, out.rule \in {0, r.rule}, Answer(e, r, out)
    PROVE  AllSound'
<1>1. CASE out.by # "silent" /\ out.rule # 0 /\ r.table[out.rule].cool > 0
  <2>. DEFINE q == [r EXCEPT !.pc = "touching", !.out = out]
  <2>1. q \in Evaluation /\ q.pc = "touching" /\ q.out = out
    BY DEF Sound, Evaluation, PCs
  <2>2. q.from = r.from /\ q.cfg = r.cfg /\ q.table = r.table /\ q.rule = r.rule
    BY DEF Sound, Evaluation
  <2>3. Step(e, q)
    BY <1>1 DEF Answer
  <2>. HIDE DEF q
  <2>4. out.rule = r.rule
    BY <1>1
  <2>5. Sound(q)
    BY <1>1, <2>1, <2>2, <2>4 DEF Sound, Matched, Cleared
  <2>. QED  BY <2>3, <2>5, StepSound
<1>2. CASE ~(out.by # "silent" /\ out.rule # 0 /\ r.table[out.rule].cool > 0)
  BY <1>2, SettleSound DEF Answer
<1>. QED  BY <1>1, <1>2

\* The static answer of an evaluation past its match.
LEMMA StaticType ==
    ASSUME NEW r, Sound(r), r.pc \in Cleared
    PROVE  /\ WithoutModel(r.cfg, r.table, r.rule) \in Outcomes
           /\ WithoutModel(r.cfg, r.table, r.rule).rule \in {0, r.rule}
<1>1. r.cfg \in Configs /\ r.rule \in RuleIds \cup {0}
  BY DEF Sound, Evaluation, Cleared
<1>. QED  BY <1>1, WithoutModelType

LEMMA ModelType ==
    ASSUME NEW r, Sound(r)
    PROVE  /\ [by |-> "model", rule |-> r.rule] \in Outcomes
           /\ [by |-> "model", rule |-> r.rule].rule \in {0, r.rule}
BY DEF Sound, Evaluation, Outcomes

LEMMA EvaluatingSound ==
    ASSUME Data, AllSound, NEW e \in Evals
    PROVE  /\ Clear(e) \/ ReadRules(e) \/ ReadCooldown(e) \/ LookUp(e) \/ Ask(e)
                  \/ ModelReturns(e) \/ TouchCooldown(e) => AllSound'
           /\ \A from \in Contacts, text \in Texts : ReadConfig(e, from, text) => AllSound'
<1>0. Sound(eval[e])
  BY DEF AllSound
<1>1. ASSUME NEW from \in Contacts, NEW text \in Texts, ReadConfig(e, from, text) PROVE AllSound'
  <2>. DEFINE r == [Idle EXCEPT !.pc = "clearing", !.from = from, !.text = text, !.cfg = config]
  <2>1. r.pc = "clearing" /\ r.from = from /\ r.cfg = config
    BY DEF Idle
  <2>2. r \in Evaluation
    BY IdleSound DEF Evaluation, PCs, Data
  <2>3. IF ~config.enabled \/ Paused(config.until) THEN Settle(e, Silent)
           ELSE IF config.until # 0 THEN Step(e, r)
           ELSE AfterPause(e, r)
    BY <1>1 DEF ReadConfig
  <2>. HIDE DEF r
  <2>4. Sound(r)
    BY <2>1, <2>2 DEF Sound, Data, Matched, Cleared
  <2>. QED  BY <2>1, <2>3, <2>4, AwayType, SettleSound, StepSound, AfterPauseSound
<1>2. CASE Clear(e)
  BY <1>0, <1>2, AfterPauseSound DEF Clear
<1>3. CASE ReadRules(e)
  <2>. DEFINE r    == eval[e]
              rule == FirstRule(rules, r.from, r.text)
              pc   == IF rule # 0 /\ rules[rule].cool > 0 THEN "cooling" ELSE "persona"
              q    == [r EXCEPT !.table = rules, !.now = clock, !.rule = rule, !.pc = pc]
  <2>1. r \in Evaluation /\ r.pc = "listing" /\ r.from \in Contacts /\ r.cfg \in Configs
    BY <1>0, <1>3 DEF Sound, ReadRules
  <2>2. rule \in RuleIds \cup {0} /\ (rule # 0 => rules[rule] \in Rules)
    BY FirstRuleType DEF Data
  <2>3. Step(e, q)
    BY <1>3 DEF ReadRules
  <2>4. pc \in {"cooling", "persona"} /\ (pc = "cooling" => rule # 0 /\ rules[rule].cool > 0)
    OBVIOUS
  <2>. HIDE DEF rule, pc, r
  <2>5. q \in Evaluation /\ q.pc = pc
    BY <2>1, <2>2, <2>4 DEF Evaluation, Data, PCs
  <2>6. q.from = r.from /\ q.cfg = r.cfg /\ q.table = rules /\ q.rule = rule
    BY <2>1 DEF Evaluation
  <2>. HIDE DEF q
  <2>7. Sound(q)
    BY <2>1, <2>2, <2>4, <2>5, <2>6 DEF Sound, Data
  <2>. QED  BY <2>3, <2>7, StepSound
<1>4. CASE ReadCooldown(e)
  <2>1. eval[e].pc = "cooling"
    BY <1>4 DEF ReadCooldown
  <2>2. Settle(e, Silent) \/ Step(e, [eval[e] EXCEPT !.pc = "persona"])
    BY <1>4 DEF ReadCooldown
  <2>3. Sound([eval[e] EXCEPT !.pc = "persona"])
    BY <1>0, <2>1, MoveSound DEF PCs, Matched, Cleared
  <2>. QED  BY <2>2, <2>3, AwayType, SettleSound, StepSound
<1>5. CASE LookUp(e)
  <2>. DEFINE r == eval[e]
              found == personas[r.from][r.look]
              d == [r EXCEPT !.opinion = found]
  <2>1. r \in Evaluation /\ r.pc = "persona" /\ r.from \in Contacts
    BY <1>0, <1>5 DEF Sound, LookUp
  <2>2. found \in Opinions
    BY <2>1 DEF Data, Evaluation
  <2>3. CASE found = "none" /\ r.look < Lookups
    <3>. DEFINE q == [r EXCEPT !.look = @ + 1]
    <3>1. Step(e, q)
      BY <1>5, <2>3 DEF LookUp
    <3>2. q \in Evaluation
      BY <2>1, <2>3, DecisionAssumption DEF Evaluation, DecisionAssumption
    <3>3. /\ q.pc = r.pc /\ q.from = r.from /\ q.cfg = r.cfg /\ q.table = r.table
          /\ q.rule = r.rule /\ q.out = r.out
      BY <2>1 DEF Evaluation
    <3>. HIDE DEF q
    <3>4. Sound(q)
      BY <1>0, <3>2, <3>3 DEF Sound
    <3>. QED  BY <3>1, <3>4, StepSound
  <2>4. CASE ~(found = "none" /\ r.look < Lookups)
    <3>1. d \in Evaluation
      BY <2>1, <2>2 DEF Evaluation
    <3>2. /\ d.pc = r.pc /\ d.from = r.from /\ d.cfg = r.cfg /\ d.table = r.table
          /\ d.rule = r.rule /\ d.out = r.out
      BY <2>1 DEF Evaluation
    <3>3. IF ModelConfigured /\ WantsModel(d.cfg, d.table, d.rule, d.opinion)
          THEN Step(e, [d EXCEPT !.pc = "reading"])
          ELSE Answer(e, d, WithoutModel(d.cfg, d.table, d.rule))
      BY <1>5, <2>4 DEF LookUp
    <3>. HIDE DEF d
    <3>4. Sound(d)
      BY <1>0, <3>1, <3>2 DEF Sound
    <3>5. d.pc \in Cleared /\ d.pc = "persona"
      BY <2>1, <3>2 DEF Cleared
    <3>6. Sound([d EXCEPT !.pc = "reading"])
      BY <3>4, <3>5, MoveSound DEF PCs, Matched, Cleared
    <3>. QED  BY <3>3, <3>4, <3>5, <3>6, StaticType, AnswerSound, StepSound
  <2>. QED  BY <2>3, <2>4
<1>6. CASE Ask(e)
  <2>1. Sound([eval[e] EXCEPT !.pc = "asking"])
    BY <1>0, <1>6, MoveSound DEF Ask, PCs, Matched, Cleared
  <2>. QED  BY <1>6, <2>1, StepSound DEF Ask
<1>7. CASE ModelReturns(e)
  <2>1. eval[e].pc \in Cleared
    BY <1>7 DEF ModelReturns, Cleared
  <2>2. \/ Answer(e, eval[e], [by |-> "model", rule |-> eval[e].rule])
        \/ Answer(e, eval[e], WithoutModel(eval[e].cfg, eval[e].table, eval[e].rule))
    BY <1>7 DEF ModelReturns
  <2>. QED  BY <1>0, <2>1, <2>2, StaticType, ModelType, AnswerSound
<1>8. CASE TouchCooldown(e)
  <2>1. eval[e].out \in Outcomes
    BY <1>0 DEF Sound, Evaluation
  <2>2. Settle(e, eval[e].out)
    BY <1>8 DEF TouchCooldown
  <2>. QED  BY <2>1, <2>2, SettleSound
<1>. QED  BY <1>1, <1>2, <1>3, <1>4, <1>5, <1>6, <1>7, <1>8
USE DEF data

LEMMA ConfigUntil ==
    ASSUME NEW c \in Configs, NEW t \in Nat
    PROVE  /\ [c EXCEPT !.until = t] \in Configs /\ [c EXCEPT !.until = t].until = t
           /\ [c EXCEPT !.enabled = TRUE] \in Configs /\ [c EXCEPT !.enabled = FALSE] \in Configs
           /\ [c EXCEPT !.enabled = TRUE, !.until = t] \in Configs
           /\ [c EXCEPT !.enabled = TRUE, !.until = t].until = t
           /\ [c EXCEPT !.enabled = FALSE].until = c.until
BY DEF Configs

LEMMA ObeyType ==
    ASSUME Data, NEW message \in OwnerMessages, Obey(message)
    PROVE  /\ config' \in Configs
           /\ Parse(message) \notin {"on", "pause"} => config'.until = config.until
<1>1. clock + Seconds[Last(message.words)] \in Nat
  BY DecisionAssumption DEF DecisionAssumption, Data, Times
<1>2. config \in Configs /\ 0 \in Nat
  BY DEF Data
<1>3. CASE Parse(message) = "on"
  BY <1>2, <1>3, ConfigUntil DEF Obey
<1>4. CASE Parse(message) = "off"
  <2>1. config' = [config EXCEPT !.enabled = FALSE]
    BY <1>4 DEF Obey
  <2>. QED  BY <2>1, <1>2, ConfigUntil
<1>5. CASE Parse(message) = "pause"
  <2>1. config' = [config EXCEPT !.until = clock + Seconds[Last(message.words)]]
    BY <1>5 DEF Obey
  <2>. QED  BY <2>1, <1>1, <1>2, <1>5, ConfigUntil
<1>6. CASE Parse(message) \notin {"on", "off", "pause"}
  BY <1>2, <1>6 DEF Obey
<1>. QED  BY <1>3, <1>4, <1>5, <1>6

LEMMA EditingTypes ==
    ASSUME Data, Records, Editing
    PROVE  Data' /\ Records'
<1>0. config \in Configs /\ config.until \in Nat
  BY DEF Data, Configs
<1>1. Edit
  BY DEF Editing, Configure, AddRule, ChangeRule, ChangePersona, OwnerSays
<1>2. ghost' \in [Evals -> GhostRecord]
  <2>1. \A f \in Evals : [ghost[f] EXCEPT !.calm = FALSE] \in GhostRecord
    BY DEF Records, GhostRecord
  <2>. QED  BY <1>1, <2>1 DEF Edit
<1>3. CASE Configure
  <2>1. config' \in Configs /\ mirror' \in BOOLEAN
    <3>1. PICK c \in StartConfigs : config' = [c EXCEPT !.until = config.until]
      BY <1>3 DEF Configure
    <3>2. config' \in Configs
      BY <1>0, <3>1, ConfigUntil, DecisionAssumption DEF DecisionAssumption
    <3>3. mirror' \in BOOLEAN
      BY <1>3 DEF Configure, Data
    <3>. QED  BY <3>2, <3>3
  <2>. QED  BY <1>1, <1>2, <1>3, <2>1 DEF Configure, Edit, Data, Records
<1>4. CASE AddRule
  <2>1. nextRule' \in Nat
    BY <1>4 DEF AddRule, Data
  <2>2. rules' \in Tables
    BY <1>4, DecisionAssumption DEF AddRule, Data, Tables, DecisionAssumption
  <2>. QED  BY <1>1, <1>2, <1>4, <2>1, <2>2 DEF AddRule, Edit, Data, Records
<1>5. CASE ChangeRule
  <2>1. rules' \in Tables
    BY <1>5, DecisionAssumption DEF ChangeRule, Data, Tables, DecisionAssumption
  <2>. QED  BY <1>1, <1>2, <1>5, <2>1 DEF ChangeRule, Edit, Data, Records
<1>6. CASE ChangePersona
  <2>1. personas' \in [Contacts -> [1..Lookups -> Opinions]]
    BY <1>6 DEF ChangePersona, Data
  <2>. QED  BY <1>1, <1>2, <1>6, <2>1 DEF ChangePersona, Edit, Data, Records
<1>7. ASSUME NEW message \in OwnerMessages, OwnerSays(message) PROVE Data' /\ Records'
  <2>1. config' \in Configs
    BY <1>7, ObeyType DEF OwnerSays
  <2>2. config'.until \in Nat
    BY <2>1 DEF Configs
  <2>3. promised' \in Nat /\ serial' \in Nat
    BY <1>7, <2>2 DEF OwnerSays, Records
  <2>4. lost' \in BOOLEAN
    BY <1>7 DEF OwnerSays, Records
  <2>. QED  BY <1>1, <1>2, <1>7, <2>1, <2>3, <2>4 DEF OwnerSays, Edit, Data, Records
<1>. QED  BY <1>3, <1>4, <1>5, <1>6, <1>7 DEF Editing

LEMMA DisturbedType ==
    ASSUME Records, NEW e \in Evals
    PROVE  Disturbed(e) \in [Evals -> GhostRecord]
<1>1. \A f \in Evals : ghost[f] \in GhostRecord /\ [ghost[f] EXCEPT !.calm = FALSE] \in GhostRecord
  BY DEF Records, GhostRecord
<1>. QED  BY <1>1 DEF Disturbed

\* What a stamp adds to the history.
LEMMA StampType ==
    ASSUME AllSound, Records, NEW e \in Evals, eval[e].pc = "touching"
    PROVE  /\ eval[e].rule \in RuleIds /\ eval[e].from \in Contacts /\ eval[e].now \in Times
           /\ eval[e].table[eval[e].rule].cool \in Nat
           /\ [rule |-> eval[e].rule, from |-> eval[e].from, now |-> eval[e].now,
               cool |-> eval[e].table[eval[e].rule].cool, alone |-> ~ghost[e].crossed] \in Firing
<1>1. Sound(eval[e])
  BY DEF AllSound
<1>2. eval[e].rule \in RuleIds /\ eval[e].from \in Contacts /\ eval[e].now \in Times
  BY <1>1 DEF Sound, Evaluation
<1>3. eval[e].table[eval[e].rule] \in Rules
  BY <1>1 DEF Sound, Matched, Cleared
<1>4. eval[e].table[eval[e].rule].cool \in Nat
  BY <1>3 DEF Rules
<1>5. (~ghost[e].crossed) \in BOOLEAN
  OBVIOUS
<1>. QED  BY <1>2, <1>4, <1>5 DEF Firing

LEMMA TouchTypes ==
    ASSUME Data, Records, AllSound, NEW e \in Evals, TouchCooldown(e)
    PROVE  Data' /\ Records'
<1>0. eval[e].pc = "touching"
  BY DEF TouchCooldown
<1>1. stamps' \in [RuleIds -> [Contacts -> Times \cup {None}]]
  BY <1>0, StampType DEF TouchCooldown, Records
<1>2. fired' \in Seq(Firing)
  <2>1. PICK x \in Firing : fired' = Append(fired, x)
    BY <1>0, StampType DEF TouchCooldown
  <2>. QED  BY <2>1 DEF Records
<1>3. ghost' \in [Evals -> GhostRecord]
  <2>1. ASSUME NEW f \in Evals, NEW b \in BOOLEAN
        PROVE  [ghost[f] EXCEPT !.calm = FALSE, !.crossed = @ \/ b] \in GhostRecord
    BY DEF Records, GhostRecord
  <2>2. \A f \in Evals : ghost'[f] \in GhostRecord
    BY <2>1 DEF TouchCooldown, Records
  <2>. QED  BY <2>2 DEF TouchCooldown
<1>. QED  BY <1>1, <1>2, <1>3 DEF TouchCooldown, Data, Records

LEMMA EvaluatingTypes ==
    ASSUME Data, Records, AllSound, Evaluating
    PROVE  Data' /\ Records'
<1>1. ASSUME NEW e \in Evals, NEW from \in Contacts, NEW text \in Texts, ReadConfig(e, from, text)
      PROVE  Data' /\ Records'
  <2>1. [calm |-> TRUE, may |-> Documented(from, text) \cup DefaultDespiteOptOut(from), crossed |-> FALSE,
         under |-> clock < promised /\ ~lost, seen |-> serial] \in GhostRecord
    <3>1. (clock < promised /\ ~lost) \in BOOLEAN
      OBVIOUS
    <3>2. Documented(from, text) \cup DefaultDespiteOptOut(from) \in SUBSET Outcomes
      BY PossibleType DEF Possible
    <3>. QED  BY <3>1, <3>2 DEF GhostRecord, Records
  <2>2. ghost' \in [Evals -> GhostRecord]
    BY <1>1, <2>1 DEF ReadConfig, Records
  <2>. QED  BY <1>1, <2>2 DEF ReadConfig, Data, Records
<1>2. ASSUME NEW e \in Evals, Clear(e) PROVE Data' /\ Records'
  <2>1. config' \in Configs
    BY <1>2, ConfigUntil DEF Clear, Data
  <2>2. lost' \in BOOLEAN
    BY <1>2 DEF Clear, Records
  <2>. QED  BY <1>2, <2>1, <2>2, DisturbedType DEF Clear, Data, Records
<1>3. ASSUME NEW e \in Evals,
             ReadRules(e) \/ ReadCooldown(e) \/ LookUp(e) \/ Ask(e) \/ ModelReturns(e)
      PROVE  Data' /\ Records'
  BY <1>3 DEF ReadRules, ReadCooldown, LookUp, Ask, ModelReturns, Data, Records
<1>. QED  BY <1>1, <1>2, <1>3, TouchTypes DEF Evaluating

LEMMA TickTypes == Data /\ Records /\ Tick => Data' /\ Records'
<1>. SUFFICES ASSUME Data, Records, Tick PROVE Data' /\ Records'
  OBVIOUS
<1>1. clock' \in Times
  BY DecisionAssumption DEF DecisionAssumption, Tick, Data, Times
<1>2. ghost' \in [Evals -> GhostRecord]
  <2>1. \A f \in Evals : [ghost[f] EXCEPT !.calm = FALSE] \in GhostRecord
    BY DEF Records, GhostRecord
  <2>. QED  BY <2>1 DEF Tick
<1>. QED  BY <1>1, <1>2 DEF Tick, Data, Records

\* Evaluations, configuration, rules, personas and stamps stay within their
\* types, and an evaluation that looks at a cooldown has matched a rule with one
\* (whatever is edited meanwhile).
THEOREM DecisionTypes == Spec => []TypeOK
<1>1. Init => Data /\ Records /\ AllSound
  <2>. SUFFICES ASSUME Init PROVE Data /\ Records /\ AllSound
    OBVIOUS
  <2>1. nextRule \in Nat
    <3>1. IsFiniteSet({i \in RuleIds : rules[i] # None})
      <4>1. 1 \in Int /\ MaxRules \in Int
        BY DecisionAssumption DEF DecisionAssumption
      <4>2. IsFiniteSet(1..MaxRules)
        BY <4>1, FS_Interval
      <4>3. {i \in RuleIds : rules[i] # None} \subseteq 1..MaxRules
        BY DEF RuleIds
      <4>. QED  BY <4>2, <4>3, FS_Subset
    <3>2. Cardinality({i \in RuleIds : rules[i] # None}) \in Nat
      BY <3>1, FS_CardinalityType
    <3>. QED  BY <3>2 DEF Init
  <2>2. Data
    <3>1. config \in Configs /\ mirror \in BOOLEAN /\ clock \in Times
      BY DecisionAssumption DEF Init, DecisionAssumption, Times, Configs
    <3>2. rules \in Tables /\ personas \in [Contacts -> [1..Lookups -> Opinions]]
      BY DecisionAssumption DEF Init, DecisionAssumption, Tables
    <3>. QED  BY <2>1, <3>1, <3>2 DEF Data
  <2>3. Records
    <3>1. promised \in Nat /\ serial \in Nat /\ lost \in BOOLEAN /\ fired \in Seq(Firing)
      <4>1. config \in Configs /\ promised = config.until
        BY <2>2 DEF Init, Data
      <4>2. promised \in Nat
        BY <4>1 DEF Configs
      <4>3. serial \in Nat /\ lost \in BOOLEAN
        BY DEF Init
      <4>4. fired \in Seq(Firing)
        BY DEF Init
      <4>. QED  BY <4>2, <4>3, <4>4
    <3>2. stamps \in [RuleIds -> [Contacts -> Times \cup {None}]]
      BY DEF Init
    <3>3. ghost \in [Evals -> GhostRecord]
      BY DEF Init, GhostRecord, NoGhost
    <3>. QED  BY <3>1, <3>2, <3>3 DEF Records
  <2>4. AllSound
    BY IdleSound DEF Init, AllSound
  <2>. QED  BY <2>2, <2>3, <2>4
<1>2. Data /\ Records /\ AllSound /\ [Next]_vars => Data' /\ Records' /\ AllSound'
  <2>. SUFFICES ASSUME Data, Records, AllSound, [Next]_vars PROVE Data' /\ Records' /\ AllSound'
    OBVIOUS
  <2>1. CASE Evaluating
    <3>1. AllSound'
      BY <2>1, EvaluatingSound DEF Evaluating
    <3>. QED  BY <2>1, <3>1, EvaluatingTypes
  <2>2. CASE Editing
    <3>1. UNCHANGED eval
      BY <2>2 DEF Editing, Edit, Configure, AddRule, ChangeRule, ChangePersona, OwnerSays
    <3>2. AllSound'
      BY <3>1 DEF AllSound
    <3>. QED  BY <2>2, <3>2, EditingTypes
  <2>3. CASE Tick
    <3>1. AllSound'
      BY <2>3 DEF Tick, AllSound
    <3>. QED  BY <2>3, <3>1, TickTypes
  <2>4. CASE UNCHANGED vars
    BY <2>4 DEF vars, Data, Records, AllSound
  <2>. QED  BY <2>1, <2>2, <2>3, <2>4 DEF Next
<1>. QED  BY <1>1, <1>2, TypeParts, PTL DEF Spec

-----------------------------------------------------------------------------
(* Pauses.  As long as no evaluation has cleared the owner's last pause, it  *)
(* is in the configuration or over, and an evaluation that may still clear   *)
(* it has seen that it was over.                                             *)

Pausing ==
    /\ ~lost => config.until = promised \/ promised <= clock
    /\ \A e \in Evals :
          /\ ghost[e].seen <= serial
          /\ eval[e].pc = "clearing" /\ ghost[e].seen = serial /\ ~lost => promised <= clock
          /\ ghost[e].under => eval[e].pc = "done" /\ eval[e].out = Silent

LEMMA PausingStep == Data /\ Records /\ AllSound /\ Pausing /\ [Next]_vars => Pausing'
<1>. SUFFICES ASSUME Data, Records, AllSound, Pausing, [Next]_vars PROVE Pausing'
  OBVIOUS
<1>0. /\ clock \in Nat /\ promised \in Nat /\ serial \in Nat /\ config \in Configs
      /\ config.until \in Nat /\ \A e \in Evals : ghost[e].seen \in Nat
  BY DEF Data, Records, Times, Configs, GhostRecord
<1>. DEFINE Fine(e) ==
          /\ ghost[e].seen <= serial
          /\ eval[e].pc = "clearing" /\ ghost[e].seen = serial /\ ~lost => promised <= clock
          /\ ghost[e].under => eval[e].pc = "done" /\ eval[e].out = Silent
\* The evaluations a step leaves alone, but for what disturbs them.
<1>1. ASSUME NEW f \in Evals, UNCHANGED <<clock, promised, serial>>, eval'[f] = eval[f],
             ghost'[f].seen = ghost[f].seen, ghost'[f].under = ghost[f].under, lost => lost'
      PROVE  Fine(f)'
  BY <1>1 DEF Pausing
<1>2. ASSUME NEW f \in Evals, NEW b \in BOOLEAN
      PROVE  /\ [ghost[f] EXCEPT !.calm = FALSE].seen = ghost[f].seen
             /\ [ghost[f] EXCEPT !.calm = FALSE].under = ghost[f].under
             /\ [ghost[f] EXCEPT !.calm = FALSE, !.crossed = b].seen = ghost[f].seen
             /\ [ghost[f] EXCEPT !.calm = FALSE, !.crossed = b].under = ghost[f].under
  BY DEF Records, GhostRecord
\* A step of an evaluation that is running.
<1>3. ASSUME NEW e \in Evals, Running(e) PROVE ~ghost[e].under
  BY <1>3 DEF Pausing, Running
<1>4. ASSUME NEW e \in Evals, NEW from \in Contacts, NEW text \in Texts, ReadConfig(e, from, text)
      PROVE  Pausing'
  <2>1. UNCHANGED <<clock, config, promised, serial, lost>>
    BY <1>4 DEF ReadConfig
  <2>2. /\ ghost'[e].seen = serial
        /\ ghost'[e].under = (clock < promised /\ ~lost)
        /\ \A f \in Evals \ {e} : ghost'[f] = ghost[f]
    BY <1>4 DEF ReadConfig, Records
  <2>3. \A f \in Evals \ {e} : eval'[f] = eval[f]
    BY <1>4 DEF ReadConfig, AfterPause, Settle, Step, AllSound
  <2>4. Fine(e)'
    <3>1. CASE ~config.enabled \/ Paused(config.until)
      <4>1. eval'[e] = [Idle EXCEPT !.pc = "done", !.out = Silent]
        BY <1>4, <3>1 DEF ReadConfig, Settle, Step, AllSound
      <4>2. eval'[e].pc = "done" /\ eval'[e].out = Silent
        BY <4>1 DEF Idle
      <4>. QED  BY <2>1, <2>2, <4>2, <1>0
    <3>2. CASE ~(~config.enabled \/ Paused(config.until))
      <4>1. ~lost => promised <= clock
        BY <1>0, <3>2 DEF Pausing, Paused
      <4>2. ~(clock < promised /\ ~lost)
        BY <1>0, <4>1
      <4>3. ~ghost'[e].under
        BY <2>2, <4>2
      <4>4. ghost'[e].seen <= serial' /\ (~lost' => promised' <= clock')
        BY <1>0, <2>1, <2>2, <4>1
      <4>. QED  BY <4>3, <4>4
    <3>. QED  BY <3>1, <3>2
  <2>5. \A f \in Evals : Fine(f)'
    BY <1>1, <2>1, <2>2, <2>3, <2>4
  <2>. QED  BY <2>1, <2>5 DEF Pausing
<1>5. ASSUME NEW e \in Evals, Clear(e) PROVE Pausing'
  <2>1. UNCHANGED <<clock, promised, serial>> /\ lost' = (lost \/ ghost[e].seen # serial)
    BY <1>5 DEF Clear
  <2>2. ghost' = Disturbed(e) /\ Running(e) /\ eval[e].pc = "clearing"
    BY <1>5 DEF Clear, Running
  <2>3. ghost'[e] = ghost[e] /\ \A f \in Evals \ {e} : ghost'[f] = [ghost[f] EXCEPT !.calm = FALSE]
    BY <2>2 DEF Disturbed
  <2>4. \A f \in Evals \ {e} : eval'[f] = eval[f]
    BY <1>5 DEF Clear, AfterPause, Settle, Step, AllSound
  <2>5. eval'[e].pc # "clearing"
    <3>1. Sound(eval[e])
      BY DEF AllSound
    <3>2. [eval[e] EXCEPT !.pc = "listing"].pc = "listing"
      BY <3>1 DEF Sound, Evaluation
    <3>3. \A out : [Idle EXCEPT !.pc = "done", !.out = out].pc = "done"
      BY DEF Idle
    <3>4. \/ eval'[e] = [eval[e] EXCEPT !.pc = "listing"]
          \/ \E out : eval'[e] = [Idle EXCEPT !.pc = "done", !.out = out]
      BY <1>5 DEF Clear, AfterPause, Settle, Step, AllSound
    <3>. QED  BY <3>2, <3>3, <3>4
  <2>6. Fine(e)'
    BY <1>3, <2>1, <2>2, <2>3, <2>5 DEF Pausing
  <2>7. \A f \in Evals \ {e} : Fine(f)'
    BY <1>1, <1>2, <2>1, <2>3, <2>4
  <2>8. ~lost' => promised' <= clock'
    BY <2>1, <2>2 DEF Pausing
  <2>. QED  BY <2>6, <2>7, <2>8 DEF Pausing
<1>6. ASSUME NEW e \in Evals,
             \/ ReadRules(e) \/ ReadCooldown(e) \/ LookUp(e) \/ Ask(e)
             \/ ModelReturns(e) \/ TouchCooldown(e)
      PROVE  Pausing'
  <2>1. UNCHANGED <<clock, config, promised, serial, lost>>
    BY <1>6 DEF ReadRules, ReadCooldown, LookUp, Ask, ModelReturns, TouchCooldown
  <2>2. Running(e) /\ eval[e].pc # "clearing"
    BY <1>6 DEF ReadRules, ReadCooldown, LookUp, Ask, ModelReturns, TouchCooldown, Running
  <2>3. \A f \in Evals : ghost'[f].seen = ghost[f].seen /\ ghost'[f].under = ghost[f].under
    <3>1. CASE TouchCooldown(e)
      <4>1. \A f \in Evals : \/ ghost'[f] = ghost[f]
                             \/ \E b \in BOOLEAN :
                                   ghost'[f] = [ghost[f] EXCEPT !.calm = FALSE, !.crossed = b]
        BY <3>1 DEF TouchCooldown
      <4>. QED  BY <1>2, <4>1
    <3>2. CASE UNCHANGED ghost
      BY <3>2
    <3>. QED  BY <1>6, <3>1, <3>2 DEF ReadRules, ReadCooldown, LookUp, Ask, ModelReturns
  <2>4. \A f \in Evals \ {e} : eval'[f] = eval[f]
    BY <1>6 DEF ReadRules, ReadCooldown, LookUp, Ask, ModelReturns, TouchCooldown,
       Answer, Settle, Step, AllSound
  <2>5. eval'[e].pc # "clearing"
    <3>1. eval[e] \in Evaluation
      BY DEF AllSound
    <3>2. \A out : [Idle EXCEPT !.pc = "done", !.out = out].pc = "done"
      BY DEF Idle
    <3>3. \A r \in Evaluation : \A out : [r EXCEPT !.pc = "touching", !.out = out].pc = "touching"
      BY DEF Evaluation
    <3>4. \A r \in Evaluation, pc \in PCs : [r EXCEPT !.pc = pc].pc = pc
      BY DEF Evaluation
    <3>5. ASSUME NEW r \in Evaluation, NEW out, Answer(e, r, out) PROVE eval'[e].pc # "clearing"
      <4>1. \/ eval'[e] = [r EXCEPT !.pc = "touching", !.out = out]
            \/ eval'[e] = [Idle EXCEPT !.pc = "done", !.out = out]
        BY <3>5 DEF Answer, Settle, Step, AllSound
      <4>. QED  BY <3>2, <3>3, <4>1
    <3>6. CASE ReadRules(e)
      <4>. DEFINE rule == FirstRule(rules, eval[e].from, eval[e].text)
                  pc   == IF rule # 0 /\ rules[rule].cool > 0 THEN "cooling" ELSE "persona"
      <4>1. eval'[e] = [eval[e] EXCEPT !.table = rules, !.now = clock, !.rule = rule, !.pc = pc]
        BY <3>6 DEF ReadRules, Step, AllSound
      <4>2. pc # "clearing"
        OBVIOUS
      <4>. HIDE DEF pc, rule
      <4>3. eval'[e].pc = pc
        BY <3>1, <4>1 DEF Evaluation
      <4>. QED  BY <4>2, <4>3
    <3>7. CASE ReadCooldown(e)
      <4>1. \/ eval'[e] = [Idle EXCEPT !.pc = "done", !.out = Silent]
            \/ eval'[e] = [eval[e] EXCEPT !.pc = "persona"]
        BY <3>7 DEF ReadCooldown, Settle, Step, AllSound
      <4>. QED  BY <3>1, <3>2, <3>4, <4>1 DEF PCs
    <3>8. CASE LookUp(e)
      <4>. DEFINE found == personas[eval[e].from][eval[e].look]
                  d == [eval[e] EXCEPT !.opinion = found]
      <4>1. found \in Opinions
        BY <3>1, <2>2 DEF Data, Evaluation, AllSound, Sound, Running
      <4>2. d \in Evaluation
        BY <3>1, <4>1 DEF Evaluation
      <4>3. \/ eval'[e] = [eval[e] EXCEPT !.look = @ + 1]
            \/ eval'[e] = [d EXCEPT !.pc = "reading"]
            \/ Answer(e, d, WithoutModel(d.cfg, d.table, d.rule))
        BY <3>8 DEF LookUp, Step, AllSound
      <4>4. [eval[e] EXCEPT !.look = @ + 1].pc = eval[e].pc
        BY <3>1 DEF Evaluation
      <4>. HIDE DEF d
      <4>5. CASE eval'[e] = [eval[e] EXCEPT !.look = @ + 1]
        BY <2>2, <4>4, <4>5
      <4>6. CASE eval'[e] = [d EXCEPT !.pc = "reading"]
        BY <3>4, <4>2, <4>6 DEF PCs
      <4>7. CASE Answer(e, d, WithoutModel(d.cfg, d.table, d.rule))
        BY <3>5, <4>2, <4>7
      <4>. QED  BY <4>3, <4>5, <4>6, <4>7
    <3>9. CASE Ask(e)
      <4>1. eval'[e] = [eval[e] EXCEPT !.pc = "asking"]
        BY <3>9 DEF Ask, Step, AllSound
      <4>. QED  BY <3>1, <3>4, <4>1 DEF PCs
    <3>10. CASE ModelReturns(e)
      BY <3>1, <3>5, <3>10 DEF ModelReturns
    <3>11. CASE TouchCooldown(e)
      <4>1. eval'[e] = [Idle EXCEPT !.pc = "done", !.out = eval[e].out]
        BY <3>11 DEF TouchCooldown, Settle, Step, AllSound
      <4>. QED  BY <3>2, <4>1
    <3>. QED  BY <1>6, <3>6, <3>7, <3>8, <3>9, <3>10, <3>11
  <2>6. Fine(e)'
    BY <1>3, <2>1, <2>2, <2>3, <2>5 DEF Pausing
  <2>7. \A f \in Evals \ {e} : Fine(f)'
    BY <1>1, <2>1, <2>3, <2>4
  <2>. QED  BY <2>1, <2>6, <2>7 DEF Pausing
<1>7. CASE Editing
  <2>1. UNCHANGED <<clock, eval>> /\ \A f \in Evals : ghost'[f] = [ghost[f] EXCEPT !.calm = FALSE]
    BY <1>7 DEF Editing, Edit, Configure, AddRule, ChangeRule, ChangePersona, OwnerSays
  <2>2. CASE UNCHANGED <<promised, serial, lost>> /\ config'.until = config.until
    BY <1>1, <1>2, <2>1, <2>2 DEF Pausing
  <2>3. ASSUME NEW message \in OwnerMessages, OwnerSays(message),
               Parse(message) \in {"on", "pause"}
        PROVE  Pausing'
    <3>1. promised' = config'.until /\ serial' = serial + 1
      BY <2>3 DEF OwnerSays
    <3>2. ASSUME NEW f \in Evals PROVE Fine(f)'
      <4>1. ghost'[f].seen = ghost[f].seen /\ ghost'[f].under = ghost[f].under
        BY <1>2, <2>1
      <4>2. ghost[f].seen <= serial /\ ghost[f].seen \in Nat
        BY <1>0 DEF Pausing
      <4>3. ghost'[f].seen <= serial' /\ ghost'[f].seen # serial'
        BY <1>0, <3>1, <4>1, <4>2
      <4>4. ghost'[f].under => eval'[f].pc = "done" /\ eval'[f].out = Silent
        BY <2>1, <4>1 DEF Pausing
      <4>. QED  BY <4>3, <4>4
    <3>. QED  BY <3>1, <3>2 DEF Pausing
  <2>4. ASSUME NEW message \in OwnerMessages, OwnerSays(message),
               Parse(message) \notin {"on", "pause"}
        PROVE  UNCHANGED <<promised, serial, lost>> /\ config'.until = config.until
    BY <2>4, ObeyType DEF OwnerSays
  <2>5. CASE Configure
    <3>1. PICK c \in Configs : config' = [c EXCEPT !.until = config.until]
      BY <2>5, DecisionAssumption DEF Configure, DecisionAssumption
    <3>2. config'.until = config.until
      BY <1>0, <3>1, ConfigUntil
    <3>. QED  BY <2>2, <2>5, <3>2 DEF Configure
  <2>6. CASE AddRule \/ ChangeRule \/ ChangePersona
    BY <2>2, <2>6 DEF AddRule, ChangeRule, ChangePersona
  <2>. QED  BY <1>7, <2>2, <2>3, <2>4, <2>5, <2>6 DEF Editing
<1>8. CASE Tick
  <2>1. /\ clock' = clock + 1 /\ UNCHANGED <<config, eval, promised, serial, lost>>
        /\ \A f \in Evals : ghost'[f] = [ghost[f] EXCEPT !.calm = FALSE]
    BY <1>8 DEF Tick
  <2>2. ASSUME NEW f \in Evals PROVE Fine(f)'
    <3>1. ghost'[f].seen = ghost[f].seen /\ ghost'[f].under = ghost[f].under /\ eval'[f] = eval[f]
      BY <1>2, <2>1
    <3>2. promised <= clock => promised' <= clock'
      BY <1>0, <2>1
    <3>3. ghost[f].seen <= serial
      BY DEF Pausing
    <3>4. eval[f].pc = "clearing" /\ ghost[f].seen = serial /\ ~lost => promised <= clock
      BY DEF Pausing
    <3>5. ghost[f].under => eval[f].pc = "done" /\ eval[f].out = Silent
      BY DEF Pausing
    <3>. QED  BY <2>1, <3>1, <3>2, <3>3, <3>4, <3>5
  <2>3. ~lost' => config'.until = promised' \/ promised' <= clock'
    BY <1>0, <2>1 DEF Pausing
  <2>. QED  BY <2>2, <2>3 DEF Pausing
<1>9. CASE UNCHANGED vars
  BY <1>9 DEF vars, Pausing
<1>. QED  BY <1>4, <1>5, <1>6, <1>7, <1>8, <1>9 DEF Next, Evaluating

\* However the configuration is edited and however evaluations overlap, a message
\* that comes during the owner's pause is not answered unless an evaluation that
\* had not seen the pause has cleared it.
THEOREM PausesHold == Spec => []PauseHolds
<1>1. Init => Pausing
  <2>. SUFFICES ASSUME Init PROVE Pausing
    OBVIOUS
  <2>1. \A e \in Evals : ghost[e].seen = 0 /\ ~ghost[e].under /\ eval[e].pc = "idle"
    BY DEF Init, NoGhost, Idle
  <2>. QED  BY <2>1 DEF Init, Pausing
<1>2. Pausing => PauseHolds
  BY DEF Pausing, PauseHolds
<1>3. Spec => [](Data /\ Records /\ AllSound)
  BY DecisionTypes, TypeParts, PTL
<1>. QED  BY <1>1, <1>2, <1>3, PausingStep, PTL DEF Spec

-----------------------------------------------------------------------------
(* Cooldowns.  A stamp is the time of the last firing it is about, and an    *)
(* evaluation that has passed the check, and has not been overtaken since,   *)
(* is as far from every firing as its rule's cooldown asks.                  *)

Of(x, rule, from) == x.rule = rule /\ x.from = from

Stamped ==
    \A rule \in RuleIds, from \in Contacts :
        IF stamps[rule][from] = None
        THEN \A k \in 1..Len(fired) : ~Of(fired[k], rule, from)
        ELSE \E n \in 1..Len(fired) :
                /\ Of(fired[n], rule, from) /\ fired[n].now = stamps[rule][from]
                /\ \A k \in n+1..Len(fired) : ~Of(fired[k], rule, from)

\* All firings since the i-th one of that rule and contact were alone.
AloneSince(i, rule, from) ==
    /\ i \in 1..Len(fired) /\ Of(fired[i], rule, from)
    /\ \A k \in i+1..Len(fired) : Of(fired[k], rule, from) => fired[k].alone

Spaced(e) ==
    eval[e].pc \in Cleared /\ eval[e].rule # 0 /\ ~ghost[e].crossed
       /\ eval[e].table[eval[e].rule].cool > 0
    => \A i : AloneSince(i, eval[e].rule, eval[e].from)
              => eval[e].now - fired[i].now >= eval[e].table[eval[e].rule].cool

Cooling == Stamped /\ CooldownKept /\ \A e \in Evals : Spaced(e)

LEMMA FiringParts ==
    ASSUME Records
    PROVE  /\ Len(fired) \in Nat
           /\ \A i \in 1..Len(fired) :
                 /\ fired[i] \in Firing /\ fired[i].now \in Nat /\ fired[i].cool \in Nat
                 /\ fired[i].alone \in BOOLEAN
<1>1. fired \in Seq(Firing)
  BY DEF Records
<1>2. \A i \in 1..Len(fired) : fired[i] \in Firing
  BY <1>1
<1>3. \A x \in Firing : x.now \in Nat /\ x.cool \in Nat
  BY DEF Firing, Times
<1>4. \A x \in Firing : x.alone \in BOOLEAN
  BY DEF Firing
<1>. QED  BY <1>1, <1>2, <1>3, <1>4

\* Evaluations that are not past the check, or were there before the step.
LEMMA SpacedKept ==
    ASSUME Cooling, NEW f \in Evals, UNCHANGED fired,
           eval'[f].pc \in Cleared /\ eval'[f].rule # 0 /\ eval'[f].table[eval'[f].rule].cool > 0 =>
              /\ eval[f].pc \in Cleared
              /\ eval'[f].rule = eval[f].rule /\ eval'[f].from = eval[f].from
              /\ eval'[f].table = eval[f].table /\ eval'[f].now = eval[f].now,
           eval'[f].pc \in Cleared => ghost'[f].crossed = ghost[f].crossed
    PROVE  Spaced(f)'
<1>1. \A i, rule, from : AloneSince(i, rule, from)' <=> AloneSince(i, rule, from)
  BY DEF AloneSince
<1>. QED  BY <1>1 DEF Cooling, Spaced

LEMMA StampedKept ==
    ASSUME Cooling, UNCHANGED <<fired, stamps>>
    PROVE  Stamped' /\ CooldownKept'
BY DEF Cooling, Stamped, CooldownKept

\* Passing the check.
LEMMA CheckSpaces ==
    ASSUME Data, Records, AllSound, Cooling, NEW e \in Evals, eval[e].pc = "cooling",
           LET last == stamps[eval[e].rule][eval[e].from] IN
           ~(last # None /\ eval[e].now - last < eval[e].table[eval[e].rule].cool),
           NEW i, AloneSince(i, eval[e].rule, eval[e].from)
    PROVE  eval[e].now - fired[i].now >= eval[e].table[eval[e].rule].cool
<1>. DEFINE rule == eval[e].rule
            from == eval[e].from
            cool == eval[e].table[eval[e].rule].cool
<1>0. /\ rule \in RuleIds /\ from \in Contacts /\ eval[e].now \in Nat /\ cool \in Nat
  <2>1. Sound(eval[e])
    BY DEF AllSound
  <2>2. rule \in RuleIds /\ from \in Contacts /\ eval[e].now \in Nat
    BY <2>1 DEF Sound, Evaluation, Times
  <2>3. eval[e].table[rule] \in Rules
    BY <2>1 DEF Sound, Matched
  <2>. QED  BY <2>2, <2>3 DEF Rules
<1>. HIDE DEF rule, from, cool
<1>1. i \in 1..Len(fired) /\ Of(fired[i], rule, from)
  BY DEF AloneSince, rule, from
<1>2. stamps[rule][from] # None
  BY <1>0, <1>1 DEF Cooling, Stamped
<1>3. PICK n \in 1..Len(fired) :
         /\ Of(fired[n], rule, from) /\ fired[n].now = stamps[rule][from]
         /\ \A k \in n+1..Len(fired) : ~Of(fired[k], rule, from)
  BY <1>0, <1>2 DEF Cooling, Stamped
<1>4. eval[e].now - fired[n].now >= cool
  <2>1. ~(eval[e].now - fired[n].now < cool)
    BY <1>2, <1>3 DEF rule, from, cool
  <2>2. eval[e].now \in Int /\ fired[n].now \in Int /\ cool \in Int
    BY <1>0, <1>3, FiringParts
  <2>. QED  BY <2>1, <2>2
<1>5. i <= n
  BY <1>1, <1>3, FiringParts
<1>6. fired[n].now - fired[i].now >= 0
  <2>1. CASE i = n
    BY <2>1, <1>1, FiringParts
  <2>2. CASE i # n
    <3>1. i < n /\ i \in 1..Len(fired)
      BY <1>1, <1>3, <1>5, <2>2, FiringParts
    <3>2. \A k \in i+1..n : Of(fired[k], rule, from) => fired[k].alone
      <4>1. \A k \in i+1..Len(fired) : Of(fired[k], rule, from) => fired[k].alone
        BY DEF AloneSince, rule, from
      <4>2. i+1..n \subseteq i+1..Len(fired)
        BY <1>1, <1>3, FiringParts
      <4>. QED  BY <4>1, <4>2
    <3>3. fired[i].rule = fired[n].rule /\ fired[i].from = fired[n].from
      BY <1>1, <1>3 DEF Of
    <3>4. \A k \in i+1..n :
             fired[k].rule = fired[n].rule /\ fired[k].from = fired[n].from => fired[k].alone
      BY <1>3, <3>2 DEF Of
    <3>5. fired[n].now - fired[i].now >= fired[n].cool
      BY <3>1, <3>3, <3>4 DEF Cooling, CooldownKept
    <3>. QED  BY <1>1, <1>3, <3>5, FiringParts
  <2>. QED  BY <2>1, <2>2
<1>7. eval[e].now \in Int /\ fired[n].now \in Int /\ fired[i].now \in Int /\ cool \in Int
  BY <1>0, <1>1, <1>3, FiringParts
<1>8. eval[e].now - fired[i].now >= cool
  BY <1>4, <1>6, <1>7
<1>. QED  BY <1>8 DEF cool

\* An evaluation that is done, or not as far as the check, is not meant.
LEMMA NotPast ==
    ASSUME NEW e \in Evals, eval[e].pc \notin Cleared
    PROVE  Spaced(e)
BY DEF Spaced

LEMMA Others ==
    ASSUME Cooling, UNCHANGED fired, NEW e \in Evals,
           \A f \in Evals \ {e} : eval'[f] = eval[f] /\ ghost'[f].crossed = ghost[f].crossed
    PROVE  \A f \in Evals \ {e} : Spaced(f)'
BY SpacedKept

\* The steps of an evaluation past the check.
LEMMA OnwardsSpaced ==
    ASSUME Data, Records, AllSound, Cooling, NEW e \in Evals,
           LookUp(e) \/ Ask(e) \/ ModelReturns(e)
    PROVE  Spaced(e)'
<1>. DEFINE Onwards == eval'[e].pc \in Cleared =>
               /\ eval'[e].rule = eval[e].rule /\ eval'[e].from = eval[e].from
               /\ eval'[e].table = eval[e].table /\ eval'[e].now = eval[e].now
<1>0. eval[e].pc \in Cleared /\ UNCHANGED <<fired, ghost>>
  BY DEF LookUp, Ask, ModelReturns, Cleared
<1>1. eval[e] \in Evaluation
  BY DEF AllSound
<1>2. ASSUME NEW out, Settle(e, out) PROVE Onwards
  <2>1. eval'[e] = [Idle EXCEPT !.pc = "done", !.out = out]
    BY <1>2 DEF Settle, Step, AllSound
  <2>2. eval'[e].pc = "done"
    BY <2>1 DEF Idle
  <2>. QED  BY <2>2 DEF Cleared
<1>3. ASSUME NEW r \in Evaluation, NEW out, Answer(e, r, out),
             r.rule = eval[e].rule, r.from = eval[e].from, r.table = eval[e].table,
             r.now = eval[e].now
      PROVE  Onwards
  <2>1. CASE Step(e, [r EXCEPT !.pc = "touching", !.out = out])
    <3>1. eval'[e] = [r EXCEPT !.pc = "touching", !.out = out]
      BY <2>1 DEF Step, AllSound
    <3>. QED  BY <1>3, <3>1 DEF Evaluation
  <2>. QED  BY <1>2, <1>3, <2>1 DEF Answer
<1>4. ASSUME LookUp(e) PROVE Onwards
  <2>. DEFINE found == personas[eval[e].from][eval[e].look]
              d == [eval[e] EXCEPT !.opinion = found]
  <2>1. found \in Opinions
    BY <1>1, <1>4 DEF Data, Evaluation, AllSound, Sound, LookUp
  <2>2. /\ d \in Evaluation /\ d.rule = eval[e].rule /\ d.from = eval[e].from
        /\ d.table = eval[e].table /\ d.now = eval[e].now
    BY <1>1, <2>1 DEF Evaluation
  <2>3. \/ eval'[e] = [eval[e] EXCEPT !.look = @ + 1]
        \/ eval'[e] = [d EXCEPT !.pc = "reading"]
        \/ Answer(e, d, WithoutModel(d.cfg, d.table, d.rule))
    BY <1>4 DEF LookUp, Step, AllSound
  <2>4. CASE eval'[e] = [eval[e] EXCEPT !.look = @ + 1]
    BY <1>1, <2>4 DEF Evaluation
  <2>. HIDE DEF d
  <2>5. CASE eval'[e] = [d EXCEPT !.pc = "reading"]
    BY <2>2, <2>5 DEF Evaluation
  <2>6. CASE Answer(e, d, WithoutModel(d.cfg, d.table, d.rule))
    BY <1>3, <2>2, <2>6
  <2>. QED  BY <2>3, <2>4, <2>5, <2>6
<1>5. ASSUME Ask(e) PROVE Onwards
  <2>1. eval'[e] = [eval[e] EXCEPT !.pc = "asking"]
    BY <1>5 DEF Ask, Step, AllSound
  <2>. QED  BY <1>1, <2>1 DEF Evaluation
<1>6. ASSUME ModelReturns(e) PROVE Onwards
  BY <1>1, <1>3, <1>6 DEF ModelReturns
<1>7. Onwards
  BY <1>4, <1>5, <1>6
<1>. QED  BY <1>0, <1>7, SpacedKept

\* A stamp: the others are overtaken, or are not concerned.
LEMMA TouchSpaces ==
    ASSUME Data, Records, AllSound, Cooling, NEW e \in Evals, TouchCooldown(e)
    PROVE  Cooling'
<1>. DEFINE rule == eval[e].rule
            from == eval[e].from
            cool == eval[e].table[eval[e].rule].cool
            n    == Len(fired) + 1
            x    == [rule |-> rule, from |-> from, now |-> eval[e].now, cool |-> cool,
                     alone |-> ~ghost[e].crossed]
<1>0. eval[e].pc = "touching" /\ eval[e].pc \in Cleared
  BY DEF TouchCooldown, Cleared
<1>1. /\ rule \in RuleIds /\ from \in Contacts /\ eval[e].now \in Times /\ x \in Firing
      /\ cool > 0 /\ rule # 0
  BY <1>0, StampType DEF AllSound, Sound
<1>2. fired' = Append(fired, x) /\ stamps' = [stamps EXCEPT ![rule][from] = eval[e].now]
  BY DEF TouchCooldown
<1>3. /\ Len(fired) \in Nat /\ Len(fired') = n /\ fired'[n] = x
      /\ \A i \in 1..Len(fired) : fired'[i] = fired[i]
  BY <1>1, <1>2 DEF Records
<1>4. x.rule = rule /\ x.from = from /\ x.now = eval[e].now /\ x.cool = cool
      /\ x.alone = ~ghost[e].crossed
  OBVIOUS
<1>. HIDE DEF x
<1>5. \A r, c : Of(x, r, c) <=> r = rule /\ c = from
  BY <1>4 DEF Of
<1>6. Stamped'
  <2>. SUFFICES ASSUME NEW r \in RuleIds, NEW c \in Contacts
       PROVE  IF stamps'[r][c] = None
              THEN \A k \in 1..Len(fired') : ~Of(fired'[k], r, c)
              ELSE \E m \in 1..Len(fired') :
                      /\ Of(fired'[m], r, c) /\ fired'[m].now = stamps'[r][c]
                      /\ \A k \in m+1..Len(fired') : ~Of(fired'[k], r, c)
    BY DEF Stamped
  <2>1. CASE r = rule /\ c = from
    <3>1. stamps'[r][c] = eval[e].now
      BY <1>1, <1>2, <2>1 DEF Records
    <3>2. stamps'[r][c] # None
      BY <1>1, <3>1, DecisionAssumption DEF DecisionAssumption, Times
    <3>3. n \in 1..Len(fired') /\ Of(fired'[n], r, c) /\ fired'[n].now = stamps'[r][c]
      BY <1>3, <1>4, <1>5, <2>1, <3>1
    <3>4. \A k \in n+1..Len(fired') : ~Of(fired'[k], r, c)
      BY <1>3
    <3>. QED  BY <3>2, <3>3, <3>4
  <2>2. CASE ~(r = rule /\ c = from)
    <3>1. stamps'[r][c] = stamps[r][c]
      BY <1>1, <1>2, <2>2 DEF Records
    <3>2. ~Of(fired'[n], r, c)
      BY <1>3, <1>5, <2>2
    <3>3. CASE stamps[r][c] = None
      <4>1. \A k \in 1..Len(fired) : ~Of(fired[k], r, c)
        BY <3>3 DEF Cooling, Stamped
      <4>2. \A k \in 1..Len(fired') : k \in 1..Len(fired) \/ k = n
        BY <1>3
      <4>3. \A k \in 1..Len(fired') : ~Of(fired'[k], r, c)
        BY <1>3, <3>2, <4>1, <4>2
      <4>. QED  BY <3>1, <3>3, <4>3
    <3>4. CASE stamps[r][c] # None
      <4>1. PICK m \in 1..Len(fired) :
               /\ Of(fired[m], r, c) /\ fired[m].now = stamps[r][c]
               /\ \A k \in m+1..Len(fired) : ~Of(fired[k], r, c)
        BY <3>4 DEF Cooling, Stamped
      <4>2. m \in 1..Len(fired') /\ fired'[m] = fired[m]
        BY <1>3
      <4>3. \A k \in m+1..Len(fired') :
               k = n \/ (k \in m+1..Len(fired) /\ k \in 1..Len(fired))
        BY <1>3
      <4>4. \A k \in m+1..Len(fired') : ~Of(fired'[k], r, c)
        BY <1>3, <3>2, <4>1, <4>3
      <4>5. Of(fired'[m], r, c) /\ fired'[m].now = stamps'[r][c]
        BY <3>1, <4>1, <4>2
      <4>. QED  BY <3>1, <3>4, <4>2, <4>4, <4>5
    <3>. QED  BY <3>3, <3>4
  <2>. QED  BY <2>1, <2>2
\* What was alone since the i-th firing was so before this one.
<1>7. ASSUME NEW r, NEW c, NEW i \in 1..Len(fired), AloneSince(i, r, c)'
      PROVE  AloneSince(i, r, c)
  <2>1. Of(fired[i], r, c)
    BY <1>3, <1>7 DEF AloneSince
  <2>2. \A k \in i+1..Len(fired) : k \in 1..Len(fired) /\ k \in i+1..Len(fired')
    BY <1>3
  <2>3. \A k \in i+1..Len(fired) : Of(fired[k], r, c) => fired[k].alone
    BY <1>3, <1>7, <2>2 DEF AloneSince
  <2>. QED  BY <2>1, <2>3 DEF AloneSince
<1>8. CooldownKept'
  <2>. SUFFICES ASSUME NEW i \in 1..Len(fired'), NEW j \in 1..Len(fired'), i < j,
                       fired'[i].rule = fired'[j].rule, fired'[i].from = fired'[j].from,
                       \A k \in i+1..j : fired'[k].rule = fired'[j].rule
                             /\ fired'[k].from = fired'[j].from => fired'[k].alone
                PROVE  fired'[j].now - fired'[i].now >= fired'[j].cool
    BY DEF CooldownKept
  <2>0. i \in 1..Len(fired) /\ fired'[i] = fired[i]
    BY <1>3
  <2>1. CASE j # n
    <3>1. j \in 1..Len(fired) /\ fired'[j] = fired[j]
      BY <1>3, <2>1
    <3>2. \A k \in i+1..j : k \in 1..Len(fired) /\ fired'[k] = fired[k]
      BY <1>3, <2>0, <3>1
    <3>3. \A k \in i+1..j : fired[k].rule = fired[j].rule
                             /\ fired[k].from = fired[j].from => fired[k].alone
      BY <3>1, <3>2
    <3>4. fired[i].rule = fired[j].rule /\ fired[i].from = fired[j].from
      BY <2>0, <3>1
    <3>5. fired[j].now - fired[i].now >= fired[j].cool
      BY <2>0, <3>1, <3>3, <3>4 DEF Cooling, CooldownKept
    <3>. QED  BY <2>0, <3>1, <3>5
  <2>2. CASE j = n
    <3>1. fired'[j] = x /\ n \in i+1..j
      BY <1>3, <2>0, <2>2
    <3>2. x.alone
      BY <3>1, <2>2
    <3>3. ~ghost[e].crossed
      BY <1>4, <3>2
    <3>4. Of(fired[i], rule, from)
      BY <1>4, <2>0, <3>1 DEF Of
    <3>5. \A k \in i+1..Len(fired) : k \in i+1..j /\ fired'[k] = fired[k]
      BY <1>3, <2>0, <2>2
    <3>6. \A k \in i+1..Len(fired) : Of(fired[k], rule, from) => fired[k].alone
      BY <1>4, <3>1, <3>5 DEF Of
    <3>7. AloneSince(i, rule, from)
      BY <2>0, <3>4, <3>6 DEF AloneSince
    <3>8. eval[e].now - fired[i].now >= cool
      BY <1>0, <1>1, <3>3, <3>7 DEF Cooling, Spaced
    <3>. QED  BY <1>4, <2>0, <3>1, <3>8
  <2>. QED  BY <2>1, <2>2
<1>9. ASSUME NEW f \in Evals PROVE Spaced(f)'
  <2>1. CASE f = e
    <3>1. eval'[e] = [Idle EXCEPT !.pc = "done", !.out = eval[e].out]
      BY DEF TouchCooldown, Settle, Step, AllSound
    <3>2. eval'[f].pc \notin Cleared
      BY <2>1, <3>1 DEF Idle, Cleared
    <3>. QED  BY <3>2 DEF Spaced
  <2>2. CASE f # e
    <3>. DEFINE b == /\ eval[f].pc \in Cleared
                     /\ eval[f].rule = eval[e].rule /\ eval[f].from = eval[e].from
    <3>1. eval'[f] = eval[f]
      BY <2>2 DEF TouchCooldown, Settle, Step, AllSound
    <3>2. ghost'[f] = [ghost[f] EXCEPT !.calm = FALSE, !.crossed = @ \/ b]
      BY <2>2 DEF TouchCooldown
    <3>3. ghost'[f].crossed = (ghost[f].crossed \/ b)
      BY <3>2 DEF Records, GhostRecord
    <3>4. ASSUME eval'[f].pc \in Cleared, eval'[f].rule # 0, ~ghost'[f].crossed,
                 eval'[f].table[eval'[f].rule].cool > 0,
                 NEW i, AloneSince(i, eval[f].rule, eval[f].from)'
          PROVE  eval'[f].now - fired'[i].now >= eval'[f].table[eval'[f].rule].cool
      <4>1. ~ghost[f].crossed /\ ~b
        BY <3>3, <3>4
      <4>2. ~(eval[f].rule = rule /\ eval[f].from = from)
        BY <3>1, <3>4, <4>1
      <4>3. i \in 1..Len(fired') /\ Of(fired'[i], eval[f].rule, eval[f].from)
        BY <3>1, <3>4 DEF AloneSince
      <4>4. i \in 1..Len(fired)
        BY <1>3, <1>5, <4>2, <4>3
      <4>5. AloneSince(i, eval[f].rule, eval[f].from)
        BY <1>7, <3>1, <3>4, <4>4
      <4>6. eval[f].now - fired[i].now >= eval[f].table[eval[f].rule].cool
        BY <3>1, <3>4, <4>1, <4>5 DEF Cooling, Spaced
      <4>. QED  BY <1>3, <3>1, <4>4, <4>6
    <3>. QED  BY <3>4 DEF Spaced
  <2>. QED  BY <2>1, <2>2
<1>. QED  BY <1>6, <1>8, <1>9 DEF Cooling

LEMMA CoolingStep == Data /\ Records /\ AllSound /\ Cooling /\ [Next]_vars => Cooling'
<1>. SUFFICES ASSUME Data, Records, AllSound, Cooling, [Next]_vars PROVE Cooling'
  OBVIOUS
<1>1. ASSUME NEW f \in Evals
      PROVE  [ghost[f] EXCEPT !.calm = FALSE].crossed = ghost[f].crossed
  BY DEF Records, GhostRecord
<1>2. ASSUME UNCHANGED <<fired, stamps>>, NEW e \in Evals, Spaced(e)',
             \A f \in Evals \ {e} : eval'[f] = eval[f] /\ ghost'[f].crossed = ghost[f].crossed
      PROVE  Cooling'
  BY <1>2, StampedKept, Others DEF Cooling
<1>3. ASSUME UNCHANGED <<fired, stamps, eval>>,
             \A f \in Evals : ghost'[f].crossed = ghost[f].crossed
      PROVE  Cooling'
  BY <1>3, StampedKept, SpacedKept DEF Cooling
<1>4. ASSUME NEW e \in Evals, NEW from \in Contacts, NEW text \in Texts, ReadConfig(e, from, text)
      PROVE  Cooling'
  <2>1. \A f \in Evals \ {e} : eval'[f] = eval[f] /\ ghost'[f].crossed = ghost[f].crossed
    BY <1>4 DEF ReadConfig, AfterPause, Settle, Step, AllSound, Records
  <2>2. eval'[e].pc \notin Cleared
    <3>. DEFINE r == [Idle EXCEPT !.pc = "clearing", !.from = from, !.text = text, !.cfg = config]
    <3>1. \/ eval'[e] = r \/ eval'[e] = [r EXCEPT !.pc = "listing"]
          \/ \E out : eval'[e] = [Idle EXCEPT !.pc = "done", !.out = out]
      BY <1>4 DEF ReadConfig, AfterPause, Settle, Step, AllSound
    <3>2. r.pc = "clearing" /\ [r EXCEPT !.pc = "listing"].pc = "listing"
          /\ \A out : [Idle EXCEPT !.pc = "done", !.out = out].pc = "done"
      BY DEF Idle
    <3>. QED  BY <3>1, <3>2 DEF Cleared
  <2>3. Spaced(e)'
    BY <2>2 DEF Spaced
  <2>. QED  BY <1>2, <1>4, <2>1, <2>3 DEF ReadConfig
<1>5. ASSUME NEW e \in Evals, Clear(e) PROVE Cooling'
  <2>1. \A f \in Evals \ {e} : eval'[f] = eval[f] /\ ghost'[f].crossed = ghost[f].crossed
    BY <1>1, <1>5 DEF Clear, Disturbed, AfterPause, Settle, Step, AllSound
  <2>2. eval'[e].pc \notin Cleared
    <3>1. \/ eval'[e] = [eval[e] EXCEPT !.pc = "listing"]
          \/ \E out : eval'[e] = [Idle EXCEPT !.pc = "done", !.out = out]
      BY <1>5 DEF Clear, AfterPause, Settle, Step, AllSound
    <3>2. [eval[e] EXCEPT !.pc = "listing"].pc = "listing"
          /\ \A out : [Idle EXCEPT !.pc = "done", !.out = out].pc = "done"
      BY DEF Idle, AllSound, Evaluation
    <3>. QED  BY <3>1, <3>2 DEF Cleared
  <2>3. Spaced(e)'
    BY <2>2 DEF Spaced
  <2>. QED  BY <1>2, <1>5, <2>1, <2>3 DEF Clear
<1>6. ASSUME NEW e \in Evals, ReadRules(e) PROVE Cooling'
  <2>. DEFINE rule == FirstRule(rules, eval[e].from, eval[e].text)
              pc   == IF rule # 0 /\ rules[rule].cool > 0 THEN "cooling" ELSE "persona"
  <2>1. \A f \in Evals \ {e} : eval'[f] = eval[f] /\ ghost'[f].crossed = ghost[f].crossed
    BY <1>6 DEF ReadRules, Step, AllSound
  <2>2. eval'[e] = [eval[e] EXCEPT !.table = rules, !.now = clock, !.rule = rule, !.pc = pc]
    BY <1>6 DEF ReadRules, Step, AllSound
  <2>3. pc = "cooling" \/ ~(rule # 0 /\ rules[rule].cool > 0)
    OBVIOUS
  <2>. HIDE DEF pc, rule
  <2>4. eval'[e].pc = pc /\ eval'[e].rule = rule /\ eval'[e].table = rules
    BY <2>2 DEF AllSound, Evaluation
  <2>5. Spaced(e)'
    BY <2>3, <2>4 DEF Spaced, Cleared
  <2>. QED  BY <1>2, <1>6, <2>1, <2>5 DEF ReadRules
<1>7. ASSUME NEW e \in Evals, ReadCooldown(e) PROVE Cooling'
  <2>1. \A f \in Evals \ {e} : eval'[f] = eval[f] /\ ghost'[f].crossed = ghost[f].crossed
    BY <1>7 DEF ReadCooldown, Settle, Step, AllSound
  <2>2. eval[e].pc = "cooling" /\ UNCHANGED <<fired, stamps, ghost>>
    BY <1>7 DEF ReadCooldown
  <2>3. CASE LET last == stamps[eval[e].rule][eval[e].from] IN
             last # None /\ eval[e].now - last < eval[e].table[eval[e].rule].cool
    <3>1. eval'[e] = [Idle EXCEPT !.pc = "done", !.out = Silent]
      BY <1>7, <2>3 DEF ReadCooldown, Settle, Step, AllSound
    <3>2. eval'[e].pc \notin Cleared
      BY <3>1 DEF Idle, Cleared
    <3>3. Spaced(e)'
      BY <3>2 DEF Spaced
    <3>. QED  BY <1>2, <2>1, <2>2, <3>3
  <2>4. CASE LET last == stamps[eval[e].rule][eval[e].from] IN
             ~(last # None /\ eval[e].now - last < eval[e].table[eval[e].rule].cool)
    <3>1. eval'[e] = [eval[e] EXCEPT !.pc = "persona"]
      BY <1>7, <2>4 DEF ReadCooldown, Step, AllSound
    <3>2. /\ eval'[e].rule = eval[e].rule /\ eval'[e].from = eval[e].from
          /\ eval'[e].table = eval[e].table /\ eval'[e].now = eval[e].now
      BY <3>1 DEF AllSound, Evaluation
    <3>3. \A i : AloneSince(i, eval[e].rule, eval[e].from)
             => eval[e].now - fired[i].now >= eval[e].table[eval[e].rule].cool
      BY <2>2, <2>4, CheckSpaces
    <3>4. \A i, r, c : AloneSince(i, r, c)' <=> AloneSince(i, r, c)
      BY <2>2 DEF AloneSince
    <3>5. Spaced(e)'
      BY <2>2, <3>2, <3>3, <3>4 DEF Spaced
    <3>. QED  BY <1>2, <2>1, <2>2, <3>5
  <2>. QED  BY <2>3, <2>4
<1>8. ASSUME NEW e \in Evals, LookUp(e) \/ Ask(e) \/ ModelReturns(e) PROVE Cooling'
  <2>1. UNCHANGED <<fired, stamps, ghost>>
    BY <1>8 DEF LookUp, Ask, ModelReturns
  <2>2. \A f \in Evals \ {e} : eval'[f] = eval[f]
    BY <1>8 DEF LookUp, Ask, ModelReturns, Answer, Settle, Step, AllSound
  <2>. QED  BY <1>2, <1>8, <2>1, <2>2, OnwardsSpaced
<1>9. ASSUME NEW e \in Evals, TouchCooldown(e) PROVE Cooling'
  BY <1>9, TouchSpaces
<1>10. CASE Editing
  <2>1. UNCHANGED <<fired, stamps, eval>> /\ \A f \in Evals : ghost'[f] = [ghost[f] EXCEPT !.calm = FALSE]
    BY <1>10 DEF Editing, Edit, Configure, AddRule, ChangeRule, ChangePersona, OwnerSays
  <2>. QED  BY <1>1, <1>3, <2>1
<1>11. CASE Tick
  <2>1. UNCHANGED <<fired, stamps, eval>> /\ \A f \in Evals : ghost'[f] = [ghost[f] EXCEPT !.calm = FALSE]
    BY <1>11 DEF Tick
  <2>. QED  BY <1>1, <1>3, <2>1
<1>12. CASE UNCHANGED vars
  BY <1>3, <1>12 DEF vars
<1>. QED  BY <1>4, <1>5, <1>6, <1>7, <1>8, <1>9, <1>10, <1>11, <1>12 DEF Next, Evaluating

\* Whatever is edited and however many evaluations overlap, a rule answers a
\* contact again within its cooldown only if an evaluation of it was overtaken
\* by another's stamp since.
THEOREM CooldownsKept == Spec => []CooldownKept
<1>1. Init => Cooling
  <2>. SUFFICES ASSUME Init PROVE Cooling
    OBVIOUS
  <2>1. fired = <<>> /\ \A r \in RuleIds, c \in Contacts : stamps[r][c] = None
    BY DEF Init
  <2>2. \A e \in Evals : eval[e].pc \notin Cleared
    BY DEF Init, Idle, Cleared
  <2>. QED  BY <2>1, <2>2 DEF Cooling, Stamped, CooldownKept, Spaced
<1>2. Cooling => CooldownKept
  BY DEF Cooling
<1>3. Spec => [](Data /\ Records /\ AllSound)
  BY DecisionTypes, TypeParts, PTL
<1>. QED  BY <1>1, <1>2, <1>3, CoolingStep, PTL DEF Spec

-----------------------------------------------------------------------------
(* The order of decision.                                                   *)

\* What find_persona_for_jid returns for what its queries find.
Opinion(finds) ==
    LET asked == {k \in 1..Lookups : finds[k] # "none"} IN
    IF asked = {} THEN "none" ELSE finds[CHOOSE k \in asked : \A j \in asked : k <= j]

Blocked(rule, from) ==
    /\ rule # 0 /\ rules[rule].cool > 0 /\ stamps[rule][from] # None
    /\ clock - stamps[rule][from] < rules[rule].cool

AwayReply(cfg) == IF cfg.away THEN [by |-> "away", rule |-> 0] ELSE Silent
ModelReply(rule) == [by |-> "model", rule |-> rule]

\* What can still come out of an unpaused evaluation is allowed.
Covered(r, may) ==
    LET rule == FirstRule(rules, r.from, r.text) IN
    IF Quiet(r.cfg.quiet, clock) THEN AwayReply(r.cfg) \in may
    ELSE IF Blocked(rule, r.from) THEN Silent \in may
    ELSE /\ WithoutModel(r.cfg, rules, rule) \in may
         /\ ModelConfigured /\ WantsModel(r.cfg, rules, rule, Opinion(personas[r.from]))
               => ModelReply(rule) \in may

\* What an evaluation has read is still what is there.
UpToDate(r) ==
    /\ r.pc # "clearing" => ~Quiet(r.cfg.quiet, clock)
    /\ r.pc \notin Cleared => r.look = 1
    /\ r.pc \in Matched =>
          r.table = rules /\ r.now = clock /\ r.rule = FirstRule(rules, r.from, r.text)
    /\ r.pc \in Cleared => ~Blocked(r.rule, r.from)
    /\ r.pc = "persona" => \A k \in 1..r.look-1 : personas[r.from][k] = "none"
    /\ r.pc \in {"reading", "asking"} =>
          ModelConfigured /\ WantsModel(r.cfg, rules, r.rule, Opinion(personas[r.from]))

Fitting(r, may) ==
    /\ r.pc \in {"done", "touching"} => r.out \in may
    /\ r.pc \notin {"idle", "done"} => Covered(r, may) /\ UpToDate(r)

Deciding(e) == ghost[e].calm => Fitting(eval[e], ghost[e].may)

\* It is an opinion, and a persona that blocks the model is the first one found.
LEMMA OpinionIs ==
    ASSUME NEW finds \in [1..Lookups -> Opinions]
    PROVE  /\ Opinion(finds) \in Opinions
           /\ Opinion(finds) = "block" =>
                 \E k \in 1..Lookups : finds[k] = "block" /\ \A j \in 1..k-1 : finds[j] = "none"
<1>. DEFINE asked == {k \in 1..Lookups : finds[k] # "none"}
            y == CHOOSE k \in asked : \A j \in asked : k <= j
<1>0. Lookups \in Nat
  BY DecisionAssumption
<1>1. CASE asked = {}
  BY <1>1 DEF Opinion, Opinions
<1>2. CASE asked # {}
  <2>1. asked \subseteq Nat
    BY <1>0
  <2>2. \E k \in asked : \A j \in asked : k <= j
    <3>. HIDE DEF asked
    <3>. QED  BY <1>2, <2>1, LeastExists
  <2>3. y \in asked /\ \A j \in asked : y <= j
    <3>. HIDE DEF asked
    <3>. QED  BY <2>2
  <2>4. Opinion(finds) = finds[y]
    BY <1>2 DEF Opinion
  <2>. HIDE DEF y
  <2>5. y \in 1..Lookups
    BY <2>3
  <2>6. \A j \in 1..y-1 : finds[j] = "none"
    <3>. SUFFICES ASSUME NEW j \in 1..y-1, finds[j] # "none" PROVE FALSE
      OBVIOUS
    <3>1. j \in asked
      BY <1>0, <2>5
    <3>. HIDE DEF asked
    <3>. QED  BY <1>0, <2>3, <2>5, <3>1
  <2>. QED  BY <2>4, <2>5, <2>6
<1>. QED  BY <1>1, <1>2

LEMMA PossibleRule ==
    ASSUME Data, NEW from, NEW text
    PROVE  LET hits  == Hits(rules, from, text)
               first == {i \in hits : \A j \in hits : rules[i].rank <= rules[j].rank}
           IN  (IF hits = {} THEN 0 ELSE CHOOSE i \in first : \A j \in first : i <= j)
               = FirstRule(rules, from, text)
<1>. DEFINE hits  == Hits(rules, from, text)
            first == {i \in hits : \A j \in hits : rules[i].rank <= rules[j].rank}
            y     == FirstRule(rules, from, text)
<1>0. \A i \in hits : i \in Nat /\ rules[i].rank \in Nat
  BY HitsAreRules, DecisionAssumption DEF Data, RuleIds
<1>1. CASE hits = {}
  BY <1>1, FirstRuleIsFirst DEF Data
<1>2. CASE hits # {}
  <2>1. y \in hits /\ \A j \in hits : Before(rules, y, j)
    BY <1>2, FirstRuleIsFirst DEF Data
  <2>. HIDE DEF y, hits
  <2>2. \A j \in hits : rules[y].rank <= rules[j].rank
    BY <1>0, <2>1 DEF Before
  <2>3. y \in first
    BY <2>1, <2>2
  <2>4. \A j \in first : rules[j].rank = rules[y].rank
    BY <1>0, <2>1, <2>2
  <2>5. \A j \in first : y <= j
    <3>. SUFFICES ASSUME NEW j \in first PROVE y <= j
      OBVIOUS
    <3>1. j \in hits /\ rules[j].rank = rules[y].rank
      BY <2>4
    <3>. QED  BY <1>0, <2>1, <3>1 DEF Before
  <2>6. \A i \in first : i \in Nat
    BY <1>0
  <2>. HIDE DEF first
  <2>7. \A i \in first : (\A j \in first : i <= j) => i = y
    <3>. SUFFICES ASSUME NEW i \in first, \A j \in first : i <= j PROVE i = y
      OBVIOUS
    <3>1. i <= y /\ y <= i /\ i \in Nat /\ y \in Nat
      BY <2>3, <2>5, <2>6
    <3>. QED  BY <3>1
  <2>8. (CHOOSE i \in first : \A j \in first : i <= j) = y
    BY <2>3, <2>5, <2>7
  <2>. QED  BY <1>2, <2>8 DEF y, hits, first
<1>. QED  BY <1>1, <1>2

\* The documented order, with the rule and the opinion that the code arrives at.
LEMMA Documents ==
    ASSUME Data, NEW from, NEW text, NEW out \in Outcomes
    PROVE  LET rule    == FirstRule(rules, from, text)
               opinion == Opinion(personas[from])
               off     == ~config.enabled \/ clock < config.until
               quiet   == Quiet(config.quiet, clock)
               due     == \/ opinion = "use"
                          \/ opinion = "none" /\ IF rule = 0 THEN config.llm
                                                 ELSE rules[rule].llm \/ (config.llm /\ ~rules[rule].text)
               own     == rule # 0 /\ (rules[rule].text \/ config.text)
               default == NoRules(rules) /\ (config.text \/ mirror) /\ opinion # "block"
               cooling == Blocked(rule, from)
           IN  /\ \/ out.by = "silent" /\ (off \/ IF quiet THEN ~config.away ELSE cooling \/ ~(own \/ default))
                  \/ out.by = "away" /\ ~off /\ quiet /\ config.away
                  \/ out.by = "static" /\ ~off /\ ~quiet /\ ~cooling /\ own
                  \/ out.by = "default" /\ ~off /\ ~quiet /\ rule = 0 /\ default
                  \/ out.by = "model" /\ ~off /\ ~quiet /\ ~cooling /\ due /\ ModelConfigured
               /\ out.rule = IF out.by \in {"static", "model"} THEN rule ELSE 0
               => out \in Documented(from, text)
<1>. DEFINE hits    == Hits(rules, from, text)
            first   == {i \in hits : \A j \in hits : rules[i].rank <= rules[j].rank}
            rule    == IF hits = {} THEN 0 ELSE CHOOSE i \in first : \A j \in first : i <= j
            opinion == Opinion(personas[from])
            off     == ~config.enabled \/ clock < config.until
            quiet   == Quiet(config.quiet, clock)
            due     == \/ opinion = "use"
                       \/ opinion = "none" /\ IF rule = 0 THEN config.llm
                                              ELSE rules[rule].llm \/ (config.llm /\ ~rules[rule].text)
            own     == rule # 0 /\ (rules[rule].text \/ config.text)
            default == NoRules(rules) /\ (config.text \/ mirror) /\ opinion # "block"
            cooling == Blocked(rule, from)
            Fits(o) ==
               /\ \/ o.by = "silent" /\ (off \/ IF quiet THEN ~config.away ELSE cooling \/ ~(own \/ default))
                  \/ o.by = "away" /\ ~off /\ quiet /\ config.away
                  \/ o.by = "static" /\ ~off /\ ~quiet /\ ~cooling /\ own
                  \/ o.by = "default" /\ ~off /\ ~quiet /\ rule = 0 /\ default
                  \/ o.by = "model" /\ ~off /\ ~quiet /\ ~cooling /\ due /\ ModelConfigured
               /\ o.rule = IF o.by \in {"static", "model"} THEN rule ELSE 0
<1>1. Documented(from, text) = {o \in Outcomes : Fits(o)}
  BY Zenon DEF Documented, Opinion, Blocked
<1>2. Fits(out) => out \in Documented(from, text)
  <2>. HIDE DEF Fits
  <2>. QED  BY <1>1
<1>3. rule = FirstRule(rules, from, text)
  BY PossibleRule
<1>. HIDE DEF rule
<1>. QED  BY <1>2, <1>3, Zenon

LEMMA PossibleSilent ==
    ASSUME Data, NEW from, NEW text, ~config.enabled \/ clock < config.until
    PROVE  Silent \in Possible(from, text)
<1>1. Silent \in Outcomes /\ Silent.by = "silent" /\ Silent.rule = 0
  BY DEF Silent, Outcomes
<1>. QED  BY <1>1, Documents DEF Possible

\* Without the model: the documented text or silence, or the default text that
\* a contact gets although the persona has use_llm off.
LEMMA PossibleStatic ==
    ASSUME Data, NEW from \in Contacts, NEW text, config.enabled, ~(clock < config.until),
           ~Quiet(config.quiet, clock), ~Blocked(FirstRule(rules, from, text), from)
    PROVE  WithoutModel(config, rules, FirstRule(rules, from, text)) \in Possible(from, text)
<1>. DEFINE rule == FirstRule(rules, from, text)
            opinion == Opinion(personas[from])
            out == WithoutModel(config, rules, rule)
<1>. SUFFICES out \in Possible(from, text)
  OBVIOUS
<1>0. rule \in RuleIds \cup {0}
  BY FirstRuleType DEF Data
<1>1. out \in Outcomes
  BY <1>0, WithoutModelType DEF Data
<1>2. CASE rule # 0
  <2>1. \/ out.by = "static" /\ out.rule = rule /\ (rules[rule].text \/ config.text)
        \/ out.by = "silent" /\ out.rule = 0 /\ ~(rules[rule].text \/ config.text)
    BY <1>2 DEF WithoutModel, Silent
  <2>2. ~NoRules(rules)
    <3>1. rule \in RuleIds /\ rules[rule] # None
      BY <1>2, FirstRuleType, DecisionAssumption DEF Data
    <3>. QED  BY <3>1 DEF NoRules
  <2>. HIDE DEF out
  <2>. QED  BY <1>1, <1>2, <2>1, <2>2, Documents DEF Possible
<1>3. CASE rule = 0
  <2>1. \/ /\ out = [by |-> "default", rule |-> 0]
           /\ NoRules(rules) /\ (config.text \/ mirror)
        \/ out = Silent /\ ~(NoRules(rules) /\ (config.text \/ mirror))
    BY <1>3 DEF WithoutModel
  <2>. HIDE DEF out
  <2>2. CASE out = Silent /\ ~(NoRules(rules) /\ (config.text \/ mirror))
    <3>1. out.by = "silent" /\ out.rule = 0
      BY <2>2 DEF Silent
    <3>. QED  BY <1>1, <1>3, <2>2, <3>1, Documents DEF Possible
  <2>3. CASE out = [by |-> "default", rule |-> 0] /\ NoRules(rules) /\ (config.text \/ mirror)
    <3>1. CASE opinion # "block"
      BY <1>1, <1>3, <2>3, <3>1, Documents DEF Possible
    <3>2. CASE opinion = "block"
      <4>1. \E k \in 1..Lookups :
               personas[from][k] = "block" /\ \A j \in 1..k-1 : personas[from][j] = "none"
        BY <3>2, OpinionIs DEF Data
      <4>. QED  BY <2>3, <4>1 DEF Possible, DefaultDespiteOptOut
    <3>. QED  BY <3>1, <3>2
  <2>. QED  BY <2>1, <2>2, <2>3
<1>. QED  BY <1>2, <1>3

LEMMA PossibleModel ==
    ASSUME Data, NEW from \in Contacts, NEW text, config.enabled, ~(clock < config.until),
           ~Quiet(config.quiet, clock), ~Blocked(FirstRule(rules, from, text), from),
           ModelConfigured,
           WantsModel(config, rules, FirstRule(rules, from, text), Opinion(personas[from]))
    PROVE  ModelReply(FirstRule(rules, from, text)) \in Possible(from, text)
<1>. DEFINE rule == FirstRule(rules, from, text)
            opinion == Opinion(personas[from])
            out == ModelReply(rule)
<1>0. rule \in RuleIds \cup {0}
  BY FirstRuleType DEF Data
<1>1. out \in Outcomes /\ out.by = "model" /\ out.rule = rule
  BY <1>0 DEF ModelReply, Outcomes
<1>2. opinion \in Opinions
  BY OpinionIs DEF Data
<1>. HIDE DEF out
<1>3. \/ opinion = "use"
      \/ opinion = "none" /\ IF rule = 0 THEN config.llm
                             ELSE rules[rule].llm \/ (config.llm /\ ~rules[rule].text)
  BY <1>2 DEF WantsModel, Opinions
<1>4. out \in Possible(from, text)
  BY <1>1, <1>3, Documents DEF Possible
<1>. QED  BY <1>4 DEF out

LEMMA PossibleCovers ==
    ASSUME Data, NEW r, r.from \in Contacts, r.cfg = config, config.enabled, ~(clock < config.until)
    PROVE  Covered(r, Possible(r.from, r.text))
<1>. DEFINE rule == FirstRule(rules, r.from, r.text)
<1>1. CASE Quiet(config.quiet, clock)
  <2>. DEFINE out == AwayReply(config)
  <2>1. /\ out \in Outcomes /\ out.rule = 0
        /\ (out.by = "away" /\ config.away) \/ (out.by = "silent" /\ ~config.away)
    <3>1. CASE config.away
      <4>1. out = [by |-> "away", rule |-> 0]
        BY <3>1 DEF AwayReply
      <4>. HIDE DEF out
      <4>. QED  BY <3>1, <4>1, AwayType
    <3>2. CASE ~config.away
      <4>1. out = Silent
        BY <3>2 DEF AwayReply
      <4>2. Silent.by = "silent" /\ Silent.rule = 0
        BY DEF Silent
      <4>. QED  BY <3>2, <4>1, <4>2, AwayType
    <3>. QED  BY <3>1, <3>2
  <2>. HIDE DEF out
  <2>2. out \in Possible(r.from, r.text)
    BY <1>1, <2>1, Documents DEF Possible
  <2>. QED  BY <1>1, <2>2 DEF Covered, out
<1>2. CASE ~Quiet(config.quiet, clock) /\ Blocked(rule, r.from)
  <2>1. Silent \in Outcomes /\ Silent.by = "silent" /\ Silent.rule = 0
    BY DEF Silent, Outcomes
  <2>2. Silent \in Possible(r.from, r.text)
    BY <1>2, <2>1, Documents DEF Possible
  <2>. QED  BY <1>2, <2>2 DEF Covered
<1>3. CASE ~Quiet(config.quiet, clock) /\ ~Blocked(rule, r.from)
  <2>1. WithoutModel(config, rules, rule) \in Possible(r.from, r.text)
    BY <1>3, PossibleStatic
  <2>2. ModelConfigured /\ WantsModel(config, rules, rule, Opinion(personas[r.from]))
           => ModelReply(rule) \in Possible(r.from, r.text)
    BY <1>3, PossibleModel
  <2>. QED  BY <1>3, <2>1, <2>2 DEF Covered
<1>. QED  BY <1>1, <1>2, <1>3

\* Queries are made in their order until one finds somebody.
LEMMA OpinionFound ==
    ASSUME NEW finds \in [1..Lookups -> Opinions], NEW look \in 1..Lookups,
           \A k \in 1..look-1 : finds[k] = "none",
           finds[look] # "none" \/ look = Lookups
    PROVE  Opinion(finds) = finds[look]
<1>. DEFINE asked == {k \in 1..Lookups : finds[k] # "none"}
<1>0. Lookups \in Nat /\ look \in Nat
  BY DecisionAssumption
<1>1. CASE finds[look] # "none"
  <2>1. look \in asked
    BY <1>1
  <2>2. \A k \in asked : k \in Nat /\ look <= k
    <3>. SUFFICES ASSUME NEW k \in asked PROVE k \in Nat /\ look <= k
      OBVIOUS
    <3>1. k \in 1..Lookups /\ finds[k] # "none"
      OBVIOUS
    <3>2. k \notin 1..look-1
      BY <3>1
    <3>. QED  BY <1>0, <3>1, <3>2
  <2>. HIDE DEF asked
  <2>3. \A i \in asked : (\A j \in asked : i <= j) => i = look
    <3>. SUFFICES ASSUME NEW i \in asked, \A j \in asked : i <= j PROVE i = look
      OBVIOUS
    <3>1. i <= look /\ look <= i /\ i \in Nat
      BY <2>1, <2>2
    <3>. QED  BY <1>0, <3>1
  <2>4. (CHOOSE k \in asked : \A j \in asked : k <= j) = look
    BY <2>1, <2>2, <2>3
  <2>. QED  BY <2>1, <2>4 DEF Opinion, asked
<1>2. CASE finds[look] = "none"
  <2>1. \A k \in 1..Lookups : finds[k] = "none"
    <3>. SUFFICES ASSUME NEW k \in 1..Lookups PROVE finds[k] = "none"
      OBVIOUS
    <3>1. look = Lookups
      BY <1>2
    <3>2. k \in 1..look-1 \/ k = look
      BY <1>0, <3>1
    <3>. QED  BY <1>2, <3>2
  <2>. QED  BY <1>2, <2>1 DEF Opinion
<1>. QED  BY <1>1, <1>2

\* What fits is still fitting when nothing is edited, stamped or timed.
LEMMA DecidingKept ==
    ASSUME UNCHANGED <<clock, mirror, rules, personas, stamps>>, NEW e \in Evals, NEW r,
           eval'[e] = r, ghost'[e].calm => Fitting(r, ghost'[e].may)
    PROVE  Deciding(e)'
BY DEF Deciding, Fitting, Covered, UpToDate, Blocked, WithoutModel, AwayReply, ModelReply,
   Matched, Cleared

LEMMA DoneFits ==
    ASSUME AllSound, NEW e \in Evals, NEW out, NEW may, out \in may, Settle(e, out)
    PROVE  Fitting(eval'[e], may)
<1>1. eval'[e] = [Idle EXCEPT !.pc = "done", !.out = out]
  BY DEF Settle, Step, AllSound
<1>2. eval'[e].pc = "done" /\ eval'[e].out = out
  BY <1>1 DEF Idle
<1>. QED  BY <1>2 DEF Fitting

\* Once nothing is in the way, the reply that is given is one that is allowed.
LEMMA ReplyCovered ==
    ASSUME Data, NEW r, NEW may, Covered(r, may), UpToDate(r), r.pc \in Cleared
    PROVE  /\ WithoutModel(r.cfg, r.table, r.rule) \in may
           /\ ModelConfigured /\ WantsModel(r.cfg, r.table, r.rule, Opinion(personas[r.from]))
                 => [by |-> "model", rule |-> r.rule] \in may
<1>1. /\ r.table = rules /\ r.rule = FirstRule(rules, r.from, r.text)
      /\ ~Quiet(r.cfg.quiet, clock) /\ ~Blocked(r.rule, r.from)
  BY DEF UpToDate, Cleared, Matched
<1>. QED  BY <1>1 DEF Covered, ModelReply

\* An answer that is allowed, stamped or not.
LEMMA AnswerFits ==
    ASSUME AllSound, NEW e \in Evals, NEW r \in Evaluation, NEW out, NEW may, out \in may,
           Covered(r, may), UpToDate(r), r.pc \in Cleared, Answer(e, r, out)
    PROVE  Fitting(eval'[e], may)
<1>1. CASE Settle(e, out)
  BY <1>1, DoneFits
<1>2. CASE eval'[e] = [r EXCEPT !.pc = "touching", !.out = out]
  <2>. DEFINE q == eval'[e]
  <2>1. q.pc = "touching" /\ q.out = out
    BY <1>2 DEF Evaluation
  <2>2. /\ q.from = r.from /\ q.text = r.text /\ q.cfg = r.cfg /\ q.table = r.table
        /\ q.now = r.now /\ q.rule = r.rule /\ q.look = r.look
    BY <1>2 DEF Evaluation
  <2>. HIDE DEF q
  <2>3. Covered(q, may)
    BY <2>2 DEF Covered
  <2>4. UpToDate(q)
    BY <2>1, <2>2 DEF UpToDate, Matched, Cleared
  <2>5. Fitting(q, may)
    BY <2>1, <2>3, <2>4 DEF Fitting
  <2>. QED  BY <2>5 DEF q
<1>3. Settle(e, out) \/ eval'[e] = [r EXCEPT !.pc = "touching", !.out = out]
  BY DEF Answer, Step, AllSound
<1>. QED  BY <1>1, <1>2, <1>3

\* The window is looked at with the configuration that was read.
LEMMA AfterPauseFits ==
    ASSUME AllSound, NEW e \in Evals, NEW r \in Evaluation, NEW may, r.pc = "clearing",
           Covered(r, may), UpToDate(r), AfterPause(e, r)
    PROVE  Fitting(eval'[e], may)
<1>1. CASE Quiet(r.cfg.quiet, clock)
  <2>1. AwayReply(r.cfg) \in may
    BY <1>1 DEF Covered
  <2>2. Settle(e, AwayReply(r.cfg))
    BY <1>1 DEF AfterPause, AwayReply
  <2>. QED  BY <2>1, <2>2, DoneFits
<1>2. CASE ~Quiet(r.cfg.quiet, clock)
  <2>. DEFINE q == eval'[e]
  <2>0. q = [r EXCEPT !.pc = "listing"]
    BY <1>2 DEF AfterPause, Step, AllSound
  <2>1. q.pc = "listing"
    BY <2>0 DEF Evaluation
  <2>2. q.from = r.from /\ q.text = r.text /\ q.cfg = r.cfg /\ q.look = r.look
    BY <2>0 DEF Evaluation
  <2>. HIDE DEF q
  <2>3. Covered(q, may)
    BY <2>2 DEF Covered
  <2>4. q.look = 1
    BY <2>2 DEF UpToDate, Cleared
  <2>5. UpToDate(q)
    BY <1>2, <2>1, <2>2, <2>4 DEF UpToDate, Matched, Cleared
  <2>6. Fitting(q, may)
    BY <2>1, <2>3, <2>5 DEF Fitting
  <2>. QED  BY <2>6 DEF q
<1>. QED  BY <1>1, <1>2

\* Reading the configuration: what is possible then is what may come out.
LEMMA ReadConfigFits ==
    ASSUME Data, AllSound, Records, NEW e \in Evals,
           NEW from \in Contacts, NEW text \in Texts, ReadConfig(e, from, text)
    PROVE  Fitting(eval'[e], ghost'[e].may)
<1>. DEFINE r == [Idle EXCEPT !.pc = "clearing", !.from = from, !.text = text, !.cfg = config]
<1>1. /\ r.pc = "clearing" /\ r.from = from /\ r.text = text /\ r.cfg = config /\ r.look = 1
  BY DEF Idle
<1>2. r \in Evaluation
  BY IdleSound DEF Evaluation, PCs, Data
<1>3. ghost'[e].may = Possible(from, text)
  BY DEF ReadConfig, Records, Possible
<1>4. IF ~config.enabled \/ Paused(config.until) THEN Settle(e, Silent)
         ELSE IF config.until # 0 THEN Step(e, r)
         ELSE AfterPause(e, r)
  BY DEF ReadConfig
<1>. HIDE DEF r
<1>5. CASE ~config.enabled \/ Paused(config.until)
  <2>1. Silent \in Possible(from, text)
    BY <1>5, PossibleSilent DEF Paused
  <2>2. Settle(e, Silent)
    BY <1>4, <1>5
  <2>. QED  BY <1>3, <2>1, <2>2, DoneFits
<1>6. CASE ~(~config.enabled \/ Paused(config.until))
  <2>1. Covered(r, Possible(from, text))
    <3>1. Covered(r, Possible(r.from, r.text))
      BY <1>1, <1>6, PossibleCovers DEF Paused
    <3>. QED  BY <1>1, <3>1
  <2>2. UpToDate(r)
    BY <1>1 DEF UpToDate, Matched, Cleared
  <2>3. CASE Step(e, r)
    <3>1. eval'[e] = r
      BY <2>3 DEF Step, AllSound
    <3>2. Fitting(r, Possible(from, text))
      BY <1>1, <2>1, <2>2 DEF Fitting
    <3>. QED  BY <1>3, <3>1, <3>2
  <2>4. CASE AfterPause(e, r)
    BY <1>1, <1>2, <1>3, <2>1, <2>2, <2>4, AfterPauseFits
  <2>. QED  BY <1>4, <1>6, <2>3, <2>4
<1>. QED  BY <1>5, <1>6

LEMMA ReadRulesFits ==
    ASSUME Data, AllSound, NEW e \in Evals, NEW may, Fitting(eval[e], may), ReadRules(e)
    PROVE  Fitting(eval'[e], may)
<1>. DEFINE r    == eval[e]
            rule == FirstRule(rules, r.from, r.text)
            pc   == IF rule # 0 /\ rules[rule].cool > 0 THEN "cooling" ELSE "persona"
            q    == eval'[e]
<1>1. r \in Evaluation /\ r.pc = "listing"
  BY DEF AllSound, Sound, ReadRules
<1>2. Covered(r, may) /\ r.look = 1 /\ ~Quiet(r.cfg.quiet, clock)
  BY <1>1 DEF Fitting, UpToDate, Cleared
<1>3. q = [r EXCEPT !.table = rules, !.now = clock, !.rule = rule, !.pc = pc]
  BY DEF ReadRules, Step, AllSound
<1>4. pc = "cooling" \/ (pc = "persona" /\ ~Blocked(rule, r.from))
  BY DEF Blocked
<1>5. rule = FirstRule(rules, r.from, r.text)
  OBVIOUS
<1>. HIDE DEF rule, pc, r
<1>6. /\ q.pc = pc /\ q.from = r.from /\ q.text = r.text /\ q.cfg = r.cfg
      /\ q.look = r.look /\ q.rule = rule /\ q.table = rules /\ q.now = clock
  BY <1>1, <1>3 DEF Evaluation
<1>. HIDE DEF q
<1>7. Covered(q, may)
  BY <1>2, <1>6 DEF Covered
<1>8. \A k \in 1..q.look-1 : personas[q.from][k] = "none"
  BY <1>2, <1>6
<1>9. UpToDate(q)
  BY <1>2, <1>4, <1>5, <1>6, <1>8 DEF UpToDate, Matched, Cleared
<1>10. Fitting(q, may)
  BY <1>4, <1>6, <1>7, <1>9 DEF Fitting
<1>. QED  BY <1>10 DEF q

LEMMA ReadCooldownFits ==
    ASSUME Data, AllSound, NEW e \in Evals, NEW may, Fitting(eval[e], may), ReadCooldown(e)
    PROVE  Fitting(eval'[e], may)
<1>. DEFINE r == eval[e]
            q == eval'[e]
<1>1. /\ r \in Evaluation /\ r.pc = "cooling" /\ r.rule # 0
      /\ r.table[r.rule].cool > 0
  BY DEF AllSound, Sound, ReadCooldown
<1>2. /\ Covered(r, may) /\ r.look = 1 /\ ~Quiet(r.cfg.quiet, clock)
      /\ r.table = rules /\ r.now = clock /\ r.rule = FirstRule(rules, r.from, r.text)
  BY <1>1 DEF Fitting, UpToDate, Cleared, Matched
<1>3. IF Blocked(r.rule, r.from) THEN Settle(e, Silent) ELSE Step(e, [r EXCEPT !.pc = "persona"])
  BY <1>1, <1>2 DEF ReadCooldown, Blocked
<1>4. CASE Blocked(r.rule, r.from)
  <2>1. Silent \in may
    BY <1>2, <1>4 DEF Covered
  <2>. QED  BY <1>3, <1>4, <2>1, DoneFits
<1>5. CASE ~Blocked(r.rule, r.from)
  <2>1. q = [r EXCEPT !.pc = "persona"]
    BY <1>3, <1>5 DEF Step, AllSound
  <2>. HIDE DEF r, q
  <2>2. /\ q.pc = "persona" /\ q.from = r.from /\ q.text = r.text /\ q.cfg = r.cfg
        /\ q.look = r.look /\ q.rule = r.rule /\ q.table = r.table /\ q.now = r.now
    BY <1>1, <2>1 DEF Evaluation
  <2>3. Covered(q, may)
    BY <1>2, <2>2 DEF Covered
  <2>4. \A k \in 1..q.look-1 : personas[q.from][k] = "none"
    BY <1>2, <2>2
  <2>5. UpToDate(q)
    BY <1>2, <1>5, <2>2, <2>4 DEF UpToDate, Matched, Cleared
  <2>6. Fitting(q, may)
    BY <2>2, <2>3, <2>5 DEF Fitting
  <2>. QED  BY <2>6 DEF q
<1>. QED  BY <1>4, <1>5

LEMMA LookUpFits ==
    ASSUME Data, AllSound, NEW e \in Evals, NEW may, Fitting(eval[e], may), LookUp(e)
    PROVE  Fitting(eval'[e], may)
<1>. DEFINE r == eval[e]
            finds == personas[r.from]
            found == finds[r.look]
            d == [r EXCEPT !.opinion = found]
<1>1. r \in Evaluation /\ r.pc = "persona" /\ r.from \in Contacts /\ r.look \in 1..Lookups
  BY DEF AllSound, Sound, LookUp, Evaluation
<1>2. Covered(r, may) /\ UpToDate(r) /\ \A k \in 1..r.look-1 : finds[k] = "none"
  BY <1>1 DEF Fitting, UpToDate
<1>3. finds \in [1..Lookups -> Opinions] /\ found \in Opinions
  BY <1>1 DEF Data
<1>4. CASE found = "none" /\ r.look < Lookups
  <2>. DEFINE q == eval'[e]
  <2>1. q = [r EXCEPT !.look = @ + 1]
    BY <1>4 DEF LookUp, Step, AllSound
  <2>2. /\ q.pc = r.pc /\ q.from = r.from /\ q.text = r.text /\ q.cfg = r.cfg
        /\ q.look = r.look + 1 /\ q.rule = r.rule /\ q.table = r.table /\ q.now = r.now
    BY <1>1, <2>1 DEF Evaluation
  <2>. HIDE DEF q
  <2>3. Covered(q, may)
    BY <1>2, <2>2 DEF Covered
  <2>4. \A k \in 1..q.look-1 : personas[q.from][k] = "none"
    <3>. SUFFICES ASSUME NEW k \in 1..q.look-1 PROVE personas[q.from][k] = "none"
      OBVIOUS
    <3>1. k \in 1..r.look-1 \/ k = r.look
      BY <1>1, <2>2, DecisionAssumption
    <3>. QED  BY <1>2, <1>4, <2>2, <3>1
  <2>. HIDE DEF r
  <2>5. UpToDate(q)
    BY <1>1, <1>2, <2>2, <2>4 DEF UpToDate, Matched, Cleared
  <2>6. Fitting(q, may)
    BY <1>1, <2>2, <2>3, <2>5 DEF Fitting
  <2>. QED  BY <2>6 DEF q
<1>5. CASE ~(found = "none" /\ r.look < Lookups)
  <2>1. found # "none" \/ r.look = Lookups
    BY <1>1, <1>5, DecisionAssumption
  <2>2. Opinion(finds) = found
    BY <1>1, <1>2, <1>3, <2>1, OpinionFound
  <2>3. IF ModelConfigured /\ WantsModel(d.cfg, d.table, d.rule, d.opinion)
        THEN Step(e, [d EXCEPT !.pc = "reading"])
        ELSE Answer(e, d, WithoutModel(d.cfg, d.table, d.rule))
    BY <1>5 DEF LookUp
  <2>. HIDE DEF found, r
  <2>4. /\ d \in Evaluation /\ d.opinion = found
        /\ d.pc = r.pc /\ d.from = r.from /\ d.text = r.text /\ d.cfg = r.cfg
        /\ d.look = r.look /\ d.rule = r.rule /\ d.table = r.table /\ d.now = r.now
    BY <1>1, <1>3 DEF Evaluation
  <2>. HIDE DEF d
  <2>5. Covered(d, may) /\ d.pc \in Cleared
    BY <1>1, <1>2, <2>4 DEF Covered, Cleared
  <2>6. UpToDate(d)
    BY <1>2, <2>4 DEF UpToDate
  <2>7. CASE ModelConfigured /\ WantsModel(d.cfg, d.table, d.rule, d.opinion)
    <3>. DEFINE q == eval'[e]
    <3>1. q = [d EXCEPT !.pc = "reading"]
      BY <2>3, <2>7 DEF Step, AllSound
    <3>2. /\ q.pc = "reading" /\ q.from = d.from /\ q.text = d.text /\ q.cfg = d.cfg
          /\ q.look = d.look /\ q.rule = d.rule /\ q.table = d.table /\ q.now = d.now
      BY <2>4, <3>1 DEF Evaluation
    <3>. HIDE DEF q
    <3>3. Covered(q, may)
      BY <2>5, <3>2 DEF Covered
    <3>4. d.table = rules
      BY <2>5, <2>6 DEF UpToDate, Matched
    <3>5. WantsModel(q.cfg, rules, q.rule, Opinion(personas[q.from]))
      BY <2>2, <2>4, <2>7, <3>2, <3>4
    <3>6. UpToDate(q)
      BY <2>5, <2>6, <2>7, <3>2, <3>5 DEF UpToDate, Matched, Cleared
    <3>7. Fitting(q, may)
      BY <3>2, <3>3, <3>6 DEF Fitting
    <3>. QED  BY <3>7 DEF q
  <2>8. CASE ~(ModelConfigured /\ WantsModel(d.cfg, d.table, d.rule, d.opinion))
    <3>1. WithoutModel(d.cfg, d.table, d.rule) \in may
      BY <2>5, <2>6, ReplyCovered
    <3>2. Answer(e, d, WithoutModel(d.cfg, d.table, d.rule))
      BY <2>3, <2>8
    <3>. QED  BY <2>4, <2>5, <2>6, <3>1, <3>2, AnswerFits
  <2>. QED  BY <2>7, <2>8
<1>. QED  BY <1>4, <1>5

\* Asking the model, and what becomes of it.
LEMMA ModelFits ==
    ASSUME Data, AllSound, NEW e \in Evals, NEW may, Fitting(eval[e], may),
           Ask(e) \/ ModelReturns(e)
    PROVE  Fitting(eval'[e], may)
<1>. DEFINE r == eval[e]
            q == eval'[e]
<1>1. r \in Evaluation /\ r.pc \in {"reading", "asking"}
  BY DEF AllSound, Sound, Ask, ModelReturns
<1>2. Covered(r, may) /\ UpToDate(r) /\ r.pc \in Cleared
  BY <1>1 DEF Fitting, Cleared
<1>3. CASE Ask(e)
  <2>1. q = [r EXCEPT !.pc = "asking"]
    BY <1>3 DEF Ask, Step, AllSound
  <2>. HIDE DEF r, q
  <2>2. /\ q.pc = "asking" /\ q.from = r.from /\ q.text = r.text /\ q.cfg = r.cfg
        /\ q.look = r.look /\ q.rule = r.rule /\ q.table = r.table /\ q.now = r.now
    BY <1>1, <2>1 DEF Evaluation
  <2>3. Covered(q, may)
    BY <1>2, <2>2 DEF Covered
  <2>4. UpToDate(q)
    BY <1>1, <1>2, <2>2 DEF UpToDate, Matched, Cleared
  <2>5. Fitting(q, may)
    BY <2>2, <2>3, <2>4 DEF Fitting
  <2>. QED  BY <2>5 DEF q
<1>4. CASE ModelReturns(e)
  <2>1. /\ ModelConfigured /\ r.table = rules
        /\ WantsModel(r.cfg, rules, r.rule, Opinion(personas[r.from]))
    BY <1>1, <1>2 DEF UpToDate, Matched
  <2>2. [by |-> "model", rule |-> r.rule] \in may /\ WithoutModel(r.cfg, r.table, r.rule) \in may
    BY <1>2, <2>1, ReplyCovered
  <2>3. \/ Answer(e, r, [by |-> "model", rule |-> r.rule])
        \/ Answer(e, r, WithoutModel(r.cfg, r.table, r.rule))
    BY <1>4 DEF ModelReturns
  <2>. HIDE DEF r
  <2>. QED  BY <1>1, <1>2, <2>2, <2>3, AnswerFits
<1>. QED  BY <1>3, <1>4

\* The stamp: the answer that was decided is the one given, and it disturbs the others.
LEMMA TouchFits ==
    ASSUME Records, AllSound, NEW e \in Evals, Deciding(e), TouchCooldown(e)
    PROVE  Deciding(e)'
<1>0. ghost' = [f \in Evals |->
                  IF f = e THEN ghost[f]
                  ELSE [ghost[f] EXCEPT !.calm = FALSE,
                           !.crossed = @ \/ (/\ eval[f].pc \in Cleared
                                             /\ eval[f].rule = eval[e].rule
                                             /\ eval[f].from = eval[e].from)]]
  BY Zenon DEF TouchCooldown
<1>1. Settle(e, eval[e].out) /\ eval[e].pc = "touching" /\ ghost'[e] = ghost[e]
  BY <1>0, Zenon DEF TouchCooldown
<1>2. eval'[e] = [Idle EXCEPT !.pc = "done", !.out = eval[e].out]
  BY <1>1 DEF Settle, Step, AllSound
<1>3. eval'[e].pc = "done" /\ eval'[e].out = eval[e].out
  BY <1>2 DEF Idle
<1>4. ghost[e].calm => eval[e].out \in ghost[e].may
  BY <1>1 DEF Deciding, Fitting
<1>. QED  BY <1>1, <1>3, <1>4 DEF Deciding, Fitting

LEMMA TouchDisturbs ==
    ASSUME Records, NEW f \in Evals, NEW e \in Evals, e # f, TouchCooldown(f)
    PROVE  Deciding(e)'
<1>. DEFINE b(g) == /\ eval[g].pc \in Cleared
                    /\ eval[g].rule = eval[f].rule /\ eval[g].from = eval[f].from
<1>1. ghost' = [g \in Evals |->
                  IF g = f THEN ghost[g]
                  ELSE [ghost[g] EXCEPT !.calm = FALSE, !.crossed = @ \/ b(g)]]
  BY Zenon DEF TouchCooldown
<1>. HIDE DEF b
<1>2. ghost'[e] = [ghost[e] EXCEPT !.calm = FALSE, !.crossed = @ \/ b(e)]
  BY <1>1, Zenon
<1>3. ghost'[e].calm = FALSE
  BY <1>2 DEF Records, GhostRecord
<1>. QED  BY <1>3 DEF Deciding

LEMMA DecidingStep ==
    ASSUME Data, Records, AllSound, \A f \in Evals : Deciding(f), [Next]_vars, NEW e \in Evals
    PROVE  Deciding(e)'
<1>1. ASSUME ~ghost'[e].calm PROVE Deciding(e)'
  BY <1>1 DEF Deciding
<1>2. [ghost[e] EXCEPT !.calm = FALSE].calm = FALSE
  BY DEF Records, GhostRecord
\* A step of another evaluation that disturbs nothing.
<1>3. ASSUME UNCHANGED <<clock, mirror, rules, personas, stamps>>,
             eval'[e] = eval[e], ghost'[e] = ghost[e]
      PROVE  Deciding(e)'
  <2>1. ghost'[e].calm => Fitting(eval[e], ghost'[e].may)
    BY <1>3 DEF Deciding
  <2>. QED  BY <1>3, <2>1, DecidingKept
\* A step of the evaluation itself.
<1>4. ASSUME UNCHANGED <<clock, mirror, rules, personas, stamps>>,
             ghost'[e].calm => Fitting(eval'[e], ghost'[e].may)
      PROVE  Deciding(e)'
  BY <1>4, DecidingKept
<1>5. ASSUME NEW f \in Evals, NEW from \in Contacts, NEW text \in Texts, ReadConfig(f, from, text)
      PROVE  Deciding(e)'
  <2>0. UNCHANGED <<clock, mirror, rules, personas, stamps>>
    BY <1>5 DEF ReadConfig, data
  <2>1. CASE f = e
    BY <1>4, <1>5, <2>0, <2>1, ReadConfigFits
  <2>2. CASE f # e
    <3>1. eval'[e] = eval[e]
      BY <1>5, <2>2 DEF ReadConfig, AfterPause, Settle, Step, AllSound
    <3>2. ghost'[e] = ghost[e]
      BY <1>5, <2>2 DEF ReadConfig, Records
    <3>. QED  BY <1>3, <2>0, <3>1, <3>2
  <2>. QED  BY <2>1, <2>2
<1>6. ASSUME NEW f \in Evals, Clear(f) PROVE Deciding(e)'
  <2>0. UNCHANGED <<clock, mirror, rules, personas, stamps>>
    BY <1>6 DEF Clear
  <2>1. CASE f = e
    <3>1. ghost'[e] = ghost[e] /\ eval[e].pc = "clearing" /\ AfterPause(e, eval[e])
      BY <1>6, <2>1 DEF Clear, Disturbed
    <3>2. eval[e] \in Evaluation
      BY DEF AllSound
    <3>3. ASSUME ghost[e].calm PROVE Fitting(eval'[e], ghost[e].may)
      <4>1. Covered(eval[e], ghost[e].may) /\ UpToDate(eval[e])
        BY <3>1, <3>3 DEF Deciding, Fitting
      <4>. QED  BY <3>1, <3>2, <4>1, AfterPauseFits
    <3>. QED  BY <1>4, <2>0, <3>1, <3>3
  <2>2. CASE f # e
    BY <1>1, <1>2, <1>6, <2>2 DEF Clear, Disturbed
  <2>. QED  BY <2>1, <2>2
<1>7. ASSUME NEW f \in Evals,
             ReadRules(f) \/ ReadCooldown(f) \/ LookUp(f) \/ Ask(f) \/ ModelReturns(f)
      PROVE  Deciding(e)'
  <2>0. UNCHANGED <<clock, mirror, rules, personas, stamps>> /\ ghost' = ghost
    BY <1>7 DEF ReadRules, ReadCooldown, LookUp, Ask, ModelReturns, data
  <2>1. CASE f = e
    <3>1. ASSUME ghost[e].calm PROVE Fitting(eval'[e], ghost[e].may)
      <4>1. Fitting(eval[e], ghost[e].may)
        BY <3>1 DEF Deciding
      <4>. QED
        BY <1>7, <2>1, <4>1, ReadRulesFits, ReadCooldownFits, LookUpFits, ModelFits
    <3>. QED  BY <1>4, <2>0, <3>1
  <2>2. CASE f # e
    <3>1. eval'[e] = eval[e]
      BY <1>7, <2>2 DEF ReadRules, ReadCooldown, LookUp, Ask, ModelReturns, Answer, Settle, Step, AllSound
    <3>. QED  BY <1>3, <2>0, <3>1
  <2>. QED  BY <2>1, <2>2
<1>8. ASSUME NEW f \in Evals, TouchCooldown(f) PROVE Deciding(e)'
  BY <1>8, TouchFits, TouchDisturbs
<1>9. CASE Editing \/ Tick
  <2>1. ghost'[e] = [ghost[e] EXCEPT !.calm = FALSE]
    BY <1>9 DEF Editing, Edit, Configure, AddRule, ChangeRule, ChangePersona, OwnerSays, Tick
  <2>. QED  BY <1>1, <1>2, <2>1
<1>10. CASE UNCHANGED vars
  BY <1>3, <1>10 DEF vars, data
<1>. QED  BY <1>5, <1>6, <1>7, <1>8, <1>9, <1>10 DEF Next, Evaluating

\* An evaluation around which nothing changes ends in the answer that the order
\* of decision gives, whatever the rules, the personas and the configuration,
\* and however many other evaluations run.
THEOREM DecisionsMatch == Spec => []DecisionMatches
<1>. DEFINE All == \A e \in Evals : Deciding(e)
<1>1. Init => All
  BY DEF Init, NoGhost, Deciding
<1>2. Data /\ Records /\ AllSound /\ All /\ [Next]_vars => All'
  <2>. SUFFICES ASSUME Data, Records, AllSound, All, [Next]_vars, NEW e \in Evals
                PROVE  Deciding(e)'
    OBVIOUS
  <2>. QED  BY DecidingStep
<1>3. All => DecisionMatches
  BY DEF DecisionMatches, Deciding, Fitting
<1>4. Spec => [](Data /\ Records /\ AllSound)
  BY DecisionTypes, TypeParts, PTL
<1>. HIDE DEF All
<1>. QED  BY <1>1, <1>2, <1>3, <1>4, PTL DEF Spec


-----------------------------------------------------------------------------
(* The conversation the model is given.  A fold is a CHOOSE of a recursive *)
(* function: FoldExists shows that there is one, FoldRuns what it does     *)
(* step by step, both by induction on the numbers as a least counterexample.*)

\* A set of numbers that has 0 and, with each number, the next, has all.
LEMMA AllNumbers ==
    ASSUME NEW T, 0 \in T, \A n \in Nat : n \in T => n + 1 \in T
    PROVE  \A n \in Nat : n \in T
<1>. SUFFICES ASSUME NEW k \in Nat, k \notin T PROVE FALSE
  OBVIOUS
<1>. DEFINE U == {n \in Nat : n \notin T}
<1>1. PICK m \in U : \A y \in U : m <= y
  <2>1. U \subseteq Nat /\ U # {}
    OBVIOUS
  <2>. QED  BY <2>1, LeastExists
<1>2. m \in Nat /\ m \notin T /\ m # 0 /\ m - 1 \in Nat
  BY <1>1
<1>3. m - 1 \in T
  BY <1>1, <1>2
<1>4. m - 1 + 1 = m
  BY <1>2
<1>. QED  BY <1>2, <1>3, <1>4

\* The greatest of some numbers.
LEMMA MaxIs ==
    ASSUME NEW n \in Nat, NEW s \in SUBSET (1..n), s # {}
    PROVE  Max(s) \in s /\ \A y \in s : y <= Max(s)
<1>. DEFINE T == {n - y : y \in s}
<1>1. \A y \in s : y \in 1..n
  OBVIOUS
<1>2. T \subseteq Nat /\ T # {}
  <2>1. \A y \in s : n - y \in Nat
    BY <1>1
  <2>. QED  BY <2>1
<1>3. PICK x \in T : \A y \in T : x <= y
  BY <1>2, LeastExists
<1>4. PICK z \in s : x = n - z
  BY <1>3
<1>5. \A y \in s : z >= y
  <2>1. ASSUME NEW y \in s PROVE z >= y
    <3>1. n - y \in T
      OBVIOUS
    <3>2. n - z <= n - y
      BY <3>1, <1>3, <1>4
    <3>. QED  BY <3>2, <1>1
  <2>. QED  BY <2>1
<1>6. Max(s) \in s /\ \A y \in s : Max(s) >= y
  BY <1>4, <1>5 DEF Max
<1>. QED  BY <1>6, <1>1

\* G folds the numbers up to n, the greatest last.
Folds(G, n, base, step) ==
    /\ G[{}] = base
    /\ \A s \in SUBSET (1..n) : s # {} => G[s] = step[Max(s)][G[s \ {Max(s)}]]

\* A fold over 1..n that takes the numbers in order, as a function of the numbers
\* folded.
LEMMA FoldExists ==
    ASSUME NEW n \in Nat, NEW T, NEW base \in T, NEW step \in [1..n -> [T -> T]]
    PROVE  \E G \in [SUBSET (1..n) -> T] : Folds(G, n, base, step)
<1>. DEFINE Good(m, G) == /\ G \in [SUBSET (1..m) -> T]
                          /\ G[{}] = base
                          /\ \A s \in SUBSET (1..m) : s # {} => G[s] = step[Max(s)][G[s \ {Max(s)}]]
            Done == {m \in Nat : m <= n => \E G : Good(m, G)}
<1>1. 0 \in Done
  <2>. DEFINE g == [s \in SUBSET (1..0) |-> base]
  <2>1. SUBSET (1..0) = {{}}
    OBVIOUS
  <2>2. g \in [SUBSET (1..0) -> T] /\ g[{}] = base
    BY <2>1
  <2>3. \A s \in SUBSET (1..0) : s = {}
    BY <2>1
  <2>4. Good(0, g)
    <3>. HIDE DEF g
    <3>. QED  BY <2>2, <2>3
  <2>. HIDE DEF Good
  <2>. QED  BY <2>4
<1>2. ASSUME NEW m \in Nat, m \in Done PROVE m + 1 \in Done
  <2>. SUFFICES ASSUME m + 1 <= n PROVE \E G : Good(m + 1, G)
    <3>. HIDE DEF Good
    <3>. QED  OBVIOUS
  <2>1. PICK g : Good(m, g)
    <3>. HIDE DEF Good
    <3>. QED  BY <1>2
  <2>. DEFINE h == [s \in SUBSET (1..m+1) |->
                      IF m + 1 \in s THEN step[m + 1][g[s \ {m + 1}]] ELSE g[s]]
  <2>2. \A s \in SUBSET (1..m+1) :
           /\ m + 1 \notin s => s \in SUBSET (1..m)
           /\ s \ {m + 1} \in SUBSET (1..m)
           /\ \A x : s \ {x} \in SUBSET (1..m+1)
    <3>1. \A y \in 1..m+1 : y # m + 1 => y \in 1..m
      OBVIOUS
    <3>. QED  BY <3>1
  <2>3. h \in [SUBSET (1..m+1) -> T]
    <3>1. ASSUME NEW s \in SUBSET (1..m+1) PROVE h[s] \in T
      <4>1. CASE m + 1 \in s
        <5>1. g[s \ {m + 1}] \in T /\ m + 1 \in 1..n
          BY <2>1, <2>2
        <5>. QED  BY <4>1, <5>1
      <4>2. CASE m + 1 \notin s
        BY <4>2, <2>1, <2>2
      <4>. QED  BY <4>1, <4>2
    <3>. QED  BY <3>1
  <2>4. h[{}] = base
    BY <2>1
  <2>5. ASSUME NEW s \in SUBSET (1..m+1), s # {}
        PROVE  h[s] = step[Max(s)][h[s \ {Max(s)}]]
    <3>1. Max(s) \in s /\ \A y \in s : y <= Max(s)
      <4>1. m + 1 \in Nat
        OBVIOUS
      <4>. QED  BY <4>1, <2>5, MaxIs
    <3>2. CASE m + 1 \in s
      <4>1. Max(s) = m + 1
        <5>1. Max(s) \in 1..m+1 /\ m + 1 <= Max(s)
          BY <3>1, <3>2
        <5>. QED  BY <5>1
      <4>2. h[s \ {m + 1}] = g[s \ {m + 1}]
        BY <2>2
      <4>. QED  BY <4>1, <4>2, <3>2
    <3>3. CASE m + 1 \notin s
      <4>1. h[s] = g[s] /\ h[s \ {Max(s)}] = g[s \ {Max(s)}]
        BY <3>3, <2>2
      <4>. QED  BY <4>1, <2>1, <2>2, <2>5, <3>3
    <3>. QED  BY <3>2, <3>3
  <2>6. Good(m + 1, h)
    <3>. HIDE DEF h
    <3>. QED  BY <2>3, <2>4, <2>5
  <2>. HIDE DEF Good
  <2>. QED  BY <2>6
<1>. HIDE DEF Done
<1>3. n \in Done
  BY <1>1, <1>2, AllNumbers
<1>. USE DEF Done
<1>4. PICK G : Good(n, G)
  <2>. HIDE DEF Good
  <2>. QED  BY <1>3
<1>. QED  BY <1>4 DEF Folds
\* The numbers up to k.
LEMMA UpTo ==
    ASSUME NEW k \in Nat \ {0}
    PROVE  Max(1..k) = k /\ (1..k) \ {k} = 1..k-1 /\ 1..k # {}
<1>1. k \in 1..k /\ 1..k \in SUBSET (1..k) /\ 1..k # {}
  OBVIOUS
<1>2. Max(1..k) \in 1..k /\ \A y \in 1..k : y <= Max(1..k)
  <2>1. k \in Nat
    OBVIOUS
  <2>. QED  BY <1>1, <2>1, MaxIs
<1>3. k <= Max(1..k)
  BY <1>1, <1>2
<1>4. Max(1..k) = k
  BY <1>2, <1>3
<1>. QED  BY <1>1, <1>4

\* F[k] is what a fold has made of the first k.
Runs(F, n, base, step) == F[0] = base /\ \A k \in 1..n : F[k] = step[k][F[k-1]]

\* What a fold in the order of the numbers does, one number after the other.
LEMMA FoldRuns ==
    ASSUME NEW n \in Nat, NEW T, NEW base \in T, NEW step \in [1..n -> [T -> T]],
           NEW iter, iter[{}] = base,
           \A k \in 1..n : iter[1..k-1] \in T => iter[1..k] = step[k][iter[1..k-1]]
    PROVE  \E F \in [0..n -> T] : F[n] = iter[1..n] /\ Runs(F, n, base, step)
<1>. DEFINE D == {k \in Nat : k <= n => iter[1..k] \in T}
<1>0. 1..0 = {}
  OBVIOUS
<1>1. 0 \in D
  BY <1>0
<1>2. ASSUME NEW k \in Nat, k \in D PROVE k + 1 \in D
  <2>1. k + 1 <= n => k + 1 \in 1..n /\ k + 1 - 1 = k /\ k <= n
    OBVIOUS
  <2>. SUFFICES ASSUME k + 1 <= n PROVE iter[1..k+1] \in T
    OBVIOUS
  <2>2. iter[1..k] \in T
    BY <1>2, <2>1
  <2>3. iter[1..k+1] = step[k+1][iter[1..k]]
    BY <2>1, <2>2
  <2>. QED  BY <2>1, <2>2, <2>3
<1>3. \A k \in 0..n : iter[1..k] \in T
  <2>. HIDE DEF D
  <2>1. \A k \in Nat : k \in D
    BY <1>1, <1>2, AllNumbers
  <2>. USE DEF D
  <2>. QED  BY <2>1
<1>. DEFINE F == [k \in 0..n |-> iter[1..k]]
<1>4. F \in [0..n -> T]
  BY <1>3
<1>5. F[0] = base /\ F[n] = iter[1..n]
  BY <1>0
<1>6. ASSUME NEW k \in 1..n PROVE F[k] = step[k][F[k-1]]
  <2>1. k \in 0..n /\ k - 1 \in 0..n
    OBVIOUS
  <2>. QED  BY <1>3, <2>1
<1>. HIDE DEF F
<1>. QED  BY <1>4, <1>5, <1>6 DEF Runs

\* Picking out what is conversation, place by place.
LEMMA SpokenRuns ==
    ASSUME NEW log, NEW places \in Seq(Nat)
    PROVE  \E F \in [0..Len(places) -> Seq(Nat)] :
              /\ F[0] = <<>> /\ F[Len(places)] = Spoken(log, places)
              /\ \A k \in 1..Len(places) :
                    F[k] = IF InConversation(log[places[k]]) THEN Append(F[k-1], places[k]) ELSE F[k-1]
<1>. DEFINE n == Len(places)
            T == Seq(Nat)
            Op(t, k) == IF InConversation(log[k]) THEN Append(t, k) ELSE t
            step == [i \in 1..n |-> [t \in T |-> Op(t, places[i])]]
            Fold(g) == g = [s \in SUBSET (DOMAIN places) |->
                               IF s = {} THEN <<>>
                               ELSE LET x == Max(s) IN Op(g[s \ {x}], places[x])]
            iter == CHOOSE g : Fold(g)
<1>1. n \in Nat /\ DOMAIN places = 1..n /\ \A i \in 1..n : places[i] \in Nat
  OBVIOUS
<1>2. Spoken(log, places) = iter[DOMAIN places]
  BY Zenon DEF Spoken, FoldLeft, MapThenFoldSet
<1>3. \A t \in T, k \in Nat : Op(t, k) \in T
  OBVIOUS
<1>. HIDE DEF n, T, Op
<1>4. step \in [1..n -> [T -> T]] /\ <<>> \in T
  BY <1>1, <1>3 DEF T
<1>5. PICK G \in [SUBSET (1..n) -> T] : Folds(G, n, <<>>, step)
  <2>. HIDE DEF step
  <2>. QED  BY <1>1, <1>4, FoldExists
<1>6. Fold(G)
  <2>1. ASSUME NEW s \in SUBSET (DOMAIN places), s # {}
        PROVE  G[s] = Op(G[s \ {Max(s)}], places[Max(s)])
    <3>1. s \in SUBSET (1..n) /\ s \ {Max(s)} \in SUBSET (1..n)
      BY <1>1
    <3>2. Max(s) \in 1..n /\ G[s \ {Max(s)}] \in T
      BY <2>1, <3>1, <1>1, <1>5, MaxIs
    <3>3. G[s] = step[Max(s)][G[s \ {Max(s)}]]
      <4>. HIDE DEF step
      <4>. QED  BY <2>1, <3>1, <1>5 DEF Folds
    <3>. QED  BY <3>2, <3>3
  <2>2. G[{}] = <<>> /\ DOMAIN G = SUBSET (DOMAIN places)
    BY <1>1, <1>5 DEF Folds
  <2>. QED  BY <2>1, <2>2, <1>5
<1>7. Fold(iter)
  <2>. HIDE DEF Fold
  <2>. QED  BY <1>6
<1>. HIDE DEF iter
<1>8. iter[{}] = <<>>
  BY <1>7
<1>9. ASSUME NEW k \in 1..n PROVE iter[1..k] = Op(iter[1..k-1], places[k])
  <2>1. Max(1..k) = k /\ (1..k) \ {k} = 1..k-1 /\ 1..k # {}
    <3>1. k \in Nat \ {0}
      BY <1>1
    <3>. QED  BY <3>1, UpTo
  <2>2. 1..k \in SUBSET (DOMAIN places)
    BY <1>1
  <2>. QED  BY <1>7, <2>1, <2>2
<1>10. PICK F \in [0..n -> T] : F[n] = iter[1..n] /\ Runs(F, n, <<>>, step)
  <2>1. ASSUME NEW k \in 1..n, iter[1..k-1] \in T PROVE iter[1..k] = step[k][iter[1..k-1]]
    BY <1>9, <2>1
  <2>. HIDE DEF step
  <2>. QED  BY <1>1, <1>4, <1>8, <2>1, FoldRuns
<1>11. ASSUME NEW k \in 1..n PROVE F[k] = Op(F[k-1], places[k])
  <2>1. F[k-1] \in T
    BY <1>1, <1>10
  <2>. QED  BY <1>10, <2>1 DEF Runs
<1>. USE DEF Op
<1>. QED  BY <1>1, <1>2, <1>10, <1>11 DEF Runs, n, T

\* The turns of a conversation, and how what was said is merged into them.
Roles == {"user", "assistant"}
Turns == [role : Roles, parts : Seq(Nat)]
Said(log, places) == FoldLeft(LAMBDA turns, k : AddTurn(turns, log[k].role, k), <<>>, places)

\* A part joins the last turn if that is of its role, else it makes one.
LEMMA AddTurnType ==
    ASSUME NEW turns \in Seq(Turns), NEW role \in Roles, NEW part \in Nat
    PROVE  AddTurn(turns, role, part) \in Seq(Turns)
<1>1. CASE Speaks(turns, role)
  <2>. DEFINE n == Len(turns)
              last == [turns[n] EXCEPT !.parts = Append(@, part)]
  <2>1. n \in 1..Len(turns) /\ turns[n] \in Turns
    BY <1>1 DEF Speaks
  <2>2. last \in Turns
    <3>. DEFINE t == turns[n]
                more == Append(t.parts, part)
    <3>1. t \in Turns /\ t.parts \in Seq(Nat)
      BY <2>1 DEF Turns
    <3>2. more \in Seq(Nat)
      BY <3>1
    <3>. HIDE DEF t, more
    <3>3. [t EXCEPT !.parts = more] \in Turns
      BY <3>1, <3>2 DEF Turns
    <3>. USE DEF t, more
    <3>. QED  BY <3>3
  <2>3. AddTurn(turns, role, part) = [turns EXCEPT ![n] = last]
    BY <1>1 DEF AddTurn
  <2>. HIDE DEF last, n
  <2>. QED  BY <2>1, <2>2, <2>3
<1>2. CASE ~Speaks(turns, role)
  <2>1. [role |-> role, parts |-> <<part>>] \in Turns
    BY DEF Turns
  <2>. QED  BY <1>2, <2>1 DEF AddTurn
<1>. QED  BY <1>1, <1>2

\* Merging what is said into turns, part by part.
LEMMA TurnsRun ==
    ASSUME NEW log, NEW places \in Seq(Nat), \A i \in DOMAIN places : log[places[i]].role \in Roles
    PROVE  \E F \in [0..Len(places) -> Seq(Turns)] :
              /\ F[0] = <<>> /\ F[Len(places)] = Said(log, places)
              /\ \A k \in 1..Len(places) :
                    F[k] = AddTurn(F[k-1], log[places[k]].role, places[k])
<1>. DEFINE n == Len(places)
            T == Seq(Turns)
            Op(t, k) == AddTurn(t, log[k].role, k)
            step == [i \in 1..n |-> [t \in T |-> Op(t, places[i])]]
            Fold(g) == g = [s \in SUBSET (DOMAIN places) |->
                               IF s = {} THEN <<>>
                               ELSE LET x == Max(s) IN Op(g[s \ {x}], places[x])]
            iter == CHOOSE g : Fold(g)
<1>1. n \in Nat /\ DOMAIN places = 1..n /\ \A i \in 1..n : places[i] \in Nat /\ log[places[i]].role \in Roles
  OBVIOUS
<1>2. Said(log, places) = iter[DOMAIN places]
  BY Zenon DEF Said, FoldLeft, MapThenFoldSet
<1>3. \A t \in T, i \in 1..n : Op(t, places[i]) \in T
  BY <1>1, AddTurnType
<1>. HIDE DEF n, T, Op
<1>4. step \in [1..n -> [T -> T]] /\ <<>> \in T
  BY <1>1, <1>3 DEF T
<1>5. PICK G \in [SUBSET (1..n) -> T] : Folds(G, n, <<>>, step)
  <2>. HIDE DEF step
  <2>. QED  BY <1>1, <1>4, FoldExists
<1>6. Fold(G)
  <2>1. ASSUME NEW s \in SUBSET (DOMAIN places), s # {}
        PROVE  G[s] = Op(G[s \ {Max(s)}], places[Max(s)])
    <3>1. s \in SUBSET (1..n) /\ s \ {Max(s)} \in SUBSET (1..n)
      BY <1>1
    <3>2. Max(s) \in 1..n /\ G[s \ {Max(s)}] \in T
      BY <2>1, <3>1, <1>1, <1>5, MaxIs
    <3>3. G[s] = step[Max(s)][G[s \ {Max(s)}]]
      <4>. HIDE DEF step
      <4>. QED  BY <2>1, <3>1, <1>5 DEF Folds
    <3>. QED  BY <3>2, <3>3
  <2>2. G[{}] = <<>> /\ DOMAIN G = SUBSET (DOMAIN places)
    BY <1>1, <1>5 DEF Folds
  <2>. QED  BY <2>1, <2>2, <1>5
<1>7. Fold(iter)
  <2>. HIDE DEF Fold
  <2>. QED  BY <1>6
<1>. HIDE DEF iter
<1>8. iter[{}] = <<>>
  BY <1>7
<1>9. ASSUME NEW k \in 1..n PROVE iter[1..k] = Op(iter[1..k-1], places[k])
  <2>1. Max(1..k) = k /\ (1..k) \ {k} = 1..k-1 /\ 1..k # {}
    <3>1. k \in Nat \ {0}
      BY <1>1
    <3>. QED  BY <3>1, UpTo
  <2>2. 1..k \in SUBSET (DOMAIN places)
    BY <1>1
  <2>. QED  BY <1>7, <2>1, <2>2
<1>10. PICK F \in [0..n -> T] : F[n] = iter[1..n] /\ Runs(F, n, <<>>, step)
  <2>1. ASSUME NEW k \in 1..n, iter[1..k-1] \in T PROVE iter[1..k] = step[k][iter[1..k-1]]
    BY <1>9, <2>1
  <2>. HIDE DEF step
  <2>. QED  BY <1>1, <1>4, <1>8, <2>1, FoldRuns
<1>11. ASSUME NEW k \in 1..n PROVE F[k] = Op(F[k-1], places[k])
  <2>1. F[k-1] \in T
    BY <1>1, <1>10
  <2>. QED  BY <1>10, <2>1 DEF Runs
<1>. USE DEF Op
<1>. QED  BY <1>1, <1>2, <1>10, <1>11 DEF Runs, n, T

\* The places of what belongs to the conversation.
SaidIn(log) == {k \in DOMAIN log : log[k].kind = "text"}

\* s are the places in said, in order and without a gap, from one on up to p.
Unbroken(s, said, p) ==
    /\ s \in Seq(Nat)
    /\ \A i \in 1..Len(s) : s[i] \in said /\ s[i] <= p
    /\ \A i, j \in 1..Len(s) : i < j => s[i] < s[j]
    /\ \A i \in 1..Len(s), k \in said : s[i] < k /\ k <= p => \E j \in 1..Len(s) : s[j] = k

\* r is the end of s, from b on, and no longer than n.
IsEnd(r, s, n, b) ==
    /\ r \in Seq(Nat) /\ Len(r) = Len(s) - b /\ Len(s) - b <= n
    /\ \A i \in 1..Len(s)-b : r[i] = s[b + i]

\* The last n of a sequence.
LEMMA TailsIs ==
    ASSUME NEW s \in Seq(Nat), NEW n \in Nat
    PROVE  \E b \in 0..Len(s) : IsEnd(Tails(s, n), s, n, b)
<1>. DEFINE b == IF Len(s) > n THEN Len(s) - n ELSE 0
<1>1. b \in 0..Len(s) /\ Len(s) - b <= n /\ Len(s) \in Nat
  OBVIOUS
<1>2. Tails(s, n) = SubSeq(s, b + 1, Len(s))
  <2>1. CASE Len(s) > n
    BY <2>1, <1>1 DEF Tails
  <2>2. CASE ~(Len(s) > n)
    BY <2>2, <1>1 DEF Tails
  <2>. QED  BY <2>1, <2>2
<1>. HIDE DEF b
<1>3. SubSeq(s, b + 1, Len(s)) \in Seq(Nat) /\ Len(SubSeq(s, b + 1, Len(s))) = Len(s) - b
  BY <1>1
<1>4. \A i \in 1..Len(s)-b : SubSeq(s, b + 1, Len(s))[i] = s[b + i]
  BY <1>1
<1>. QED  BY <1>1, <1>2, <1>3, <1>4 DEF IsEnd

\* The next place, if it belongs, is added at the end.
LEMMA UnbrokenGrows ==
    ASSUME NEW s, NEW said \in SUBSET Nat, NEW p \in Nat, Unbroken(s, said, p)
    PROVE  /\ p + 1 \in said => Unbroken(Append(s, p + 1), said, p + 1)
           /\ p + 1 \notin said => Unbroken(s, said, p + 1)
<1>1. s \in Seq(Nat) /\ Len(s) \in Nat /\ \A i \in 1..Len(s) : s[i] \in Nat
  BY DEF Unbroken
<1>2. \A k \in Nat : k <= p + 1 => k <= p \/ k = p + 1
  OBVIOUS
<1>3. ASSUME p + 1 \in said PROVE Unbroken(Append(s, p + 1), said, p + 1)
  <2>. DEFINE r == Append(s, p + 1)
              m == Len(s)
  <2>1. r \in Seq(Nat) /\ Len(r) = m + 1 /\ r[m+1] = p + 1 /\ \A i \in 1..m : r[i] = s[i]
    BY <1>1
  <2>2. \A i \in 1..m+1 : i \in 1..m \/ i = m + 1
    BY <1>1
  <2>. HIDE DEF r
  <2>3. \A i \in 1..m+1 : r[i] \in said /\ r[i] <= p + 1
    BY <1>1, <1>3, <2>1, <2>2 DEF Unbroken
  <2>4. ASSUME NEW i \in 1..m+1, NEW j \in 1..m+1, i < j PROVE r[i] < r[j]
    <3>1. i \in 1..m
      BY <2>4, <1>1
    <3>2. CASE j \in 1..m
      BY <2>1, <2>4, <3>1, <3>2 DEF Unbroken
    <3>3. CASE j = m + 1
      <4>1. s[i] <= p /\ s[i] \in Nat
        BY <3>1, <1>1 DEF Unbroken
      <4>. QED  BY <4>1, <3>1, <3>3, <2>1
    <3>. QED  BY <2>2, <3>2, <3>3
  <2>5. ASSUME NEW i \in 1..m+1, NEW k \in said, r[i] < k, k <= p + 1
        PROVE  \E j \in 1..m+1 : r[j] = k
    <3>1. CASE k = p + 1
      BY <3>1, <2>1, <1>1
    <3>2. CASE k # p + 1
      <4>1. k <= p
        BY <3>2, <2>5
      <4>2. i \in 1..m
        BY <4>1, <2>1, <2>2, <2>5
      <4>3. PICK j \in 1..m : s[j] = k
        BY <4>1, <4>2, <2>1, <2>5 DEF Unbroken
      <4>. QED  BY <4>3, <2>1, <1>1
    <3>. QED  BY <3>1, <3>2
  <2>. QED  BY <2>1, <2>3, <2>4, <2>5 DEF Unbroken
<1>4. ASSUME p + 1 \notin said PROVE Unbroken(s, said, p + 1)
  <2>1. \A k \in said : k <= p + 1 => k <= p
    BY <1>2, <1>4
  <2>2. \A i \in 1..Len(s) : s[i] <= p + 1
    BY <1>1 DEF Unbroken
  <2>. QED  BY <1>1, <2>1, <2>2 DEF Unbroken
<1>. QED  BY <1>3, <1>4

\* What the provider is given is the end of the conversation, unbroken.
LEMMA RecentIs ==
    ASSUME NEW log \in Seq(LogRecords), NEW stored \in BOOLEAN
    PROVE  LET recent == Recent(log, stored) IN
           /\ Unbroken(recent, SaidIn(log), Len(log)) /\ Len(recent) <= HistorySize
           /\ \A i \in 1..Len(recent) : recent[i] \in 1..Len(log)
<1>. DEFINE all == [k \in DOMAIN log |-> k]
            said == SaidIn(log)
            places == IF stored THEN Tails(all, 2 * HistorySize) ELSE all
            spoken == Spoken(log, places)
            last == Len(log)
<1>1. last \in Nat /\ DOMAIN log = 1..last /\ HistorySize \in Nat /\ 2 * HistorySize \in Nat
  BY DecisionAssumption
<1>2. all \in Seq(Nat) /\ Len(all) = last /\ \A k \in 1..last : all[k] = k
  BY <1>1
<1>3. said \in SUBSET Nat /\ \A k \in 1..last : k \in said <=> InConversation(log[k])
  BY <1>1 DEF SaidIn, InConversation
<1>. HIDE DEF all
<1>4. PICK a \in 0..last : /\ places \in Seq(Nat) /\ Len(places) = last - a
                            /\ \A k \in 1..last-a : places[k] = all[a + k]
  <2>1. CASE stored
    <3>1. PICK a \in 0..Len(all) : IsEnd(Tails(all, 2 * HistorySize), all, 2 * HistorySize, a)
      BY <1>1, <1>2, TailsIs
    <3>2. places = Tails(all, 2 * HistorySize)
      BY <2>1
    <3>. HIDE DEF places
    <3>. QED  BY <1>2, <3>1, <3>2 DEF IsEnd
  <2>2. CASE ~stored
    <3>1. places = all
      BY <2>2
    <3>. HIDE DEF places
    <3>2. 0 \in 0..last /\ last - 0 = last /\ \A k \in 1..last-0 : 0 + k = k
      BY <1>1
    <3>. QED  BY <1>2, <3>1, <3>2
  <2>. QED  BY <2>1, <2>2
<1>. HIDE DEF places
<1>5. \A k \in 1..last-a : places[k] = a + k /\ a + k \in 1..last
  <2>1. \A k \in 1..last-a : a + k \in 1..last
    BY <1>1
  <2>. QED  BY <2>1, <1>2, <1>4
<1>6. PICK F \in [0..Len(places) -> Seq(Nat)] :
         /\ F[0] = <<>> /\ F[Len(places)] = spoken
         /\ \A k \in 1..Len(places) :
               F[k] = IF InConversation(log[places[k]]) THEN Append(F[k-1], places[k]) ELSE F[k-1]
  <2>1. places \in Seq(Nat)
    BY <1>4
  <2>. QED  BY <2>1, SpokenRuns, Zenon
<1>. HIDE DEF spoken, last, said
<1>. DEFINE D == {k \in Nat : k <= last - a => Unbroken(F[k], said, a + k)}
<1>7. 0 \in D
  <2>1. F[0] \in Seq(Nat) /\ Len(F[0]) = 0
    BY <1>6
  <2>. QED  BY <2>1 DEF Unbroken
<1>8. ASSUME NEW k \in Nat, k \in D PROVE k + 1 \in D
  <2>. SUFFICES ASSUME k + 1 <= last - a PROVE Unbroken(F[k+1], said, a + (k + 1))
    OBVIOUS
  <2>1. k + 1 \in 1..last-a /\ k + 1 - 1 = k /\ k <= last - a /\ a + k \in Nat
        /\ a + (k + 1) = (a + k) + 1
    BY <1>1, <1>4
  <2>2. Unbroken(F[k], said, a + k)
    BY <1>8, <2>1
  <2>3. places[k+1] = (a + k) + 1 /\ (a + k) + 1 \in 1..last
    BY <1>5, <2>1
  <2>4. F[k+1] = IF InConversation(log[(a + k) + 1]) THEN Append(F[k], (a + k) + 1) ELSE F[k]
    BY <1>4, <1>6, <2>1, <2>3
  <2>5. (a + k) + 1 \in said <=> InConversation(log[(a + k) + 1])
    BY <1>3, <2>3
  <2>. HIDE DEF D
  <2>. QED  BY <1>3, <2>1, <2>2, <2>4, <2>5, UnbrokenGrows
<1>. HIDE DEF D
<1>9. last - a \in D /\ last - a \in Nat /\ a + (last - a) = last
  <2>1. last - a \in Nat /\ a + (last - a) = last
    BY <1>1, <1>4
  <2>. QED  BY <2>1, <1>7, <1>8, AllNumbers
<1>. USE DEF D
<1>10. Unbroken(spoken, said, last)
  BY <1>4, <1>6, <1>9
<1>. HIDE DEF D
<1>11. PICK b \in 0..Len(spoken) : IsEnd(Tails(spoken, HistorySize), spoken, HistorySize, b)
  <2>1. spoken \in Seq(Nat)
    BY <1>10 DEF Unbroken
  <2>. QED  BY <1>1, <2>1, TailsIs
<1>. DEFINE s == Tails(spoken, HistorySize)
            m == Len(spoken)
<1>12. Recent(log, stored) = s
  BY DEF Recent, spoken, places, all
<1>13. s \in Seq(Nat) /\ Len(s) = m - b /\ m - b <= HistorySize /\ m \in Nat
       /\ \A i \in 1..m-b : s[i] = spoken[b + i] /\ b + i \in 1..m
  <2>1. spoken \in Seq(Nat)
    BY <1>10 DEF Unbroken
  <2>2. m \in Nat
    BY <2>1
  <2>3. \A i \in 1..m-b : b + i \in 1..m
    BY <2>2
  <2>. QED  BY <1>11, <2>2, <2>3 DEF IsEnd
<1>13a. \A j \in 1..m : spoken[j] \in Nat
  <2>1. spoken \in Seq(Nat)
    BY <1>10 DEF Unbroken
  <2>. QED  BY <2>1
<1>. HIDE DEF s, m
<1>14. \A i \in 1..m-b : s[i] \in said /\ s[i] <= last
  BY <1>10, <1>13 DEF Unbroken, m
<1>15. ASSUME NEW i \in 1..m-b, NEW j \in 1..m-b, i < j PROVE s[i] < s[j]
  <2>1. b + i < b + j
    BY <1>13, <1>15
  <2>. QED  BY <1>10, <1>13, <2>1 DEF Unbroken, m
<1>16. ASSUME NEW i \in 1..m-b, NEW k \in said, s[i] < k, k <= last
       PROVE  \E j \in 1..m-b : s[j] = k
  <2>1. PICK j \in 1..m : spoken[j] = k
    BY <1>10, <1>13, <1>16 DEF Unbroken, m
  <2>2. j > b + i
    <3>0. i \in Nat /\ b \in Nat /\ b + i \in 1..m /\ j \in Nat
      BY <1>13
    <3>. SUFFICES ASSUME j <= b + i PROVE FALSE
      BY <3>0
    <3>1. spoken[j] \in Nat /\ spoken[b+i] \in Nat
      BY <1>13a, <3>0, <2>1
    <3>2. spoken[j] <= spoken[b + i]
      <4>1. CASE j = b + i
        BY <4>1, <3>1
      <4>2. CASE j < b + i
        BY <4>2, <3>1, <1>10, <1>13, <2>1 DEF Unbroken, m
      <4>. QED  BY <4>1, <4>2, <3>0
    <3>3. k <= s[i] /\ k \in Nat /\ s[i] \in Nat
      BY <3>1, <3>2, <2>1, <1>13
    <3>. QED  BY <3>3, <1>16
  <2>3. j - b \in 1..m-b /\ b + (j - b) = j
    BY <1>13, <2>1, <2>2
  <2>. QED  BY <1>13, <2>1, <2>3
<1>17. Unbroken(s, said, last)
  BY <1>13, <1>14, <1>15, <1>16 DEF Unbroken
<1>18. \A i \in 1..m-b : s[i] \in 1..last
  BY <1>1, <1>14, <1>3 DEF said, SaidIn
<1>. QED  BY <1>12, <1>13, <1>17, <1>18 DEF last, said

\* The turns are made of successive pieces of q, cut at b, each the words of one
\* side.
Pieces(turns, q, who, b) ==
    /\ turns \in Seq(Turns) /\ b \in [1..Len(turns)+1 -> 0..Len(q)]
    /\ \A t \in 1..Len(turns) :
          /\ b[t] < b[t+1] /\ turns[t].parts = SubSeq(q, b[t] + 1, b[t+1])
          /\ \A i \in b[t]+1..b[t+1] : who[i] = turns[t].role

\* No two in a row are of the same.
Cuts(turns, q, who, b) ==
    /\ Pieces(turns, q, who, b)
    /\ \A t \in 1..Len(turns)-1 : turns[t].role # turns[t+1].role

\* Sequences with the same elements are the same.
LEMMA SameSeq ==
    ASSUME NEW s \in Seq(Nat), NEW t \in Seq(Nat), Len(s) = Len(t),
           \A i \in 1..Len(s) : s[i] = t[i]
    PROVE  s = t
<1>1. s \in [1..Len(s) -> Nat] /\ t \in [1..Len(s) -> Nat]
  OBVIOUS
<1>. QED  BY <1>1

\* Pieces of a sequence, put together.
LEMMA PieceGrows ==
    ASSUME NEW q \in Seq(Nat), NEW x \in Nat, NEW y \in Nat, x <= y, y < Len(q)
    PROVE  /\ Append(SubSeq(q, x + 1, y), q[y+1]) = SubSeq(q, x + 1, y + 1)
           /\ <<q[y+1]>> = SubSeq(q, y + 1, y + 1)
<1>. DEFINE s == SubSeq(q, x + 1, y)
            r == SubSeq(q, x + 1, y + 1)
<1>1. s \in Seq(Nat) /\ Len(s) = y - x /\ \A i \in 1..y-x : s[i] = q[x + i]
  OBVIOUS
<1>2. r \in Seq(Nat) /\ Len(r) = y - x + 1 /\ \A i \in 1..y-x+1 : r[i] = q[x + i]
  OBVIOUS
<1>3. q[y+1] \in Nat /\ x + (y - x + 1) = y + 1 /\ y - x \in Nat
  OBVIOUS
<1>. HIDE DEF s, r
<1>4. Append(s, q[y+1]) \in Seq(Nat) /\ Len(Append(s, q[y+1])) = y - x + 1
  BY <1>1, <1>3
<1>5. \A i \in 1..y-x+1 : Append(s, q[y+1])[i] = r[i]
  <2>1. ASSUME NEW i \in 1..y-x+1 PROVE Append(s, q[y+1])[i] = r[i]
    <3>1. CASE i \in 1..y-x
      BY <3>1, <1>1, <1>2, <1>3
    <3>2. CASE i = y - x + 1
      BY <3>2, <1>1, <1>2, <1>3
    <3>3. i \in 1..y-x \/ i = y - x + 1
      BY <1>3
    <3>. QED  BY <3>1, <3>2, <3>3
  <2>. QED  BY <2>1
<1>6. Append(s, q[y+1]) = r
  BY <1>2, <1>4, <1>5, SameSeq
<1>7. <<q[y+1]>> = SubSeq(q, y + 1, y + 1)
  BY <1>3
<1>. USE DEF s, r
<1>. QED  BY <1>6, <1>7

\* Two pieces that meet are one piece.
LEMMA PiecesJoin ==
    ASSUME NEW q \in Seq(Nat), NEW x \in Nat, NEW y \in Nat, NEW z \in Nat,
           x <= y, y <= z, z <= Len(q)
    PROVE  SubSeq(q, x + 1, y) \o SubSeq(q, y + 1, z) = SubSeq(q, x + 1, z)
<1>. DEFINE s == SubSeq(q, x + 1, y)
            r == SubSeq(q, y + 1, z)
            a == SubSeq(q, x + 1, z)
<1>1. s \in Seq(Nat) /\ Len(s) = y - x /\ \A i \in 1..y-x : s[i] = q[x + i]
  OBVIOUS
<1>2. r \in Seq(Nat) /\ Len(r) = z - y /\ \A i \in 1..z-y : r[i] = q[y + i]
  OBVIOUS
<1>3. a \in Seq(Nat) /\ Len(a) = z - x /\ \A i \in 1..z-x : a[i] = q[x + i]
  OBVIOUS
<1>. HIDE DEF s, r, a
<1>4. s \o r \in Seq(Nat) /\ Len(s \o r) = z - x
  <2>0. s \in Seq(Nat) /\ r \in Seq(Nat)
    BY <1>1, <1>2
  <2>1. s \o r \in Seq(Nat) /\ Len(s \o r) = Len(s) + Len(r)
    BY <2>0
  <2>2. (y - x) + (z - y) = z - x
    OBVIOUS
  <2>. QED  BY <2>1, <2>2, <1>1, <1>2
<1>5. ASSUME NEW i \in 1..z-x PROVE (s \o r)[i] = a[i]
  <2>1. CASE i <= y - x
    <3>1. i \in 1..Len(s)
      BY <2>1, <1>1
    <3>2. (s \o r)[i] = s[i]
      BY <3>1, <1>1, <1>2
    <3>. QED  BY <3>1, <3>2, <1>1, <1>3
  <2>2. CASE i > y - x
    <3>1. i - (y - x) \in 1..z-y /\ y + (i - (y - x)) = x + i
      BY <2>2
    <3>2. (s \o r)[i] = r[i - (y - x)]
      <4>1. i \in Len(s)+1 .. Len(s)+Len(r)
        BY <2>2, <1>1, <1>2
      <4>2. (s \o r)[i] = r[i - Len(s)]
        <5>1. s \in Seq(Nat) /\ r \in Seq(Nat)
          BY <1>1, <1>2
        <5>. QED  BY <4>1, <5>1
      <4>3. Len(s) = y - x
        BY <1>1
      <4>. QED  BY <4>2, <4>3, Zenon
    <3>. QED  BY <3>1, <3>2, <1>2, <1>3
  <2>3. i <= y - x \/ i > y - x
    OBVIOUS
  <2>. QED  BY <2>1, <2>2, <2>3
<1>6. s \o r = a
  BY <1>3, <1>4, <1>5, SameSeq
<1>. USE DEF s, r, a
<1>. QED  BY <1>6

\* The next part makes a longer last piece, or a new one.
LEMMA CutsGrow ==
    ASSUME NEW turns, NEW q \in Seq(Nat), NEW who, NEW b, Cuts(turns, q, who, b),
           NEW k \in Nat, b[Len(turns)+1] = k, k < Len(q), who[k+1] \in Roles
    PROVE  LET more == AddTurn(turns, who[k+1], q[k+1]) IN
           \E c : Cuts(more, q, who, c) /\ c[1] = b[1] /\ c[Len(more)+1] = k + 1 /\ more # <<>>
<1>. DEFINE m == Len(turns)
            more == AddTurn(turns, who[k+1], q[k+1])
<1>1. /\ turns \in Seq(Turns) /\ m \in Nat /\ b \in [1..m+1 -> 0..Len(q)] /\ b[m+1] = k
      /\ q[k+1] \in Nat /\ Len(q) \in Nat /\ DOMAIN turns = 1..m
  BY DEF Cuts, Pieces
<1>2. more \in Seq(Turns)
  BY <1>1, AddTurnType
<1>3. CASE Speaks(turns, who[k+1])
  <2>. DEFINE part == Append(turns[m].parts, q[k+1])
              last == [turns[m] EXCEPT !.parts = part]
              c == [b EXCEPT ![m+1] = k + 1]
  <2>1. m \in 1..m /\ turns[m] \in Turns /\ turns[m].role = who[k+1] /\ m + 1 # 1
    BY <1>1, <1>3 DEF Speaks, Last
  <2>2. more = [turns EXCEPT ![m] = last]
    BY <1>3, <2>1 DEF AddTurn
  <2>3. b[m] \in Nat /\ b[m] < k /\ part = SubSeq(q, b[m] + 1, k + 1)
    <3>1. b[m] < b[m+1] /\ turns[m].parts = SubSeq(q, b[m] + 1, b[m+1]) /\ b[m] \in Nat
      BY <1>1, <2>1 DEF Cuts, Pieces
    <3>2. b[m] <= k /\ b[m+1] = k
      BY <3>1, <1>1
    <3>3. Append(SubSeq(q, b[m] + 1, k), q[k+1]) = SubSeq(q, b[m] + 1, k + 1)
      BY <3>1, <3>2, PieceGrows
    <3>. QED  BY <3>1, <3>2, <3>3
  <2>. HIDE DEF part
  <2>4. last.role = turns[m].role /\ last.parts = part
    BY <2>1 DEF Turns
  <2>. HIDE DEF last, m, more
  <2>5. Len(more) = m /\ more[m] = last /\ \A t \in 1..m-1 : more[t] = turns[t]
    BY <1>1, <2>1, <2>2 DEF m
  <2>6. c \in [1..m+1 -> 0..Len(q)] /\ c[m+1] = k + 1 /\ \A t \in 1..m : c[t] = b[t]
    BY <1>1, <2>1
  <2>. HIDE DEF c
  <2>7. ASSUME NEW t \in 1..m
        PROVE  /\ c[t] < c[t+1] /\ more[t].parts = SubSeq(q, c[t] + 1, c[t+1])
               /\ \A i \in c[t]+1..c[t+1] : who[i] = more[t].role
    <3>1. CASE t = m
      <4>1. c[t] = b[m] /\ c[t+1] = k + 1 /\ more[t].parts = part /\ more[t].role = turns[m].role
        BY <2>4, <2>5, <2>6, <3>1
      <4>2. \A i \in b[m]+1..k : who[i] = turns[m].role
        BY <1>1, <2>1 DEF Cuts, Pieces, m
      <4>3. \A i \in b[m]+1..k+1 : i \in b[m]+1..k \/ i = k + 1
        BY <2>3
      <4>. QED  BY <2>1, <2>3, <4>1, <4>2, <4>3
    <3>2. CASE t # m
      <4>1. t \in 1..m-1 /\ t \in 1..m /\ t + 1 \in 1..m
        BY <1>1, <3>2
      <4>2. c[t] = b[t] /\ c[t+1] = b[t+1] /\ more[t] = turns[t]
        BY <2>5, <2>6, <4>1
      <4>. QED  BY <4>1, <4>2 DEF Cuts, Pieces, m
    <3>. QED  BY <3>1, <3>2
  <2>8. ASSUME NEW t \in 1..m-1 PROVE more[t].role # more[t+1].role
    <3>1. turns[t].role # turns[t+1].role
      BY <2>8 DEF Cuts, Pieces, m
    <3>2. t \in 1..m-1 /\ (t + 1 \in 1..m-1 \/ t + 1 = m)
      BY <1>1
    <3>. QED  BY <3>1, <3>2, <2>4, <2>5
  <2>9. Cuts(more, q, who, c)
    BY <1>2, <2>5, <2>6, <2>7, <2>8 DEF Cuts, Pieces
  <2>10. c[1] = b[1] /\ c[Len(more)+1] = k + 1 /\ more # <<>>
    BY <2>1, <2>5, <2>6
  <2>. USE DEF more
  <2>. QED  BY <2>9, <2>10
<1>4. CASE ~Speaks(turns, who[k+1])
  <2>. DEFINE last == [role |-> who[k+1], parts |-> <<q[k+1]>>]
              c == [t \in 1..m+2 |-> IF t = m + 2 THEN k + 1 ELSE b[t]]
  <2>1. more = Append(turns, last)
    BY <1>4 DEF AddTurn
  <2>2. last.role = who[k+1] /\ last.parts = SubSeq(q, k + 1, k + 1)
    BY PieceGrows
  <2>3. m > 0 => turns[m].role # who[k+1]
    BY <1>1, <1>4 DEF Speaks, Last
  <2>. HIDE DEF last, more
  <2>4. Len(more) = m + 1 /\ more[m+1] = last /\ \A t \in 1..m : more[t] = turns[t]
    BY <1>1, <2>1
  <2>5. c \in [1..m+2 -> 0..Len(q)] /\ c[m+2] = k + 1 /\ \A t \in 1..m+1 : c[t] = b[t]
    <3>1. \A t \in 1..m+2 : t # m + 2 => t \in 1..m+1
      BY <1>1
    <3>2. k + 1 \in 0..Len(q) /\ \A t \in 1..m+1 : b[t] \in 0..Len(q)
      BY <1>1
    <3>3. c \in [1..m+2 -> 0..Len(q)]
      BY <3>1, <3>2
    <3>. QED  BY <3>3, <1>1
  <2>. HIDE DEF c, m
  <2>7. ASSUME NEW t \in 1..m+1
        PROVE  /\ c[t] < c[t+1] /\ more[t].parts = SubSeq(q, c[t] + 1, c[t+1])
               /\ \A i \in c[t]+1..c[t+1] : who[i] = more[t].role
    <3>1. CASE t = m + 1
      <4>1. c[t] = k /\ c[t+1] = k + 1 /\ more[t] = last
        <5>1. m + 1 \in 1..m+1 /\ (m + 1) + 1 = m + 2
          BY <1>1
        <5>. QED  BY <1>1, <2>4, <2>5, <3>1, <5>1
      <4>. QED  BY <2>2, <4>1
    <3>2. CASE t # m + 1
      <4>1. t \in 1..m /\ t \in 1..m+1 /\ t + 1 \in 1..m+1
        BY <1>1, <3>2
      <4>2. c[t] = b[t] /\ c[t+1] = b[t+1] /\ more[t] = turns[t]
        BY <2>4, <2>5, <4>1
      <4>. QED  BY <4>1, <4>2 DEF Cuts, Pieces, m
    <3>. QED  BY <3>1, <3>2
  <2>8. ASSUME NEW t \in 1..m PROVE more[t].role # more[t+1].role
    <3>1. CASE t = m
      BY <1>1, <2>2, <2>3, <2>4, <3>1
    <3>2. CASE t # m
      <4>1. t \in 1..m-1 /\ t + 1 \in 1..m
        BY <1>1, <3>2
      <4>2. turns[t].role # turns[t+1].role
        BY <4>1 DEF Cuts, Pieces, m
      <4>. QED  BY <4>1, <4>2, <2>4
    <3>. QED  BY <3>1, <3>2
  <2>9. Cuts(more, q, who, c)
    <3>1. Len(more) + 1 = m + 2 /\ Len(more) - 1 = m
      BY <1>1, <2>4
    <3>. QED  BY <1>2, <2>4, <2>5, <2>7, <2>8, <3>1 DEF Cuts, Pieces
  <2>10. c[1] = b[1] /\ c[Len(more)+1] = k + 1 /\ more # <<>>
    <3>1. 1 \in 1..m+1 /\ (m + 1) + 1 = m + 2
      BY <1>1
    <3>. QED  BY <2>4, <2>5, <3>1
  <2>. USE DEF more
  <2>. QED  BY <2>9, <2>10
<1>. QED  BY <1>3, <1>4

\* The contact's message is the last part; it is no place in the log.
Parts(sel) == Append(sel, 0)
Who(log, sel) == [i \in 1..Len(sel)+1 |-> IF i = Len(sel) + 1 THEN "user" ELSE log[sel[i]].role]

\* The parts before the last are those of the log, each with its role.
LEMMA PartsAre ==
    ASSUME NEW log \in Seq(LogRecords), NEW sel \in Seq(Nat),
           \A i \in 1..Len(sel) : sel[i] \in 1..Len(log)
    PROVE  /\ Len(sel) \in Nat /\ Parts(sel) \in Seq(Nat) /\ Len(Parts(sel)) = Len(sel) + 1
           /\ Parts(sel)[Len(sel)+1] = 0 /\ Who(log, sel)[Len(sel)+1] = "user"
           /\ \A i \in 1..Len(sel) : /\ Parts(sel)[i] = sel[i]
                                     /\ Who(log, sel)[i] = log[sel[i]].role
                                     /\ log[sel[i]].role \in Roles
<1>1. Len(sel) \in Nat /\ Parts(sel) \in Seq(Nat) /\ Len(Parts(sel)) = Len(sel) + 1
      /\ Parts(sel)[Len(sel)+1] = 0 /\ \A i \in 1..Len(sel) : Parts(sel)[i] = sel[i]
  BY DEF Parts
<1>2. Who(log, sel)[Len(sel)+1] = "user"
  BY <1>1 DEF Who
<1>3. ASSUME NEW i \in 1..Len(sel)
      PROVE  Who(log, sel)[i] = log[sel[i]].role /\ log[sel[i]].role \in Roles
  <2>1. log[sel[i]] \in LogRecords
    BY <1>3
  <2>2. log[sel[i]].role \in Roles
    BY <2>1 DEF LogRecords, Roles
  <2>3. i \in 1..Len(sel)+1 /\ i # Len(sel) + 1
    BY <1>1
  <2>. QED  BY <2>2, <2>3 DEF Who
<1>. QED  BY <1>1, <1>2, <1>3

\* What was said, and the message, in turns.
LEMMA SaidCuts ==
    ASSUME NEW log \in Seq(LogRecords), NEW sel \in Seq(Nat),
           \A i \in 1..Len(sel) : sel[i] \in 1..Len(log)
    PROVE  LET all == AddTurn(Said(log, sel), "user", 0) IN
           \E c : Cuts(all, Parts(sel), Who(log, sel), c) /\ c[1] = 0
                  /\ c[Len(all)+1] = Len(sel) + 1 /\ all # <<>>
<1>. DEFINE q == Parts(sel)
            who == Who(log, sel)
            n == Len(sel)
            Done(turns, k) == \E b : Cuts(turns, q, who, b) /\ b[1] = 0 /\ b[Len(turns)+1] = k
<1>1. /\ n \in Nat /\ q \in Seq(Nat) /\ Len(q) = n + 1 /\ q[n+1] = 0 /\ who[n+1] = "user"
      /\ \A i \in 1..n : q[i] = sel[i] /\ who[i] = log[sel[i]].role /\ who[i] \in Roles
  BY PartsAre
<1>2. PICK F \in [0..n -> Seq(Turns)] :
         /\ F[0] = <<>> /\ F[n] = Said(log, sel)
         /\ \A k \in 1..n : F[k] = AddTurn(F[k-1], log[sel[k]].role, sel[k])
  <2>1. \A i \in DOMAIN sel : log[sel[i]].role \in Roles
    BY PartsAre
  <2>. QED  BY <2>1, TurnsRun, Zenon
<1>. HIDE DEF q, who
<1>3. ASSUME NEW turns, NEW k \in 0..n, Done(turns, k)
      PROVE  /\ Done(AddTurn(turns, who[k+1], q[k+1]), k + 1)
             /\ AddTurn(turns, who[k+1], q[k+1]) # <<>>
  <2>1. PICK b : Cuts(turns, q, who, b) /\ b[1] = 0 /\ b[Len(turns)+1] = k
    BY <1>3
  <2>2. k \in Nat /\ k < Len(q) /\ who[k+1] \in Roles
    <3>1. k + 1 \in 1..n \/ k + 1 = n + 1
      BY <1>1
    <3>. QED  BY <1>1, <3>1 DEF Roles
  <2>. DEFINE more == AddTurn(turns, who[k+1], q[k+1])
  <2>3. PICK c : Cuts(more, q, who, c) /\ c[1] = b[1] /\ c[Len(more)+1] = k + 1 /\ more # <<>>
    <3>1. q \in Seq(Nat) /\ k \in Nat /\ k < Len(q) /\ who[k+1] \in Roles
      BY <1>1, <2>2
    <3>2. Cuts(turns, q, who, b) /\ b[Len(turns)+1] = k
      BY <2>1
    <3>3. \E c : Cuts(more, q, who, c) /\ c[1] = b[1] /\ c[Len(more)+1] = k + 1 /\ more # <<>>
      BY <3>1, <3>2, CutsGrow
    <3>. HIDE DEF more
    <3>. QED  BY <3>3
  <2>. QED  BY <2>1, <2>3
<1>. DEFINE D == {k \in Nat : k <= n => Done(F[k], k)}
<1>4. 0 \in D
  <2>. DEFINE b == [t \in 1..1 |-> 0]
  <2>1. Cuts(<<>>, q, who, b)
    BY <1>1 DEF Cuts, Pieces
  <2>2. Done(<<>>, 0)
    BY <2>1
  <2>. QED  BY <1>2, <2>2
<1>. HIDE DEF Done
<1>5. ASSUME NEW k \in Nat, k \in D PROVE k + 1 \in D
  <2>. SUFFICES ASSUME k + 1 <= n PROVE Done(F[k+1], k + 1)
    OBVIOUS
  <2>1. k + 1 \in 1..n /\ k \in 0..n /\ k + 1 - 1 = k /\ k <= n
    BY <1>1
  <2>2. F[k+1] = AddTurn(F[k], who[k+1], q[k+1])
    BY <1>1, <1>2, <2>1
  <2>3. Done(F[k], k)
    BY <1>5, <2>1
  <2>. QED  BY <1>3, <2>1, <2>2, <2>3
<1>. HIDE DEF D
<1>6. n \in D
  BY <1>1, <1>4, <1>5, AllNumbers
<1>. USE DEF D
<1>7. Done(Said(log, sel), n)
  BY <1>1, <1>2, <1>6
<1>. HIDE DEF D
<1>8. n \in 0..n
  BY <1>1
<1>. DEFINE all == AddTurn(Said(log, sel), "user", 0)
<1>9. Done(all, n + 1) /\ all # <<>>
  BY <1>1, <1>3, <1>7, <1>8
<1>. HIDE DEF all
<1>10. \E c : Cuts(all, q, who, c) /\ c[1] = 0 /\ c[Len(all)+1] = n + 1 /\ all # <<>>
  BY <1>9 DEF Done
<1>. USE DEF all, q, who
<1>. QED  BY <1>10

\* The cuts lie one after the other.
LEMMA PiecesRise ==
    ASSUME NEW turns, NEW q \in Seq(Nat), NEW who, NEW b, Pieces(turns, q, who, b)
    PROVE  /\ Len(turns) \in Nat
           /\ \A t \in 1..Len(turns)+1 : b[t] \in Nat /\ b[t] <= Len(q) /\ b[1] <= b[t]
<1>. DEFINE m == Len(turns)
            D == {t \in Nat : t + 1 <= m + 1 => b[1] <= b[t+1]}
<1>1. m \in Nat /\ \A t \in 1..m+1 : b[t] \in Nat /\ b[t] <= Len(q)
  BY DEF Pieces
<1>2. 0 \in D
  <2>1. 0 + 1 = 1 /\ 1 \in 1..m+1
    BY <1>1
  <2>. QED  BY <1>1, <2>1
<1>3. ASSUME NEW t \in Nat, t \in D PROVE t + 1 \in D
  <2>. SUFFICES ASSUME (t + 1) + 1 <= m + 1 PROVE b[1] <= b[(t+1)+1]
    OBVIOUS
  <2>1. t + 1 \in 1..m /\ t + 1 \in 1..m+1 /\ (t + 1) + 1 \in 1..m+1 /\ 1 \in 1..m+1
    BY <1>1
  <2>2. b[t+1] < b[(t+1)+1]
    BY <2>1 DEF Pieces
  <2>3. b[1] <= b[t+1]
    BY <1>3, <2>1
  <2>. QED  BY <1>1, <2>1, <2>2, <2>3
<1>. HIDE DEF D
<1>4. \A t \in Nat : t \in D
  BY <1>2, <1>3, AllNumbers
<1>. USE DEF D
<1>5. ASSUME NEW t \in 1..m+1 PROVE b[1] <= b[t]
  <2>1. t - 1 \in Nat /\ (t - 1) + 1 = t /\ t <= m + 1
    BY <1>1
  <2>. QED  BY <1>4, <2>1
<1>. QED  BY <1>1, <1>5

\* Put together again, the pieces are one piece.
LEMMA FlattenPieces ==
    ASSUME NEW turns, NEW q \in Seq(Nat), NEW who, NEW b, Pieces(turns, q, who, b), turns # <<>>
    PROVE  FlattenSeq([t \in DOMAIN turns |-> turns[t].parts])
           = SubSeq(q, b[1] + 1, b[Len(turns)+1])
<1>. DEFINE m == Len(turns)
            seqs == [t \in DOMAIN turns |-> turns[t].parts]
            Flat(g) == g = [i \in 1..Len(seqs) |->
                               IF i = 1 THEN seqs[i] ELSE g[i - 1] \o seqs[i]]
            flatten == CHOOSE g : Flat(g)
            G == [i \in 1..m |-> SubSeq(q, b[1] + 1, b[i+1])]
<1>1. m \in Nat /\ m # 0 /\ DOMAIN turns = 1..m /\ Len(seqs) = m /\ DOMAIN seqs = 1..m
  <2>1. turns \in Seq(Turns)
    BY DEF Pieces
  <2>. QED  BY <2>1
<1>2. \A t \in 1..m+1 : b[t] \in Nat /\ b[t] <= Len(q) /\ b[1] <= b[t]
  BY PiecesRise
<1>3. \A t \in 1..m : seqs[t] = SubSeq(q, b[t] + 1, b[t+1]) /\ b[t] < b[t+1]
  BY <1>1 DEF Pieces
<1>4. FlattenSeq(seqs) = flatten[m]
  <2>1. FlattenSeq(seqs) = IF Len(seqs) = 0 THEN seqs ELSE flatten[Len(seqs)]
    BY Zenon DEF FlattenSeq
  <2>. HIDE DEF flatten, seqs
  <2>. QED  BY <1>1, <2>1
<1>. HIDE DEF seqs, m
<1>5. Flat(G)
  <2>1. ASSUME NEW i \in 1..m PROVE G[i] = IF i = 1 THEN seqs[i] ELSE G[i - 1] \o seqs[i]
    <3>1. CASE i = 1
      <4>1. G[1] = SubSeq(q, b[1] + 1, b[1+1])
        BY <3>1
      <4>2. seqs[1] = SubSeq(q, b[1] + 1, b[1+1])
        BY <1>3, <3>1
      <4>. QED  BY <3>1, <4>1, <4>2
    <3>2. CASE i # 1
      <4>1. i - 1 \in 1..m /\ i - 1 + 1 = i /\ i \in 1..m+1 /\ i + 1 \in 1..m+1
        BY <1>1, <3>2
      <4>2. G[i-1] = SubSeq(q, b[1] + 1, b[i]) /\ G[i] = SubSeq(q, b[1] + 1, b[i+1])
        BY <4>1
      <4>3. b[1] \in Nat /\ b[i] \in Nat /\ b[i+1] \in Nat /\ b[1] <= b[i] /\ b[i] <= b[i+1]
            /\ b[i+1] <= Len(q) /\ seqs[i] = SubSeq(q, b[i] + 1, b[i+1])
        <5>1. 1 \in 1..m+1
          BY <1>1
        <5>. QED  BY <1>2, <1>3, <4>1, <5>1
      <4>4. SubSeq(q, b[1] + 1, b[i]) \o SubSeq(q, b[i] + 1, b[i+1]) = SubSeq(q, b[1] + 1, b[i+1])
        BY <4>3, PiecesJoin
      <4>. QED  BY <3>2, <4>2, <4>3, <4>4
    <3>. QED  BY <3>1, <3>2
  <2>. QED  BY <1>1, <2>1
<1>6. Flat(flatten)
  <2>. HIDE DEF Flat
  <2>. QED  BY <1>5
<1>6a. \A i \in 1..m : i # 1 =>
          flatten[i] = flatten[i - 1] \o seqs[i] /\ G[i] = G[i - 1] \o seqs[i]
  <2>. HIDE DEF flatten, G
  <2>. QED  BY <1>1, <1>5, <1>6
<1>. HIDE DEF flatten, G
<1>. DEFINE D == {i \in Nat : i + 1 <= m => flatten[i+1] = G[i+1]}
<1>7. 0 \in D
  <2>1. 0 + 1 = 1 /\ 1 \in 1..m
    BY <1>1
  <2>2. flatten[1] = seqs[1] /\ G[1] = seqs[1]
    BY <1>1, <1>5, <1>6, <2>1
  <2>. QED  BY <2>1, <2>2
<1>8. ASSUME NEW i \in Nat, i \in D PROVE i + 1 \in D
  <2>. SUFFICES ASSUME (i + 1) + 1 <= m PROVE flatten[(i+1)+1] = G[(i+1)+1]
    OBVIOUS
  <2>1. (i + 1) + 1 \in 1..m /\ (i + 1) + 1 - 1 = i + 1 /\ (i + 1) + 1 # 1 /\ i + 1 <= m
    BY <1>1
  <2>2. flatten[i+1] = G[i+1]
    BY <1>8, <2>1
  <2>. DEFINE j == (i + 1) + 1
  <2>3. j \in 1..m /\ j - 1 = i + 1 /\ j # 1
    BY <2>1
  <2>. HIDE DEF j
  <2>4. flatten[j] = flatten[i+1] \o seqs[j] /\ G[j] = G[i+1] \o seqs[j]
    BY <1>6a, <2>3
  <2>5. flatten[j] = G[j]
    BY <2>2, <2>4
  <2>. QED  BY <2>5 DEF j
<1>. HIDE DEF D
<1>9. m - 1 \in D /\ m - 1 \in Nat /\ (m - 1) + 1 = m
  <2>1. m - 1 \in Nat /\ (m - 1) + 1 = m
    BY <1>1
  <2>. QED  BY <2>1, <1>7, <1>8, AllNumbers
<1>. USE DEF D
<1>10. flatten[m] = G[m]
  <2>1. flatten[(m-1)+1] = G[(m-1)+1]
    <3>1. (m - 1) + 1 <= m
      BY <1>1
    <3>. QED  BY <1>9, <3>1
  <2>. QED  BY <1>9, <2>1
<1>11. G[m] = SubSeq(q, b[1] + 1, b[m+1])
  <2>1. m \in 1..m
    BY <1>1
  <2>. QED  BY <2>1 DEF G
<1>. USE DEF seqs, m
<1>. QED  BY <1>4, <1>10, <1>11

\* A leading turn of the assistant may be left out.
LEMMA TailCuts ==
    ASSUME NEW turns, NEW q \in Seq(Nat), NEW who, NEW b, Cuts(turns, q, who, b), Len(turns) > 1
    PROVE  \E c : Cuts(Tail(turns), q, who, c) /\ c[Len(turns)] = b[Len(turns)+1]
<1>. DEFINE m == Len(turns)
            rest == Tail(turns)
            c == [t \in 1..m |-> b[t+1]]
<1>1. turns \in Seq(Turns) /\ m \in Nat /\ m > 1 /\ b \in [1..m+1 -> 0..Len(q)]
  BY DEF Cuts, Pieces
<1>2. rest \in Seq(Turns) /\ Len(rest) = m - 1 /\ \A t \in 1..m-1 : rest[t] = turns[t+1]
  BY <1>1
<1>3. \A t \in 1..m : t + 1 \in 1..m+1
  BY <1>1
<1>4. c \in [1..m -> 0..Len(q)] /\ \A t \in 1..m : c[t] = b[t+1]
  BY <1>1, <1>3
<1>. HIDE DEF c, rest
<1>5. ASSUME NEW t \in 1..m-1
      PROVE  /\ c[t] < c[t+1] /\ rest[t].parts = SubSeq(q, c[t] + 1, c[t+1])
             /\ \A i \in c[t]+1..c[t+1] : who[i] = rest[t].role
  <2>1. t \in 1..m /\ t + 1 \in 1..m
    BY <1>1
  <2>2. c[t] = b[t+1] /\ c[t+1] = b[(t+1)+1] /\ rest[t] = turns[t+1]
    BY <1>2, <1>4, <2>1
  <2>. QED  BY <2>1, <2>2 DEF Cuts, Pieces
<1>6. ASSUME NEW t \in 1..m-2 PROVE rest[t].role # rest[t+1].role
  <2>1. t \in 1..m-1 /\ t + 1 \in 1..m-1
    BY <1>1
  <2>2. turns[t+1].role # turns[(t+1)+1].role
    BY <2>1 DEF Cuts, Pieces
  <2>. QED  BY <1>2, <2>1, <2>2
<1>7. Cuts(rest, q, who, c)
  <2>1. Len(rest) + 1 = m /\ Len(rest) - 1 = m - 2
    BY <1>1, <1>2
  <2>. QED  BY <1>2, <1>4, <1>5, <1>6, <2>1 DEF Cuts, Pieces
<1>8. c[m] = b[m+1]
  <2>1. m \in 1..m
    BY <1>1
  <2>. QED  BY <1>4, <2>1
<1>. USE DEF rest
<1>. QED  BY <1>7, <1>8

LEMMA MapIsSeq ==
    ASSUME NEW S, NEW n \in Nat, NEW f \in [1..n -> S]
    PROVE  f \in Seq(S) /\ Len(f) = n
OBVIOUS

\* A turn for each record: successive pieces, of one part each.
LEMMA ApartIs ==
    ASSUME NEW log \in Seq(LogRecords), NEW sel \in Seq(Nat),
           \A i \in 1..Len(sel) : sel[i] \in 1..Len(log)
    PROVE  LET turns == TurnsApart(log, sel) IN
           \E b : /\ Pieces(turns, Parts(sel), Who(log, sel), b) /\ turns # <<>>
                  /\ b[Len(turns)+1] = Len(sel) + 1
<1>. DEFINE q == Parts(sel)
            who == Who(log, sel)
            n == Len(sel)
            turns == TurnsApart(log, sel)
            before == [i \in DOMAIN sel |-> Turn(log[sel[i]].role, sel[i])]
            b == [t \in 1..n+2 |-> t - 1]
<1>1. /\ n \in Nat /\ q \in Seq(Nat) /\ Len(q) = n + 1 /\ q[n+1] = 0 /\ who[n+1] = "user"
      /\ \A i \in 1..n : q[i] = sel[i] /\ who[i] = log[sel[i]].role /\ who[i] \in Roles
  BY PartsAre
<1>2. DOMAIN sel = 1..n /\ \A i \in 1..n : sel[i] \in Nat
  OBVIOUS
<1>. HIDE DEF q, who, n
<1>3. before \in Seq(Turns) /\ Len(before) = n /\ \A i \in 1..n : before[i] = Turn(who[i], q[i])
  <2>1. \A i \in 1..n : before[i] = Turn(who[i], q[i])
    BY <1>1, <1>2
  <2>2. \A i \in 1..n : Turn(log[sel[i]].role, sel[i]) \in Turns
    <3>1. ASSUME NEW i \in 1..n PROVE <<sel[i]>> \in Seq(Nat) /\ log[sel[i]].role \in Roles
      BY <1>1, <1>2
    <3>. QED  BY <3>1 DEF Turn, Turns
  <2>3. before \in [1..n -> Turns]
    BY <1>2, <2>2
  <2>. HIDE DEF before
  <2>4. before \in Seq(Turns) /\ Len(before) = n
    BY <1>1, <2>3, MapIsSeq
  <2>. QED  BY <2>1, <2>4
<1>4. turns = Append(before, Turn("user", 0))
  BY DEF TurnsApart
<1>5. Turn("user", 0) \in Turns /\ Turn("user", 0) = Turn(who[n+1], q[n+1])
  BY <1>1 DEF Turn, Turns, Roles
<1>. HIDE DEF turns, before
<1>6. /\ turns \in Seq(Turns) /\ Len(turns) = n + 1 /\ turns # <<>>
      /\ \A t \in 1..n+1 : turns[t] = Turn(who[t], q[t])
  <2>1. \A t \in 1..n+1 : t \in 1..n \/ t = n + 1
    BY <1>1
  <2>2. turns \in Seq(Turns) /\ Len(turns) = n + 1 /\ turns # <<>>
        /\ turns[n+1] = Turn("user", 0) /\ \A t \in 1..n : turns[t] = before[t]
    BY <1>1, <1>3, <1>4, <1>5
  <2>. QED  BY <1>3, <1>5, <2>1, <2>2
<1>7. b \in [1..(n+1)+1 -> 0..Len(q)] /\ \A t \in 1..n+2 : b[t] = t - 1
  BY <1>1
<1>. HIDE DEF b
<1>8. ASSUME NEW t \in 1..n+1
      PROVE  /\ b[t] < b[t+1] /\ turns[t].parts = SubSeq(q, b[t] + 1, b[t+1])
             /\ \A i \in b[t]+1..b[t+1] : who[i] = turns[t].role
  <2>1. t \in 1..n+2 /\ t + 1 \in 1..n+2 /\ t \in Nat
    BY <1>1
  <2>2. b[t] = t - 1 /\ b[t+1] = t /\ b[t] + 1 = t
    BY <1>7, <2>1
  <2>3. turns[t].parts = <<q[t]>> /\ turns[t].role = who[t]
    BY <1>6 DEF Turn
  <2>4. SubSeq(q, t, t) = <<q[t]>>
    <3>1. t \in 1..Len(q) /\ q[t] \in Nat
      BY <1>1, <2>1
    <3>2. SubSeq(q, t, t) \in Seq(Nat) /\ Len(SubSeq(q, t, t)) = 1 /\ SubSeq(q, t, t)[1] = q[t]
      BY <1>1, <3>1
    <3>3. <<q[t]>> \in Seq(Nat) /\ Len(<<q[t]>>) = 1 /\ <<q[t]>>[1] = q[t]
      BY <3>1
    <3>4. \A i \in 1..1 : i = 1
      OBVIOUS
    <3>. QED  BY <3>2, <3>3, <3>4, SameSeq
  <2>5. \A i \in t..t : i = t
    BY <2>1
  <2>. QED  BY <2>1, <2>2, <2>3, <2>4, <2>5
<1>9. Pieces(turns, q, who, b) /\ b[Len(turns)+1] = n + 1
  <2>1. n + 2 \in 1..n+2 /\ (n + 1) + 1 = n + 2 /\ (n + 2) - 1 = n + 1
    BY <1>1
  <2>. QED  BY <1>6, <1>7, <1>8, <2>1 DEF Pieces
<1>10. \E c : Pieces(turns, q, who, c) /\ turns # <<>> /\ c[Len(turns)+1] = n + 1
  BY <1>6, <1>9
<1>. QED  BY <1>10 DEF turns, q, who, n

\* Turns merged: they begin with the contact, and end with the message.
LEMMA MergedIs ==
    ASSUME NEW log \in Seq(LogRecords), NEW sel \in Seq(Nat),
           \A i \in 1..Len(sel) : sel[i] \in 1..Len(log)
    PROVE  LET turns == TurnsMerged(log, sel) IN
           \E b : /\ Cuts(turns, Parts(sel), Who(log, sel), b) /\ turns # <<>>
                  /\ b[Len(turns)+1] = Len(sel) + 1 /\ turns[1].role = "user"
<1>. DEFINE q == Parts(sel)
            who == Who(log, sel)
            all == AddTurn(Said(log, sel), "user", 0)
            turns == TurnsMerged(log, sel)
            n == Len(sel)
<1>1. \A i \in 1..n : sel[i] \in 1..Len(log)
  OBVIOUS
<1>2. n \in Nat /\ q \in Seq(Nat) /\ Len(q) = n + 1 /\ who[n+1] = "user"
  BY <1>1, PartsAre
<1>3. turns = IF all[1].role = "assistant" THEN Tail(all) ELSE all
  BY Zenon DEF TurnsMerged, Said
<1>. HIDE DEF turns
<1>4. PICK b : Cuts(all, q, who, b) /\ b[Len(all)+1] = n + 1 /\ all # <<>>
  <2>1. \E c : Cuts(all, q, who, c) /\ c[1] = 0 /\ c[Len(all)+1] = n + 1 /\ all # <<>>
    BY <1>1, SaidCuts
  <2>. HIDE DEF all, q, who, n
  <2>. QED  BY <2>1
<1>. HIDE DEF all, q, who, n
<1>5. all \in Seq(Turns) /\ Len(all) \in Nat \ {0} /\ all[1].role \in Roles
  <2>1. all \in Seq(Turns) /\ Len(all) \in Nat \ {0}
    BY <1>4 DEF Cuts, Pieces
  <2>2. all[1] \in Turns
    BY <2>1
  <2>. QED  BY <2>1, <2>2 DEF Turns
<1>6. CASE all[1].role = "assistant"
  <2>1. Len(all) > 1
    <3>0. \A l \in Nat \ {0} : l # 1 => l > 1
      OBVIOUS
    <3>. SUFFICES ASSUME Len(all) = 1 PROVE FALSE
      BY <1>5, <3>0, Zenon
    <3>1. 1 \in 1..Len(all) /\ b[1] < b[2] /\ b[2] = n + 1 /\ b[1] \in Nat
      BY <1>4 DEF Cuts, Pieces
    <3>2. n + 1 \in b[1]+1..b[2]
      BY <3>1, <1>2
    <3>3. who[n+1] = all[1].role
      BY <3>1, <3>2, <1>4 DEF Cuts, Pieces
    <3>. QED  BY <3>3, <1>2, <1>6
  <2>2. PICK c : Cuts(Tail(all), q, who, c) /\ c[Len(all)] = b[Len(all)+1]
    BY <1>2, <1>4, <2>1, TailCuts
  <2>3. turns = Tail(all) /\ Len(turns) = Len(all) - 1 /\ turns[1] = all[2] /\ turns # <<>>
        /\ turns \in Seq(Turns)
    <3>1. turns = Tail(all)
      BY <1>3, <1>6
    <3>2. /\ Tail(all) \in Seq(Turns) /\ Len(Tail(all)) = Len(all) - 1
          /\ Tail(all)[1] = all[2] /\ Tail(all) # <<>>
      <4>1. \A l \in Nat : l > 1 => 1 \in 1..l-1 /\ 1 + 1 = 2
        OBVIOUS
      <4>2. Tail(all) \in Seq(Turns) /\ Len(Tail(all)) = Len(all) - 1
        BY <1>5, <2>1
      <4>3. Tail(all)[1] = all[2]
        BY <1>5, <2>1, <4>1
      <4>4. Tail(all) # <<>>
        BY <1>5, <2>1, <4>2
      <4>. QED  BY <4>2, <4>3, <4>4
    <3>. QED  BY <3>1, <3>2
  <2>4. turns[1].role = "user"
    <3>1. all[1].role # all[2].role
      <4>1. 1 \in 1..Len(all)-1
        BY <1>5, <2>1
      <4>. QED  BY <1>4, <4>1 DEF Cuts, Pieces
    <3>2. turns[1].role \in Roles
      <4>1. turns[1] \in Turns
        BY <2>3
      <4>. QED  BY <4>1 DEF Turns
    <3>. QED  BY <1>6, <2>3, <3>1, <3>2 DEF Roles
  <2>5. c[Len(turns)+1] = n + 1
    <3>1. Len(turns) + 1 = Len(all)
      BY <1>5, <2>3
    <3>. QED  BY <1>4, <2>2, <3>1
  <2>6. Cuts(turns, q, who, c)
    BY <2>2, <2>3
  <2>7. \E d : Cuts(turns, q, who, d) /\ turns # <<>> /\ d[Len(turns)+1] = n + 1
               /\ turns[1].role = "user"
    BY <2>3, <2>4, <2>5, <2>6
  <2>. USE DEF turns, n, q, who
  <2>. QED  BY <2>7
<1>7. CASE all[1].role # "assistant"
  <2>1. turns = all /\ turns[1].role = "user"
    BY <1>3, <1>5, <1>7 DEF Roles
  <2>2. \E d : Cuts(turns, q, who, d) /\ turns # <<>> /\ d[Len(turns)+1] = n + 1
               /\ turns[1].role = "user"
    BY <1>4, <2>1
  <2>. USE DEF turns, n, q, who
  <2>. QED  BY <2>2
<1>. QED  BY <1>6, <1>7

\* Whatever is stored, what either provider is given of it is well formed.
THEOREM ConversationWellFormed ==
    ASSUME NEW log \in Seq(LogRecords), NEW stored \in BOOLEAN,
           NEW provider \in {"openai", "anthropic"}
    PROVE  WellFormed(log, provider, Conversation(log, stored, provider))
<1>. DEFINE sel == Recent(log, stored)
            q == Parts(sel)
            who == Who(log, sel)
            turns == Conversation(log, stored, provider)
            n == Len(sel)
            parts == FlattenSeq([k \in DOMAIN turns |-> turns[k].parts])
            said == SaidIn(log)
            Alternating == /\ turns[1].role = "user"
                           /\ \A k \in 1..Len(turns)-1 : turns[k].role # turns[k+1].role
<1>1. /\ Unbroken(sel, said, Len(log)) /\ n <= HistorySize /\ sel \in Seq(Nat)
      /\ \A i \in 1..n : sel[i] \in 1..Len(log)
  BY RecentIs DEF Unbroken
<1>2. /\ n \in Nat /\ q \in Seq(Nat) /\ Len(q) = n + 1 /\ q[n+1] = 0 /\ who[n+1] = "user"
      /\ \A i \in 1..n : q[i] = sel[i] /\ who[i] = log[sel[i]].role
  BY <1>1, PartsAre
<1>3. PICK b : /\ Pieces(turns, q, who, b) /\ turns # <<>> /\ b[Len(turns)+1] = n + 1
               /\ provider = "anthropic" => Alternating
  <2>. HIDE DEF sel
  <2>1. CASE provider = "openai"
    <3>1. turns = TurnsApart(log, sel)
      BY <2>1 DEF Conversation, sel
    <3>2. \E d : Pieces(turns, q, who, d) /\ turns # <<>> /\ d[Len(turns)+1] = n + 1
      <4>. HIDE DEF turns
      <4>. QED  BY <1>1, <3>1, ApartIs
    <3>. HIDE DEF turns, q, who, n, Alternating
    <3>. QED  BY <2>1, <3>2
  <2>2. CASE provider = "anthropic"
    <3>1. turns = TurnsMerged(log, sel)
      BY <2>2 DEF Conversation, sel
    <3>2. \E d : /\ Cuts(turns, q, who, d) /\ turns # <<>>
                 /\ d[Len(turns)+1] = n + 1 /\ turns[1].role = "user"
      <4>. HIDE DEF turns
      <4>. QED  BY <1>1, <3>1, MergedIs
    <3>. HIDE DEF turns, q, who, n
    <3>. QED  BY <3>2 DEF Cuts
  <2>. QED  BY <2>1, <2>2
<1>. DEFINE m == Len(turns)
<1>. HIDE DEF turns, q, who, sel, said, Alternating
<1>4. turns \in Seq(Turns) /\ m \in Nat \ {0} /\ DOMAIN turns = 1..m
  BY <1>3 DEF Cuts, Pieces
<1>5. \A t \in 1..m+1 : b[t] \in Nat /\ b[t] <= n + 1
  BY <1>2, <1>3, PiecesRise
<1>6. parts = SubSeq(q, b[1] + 1, n + 1)
  <2>1. q \in Seq(Nat) /\ Pieces(turns, q, who, b) /\ turns # <<>>
    BY <1>2, <1>3
  <2>2. parts = SubSeq(q, b[1] + 1, b[m+1])
    BY <2>1, FlattenPieces
  <2>. QED  BY <1>3, <2>2
<1>. DEFINE x == b[1]
<1>7. x \in Nat /\ x < n + 1
  <2>1. 1 \in 1..m /\ 1 \in 1..m+1 /\ 1 + 1 \in 1..m+1
    BY <1>4
  <2>2. b[1] < b[1+1]
    BY <1>3, <2>1 DEF Cuts, Pieces
  <2>. QED  BY <1>2, <1>5, <2>1, <2>2
<1>. HIDE DEF parts, x
<1>8. /\ parts \in Seq(Nat) /\ Len(parts) = (n + 1) - x
      /\ \A i \in 1..(n+1)-x : parts[i] = q[x + i]
  <2>1. parts = SubSeq(q, x + 1, n + 1)
    BY <1>6 DEF x
  <2>. DEFINE z == n + 1
  <2>2. z \in Nat /\ x <= z /\ z <= Len(q) /\ q \in Seq(Nat)
    BY <1>2, <1>7
  <2>. HIDE DEF z
  <2>3. /\ SubSeq(q, x + 1, z) \in Seq(Nat) /\ Len(SubSeq(q, x + 1, z)) = z - x
        /\ \A i \in 1..z-x : SubSeq(q, x + 1, z)[i] = q[x + i]
    BY <1>7, <2>2
  <2>. HIDE DEF n
  <2>4. parts = SubSeq(q, x + 1, z)
    BY <2>1 DEF z
  <2>5. parts \in Seq(Nat) /\ Len(parts) = z - x /\ \A i \in 1..z-x : parts[i] = q[x + i]
    BY <2>3, <2>4, Zenon
  <2>. QED  BY <2>5, Zenon DEF z
<1>9. Last(turns).role = "user"
  <2>1. m \in 1..m
    BY <1>4
  <2>2. n + 1 \in b[m]+1..b[m+1]
    <3>0. Pieces(turns, q, who, b) /\ m \in 1..m+1
      BY <1>3, <1>4
    <3>1. b[m] < b[m+1] /\ b[m] \in Nat
      BY <3>0, <1>5, <2>1 DEF Pieces, m
    <3>. QED  BY <1>2, <1>3, <3>1
  <2>3. turns[m].role = who[n+1]
    BY <1>3, <2>1, <2>2 DEF Cuts, Pieces
  <2>. QED  BY <1>2, <1>3, <1>4, <2>3 DEF Last
<1>10. provider = "anthropic" =>
          Head(turns).role = "user" /\ \A k \in 1..m-1 : turns[k].role # turns[k+1].role
  BY <1>3, <1>4 DEF Alternating, m
<1>11. ASSUME NEW t \in 1..m, NEW k \in DOMAIN turns[t].parts, turns[t].parts[k] # 0
       PROVE  log[turns[t].parts[k]].role = turns[t].role
  <2>. DEFINE y == b[t]
              z == b[t+1]
              i == y + k
  <2>1. t \in 1..m+1 /\ t + 1 \in 1..m+1
    BY <1>4
  <2>2. y \in Nat /\ z \in Nat /\ z <= n + 1
    BY <1>5, <2>1
  <2>3. turns[t].parts = SubSeq(q, y + 1, z) /\ y < z /\ \A j \in y+1..z : who[j] = turns[t].role
    BY <1>3 DEF Cuts, Pieces
  <2>. HIDE DEF y, z
  <2>4. DOMAIN SubSeq(q, y + 1, z) = 1..z-y /\ \A j \in 1..z-y : SubSeq(q, y + 1, z)[j] = q[y + j]
    BY <1>2, <2>2, <2>3
  <2>5. k \in 1..z-y /\ turns[t].parts[k] = q[i]
    BY <2>3, <2>4
  <2>6. i \in y+1..z /\ i \in 1..n+1
    BY <1>2, <2>2, <2>5
  <2>7. i # n + 1
    BY <1>2, <1>11, <2>5
  <2>8. i \in 1..n
    BY <1>2, <2>6, <2>7
  <2>. QED  BY <1>2, <2>3, <2>5, <2>6, <2>8
<1>12. Len(parts) <= HistorySize + 1 /\ Last(parts) = 0
  <2>1. Len(parts) <= n + 1 /\ (n + 1) - x \in 1..(n+1)-x /\ x + ((n + 1) - x) = n + 1
    BY <1>2, <1>7, <1>8
  <2>2. Last(parts) = q[n+1]
    <3>1. Last(parts) = parts[(n+1)-x]
      BY <1>8 DEF Last
    <3>. QED  BY <1>8, <2>1, <3>1
  <2>3. HistorySize \in Nat
    BY DecisionAssumption
  <2>. QED  BY <1>1, <1>2, <2>1, <2>2, <2>3
<1>13. \A i \in 1..n-x : x + i \in 1..n /\ parts[i] = sel[x + i]
  <2>1. \A i \in 1..n-x : x + i \in 1..n /\ i \in 1..(n+1)-x
    BY <1>2, <1>7
  <2>. QED  BY <1>2, <1>8, <2>1
<1>14. ASSUME NEW i \in 1..n-x
       PROVE  /\ parts[i] \in said
              /\ {k \in said : k > parts[i]} = {parts[j] : j \in i+1..n-x}
  <2>1. parts[i] \in said
    BY <1>1, <1>13 DEF Unbroken
  <2>2. ASSUME NEW k \in said, k > parts[i] PROVE \E j \in i+1..n-x : k = parts[j]
    <3>1. k \in Nat /\ k <= Len(log)
      BY DEF said, SaidIn
    <3>2. sel[x + i] \in Nat /\ sel[x + i] < k
      BY <1>1, <1>13, <2>2, <3>1
    <3>3. PICK j \in 1..n : sel[j] = k
      BY <1>1, <1>13, <3>1, <3>2 DEF Unbroken
    <3>4. j > x + i
      <4>1. x + i \in 1..n /\ j \in Nat
        BY <1>13
      <4>2. CASE j = x + i
        BY <4>2, <3>2, <3>3
      <4>3. CASE j < x + i
        <5>1. sel[j] < sel[x + i]
          BY <1>1, <4>1, <4>3 DEF Unbroken
        <5>. QED  BY <5>1, <3>1, <3>2, <3>3
      <4>. QED  BY <4>1, <4>2, <4>3
    <3>5. j - x \in i+1..n-x /\ j - x \in 1..n-x /\ x + (j - x) = j
      BY <1>2, <1>7, <3>4
    <3>. QED  BY <1>13, <3>3, <3>5
  <2>3. ASSUME NEW j \in i+1..n-x PROVE parts[j] \in said /\ parts[j] > parts[i]
    <3>1. j \in 1..n-x /\ x + i < x + j
      BY <1>7
    <3>2. sel[x + i] < sel[x + j] /\ sel[x + j] \in said /\ sel[x+i] \in Nat /\ sel[x+j] \in Nat
      BY <1>1, <1>13, <3>1 DEF Unbroken
    <3>. QED  BY <1>13, <3>1, <3>2
  <2>. QED  BY <2>1, <2>2, <2>3
<1>15. Len(parts) - 1 = n - x
  BY <1>2, <1>7, <1>8
<1>16. said = {k \in DOMAIN log : log[k].kind = "text"}
  BY DEF said, SaidIn
<1>17. WellFormed(log, provider, turns)
  <2>. HIDE DEF m, n
  <2>. USE DEF parts
  <2>. QED  BY <1>3, <1>4, <1>9, <1>10, <1>11, <1>12, <1>14, <1>15, <1>16 DEF WellFormed, m
<1>. QED  BY <1>17 DEF turns

\* The prompt is made from a conversation as it is stored.
Made(p) ==
    \E log \in Logs, stored \in BOOLEAN, provider \in Providers :
        p = [log |-> log, provider |-> provider, turns |-> Conversation(log, stored, provider)]

PromptMade == prompt = None \/ Made(prompt)

\* What either provider is given ends with the message to answer, has everything
\* in its own side's turn, and is an unbroken end of the conversation, no longer
\* than LLM_HISTORY_SIZE; for Anthropic it alternates between the two sides and
\* begins with the contact.
THEOREM PromptsWellFormed == Spec => []PromptWellFormed
<1>1. Init => PromptMade
  BY DEF Init, PromptMade
<1>2. PromptMade /\ [Next]_vars => PromptMade'
  <2>. SUFFICES ASSUME PromptMade, [Next]_vars PROVE PromptMade'
    OBVIOUS
  <2>1. CASE UNCHANGED prompt
    BY <2>1 DEF PromptMade, Made
  <2>2. ASSUME NEW e \in Evals, Ask(e) PROVE PromptMade'
    BY <2>2 DEF Ask, PromptMade, Made
  <2>3. ASSUME NEW e \in Evals, ModelReturns(e) PROVE PromptMade'
    BY <2>3 DEF ModelReturns, PromptMade
  <2>4. ASSUME NEW e \in Evals,
               \/ \E from \in Contacts, text \in Texts : ReadConfig(e, from, text)
               \/ Clear(e) \/ ReadRules(e) \/ ReadCooldown(e) \/ LookUp(e) \/ TouchCooldown(e)
        PROVE  UNCHANGED prompt
    BY <2>4 DEF ReadConfig, Clear, ReadRules, ReadCooldown, LookUp, TouchCooldown
  <2>5. ASSUME Editing PROVE UNCHANGED prompt
    BY <2>5 DEF Editing, Configure, AddRule, ChangeRule, ChangePersona, OwnerSays, Edit
  <2>6. Tick \/ UNCHANGED vars => UNCHANGED prompt
    BY DEF Tick, vars
  <2>. QED  BY <2>1, <2>2, <2>3, <2>4, <2>5, <2>6 DEF Next, Evaluating
<1>3. PromptMade => PromptWellFormed
  <2>. SUFFICES ASSUME PromptMade, prompt # None
                PROVE  WellFormed(prompt.log, prompt.provider, prompt.turns)
    BY DEF PromptWellFormed
  <2>1. PICK log \in Logs, stored \in BOOLEAN, provider \in Providers :
           prompt = [log |-> log, provider |-> provider, turns |-> Conversation(log, stored, provider)]
    BY DEF PromptMade, Made
  <2>2. log \in Seq(LogRecords) /\ provider \in {"openai", "anthropic"}
    BY DecisionAssumption
  <2>3. /\ prompt.log = log /\ prompt.provider = provider
        /\ prompt.turns = Conversation(log, stored, provider)
    BY <2>1
  <2>. QED  BY <2>2, <2>3, ConversationWellFormed
<1>. QED  BY <1>1, <1>2, <1>3, PTL DEF Spec
=============================================================================
