CONSTANTS
    e1 = e1
    e2 = e2
    Evals = {e1, e2}
    MaxAnswers = 3
    MaxEdits = 1
    MaxTime = 2
    Contacts = {"c"}
    Texts = {"t"}
    MaxRules = 2
    RuleKinds <- MCKinds
    StartConfigs <- MCConfigs
    StartRules <- MCRules
    StartPersonas <- MCPersonas
    Lookups = 2
    OwnerMessages <- MCMessages
    Seconds <- MCSeconds
    Logs <- MCLogs
    HistorySize = 2
    Providers = {"openai", "anthropic"}
    EnvText = TRUE
    Day = 4
    None = None
SPECIFICATION Spec
INVARIANTS
    TypeOK
    CooldownKept
    PauseHolds
    DecisionMatches
    PromptWellFormed
SYMMETRY Symmetric
CHECK_DEADLOCK FALSE
