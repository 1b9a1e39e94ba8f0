CONSTANTS
    hosted = hosted
    Hosted = hosted
    Prompt <- MCPrompt
    MaxTokens = 2
    Contexts = {hosted, 6}
    LlmInFlight = 2
    MaxAttempts = 2
    MaxOthers = 1
    Provider = "openai"
SPECIFICATION OrchestratorFairSpec
INVARIANTS FitsTogether VerdictIsEarned
PROPERTY ReviewEnds
CHECK_DEADLOCK FALSE
