SPECIFICATION AcpSpec
CONSTANTS
    MaxPrompts = 2
    MaxLines = 1
    MaxCrashes = 2
    MaxRelays = 1
INVARIANT
    AnswersItsOwnPrompt
CHECK_DEADLOCK FALSE
