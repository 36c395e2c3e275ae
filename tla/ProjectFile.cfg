CONSTANTS
    Agents = {a1, a2}
    Users = {tui, cli}
    Cli = {cli}
    Home = tui
    MaxOps = 2
    MaxInterview = 1
    NULL = NULL
SPECIFICATION Spec
INVARIANTS
    NothingIsLost
    RequirementsTellAnswers
CHECK_DEADLOCK FALSE
