SPECIFICATION Spec
CONSTANTS
    text = text
    push = push
    note = note
    Messages = {text, push}
    Channel <- MCChannel
    Workers = {w1, w2}
    Slots = {a}
    MaxAttempts = 2
    ClaimRuns = TRUE
    Faults <- AllFaults
    NoMessage = NoMessage
INVARIANTS TypeOK OneTickPerMessage BudgetKept
PROPERTIES DeliversAsPromised
SYMMETRY WorkerSymmetry
\* Everything ends published, dead, orphaned or left in processing.
CHECK_DEADLOCK FALSE
