SPECIFICATION FairSpec
CONSTANTS
    text = text
    push = push
    note = note
    Messages = {text, push, note}
    Channel <- MCChannel
    Workers = {w1}
    Slots = {a, b}
    MaxAttempts = 2
    ClaimRuns = FALSE
    Faults <- ProviderFaults
    NoMessage = NoMessage
PROPERTIES EverySettles
\* Everything ends published, dead, orphaned or left in processing.
CHECK_DEADLOCK FALSE
