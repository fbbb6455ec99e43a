SPECIFICATION FairSpec
CONSTANTS
    Proc = {p1, p2}
    Block = {b1, b2}
    Depth = {1, 2}
    StripeOf <- OneStripe
    Cap = 3
    MaxOccurrences = 1
    MaxFaults = 1
    NoProc = NoProc
INVARIANTS RecordsSound EveryoneAccountedFor StrangersAreIsolated
PROPERTIES EveryoneIsAnswered
