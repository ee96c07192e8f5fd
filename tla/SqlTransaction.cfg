SPECIFICATION Spec
CONSTANTS
    Kinds = {"sql"}
    MaxSets = 2
    MaxCalls = 1
INVARIANT TransactionAsked
