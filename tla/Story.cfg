SPECIFICATION Spec
CONSTANTS
    Runs = {"r1"}
    Stories = {"s1"}
    Triggers = {"review-loop"}
    Limits = {2}
    Bundled <- BundledBudgets
    Versions = {"v1", "v2"}
    Sources <- ContractSources
    MaxEdits = 2
INVARIANTS
    PolicyIsPinned
    MarkerLeadsToRun
PROPERTIES
    VerifiedByPinnedContract
CHECK_DEADLOCK FALSE
