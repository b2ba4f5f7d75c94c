SPECIFICATION Spec
CONSTANTS
    NumNodes = 6
    Settings = {2}
    Plans <- TreePlans
INVARIANT UntakenSkipped
