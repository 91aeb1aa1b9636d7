CONSTANTS
    Objects = {"exec"}
    Policy <- MCPolicy
    Time = {1, 2}
    Refused <- MCRefused
    Selector = {"nil", "x", "invalid"}
    Label = {"x", "y"}
    InitialPolicies <- MCInitialPolicies
    InitialLabels = {"x"}
    MaxEvents = 2
SPECIFICATION Spec
INVARIANTS
    AuthorityHeld
    
PROPERTIES
    CommitsFollowApi
    Converges
CHECK_DEADLOCK FALSE
