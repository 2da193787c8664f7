SPECIFICATION Spec
CONSTANTS
    Users = {"alice", "carol", "bob"}
    Namespaces = {"prod", "omitted", "kube-system"}
    MaxLogins = 1
    MaxIssued = 6
    MaxRequests = 1
INVARIANTS
    TypeOK
    EffectAuthority
    NoDetour
    PrivilegeConfined
    OnlyNarrows
    PanelMatchesGates
CHECK_DEADLOCK FALSE
