SPECIFICATION OriginsSpec
CONSTANTS
    Siblings = {"p1", "p2"}
    Users = {"u1"}
    MaxDepth = 2
    MaxActs = 2
INVARIANTS
    ActsAsItself
