SPECIFICATION FairSpec
CONSTANTS
    text = text
    image = image
    check = check
    post = post
    Nodes <- MCNodes
    DependsOn <- MCDependsOn
    Gates <- MCGates
    Effects <- MCEffects
    Invocations = {p1, p2}
    None = None
    Torn = Torn
INVARIANTS
    TypeOK
    NoHalfUpdate
    GatesWereApproved
PROPERTIES
    OkMeansComplete
    ResumeKeepsWork
    RunnerReturns
