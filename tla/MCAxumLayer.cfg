SPECIFICATION Spec
CONSTANTS
    Connection = {c1}
    Request = {r1, r2}
    Letter <- MCLetter
    MaxIdentifier = 2
    MaxLimit = 5
    MaxWindow = 6
    Milli = 2
    Second = 4
    MaxPolicyName = 1
    MaxInteger = 5
    NoDelay = NoDelay
    WideMax = 1000
    DelayMax = 1000
    Stacks <- MCStacks
    Raw <- MCRaw
    Name <- MCName
    Permits = 2
    MaxCounters = 1
    Time <- MCTime
SYMMETRY MCSymmetry
INVARIANTS
    ReadinessCarried
    AdmissionsFaithful
    CountersSeparate
    AnswersHonest
CHECK_DEADLOCK FALSE
