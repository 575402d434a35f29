SPECIFICATION Spec
CONSTANTS
    Callers = {c1, c2}
    MaxSeq = 2
    MaxAttempts = 2
    Permits = 2
    MaxCalls = 2
SYMMETRY CallerSymmetry
CONSTRAINT OneFault
INVARIANTS
    EngineInv
    OwnReply
    ClosedOnlyAfterOverrun
    NoLeakWhileUp
    PermitsConserved
PROPERTY ServesCommands
CHECK_DEADLOCK FALSE
