SPECIFICATION FairSpec
CONSTANTS
    MaxArgs = 9
    MaxSpurious = 2
INVARIANTS StopWins FailureLeavesNoAnswer OneAnswer CompilerSeesText
PROPERTIES KeepsPromise EndsInTime StopReturns
