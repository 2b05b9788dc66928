SPECIFICATION RegistersSpec
CONSTANTS
    N = 3
    Registers = 2
    PerBlock = 2
    Bodies <- MCBodies
INVARIANTS LivenessCorrect PeakCorrect VersionIsCurrent VersionsDisjoint
PROPERTIES Termination VersionsTermination
