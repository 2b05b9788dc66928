SPECIFICATION FairSpec
CONSTANT N = 4
INVARIANTS
    ReachableCorrect DominatorsCorrect ImmediateCorrect
    NaturalLoopExact SingleEntry ScopesNest
    PostDominatorsCorrect JoinIsCommon
    ComponentsExact
PROPERTIES Termination
