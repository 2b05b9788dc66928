SPECIFICATION Spec
CONSTANTS
    MaxStack = 5
    Parameters = 4
    MaxClosures = 2
    Programs <- MCPrograms
PROPERTIES KeepsVm FollowsGraph
