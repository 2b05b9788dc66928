SPECIFICATION Spec
CONSTANTS
    MaxSize = 5
    MaxInstructions = 4
INVARIANT GraphExact
PROPERTIES DispatcherFollows
