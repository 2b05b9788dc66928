SPECIFICATION Spec
CONSTANTS
    MaxObjects = 2
    MaxUserdataTypes = 1
    MaxFunctions = 3
    MaxInstructions = 2
    MaxConstants = 2
    MaxMoonSecDepth = 1
    MaxEntries = 2
    MaxPrototypes = 2
    MaxNesting = 1
    MaxString = 2
    MaxCount = 2
    Versions = {2, 3, 7, 11, 13}
    Sizes <- MCSizes
    Orders <- MCOrders
    Tags <- MCTags
INVARIANTS SameLayout IndicesInside WithinLimits
