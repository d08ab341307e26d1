CONSTANTS
    Data = {d1, d2}
    Depth = 4
SPECIFICATION Spec
INVARIANTS TypeOK FlagsSafe FlagsOffByOne
PROPERTIES QueueSpec HiddenEntrySurfaces
