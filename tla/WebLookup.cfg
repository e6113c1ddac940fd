\* The forced unwrapping of data, taken as what the loaders assert.
SPECIFICATION Spec
CONSTANTS
    MaxLookups = 2
INVARIANTS
    DataIsThere
CHECK_DEADLOCK FALSE
