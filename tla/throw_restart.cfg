\* A throw into a thread that was stopped in an escape.
SPECIFICATION MachineSpec
CONSTANTS
    Code <- MCCode
    Arity <- MCArity
    Dynamic <- MCDynamic
    Escapes <- MCEscapes
    Queries <- MCQueries
    Expected <- MCExpected
    MaxX = 8
    MaxCollections = 0
    MaxInterruptions = 2
    MaxThrows = 1
    ThrowInto = {"interrupted"}
PROPERTY OnceEach
