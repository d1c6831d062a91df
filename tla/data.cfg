\* The tables, the freeness test and the compiler.
SPECIFICATION DataSpec
CONSTANTS
    Focuses = {"table", "hash", "freeness", "compiler"}
    ArraySize = 3
    TableSize = 2
    Roots = {"w"}
    MaxNumber = 3
    MaxTable = 8
    HashOf <- MCHashOf
    UserNames <- MCUserNames
    Renamers = {0}
    MayFreeze = FALSE
    AtomKeys = {"a", "b", "c"}
    NumberKeys = {"n"}
    HashOfKey <- MCHashOfKey
    HashSize = 2
    Sizes = {0, 1, 2}
    HeapSize = 4
    MaxHeap = 8
    MaxWrites = 4
    MaxHash = 8
    ObjectVariables <- MCObjectVariables
    Asked = "x"
    Stores <- MCStores
    Subjects <- MCSubjects
    AllWorlds <- MCWorlds
    NumberXRegisters = 5
    RegisterSize = 12
    Clauses <- MCClauses
    Callers <- MCCallers
INVARIANTS TableRight HashRight FreenessRight CompiledRight
PROPERTIES NamesAreDirectory
CHECK_DEADLOCK FALSE
