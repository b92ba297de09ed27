\* Transactions, undos and a crash at any statement.
SPECIFICATION Spec
CONSTANTS
    t1 = t1
    t2 = t2
    k1 = k1
    k2 = k2
    r1 = r1
    r2 = r2
    r3 = r3
    a = a
    b = b
    null = null
    empty = empty
    nulltext = nulltext
    hex = hex
    Tx = {t1, t2}
    Keys = {k1, k2}
    Fields <- Columns
    Kind <- ColumnTypes
    Domain <- ColumnDomains
    Writes <- ColumnWrites
    Default <- ColumnDefaults
    Null = null
    Empty = empty
    NullText = nulltext
    HexText = hex
    RecIds = {r1, r2, r3}
    Genesis <- OneRow
    MaxWrites = 2
    MaxFaults = 1
INVARIANTS
    TypeOK
    ChainsWhole
    FewOrphans
PROPERTY
    KeepsPromise
SYMMETRY
    Renamings
CONSTRAINT
    FewWrites
