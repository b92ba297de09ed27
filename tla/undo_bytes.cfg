\* A node key that is replaced, and a transaction that is taken back.
SPECIFICATION Spec
CONSTANTS
    t1 = t1
    t2 = t2
    k1 = k1
    k2 = k2
    r1 = r1
    r2 = r2
    r3 = r3
    a = a
    b = b
    null = null
    empty = empty
    nulltext = nulltext
    hex = hex
    Tx = {t1, t2}
    Keys = {k1, k2}
    Fields <- KeyColumn
    Kind <- KeyTypes
    Domain <- KeyDomains
    Writes <- KeyWrites
    Default <- KeyDefaults
    Null = null
    Empty = empty
    NullText = nulltext
    HexText = hex
    RecIds = {r1, r2, r3}
    Genesis <- KeyRow
    MaxWrites = 2
    MaxFaults = 0
INVARIANT
    RestoredAsBefore
