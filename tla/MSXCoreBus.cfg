CONSTANTS
    r1 = r1
    d1 = d1
    a = a
    NoDev = NoDev
    NoDevice <- NoDev
    Primaries <- MCPrimaries
    Subslots <- MCSubslots
    Pages <- MCPages
    RamDevices <- MCRamDevices
    PlainDevices <- MCPlainDevices
    Values <- MCValues
    MaxBound <- MCMaxBound
    Tokens <- MCTokens
    MaxTime <- MCMaxTime
    MaxSeq <- MCMaxSeq
SPECIFICATION Spec
INVARIANT TypeOK
PROPERTY AddressSpaceRefinesSlotMap
