CONSTANTS
    KeySize = 2
    PrefixLen = 14
    SuffixLen = 2
    ByteValues <- MCByteValues
SPECIFICATION Spec
INVARIANT TypeOK
INVARIANT KeyStatementWellFormed
