CONSTANTS
    Alphabet <- MCAlphabet
    MaxLen = 4
    NULL = NULL
SPECIFICATION Spec
INVARIANT
    ExtensionIsLastSuffix
