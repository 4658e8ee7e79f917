CONSTANTS
    Chars <- MCChars
    Keywords <- MCKeywords
    Texts <- MCTexts
    numSupportedLocalStates = 64
    IntWidths = {8, 16}
    numSignificandBits = 8
    UINT32_MAX = 16777215
SPECIFICATION Spec
INVARIANTS TokensAsDefined LociExact LiteralsExact
CHECK_DEADLOCK FALSE
