SPECIFICATION Spec
CONSTANTS
    Styles = {"plain", "double", "single", "acute"}
    Preserves = {0, 1, 2}
    Alphabet <- MCAlphabet
    MaxLength <- MCMaxLength
INVARIANTS
    TypeOK
    EscapesMean
    QuotesMean
    ThrowsForCodes
CHECK_DEADLOCK FALSE
