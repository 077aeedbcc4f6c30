SPECIFICATION Spec
CONSTANTS
    Styles = {"plain"}
    Preserves = {0}
    Alphabet <- MCAlphabet
    MaxLength <- MCMaxLength
INVARIANTS
    LettersWhole
CHECK_DEADLOCK FALSE
