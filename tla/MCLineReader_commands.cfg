SPECIFICATION Spec
CONSTANTS
    Letter = {"s", "t"}
    Space = {"_"}
    Nul = "0"
    Eol = "n"
    Name <- MCName
    LineCap = 5
    WordCap = 4
    MaxInput = 7
INVARIANT CommandOfItsLine
CHECK_DEADLOCK FALSE
