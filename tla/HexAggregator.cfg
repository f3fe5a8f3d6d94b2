SPECIFICATION Spec
CONSTANTS
    HexDigits <- AllDigits
    MaxDigits = 5
INVARIANTS
    DigitsCertain
