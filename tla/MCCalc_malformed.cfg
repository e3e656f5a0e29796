\* Every string of up to three characters.
SPECIFICATION Spec
CONSTANTS
    Char <- MCChar
    Inputs <- AnyStrings
    Digit <- MCDigit
    MaxLength = 3
    MaxWellFormed = 1
INVARIANTS
    RejectsWhatIsMalformed
