SPECIFICATION Spec
CONSTANTS
    Input <- MCEscape
    Width = 16
    MayFail = FALSE
INVARIANT UnicodeEscapes
