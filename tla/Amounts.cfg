\* Signed integers of 8 bits, symbols of up to 2 decimals.
CONSTANTS
    MaxT = 127
    Text <- MCText
    MaxDigits = 2
    ByteSpan = 16
    MaxAmount = 63
SPECIFICATION AmountSpec
INVARIANTS Exact RefusedOnlyIfTooLarge
