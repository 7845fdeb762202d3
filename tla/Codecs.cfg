SPECIFICATION Spec
CONSTANTS
    Focus = {"numerics", "datetimes", "containers"}
    Coefficients <- MCCoefficients
    Exps <- MCExps
    Bits2 = 3
    Bits4 = 5
    Bits8 = 7
    ShortBits = 5
    LongLong = 30
    Groups = {4, 8}
    Ints <- MCInts
    Frac = 2
    Sixty = 2
    Hours = 2
    Epoch = 4
    MaxDay = 7
    Marks <- MCMarks
    Offsets <- MCOffsets
    Months <- MCMonths
    FloatBits = 11
    IntBits = 12
    MaxDelta = 999
    Alphabet <- MCAlphabet
    MaxLen = 2
    Besides <- MCBesides
    Delimiters = {",", ";"}
INVARIANTS
    NumbersKept
    TimesKept
    ContainersKept
CHECK_DEADLOCK FALSE
