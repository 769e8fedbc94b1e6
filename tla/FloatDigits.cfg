CONSTANTS
    CodePoints <- MCCodePoints
    Boundaries = {1, 127, 128, 2047, 2048, 55295, 55296, 57343, 57344, 65535, 65536, 1114111}
    LeadBytes = {0, 127, 128, 191, 192, 193, 194, 223, 224, 225, 237, 239, 240, 241, 243, 244, 245, 248, 255}
    TailBytes = {127, 128, 143, 144, 159, 160, 191, 192}
    Letters = {97, 65, 98}
    IntBits = 8
    Types <- MCTypes
    NumberBytes = {43, 45, 48, 49, 51, 53, 120}
    MaxNumber = 4
    PlainBytes = {97, 98, 99}
    MaxPlain = 6
    UnitBytes = {32, 97, 195, 169, 226, 130}
    MaxUnits = 4
    Small = 112
    StreamedFrom = 256
    Sources = {512, 517}
    Distances <- MCDistances
    CopySizes <- MCCopySizes
    StreamSizes = {256, 271, 272, 273, 287, 288, 300, 319}
    MaxAddress = 17
    MaxFilled = 50
    MaxCompared = 34
    SHIFT = 3
    Capacity = 9
    KARATSUBA_CUTOFF = 2
    Integrals <- MCIntegrals
    Signed = {5, 8}
    Factors <- MCFactors
    WordBytes = {0, 1, 2, 5, 99, 126, 127, 128, 129, 254, 255}
    Margins = {0, 1, 2, 5, 100, 126, 127}
    Numbers <- MCNumbers
    MaxEnd = 6
    Steps <- MCSteps
    Half = 4
    Items = {1, 2, 3, 4}
    Fronts = {0, 2, 5}
    MaxItems = 3
    MAX_BUFFER_SIZE = 32
    WordSize = 8
    HalfSize = 4
    Chars <- MCChars
    Drives <- MCDrives
    MaxPath = 5
    MaxPart = 2
    Families <- MCFamilies
    ArgumentLists <- MCArgumentLists
    Colors <- MCColors
    TerminalColors <- MCTerminalColors
    NumberBits = 5
    FractionBits = 8
    WrittenNumbers <- MCWrittenNumbers
    WrittenStrings <- MCWrittenStrings
    Floats <- MCFloats
    Paddings <- MCPaddings
    Precisions <- MCPrecisions
    Significands <- MCSignificands
SPECIFICATION AnySpec
INVARIANTS
    DigitsAreWritten
CHECK_DEADLOCK FALSE
