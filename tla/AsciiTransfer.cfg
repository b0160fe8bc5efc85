SPECIFICATION AsciiSpec
CONSTANTS
    MaxLen = 7
    WriteBufferSize = 3
INVARIANT ConversionIsExact
CHECK_DEADLOCK FALSE
