SPECIFICATION LiveSpec
CONSTANTS
    Plans <- NothingLost
    HeaderSize = 2
    MaxSize = 2
PROPERTIES
    AddsFrame
CHECK_DEADLOCK FALSE
