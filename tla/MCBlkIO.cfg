SPECIFICATION Spec
CONSTANTS
    Thread = {t1, t2}
    block_size = 3
    capacity = 3
    Word = 16
    Requests <- Reaching
PROPERTIES
    ReadExact
    WriteExact
    OutsideUntouched
