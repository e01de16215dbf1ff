CONSTANTS
    Contexts = {executor, driver}
    Executor = executor
    Nobody = nobody
    SeqMod = 6
    TxCap = 1
    UsbCap = 1
    MaxSends = 7
    MaxResets = 1
    MaxExits = 1
SPECIFICATION MCSafety
INVARIANTS
    GapsAreLosses
    OneRejectPerBreak
PROPERTIES
    EndToEndOrder
