CONSTANTS
    Contexts = {executor, driver}
    Executor = executor
    Nobody = nobody
    SeqMod = 4
    TxCap = 2
    UsbCap = 1
    MaxSends = 6
SPECIFICATION MCSpec
INVARIANTS
    WireTypeOK
    InSeqOrder
PROPERTIES
    ImplementsLink
    SendEnds
    EventuallyRead
