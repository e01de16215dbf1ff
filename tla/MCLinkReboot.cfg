CONSTANTS
    Contexts = {executor, driver}
    Executor = executor
    Nobody = nobody
    SeqMod = 16
    TxCap = 1
    UsbCap = 1
    MaxSends = 5
    MaxResets = 1
    MaxExits = 0
SPECIFICATION MCSafety
INVARIANTS
    NoReorder
