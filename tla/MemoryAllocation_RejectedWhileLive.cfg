SPECIFICATION Spec
CONSTANTS
    Threads = {t1, t2}
    Allocators = {a1, a2}
    Blocks = {b1}
    Null = Null
    StoreBuffered = {FALSE, TRUE}
PROPERTIES
    RejectedWhileLive
