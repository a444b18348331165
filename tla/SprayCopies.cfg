SPECIFICATION Spec
CONSTANTS
    a = a
    b = b
    c = c
    m1 = m1
    m2 = m2
    None = None
    Nodes = {a, b, c}
    Messages = {m1}
    Origin <- OneSource
    Dest <- ToC
    DTN_L_COPIES = 4
    Slots = {1, 2}
    DTN_RTX = 1
    MaxHandoffs = 2
INVARIANTS
    OneItem
    Conserved
    LastCopyKept
CHECK_DEADLOCK FALSE
