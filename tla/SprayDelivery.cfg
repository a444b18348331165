SPECIFICATION FairSpec
CONSTANTS
    a = a
    b = b
    c = c
    m1 = m1
    m2 = m2
    None = None
    Nodes = {a, b, c}
    Messages = {m1, m2}
    Origin <- AlsoToItself
    Dest <- ToC
    DTN_L_COPIES = 2
    Slots = {1}
    DTN_RTX = 2
    MaxHandoffs = 1
PROPERTIES
    HandoffEnds
    Delivery
CHECK_DEADLOCK FALSE
