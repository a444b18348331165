SPECIFICATION Spec
CONSTANTS
    a = a
    b = b
    c = c
    m1 = m1
    m2 = m2
    None = None
    Nodes = {a, b, c}
    Messages = {m1, m2}
    Origin <- OneSource
    Dest <- ToC
    DTN_L_COPIES = 2
    Slots = {1}
    DTN_RTX = 3
    MaxHandoffs = 1
PROPERTIES
    CopiesGivenAway
CHECK_DEADLOCK FALSE
