SPECIFICATION Spec
CONSTANTS
    l1 = l1
    l2 = l2
    l3 = l3
    name1 = name1
    name2 = name2
    None = None
    Listeners = {l1, l2, l3}
    Names = {name1, name2}
    NameOf <- TwoShareAName
    Scenarios <- OnceOnly
PROPERTIES
    OnceNotCut
CHECK_DEADLOCK FALSE
