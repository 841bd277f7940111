CONSTANTS
    o1 = o1
    o2 = o2
    Orders = {o1, o2}
    Manual = {o2}
    Quantity <- MCQuantity
    Writers = {w1}
    Syncers = {s1}
SPECIFICATION FairSpec
INVARIANTS
    TypeOK
    RowsFollowBroker
    FillsMatchRows
    UsedIsTracked

    
