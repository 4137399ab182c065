CONSTANTS
    old = old
    new = new
    products = products
    orders = orders
    Procs = {old, new}
    Files = {products, orders}
    Deployed <- OldAndNew
    Alike <- Sharing
    MaxInits = 2
    MaxFaults = 0
SPECIFICATION Spec
INVARIANT InitMeansMigrated
\* Every process may be done.
CHECK_DEADLOCK FALSE
