CONSTANTS
    old = old
    new = new
    products = products
    orders = orders
    Procs = {old, new}
    Files = {products, orders}
    Deployed <- OldAndNew
    Alike <- Distinct
    MaxInits = 2
    MaxFaults = 2
SPECIFICATION FairSpec
INVARIANTS TypeOK InitMeansMigrated InOrder
\* Every process may be done.
CHECK_DEADLOCK FALSE
