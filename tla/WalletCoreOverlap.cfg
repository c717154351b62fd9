\* Two deliveries of one payment run at once (a rebalance with a slow consumer).
CONSTANTS
    c1 = c1
    c2 = c2
    c3 = c3
    NoCall = NoCall
    Calls = {c1, c2, c3}
    LastId = 6
    Wallets <- MCWallets
    SystemWallets <- MCSystemWallets
    Existing <- MCExisting
    Opening <- MCOpening
    Currency <- MCCurrency
    Owner <- MCOwner
    Funding <- MCFunding
    Clearing <- MCClearing
    Keys = {"k1", "k2", "k3"}
    Payments = {"p1", "p2"}
    TransferRequests <- Nothing
    DepositRequests <- Nothing
    CapturedEvents <- OneTopUp
    ExclusiveConsumer = FALSE
SPECIFICATION Spec
INVARIANT PostedOnce
CHECK_DEADLOCK FALSE
