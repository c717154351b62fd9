\* Three calls out of opposing transfers and a top-up, all of them fair.
CONSTANTS
    c1 = c1
    c2 = c2
    c3 = c3
    NoCall = NoCall
    Calls = {c1, c2, c3}
    LastId = 6
    Wallets <- MCWallets
    SystemWallets <- MCSystemWallets
    Existing <- MCExisting
    Opening <- MCOpening
    Currency <- MCCurrency
    Owner <- MCOwner
    Funding <- MCFunding
    Clearing <- MCClearing
    Keys = {"k1", "k2", "k3"}
    Payments = {"p1", "p2"}
    TransferRequests <- OpposingTransfers
    DepositRequests <- Nothing
    CapturedEvents <- OneTopUp
    ExclusiveConsumer = TRUE
SPECIFICATION FairSpec
PROPERTY CallsEnd
CHECK_DEADLOCK FALSE
