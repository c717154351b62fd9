\* The same transfer request sent several times at once.
CONSTANTS
    c1 = c1
    c2 = c2
    c3 = c3
    NoCall = NoCall
    Calls = {c1, c2, c3}
    LastId = 6
    Wallets <- MCWallets
    SystemWallets <- MCSystemWallets
    Existing <- MCExisting
    Opening <- MCOpening
    Currency <- MCCurrency
    Owner <- MCOwner
    Funding <- MCFunding
    Clearing <- MCClearing
    Keys = {"k1", "k2", "k3"}
    Payments = {"p1", "p2"}
    TransferRequests <- DuplicateTransfers
    DepositRequests <- Nothing
    CapturedEvents <- Nothing
    ExclusiveConsumer = TRUE
SPECIFICATION Spec
PROPERTY DuplicateNeverRefused
CHECK_DEADLOCK FALSE
