\* Three concurrent calls, one consumer thread per partition.
CONSTANTS
    c1 = c1
    c2 = c2
    c3 = c3
    NoCall = NoCall
    Calls = {c1, c2, c3}
    LastId = 6
    Wallets <- MCWallets
    SystemWallets <- MCSystemWallets
    Existing <- MCExisting
    Opening <- MCOpening
    Currency <- MCCurrency
    Owner <- MCOwner
    Funding <- MCFunding
    Clearing <- MCClearing
    Keys = {"k1", "k2", "k3"}
    Payments = {"p1", "p2"}
    TransferRequests <- AllTransfers
    DepositRequests <- AllDeposits
    CapturedEvents <- AllEvents
    ExclusiveConsumer = TRUE
SPECIFICATION Spec
SYMMETRY Symmetry
INVARIANTS
    TypeOK
    Reconciled
    NoOverdraft
    BackstopsNeverFire
    PostedOnce
    AnswersAgree
    NoWaitCycle
    MoneyConserved
PROPERTY ImplementsDoubleEntry
CHECK_DEADLOCK FALSE
