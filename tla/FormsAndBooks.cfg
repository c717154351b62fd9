SPECIFICATION MCSpec
CONSTANTS
    m1 = m1
    m2 = m2
    o1 = o1
    Mine = {m1, m2}
    Others = {o1}
    DenominationOf <- Denominations
    Nowhere = Nowhere
    NotAnId = NotAnId
    NoWallet = NoWallet
    Currencies = {"USD", "EUR", "JPY"}
    Lengths = {15, 16}
    Details = {"cvv"}
    ann = ann
    bob = bob
    a = a
    b = b
    e = e
    fund = fund
    clear = clear
    fundE = fundE
    clearE = clearE
    k1 = k1
    k2 = k2
    long = long
    c1 = c1
    None = None
    Wallets <- Accounts
    CurrencyOf <- Currency
    OwnerOf <- Owner
    Funding <- FundingOf
    Clearing <- ClearingOf
    Users = {ann, bob}
    Admins = {bob}
    Transfers <- SomeTransfers
    Deposits <- SomeDeposits
    LongKeys = {long}
    CardKeys = {c1}
    TopUps <- SomeTopUps
    Fine = 10
    Limit = 7
    Ticks = {0, 3}
    Micro = 2
INVARIANTS
    BooksAgree
    MovedAsAsked
    
PROPERTIES
    ServerErrorsExplained
    PaidOnceTyped
