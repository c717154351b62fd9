\* One payment captured up to twice, with up to two faults in relay and consumer.
CONSTANTS
    NoOne = NoOne
    Topups = {t1}
    Keys = {k1}
    MaxRetries = 1
    WebhookTries = 1
    Verdicts = {"SETTLED", "FAILED"}
    MaxAttempts = 2
    MaxFaults = 2
SPECIFICATION FairTopupSpec
INVARIANTS
    CreditedOnce
    CreditBacked
    NothingLost
PROPERTIES
    EventuallyPosted
CHECK_DEADLOCK FALSE
