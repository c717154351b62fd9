\* Two calls, duplicate captures, overlapping webhooks, crashes on both sides.
CONSTANTS
    NoOne = NoOne
    Topups = {t1, t2}
    Keys = {k1}
    MaxRetries = 1
    WebhookTries = 2
    Verdicts = {"SETTLED", "FAILED"}
SPECIFICATION Spec
SYMMETRY Symmetry
INVARIANTS
    TypeOK
    OnePaymentPerKey
    NoSettlementSwallowed
    CapturedIffPublished
PROPERTY StatusMoves
CHECK_DEADLOCK FALSE
