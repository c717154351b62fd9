\* Two settlements of one payment, one SETTLED and one FAILED, handled at once.
CONSTANTS
    NoOne = NoOne
    Topups = {t1}
    Keys = {k1}
    MaxRetries = 1
    WebhookTries = 1
    Verdicts = {"SETTLED", "FAILED"}
SPECIFICATION Spec
PROPERTY FailedStaysFailed
CHECK_DEADLOCK FALSE
