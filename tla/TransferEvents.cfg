\* A transfer, a deposit, a registration and one incident.
CONSTANTS
    NoOne = NoOne
    Replicas = {r1, r2}
    Transfers = {1, 2}
    Deposits = {2}
    Sender = ann
    Receiver = bob
    Newcomers = {eve}
    Asked = {"credit"}
    MaxInits = 2
    MaxIncidents = 1
SPECIFICATION Spec
INVARIANTS
    TypeOK
    PublishedIsOnTopic
    NoDuplicateWithoutFault
    LagCoversUntried
PROPERTY EventuallyHandled
CHECK_DEADLOCK FALSE
