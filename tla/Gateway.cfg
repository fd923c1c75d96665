\* One completed payment, and one that failed or was refunded, each reported once.
SPECIFICATION GatewaySpec
CONSTANTS
    Payment = {paid, failed}
    Completed = {paid}
    Limit = 1
    Window = 1
    MaxRequests = 1
    MaxDeliveries = 1
INVARIANT MintedAsPaid
