CONSTANTS
    a = a  a2 = a2  b = b  b2 = b2  c = c  d = d  alice = alice  bob = bob
    Hash = {a, b, b2}
    Sender = {alice}
    SenderOf <- MCSenderOf
    NonceOf <- MCNonceOf
    Price <- MCPrice
    Order = "fees"
    MaxNonce = 1
    MaxIncluded = 2
    MaxUnlocks = 2
    None = None
SPECIFICATION Spec
INVARIANT WaitingMarkerTracked
