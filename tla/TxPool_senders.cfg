CONSTANTS
    a = a  a2 = a2  b = b  b2 = b2  c = c  d = d  alice = alice  bob = bob
    Hash = {a, b, c, d}
    Sender = {alice, bob}
    SenderOf <- MCSenderOf
    NonceOf <- MCNonceOf
    Price <- MCPrice
    Order = "fees"
    MaxNonce = 2
    MaxIncluded = 2
    MaxUnlocks = 2
    None = None
SPECIFICATION FairSpec
PROPERTIES RemovesAccount LockReleased
