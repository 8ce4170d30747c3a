SPECIFICATION Spec
CONSTANTS
    one = one  two = two  alice = alice  bob = bob  staff = staff  None = None
    Inits = {one, two}
    Roles = {alice, bob, staff}
    Logins = {alice, bob}
    Writer <- MCWriter
    Reader <- MCReader
    Grantable <- MCNoGrants
    Empowerable = {}
    ForeignRaces = TRUE
INVARIANT InitializedMeansContract
