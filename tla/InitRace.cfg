SPECIFICATION FairSpec
CONSTANTS
    one = one  two = two  alice = alice  bob = bob  staff = staff  None = None
    Inits = {one, two}
    Roles = {alice, bob, staff}
    Logins = {alice, bob}
    Writer <- MCWriter
    Reader <- MCReader
    Grantable <- MCGrantable
    Empowerable = {staff}
    ForeignRaces = FALSE
INVARIANTS TypeOK InitTruth GrantsTogether RolesRestrained
PROPERTY RerunSucceeds
