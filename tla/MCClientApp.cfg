SPECIFICATION Spec
CONSTANTS
    Numbers = {9312, 50000}
    Hosts <- SomeHosts
    Passwords = {"demo"}
    DefaultHost = "192.168.0.101"
    DefaultPassword = "demo"
    DefaultPort = 9312
    Slots = {"one", "two"}
INVARIANTS
    TypeOK
    AllOrNothing
    OneSession
    Careful
PROPERTIES
    Told
    ComesBack
