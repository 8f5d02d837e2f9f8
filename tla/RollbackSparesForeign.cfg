CONSTANTS
    Profiles = {"auto", "static"}
    Config <- MCConfig
    Addresses <- MCAddresses
    Routes <- MCRoutes
    Networks = {n1, n2, n3}
    Default4 = "0/0"
    Default6 = "::/0"
    None = None
    Foreign = Foreign
    MaxFaults = 1
SPECIFICATION Spec
PROPERTIES
    RollbackSparesForeign
