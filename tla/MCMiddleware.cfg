\* One layer shared by two clients; chains of two layers of every framework.
SPECIFICATION FairSpec
CONSTANTS
    Clients = {"c1", "c2"}
    Proxies = {"p"}
    Paths = {"/a", "/b"}
    Second = 4
    Configs <- CheckedConfigs
INVARIANTS
    TypeOK
    ServedIffAdmitted
PROPERTIES
    AnnouncedDelaysKept
    ObedientClientServed
CHECK_DEADLOCK FALSE
