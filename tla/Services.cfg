SPECIFICATION Spec
CHECK_DEADLOCK FALSE
CONSTANTS
    Clients = {"c1", "c2"}
    Workers = {"w1", "w2"}
    MAX_DOCUMENTS = 1
    MaxDocs = 1
    MaxPuts = 2
    MaxSends = 2
    MaxDeaths = 1
    Emails = {"e1", "e2"}
    SEATS = 2
    MaxInvites = 3
    MaxOwnerInvites = 2
    MaxOrgs = 1
    Users = {"u1", "u2"}
    Staff = {"s1"}
    MaxSessions = 2
    SignIns = {"e1"}
    Addresses = {"a1"}
    PER_EMAIL = 1
    PER_ADDRESS = 2
    MAX_REQUESTS = 2
    MaxCount = 4
    Runs = {"w1"}
    Routes = {"r1"}
    Watchers = {"a1"}
    MAX_LENGTH = 2
    COUNT = 2
    MaxSaves = 3
    MaxEvents = 4
    MAX_CONCURRENT = 2
    RESTART_AFTER = 2
    PNG_MAX = 3
    PDF_MAX = 2
    MIN_SCALE = 2
    Heights = {5}
    MaxRenders = 3
    MaxCrashes = 1
    Elements <- PageElements
    Size = 2
    MAX_TAB_STOPS = 2
INVARIANTS
    DocumentsSafe
    SeatSlack
    AccountsSafe
    LimitsHold
    ProjectsSafe
    StreamSafe
    SkillsSafe
    DatasetsSafe
    DashboardSafe
    RenderSafe
    PagesSafe
    
PROPERTIES
    SignedOutStaysOut
