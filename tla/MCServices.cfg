SPECIFICATION ServicesSpec
CONSTANTS
    None = None
    a1 = a1  a2 = a2  b1 = b1  b2 = b2  n1 = n1  n2 = n2  n3 = n3
    d1 = d1  d2 = d2  d3 = d3  k1 = k1  k2 = k2  s1 = s1  s2 = s2  s3 = s3
    \* AccountKeys
    Callers = {c1, c2}
    Accounts = {a1, a2}
    SignIns = {u1, u2}
    Keys = {k1, k2}
    JoinCodes = {x1, x2}
    Rows0 <- TheRows
    MaxAsks = 2
    \* AuthRequests
    Newcomers = {k1}
    Devices = {d1, d2, d3}
    AccountOf <- TheDevices
    \* TokenCache
    Tokens = {t1, t2, t3}
    MaxSize = 2
    TokenTTL = 1
    MaxClock = 3
    \* Invitations
    Guests = {g1, g2, g3}
    Invitees = {i1, i2}
    InvitationCodes = {x1, x2}
    MaxUses = 2
    \* GithubLink
    Members = {a1, a2}
    Logins = {l1, l2}
    Linkers = {i1, i2}
    MaxLinks = 4
    \* KvStore
    Clients = {c1, c2}
    EntryKeys = {k1, k2}
    Values = {v1}
    Retries = 1
    MaxRequests = 2
    \* Friends
    Users = {a1, a2}
    Cooldown = 1
    MaxHour = 3
    MaxPosts = 4
    \* Rpc
    Sockets = {c1, c2, c3}
    Methods = {m1, m2}
    Tables = {t1, t2, t3}
    Calls = {r1}
    \* SessionLog
    Conns = {n1, n2, n3}
    Senders = {n1, n2}
    ScopeOf <- TheScopes
    Session = s1
    LocalIds = {l1}
    Sends = {1, 2, 3}
    \* MachineRegistry
    Owners = {a1, a2}
    MachineIds = {m1}
    Visits = {v1, v2, v3}
    MaxData = 2
    \* SessionEntry
    Tags = {t1, t2}
    SessionRows = {s1, s2}
    Entries = {e1, e2}
    \* TeamMessages
    Readers = {r1}
    MaxArrivals = 1
    Limit = 3
    Scopes = {"here", "global", "corrupt"}
    MaxStamp = 2
    \* TeamPosts
    Seats = {s1, s2, s3}
    Homes <- TheHomes
    Chief = a1
    Posters = {a1, a2}
    Posts = {p1}
    \* WeixinBridge
    Bots = {b1, b2}
    Works = {w1, w2}
    MaxLoops = 2
    MaxWorks = 2
    MaxInbox = 2
    \* Genomes
    Authors = {a1, a2}
    Editors = {e1, e2}
    GenomeIds = {g1, g2, g3}
    Titles = {t1, t2}
    Official = {t2}
    Specs = {p1, p2}
    HubNumbers = {1, 2}
    MaxEdits = 3
    MaxServed = 2
    \* Trials
    Trialists = {c1, c2}
    Subjects = {o1, o2}
    MaxTrials = 4
    \* TaskRoutes
    Captain = a1
    Visitors = {a1, a2}
    Helpers = {s1, s2}
    HelperHome <- TheHelpers
    FirstRows <- TheHelperRows
    Jobs = {t1, t2}
    Couriers = {c1, c2}
    MaxTurns = 3
SYMMETRY Symmetry
INVARIANTS
    SignInIsSound UsesAreCounted ConnectionIsWhole
    CallsFindTheServer LogIsFaithful TeamMessagesArrive OneFaithfulBridge
PROPERTIES
    EvictionIsFair WritersAreInformed FriendshipIsMutual MachinesStay EntriesMeet
    VersionsAreImmutable StartLeavesOneOpen HoldersAreEntitled
CHECK_DEADLOCK FALSE
