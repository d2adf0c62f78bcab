SPECIFICATION Spec
CONSTANTS
    ann = ann  bob = bob  app = app
    Browsers = {ann}
    Reloads = {}
    UserOf <- MCUserOf
    Faulty = {}
    Services <- MCServices
    None = None
    BadExp = BadExp
    Admins = {"a1", "a2"}
    Domains <- MCDomains
    Registered <- MCRegistered
    Accounts = {1, 2}
    BaseURL = Outer
    PublicHost = Outer
    RequestHost = Inner
    MaxLosses = 1
    MaxTickets = 2
    Hosts = {"Forum.com", "forum.com", "shop.com", "localhost"}
    LowerCase <- MCLower
    Public = {"forum.com", "shop.com"}
    NoPort = NoPort
INVARIANTS OneClientPerDomain
CHECK_DEADLOCK FALSE
