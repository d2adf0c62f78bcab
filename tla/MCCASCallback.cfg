SPECIFICATION Spec
CONSTANTS
    ann = ann  bob = bob  app = app
    Browsers = {ann, bob}
    Reloads = {d1}
    UserOf <- MCUserOf
    Faulty = {bob}
    Services <- MCServices
    None = None
    BadExp = BadExp
    Admins = {"a1"}
    Domains <- MCDomains
    Registered <- MCRegistered
    Accounts = {1, 2}
    BaseURL = Outer
    PublicHost = Outer
    RequestHost = Inner
    MaxLosses = 1
    MaxTickets = 2
    Hosts = {"Forum.com", "forum.com", "shop.com", "localhost"}
    LowerCase <- MCLower
    Public = {"forum.com", "shop.com"}
    NoPort = NoPort
INVARIANTS TypeOK CodeJustified OneCodePerTicket CodeAsAsked
PROPERTIES TicketSpentForClient OwnerServed LoginGetsCode
CHECK_DEADLOCK FALSE
