CONSTANTS
    Numbers = {"1042", "1042-1"}
    Partials = {"1042-"}
    Uuids = {"uuid"}
    Words = {"caneca"}
    Statuses = {"placed", "delivered"}
    Priorities = {"critical"}
    Dates = {"monday"}
    Junk = "junk"
    PageSize = 1
    MaxTotal = 2
    ListClicks = 3
    Shelves <- MCShelves
    Terms = {"a", "b"}
    PriceOf <- MCPriceOf
    NotPrices = {"x"}
    CardsPerPage = 1
    CatalogClicks = 4
    Histories <- MCHistories
    MessageWindow = 2
    StartTime = 4
    MaxTime = 6
    MaxConversations = 2
    PanelClicks = 3
    Things = {1, 2}
    MaxComments = 2
    ItemClicks = 3
    Offers = {1, 2, 3}
    ProductOf <- MCProductOf
    Mine = {1, 3}
    Shelf <- MCShelf
    ApiPrice <- MCApiPrice
    MaxStock = 2
    MaxProducts = 2
    MaxOthers = 1
    OfferClicks = 3
    EntityOf <- MCEntityOf
    MaxSent = 2
    MaxFailures = 1
    BellClicks = 2
    MaxRequests = 2
    t1 = t1
    t2 = t2
    u1 = u1
    u2 = u2
    Token = {t1, t2}
    User = {u1, u2}
    OwnerOf <- MCOwnerOf
    RoleOf <- MCRoleOf
    Visited = {"/login", "/", "/nowhere"}
    MaxAsked = 1
    NoToken = NoToken
    NoUser = NoUser
SPECIFICATION FrontendSpec
INVARIANTS FrontendTypeOK SessionIsCoherent ShownIsAsked MatchesAreShown PanelTellsTheThread RefusedOnlyWhenStale ConfirmedIsDone BoughtAsShown OverwritesOnlyWhenStale
PROPERTIES DeadTokenIsNoticed BadgeConverges
CHECK_DEADLOCK FALSE
