SPECIFICATION Spec
CONSTANTS
    Users = {bob, carol}
    None = None
    Ttl = 1
    Timeout = 1
    MaxTime = 2
    home = home
    club = club
    team = team
    Cals = {home, club}
    Groups = {team, sudo}
    AdminGroup = sudo
    GrantIds = {g1, g2}
    Offers <- AllOffers
    MaxActs = 4
INVARIANTS TypeOK PublicMatchesConsent NothingOutlivesCalendar ListingAgrees
PROPERTIES StaleAnswersAreRecent ActsAreGranted
CHECK_DEADLOCK FALSE
SYMMETRY Interchangeable
