CONSTANTS
    None = None
    Nothing = Nothing
    NoFilter = NoFilter
    s1 = s1
    s2 = s2
    Home <- MCHome
    Directories <- MCDirectories
    Files <- MCFiles
    MaxArgs = 2
    MotdIsRead = FALSE
    Inputs <- MCInputs
    Blank <- MCBlank
    MaxCommands = 2
    Catalogue <- MCCatalogue
    Lower <- MCLower
    AsciiLower <- MCLower
    MaxPageSize = 2
    Searches = {s1}
    Countries = {"Malta"}
    Genres = {"Jazz"}
    Hls = {2}
    PageSize = 3
    MaxAttempts = 2
    Slots = {1, 2}
    Sources = {"", "u1", "u2", "long"}
    Unfit = {"", "long"}
    Empty = ""
    NoSource = NoSource
    t1 = t1
    NoToken = NoToken
    NoUrl = NoUrl
    Tokens = {t1}
    StreamUrl <- MCStreamUrl
    Playlist <- MCPlaylist
SPECIFICATION FairSpec
INVARIANTS
    ListIsABeginning
    PlaysTheSelected
    ChallengeIsOffered
    ConversionIsShown
    PlayerIsRouted
PROPERTIES
    CdWalksTheTree
    SpinnerStops
