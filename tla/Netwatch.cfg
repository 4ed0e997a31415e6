SPECIFICATION FairWatchSpec
CONSTANTS
    home = home  cafe = cafe
    NoUplink = NoUplink
    Nets <- MCNets
    Home = home
    Portals <- MCPortals
    RequireCapture = TRUE
    Debounce = 2
    MaxDebounce = 3
    MaxMoves = 2
    MaxFaults = 1
CHECK_DEADLOCK FALSE
INVARIANTS BeliefIsCurrent
PROPERTIES SwapIsClean ChangeIsFollowed SettingsComeBack
