SPECIFICATION Spec
CONSTANTS
    Shown = {"status_icon", "drag_drop"}
    Saved = {"status_icon"}
    Hidden = {"default_keys"}
    Chords = {"H", "J", "K"}
    Plain = {"K"}
    Id <- MCId
    Rank <- MCRank
    Default <- MCDefault
    Files <- MCFiles
    Listeners = {"status"}
    MaxActs = 2
    MaxQueue = 1
INVARIANTS
    ActorsAgree
    WatchedFileRuns
    PreferencesKeep
PROPERTIES
    RestartKeeps
CHECK_DEADLOCK FALSE
