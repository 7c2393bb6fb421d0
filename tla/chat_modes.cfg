SPECIFICATION Spec
CONSTANTS
    Modes <- MCModes
    NoMode = NoMode
    Default = "oneshot"
INVARIANTS
    StateIsReal
    ReleasedIsQuiet
    HeldIsHeard
    EarsFollowMode
CONSTRAINT Followed
