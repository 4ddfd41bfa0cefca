CONSTANTS
    video = video
    audio = audio
    alice = alice
    bob = bob
    auto = auto
    none = none
    HwdTypes = {auto, none}
    DefaultType = auto
    Announces <- Sources
SPECIFICATION UsersSpec
INVARIANTS
    UsersTypeOK
    UsersHaveSources
    ApplicationKnowsUsers
    ByeRemovesSource
    TypeReachesAll
