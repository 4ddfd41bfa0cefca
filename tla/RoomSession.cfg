CONSTANTS
    red = red
    blue = blue
    ann = ann
    eve = eve
    h264 = h264
    hevc = hevc
    NoRoom = NoRoom
    NoName = NoName
    NoFormat = NoFormat
    Rooms = {red, blue}
    Names = {ann, eve}
    bob = bob
    Others = {bob}
    Formats = {h264, hevc}
    FirstLatest = {h264}
    TooLong = {eve, blue}
    MaxQueue = 1
    MaxSsrc = 4
SPECIFICATION Spec
INVARIANTS
    PayloadTypeMatches
    SessionsTellTheTruth
    UsersOfThisRoom
    OwnIdsKnown
