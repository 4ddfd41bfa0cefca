SPECIFICATION FairSpec
CONSTANTS
    PayloadTypes = {HEVC, H264, VP9}
    Accelerated = {HEVC, H264}
    Installed = {HEVC, VP9}
    NoType = NoType
INVARIANTS DecodesWithItsCodec ReportsTruth
PROPERTIES SettingTakesEffect
