SPECIFICATION DbSpec
CONSTANTS
    DbSizes = {9}
    EntryLens = {1, 2}
    Payloads = {1}
    DbStarts = {1}
CONSTRAINT GapsOnly
INVARIANT DbRecoversGaps
CHECK_DEADLOCK FALSE
