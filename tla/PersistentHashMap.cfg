SPECIFICATION Spec
CONSTANTS
    Keys <- MCKeys
    Values = {1, 2}
    BucketCount = 3
    Bucket <- MCBucket
    MaxInserts = 4
    MaxRestarts = 3
INVARIANTS LastInsertIsFound ReadsAreMapped IterationFindsAll
PROPERTY PathIsReplacedWhole
CHECK_DEADLOCK FALSE
