SPECIFICATION FairImagesSpec
CONSTANTS
  Upload = {r1, r2}
  Reader = {t1}
  mock = mock
  bedrock = bedrock
  Provider = {mock, bedrock}
  Wish <- Wishes
  PoolSize = 1
  Absent = Absent
INVARIANTS
  OnlyEnabledCalled
  StoredWhole
PROPERTIES
  UploadsAnswered
CHECK_DEADLOCK FALSE
