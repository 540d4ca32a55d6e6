CONSTANTS BucketBounds <- MCBounds
 Durations = {1,2,3,9}
 ProcessingWarn = 2
 SampleLimit = 21
SPECIFICATION HistogramSpec
CHECK_DEADLOCK FALSE
INVARIANTS ProcessingAlertIsTrue
