CONSTANTS
  NumRetries = 3
  CheckEvery = 2
  Timeout = 6
SPECIFICATION Spec
\* The model ends when the web server starts.
CHECK_DEADLOCK FALSE
INVARIANT OkMeansConnected
