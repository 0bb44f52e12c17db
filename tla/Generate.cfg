\* Two calls, so that the second runs with what the first left behind, and
\* programs that overflow the buffer and the pipe.
SPECIFICATION FairSpec
CONSTANTS
  MaxCalls = 2
  MaxItems = 3
  BufCap = 1
  PipeCap = 1
  Failing = {"pipe", "fork", "fdopen", "fmemopen", "waitpid"}
INVARIANTS
  SuccessComplete
  CutShortForCause
PROPERTIES
  Returns
  ChildrenEnd
CHECK_DEADLOCK FALSE
