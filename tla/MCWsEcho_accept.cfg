\* The answer to a key.
SPECIFICATION Spec
CONSTANTS
  MaxHeaders = 1
  Digests <- MCDigests
  Lens = {0}
  MaxFrames = 1
  MaxEarly = 0
INVARIANTS AcceptIsDigest
CHECK_DEADLOCK FALSE
