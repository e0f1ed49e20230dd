\* Requests of up to three header lines; after them two frames of each kind, each
\* width of a length at its ends, and up to two bytes that came with the request.
SPECIFICATION FairSpec
CONSTANTS
  MaxHeaders = 3
  Digests <- MCDigests
  Lens = {0, 1, 2, 63, 64}
  MaxFrames = 2
  MaxEarly = 2
INVARIANTS  UpgradeAsAsked
PROPERTIES FramesAreHandled
CHECK_DEADLOCK FALSE
