SPECIFICATION FairSpec
CONSTANTS
  MaxPayload = 1
  SeqModulus = 2
  MaxFrames = 3
  MaxFaults = 2
  MaxResets = 1
INVARIANTS
  HasFrameExact
  PrefixBounded
  NoBytesLost
PROPERTY ChannelSpec
