SPECIFICATION FairSpec
CONSTANTS
  Threads = {t1, t2}
  LookAheads = {0, 1, 2}
  Frames = 4
INVARIANTS SlotKept EncoderOwnsFrame QpInStep
PROPERTY AllEncoded RefinesChannels
