SPECIFICATION Spec
CONSTANTS
  Cards = 2
  Chans = 2
  PER_CHANNEL = 3
  PER_FEC = 3
  PER_CRATE = 6
  MEGASIZE = 2
  PER_READ = 2
  MaxBurst = 3
  MaxReads = 2
  MaxSlots = 2
  Files <- MCFiles
INVARIANTS ChannelsInOrder NothingLost DoneMeansWritten CrashNeedsManyHits
PROPERTY Terminates
CHECK_DEADLOCK FALSE
