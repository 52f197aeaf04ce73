\* Two restores of the larger backup.
SPECIFICATION FairSpec
CONSTANTS
  Root = "root"
  Node <- AllNodes
  Kind <- AllKinds
  Children <- AllListings
  Chunks <- AllBlobs
  Scores <- AllBlobs
  Mode <- AllModes
  Mtime <- AllMtimes
  Now = Now
  MaxRuns = 2
INVARIANTS RestoredAsRecorded SoundBackupRestores
PROPERTY RestoreEnds
