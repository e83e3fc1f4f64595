SPECIFICATION FairDriveSpec
CONSTANTS
  stick = stick
  disk = disk
  v1 = v1
  v2 = v2
  v3 = v3
  Drives <- TwoDrives
  Volumes <- ThreeVolumes
  DriveOf <- OnDrives
  MaxEvents = 4
INVARIANTS
  AccessibleIsSelected
  SavedIsListed
  ListMatches
 
CHECK_DEADLOCK FALSE
