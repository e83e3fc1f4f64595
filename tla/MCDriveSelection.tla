--------------------------- MODULE MCDriveSelection ---------------------------
\* One drive of two volumes and one of a single volume for DriveSelection.
EXTENDS DriveSelection, TLC

CONSTANTS stick, disk, v1, v2, v3

TwoDrives    == {stick, disk}
ThreeVolumes == {v1, v2, v3}
OnDrives     == v1 :> stick @@ v2 :> disk @@ v3 :> disk
=============================================================================
