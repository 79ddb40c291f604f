--------------------------- MODULE MCDiskPressure ---------------------------
\* DiskPressure for TLC, alone: volumes on which a floor is met before the
\* critical percentage.
EXTENDS DiskPressure

SmallVolumes == {4, 10}
=============================================================================
