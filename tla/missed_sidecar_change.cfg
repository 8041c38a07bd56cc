\* An XMP that is edited in place between the import and the first audit is never read again.
SPECIFICATION FairSpec
CONSTANTS
  CopyIds = {1, 2, 3, 4}
  RemoveUnshared = TRUE
  ReadOnlyMount = TRUE
  MaxEdits = 2
  MaxFaults = 0
  None = None
PROPERTY SidecarChangesArrive
