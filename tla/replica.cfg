\* One copy, its media file and XMP, through three edits and a fault at any step.
SPECIFICATION FairSpec
CONSTANTS
  CopyIds = {1, 2, 3, 4}
  RemoveUnshared = TRUE
  ReadOnlyMount = FALSE
  MaxEdits = 3
  MaxFaults = 1
  None = None
INVARIANT TypeOK
PROPERTY KeepsPromise RefreshedBeforeRecorded SharedIsMirrored UnsharedIsRemoved
