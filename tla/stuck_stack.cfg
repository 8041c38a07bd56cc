\* The recipient deletes the primary copy of a two-photo stack: it is never mirrored again.
SPECIFICATION FairSpec
CONSTANTS
  Assets = {a, b}
  StackIds = {s, t}
  CopyIds = {1, 2}
  RecipientStackIds = {1, 2, 3, 4, 5, 6}
  MaxEdits = 2
  MaxFaults = 0
  None = None
  Gone = Gone
PROPERTY CompleteMirrored
