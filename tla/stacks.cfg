\* Two stacks one after the other of three photos, two edits and a fault at any step.
SPECIFICATION FairSpec
CONSTANTS
  Assets = {a, b, c}
  StackIds = {s, t}
  CopyIds = {1, 2}
  RecipientStackIds = {1, 2, 3, 4, 5, 6}
  MaxEdits = 2
  MaxFaults = 1
  None = None
  Gone = Gone
INVARIANT TypeOK
PROPERTY WholeStacks GoneConfirmed StacksMirrored StacksRemoved IncompleteUnstacked
