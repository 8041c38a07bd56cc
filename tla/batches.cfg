\* Three items in two albums or two in one, limits below the number of items.
SPECIFICATION Spec
CONSTANTS
  Items <- ThreeItems
  Plans <- TwoPlans
  Limits <- TwoPrepared
INVARIANT TypeOK BudgetKept
PROPERTY EnsuredOnce AuditsSweep BacklogDrains
