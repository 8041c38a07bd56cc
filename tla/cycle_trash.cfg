\* Trash, restore and permanent deletion by any member, one fault, and the
\* setting that keeps unshared copies. Immich may delete files. 0.94 million states.
SPECIFICATION Spec
CONSTANTS
  ann = ann bob = bob together = together trip = trip photo = photo
  Members <- TwoMembers
  Albums <- TwoAlbums
  Together = together
  Assets = {photo}
  Owner <- OwnerPhoto
  AlbumRank <- TogetherLast
  MemberRank <- AnnFirst
  InitShared <- NothingShared
  RemoveUnshared = FALSE
  ReadOnlyMount = FALSE
  MaxGen = 4
  MaxEdits = 2
  MaxTrash = 2
  MaxFaults = 1
INVARIANT OwnerDeletedUnshared
PROPERTY RemovalHonoured AdditionHonoured DeletesOnlyUnshared UnshareByIntentOrRestore
