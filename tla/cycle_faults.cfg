\* The whole cycle with two faults: one photo, nothing shared yet, four user
\* edits at any point, no trash. Files cannot be deleted by Immich. 270 000 states.
SPECIFICATION Spec
CONSTANTS
  ann = ann bob = bob together = together trip = trip photo = photo
  Members <- TwoMembers
  Albums <- TwoAlbums
  Together = together
  Assets = {photo}
  Owner <- OwnerPhoto
  AlbumRank <- TogetherLast
  MemberRank <- AnnFirst
  InitShared <- NothingShared
  RemoveUnshared = TRUE
  ReadOnlyMount = TRUE
  MaxGen = 4
  MaxEdits = 4
  MaxTrash = 0
  MaxFaults = 2
INVARIANT TypeOK SharingConsistent DiffersByEdits
PROPERTY NoResurrection RemovalHonoured AdditionHonoured DeletionGrace UnshareByIntentOrRestore
