\* A crash after an album write and before it is recorded: the next discovery
\* takes the bridge's own write for a user's addition, over a user's removal.
SPECIFICATION Spec
CONSTANTS
  ann = ann bob = bob together = together trip = trip photo = photo
  Members <- TwoMembers
  Albums <- TwoAlbums
  Together = together
  Assets = {photo}
  Owner <- OwnerPhoto
  AlbumRank <- TogetherLast
  MemberRank <- AnnFirst
  InitShared <- NothingShared
  RemoveUnshared = FALSE
  ReadOnlyMount = TRUE
  MaxGen = 4
  MaxEdits = 2
  MaxTrash = 0
  MaxFaults = 1
PROPERTY RemovalAlwaysHonoured
