\* A user puts a freshly imported copy in an album before the bridge looked it up:
\* every later discovery fails on it, and no Work runs to look it up.
SPECIFICATION FairSpec
CONSTANTS
  ann = ann bob = bob together = together trip = trip photo = photo
  Members <- TwoMembers
  Albums <- TwoAlbums
  Together = together
  Assets = {photo}
  Owner <- OwnerPhoto
  AlbumRank <- TogetherLast
  MemberRank <- AnnFirst
  InitShared <- NothingShared
  RemoveUnshared = TRUE
  ReadOnlyMount = TRUE
  MaxGen = 4
  MaxEdits = 2
  MaxTrash = 0
  MaxFaults = 0
PROPERTY Converges
