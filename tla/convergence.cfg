\* Liveness from a settled start, with two edits, a trash operation and a fault.
\* FairSpec: the bridge keeps polling and discovering, Immich keeps crawling.
SPECIFICATION FairSpec
CONSTANTS
  ann = ann bob = bob together = together trip = trip photo = photo
  Members <- TwoMembers
  Albums <- TwoAlbums
  Together = together
  Assets = {photo}
  Owner <- OwnerPhoto
  AlbumRank <- TogetherLast
  MemberRank <- AnnFirst
  InitShared <- PhotoEverywhere
  RemoveUnshared = TRUE
  ReadOnlyMount = TRUE
  MaxGen = 4
  MaxEdits = 2
  MaxTrash = 1
  MaxFaults = 1
PROPERTY ConvergesUnlessBlocked
