\* Four API calls, or two and a user edit, or two edits; and one fault, anywhere.
\* One album of Ann's can be shared or registered besides the mirrored one.
SPECIFICATION FairSpec
CONSTANTS
  ann = ann bob = bob together = together trip = trip other = other another = another
  photo = photo
  Members <- TwoMembers
  Albums <- FourAlbums
  Together = together
  Photos = {photo}
  AlbumRank <- InOrder
  MemberRank <- AnnFirst
  InitRemotes <- FiveRemotes
  InitOwner <- OwnerOfRemote
  InitReplica <- Mirrors
  MaxRemotes = 10
  MaxEdits = 2
  MaxInputs = 4
  MaxFaults = 1
INVARIANT TypeOK ArchiveAgrees ArchivedNotRediscovered OneRestoredAlbum
PROPERTY DeletesOnlyRequested ContentsRestored Resumes
