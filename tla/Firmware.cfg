SPECIFICATION FileSpec
CONSTANTS
  B = 4
  Far = 3
  ChunkSize = 7
  Align = 4
  TableArea = 36
  Stock <- Files
  Known <- Digests
  BootMarks <- Texts
  UpdaterLen = 2
  UpdaterHead <- Zero1
  Edits <- Asks
  Cuts = {2}
  MaxBuilds = 2
INVARIANTS SectionsKept Authentic  Stable
