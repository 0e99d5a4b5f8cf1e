SPECIFICATION Spec
CONSTANTS
  text = text
  image = image
  NoCache = NoCache
  Clients = {c1, c2}
  MimeList <- MCMimeList
  Length <- MCLength
  ShotSize = 2
  Limit = 4
  PipeSize = 1
  Readers = {r1}
  MaxCopies = 2
INVARIANTS
  NothingDangles
  OnlyWholeData
PROPERTIES
  NeverReplaces
  ReadAndKept
CHECK_DEADLOCK FALSE
