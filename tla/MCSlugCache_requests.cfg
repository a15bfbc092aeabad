SPECIFICATION FairSpec
CONSTANTS
  s1 = s1
  s2 = s2
  page = page
  socket = socket
  Slugs = {s1, s2}
  Pages = {page}
  Sockets = {socket}
  FoundTTL = 3
  MissingTTL = 2
  MaxEntries = 1
INVARIANTS
  TypeOK
  Bounded
  FoundExists
PROPERTIES
  StaysSettled
  CreatedIsFound
