SPECIFICATION Spec
CONSTANTS
  c1 = c1
  c2 = c2
  Clients = {c1, c2}
  QueueSize = 2
  FanoutQueueSize = 1
  MaxReads = 2
INVARIANTS
  TypeOK
  DropIsFinal
  CursorSignalled
  CursorsCoalesced
  PresenceSettles
PROPERTIES
  ClosedLeaves
  DeliversInOrder
