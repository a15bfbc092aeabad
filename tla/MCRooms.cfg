SPECIFICATION Spec
CONSTANTS
  q1 = q1
  q2 = q2
  Requests = {q1, q2}
  QueueSize = 2
  MaxRooms = 2
  MaxOps = 1
INVARIANTS
  TypeOK
  OneOwner
  RegisteredRuns
  NoStaleRoom
  RoomsEndFirst
PROPERTIES
  EmptyRoomsEnd
  ShutdownEnds
  RegistrationAnswered
