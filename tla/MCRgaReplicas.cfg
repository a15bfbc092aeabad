CONSTANTS
  Values = {"x", "y"}
  NoID = NoID
  Replicas <- MCReplicas
  Ops <- MCOps
SPECIFICATION Spec
INVARIANTS
  TypeOK
  StateFromAccepted
  Convergence
  ParentsPresent
  
