SPECIFICATION ProofSpec
CONSTANTS
  j1 = j1
  j2 = j2
  e1 = e1
  e2 = e2
  Messages = {"empty", "file", "full", "huge"}
  MsgLen <- MCMsgLen
  Files = {"file", "huge"}
  Nonces = {"r"}
  Secrets = {j1, j2, e1, e2}
  Judges = {j1, j2}
  MaxStreamBytes = 9
  None = None
  Statements = {"x1", "x2"}
  Relation <- MCRelation
  ProofLens = {1, 2, 3}
  MaxCommits = 2
  MaxAlterations = 2
SYMMETRY Interchangeable
INVARIANTS
  RecoveredWasCommitted
  OnlyTheJudge
  NoKeyReuse
  VerifiedWasProved
  RecoveryFollowsVerification
  ProofRoundTrip
CHECK_DEADLOCK FALSE
