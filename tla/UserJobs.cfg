SPECIFICATION Spec
CONSTANTS
  Clients = {c1, c2}
  Emails = {e1, e2}
  Identities = {i1, i2}
  MaxUsers = 3
  MaxKeys = 2
  Budgets <- MCBudgets
  Nobody = Nobody
  Jobs = {j1, j2}
  Stages = {"applied", "offer"}
  Applied = "applied"
  Notes = {"note"}
  None = None
SYMMETRY MCSymmetry
INVARIANTS
  TypeOK
  AccountsSound
  SignInResolves
  TrackingWins
PROPERTIES
  LosesOnlyToOthers
  KeysBelongToSessions
  NothingUndone
  PageMatchesTotals
