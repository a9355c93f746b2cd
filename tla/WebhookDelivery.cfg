SPECIFICATION Spec
CONSTANTS
  alert = alert
  test = test
  junk = junk
  server = server
  worker = worker
  spare = spare
  mono = mono
  Webhooks = {alert, junk}
  KindOf <- MCKindOf
  MaxPosts <- MCMaxPosts
  Instances = {server, worker, spare}
  ModeOf <- MCModeOf
  Configs = {"sound", "partial"}
  ErrorHandling = "continue"
  MaxReceive = 2
  Down = Down
  Nothing = Nothing
SYMMETRY Alike
INVARIANTS
  TypeOK
  Inv
  NothingIsLost
  DeletedIsDone
