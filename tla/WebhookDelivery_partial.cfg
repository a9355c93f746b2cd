SPECIFICATION Spec
CONSTANTS
  alert = alert
  test = test
  junk = junk
  server = server
  worker = worker
  spare = spare
  mono = mono
  Webhooks = {alert}
  KindOf <- MCKindOf
  MaxPosts <- MCMaxPosts
  Instances = {mono}
  ModeOf <- MCModeOf
  Configs = {"sound", "partial", "unusable"}
  ErrorHandling = "continue"
  MaxReceive = 3
  Down = Down
  Nothing = Nothing
INVARIANTS
  DeletedIsDone
