SPECIFICATION FairSpec
CONSTANTS
  alert = alert
  test = test
  junk = junk
  server = server
  worker = worker
  spare = spare
  mono = mono
  Webhooks = {alert, test}
  KindOf <- MCKindOf
  MaxPosts <- MCMaxPosts
  Instances = {server, worker}
  ModeOf <- MCModeOf
  Configs = {"sound", "partial"}
  ErrorHandling = "continue"
  MaxReceive = 2
  Down = Down
  Nothing = Nothing
PROPERTIES
  AcceptedSettles
