SPECIFICATION Spec
CONSTANTS
  q1 = q1
  q2 = q2
  q3 = q3
  both = both
  alertOnly = alertOnly
  dangling = dangling
  plain = plain
  svc = svc
  Main = Main
  NoOne = NoOne
  NoText = NoText
  Queries <- MCQueries
  Configured <- MCConfigured
  Rules <- MCRules
  UpdatesAlert <- MCUpdatesAlert
  Annotates <- MCAnnotates
  Describes <- MCDescribes
  MemoDeps <- MCMemoDeps
  DescDeps <- MCDescDeps
  Services <- MCServices
  ServiceOf <- MCServiceOf
  MayFail <- MCMayFail
INVARIANTS
  PendingRendersAsRunning
