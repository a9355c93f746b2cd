SPECIFICATION Spec
CHECK_DEADLOCK FALSE
CONSTANTS
  http = http
  csv = csv
  sql = sql
  pages = pages
  tables = tables
  qp = qp
  qt = qt
  report = report
  MaxFaults = 2
  Plugins = {http, csv}
  ProviderBlocks <- MCProviderBlocks
  TypeOf <- MCTypeOf
  TakenTypes = {sql}
  Queries = {qp, qt}
  ProviderOf <- MCProviderOf
  Rules = {report}
  Files <- MCFiles
INVARIANTS
  TypeOK
  ReadyIsWhole
  WrongIsNoticed
  RunningIsWhole
  GuardedServerIsSound
  PluginsCanBeKilled
  ClosedLeavesNoPlugin
