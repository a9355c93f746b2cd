SPECIFICATION Spec
CONSTANTS
  Handlers = {h1, h2, h3}
  Processes = {p1, p2}
  Notes = {}
  MaxFlush = 1
  MaxTries = 1
  Parallel = 1
  LostAnswers = FALSE
  Rules <- MCRules
  RuleOf <- MCRuleOf
  NoMemo = NoMemo
  NoProcess = NoProcess
SYMMETRY Alike
INVARIANTS
  AckedTextStays
