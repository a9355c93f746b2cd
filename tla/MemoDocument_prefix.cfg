SPECIFICATION Spec
CONSTANTS
  a = a
  ab = ab
  short = short
  long = long
  Names = {a, ab}
  Begins <- RuleNames
  Orders <- MCOrders
  Texts = {short, long}
  LengthOf <- MCLengthOf
  SizeLimit <- MCSizeLimit
  Limit = 8
  Dirs = {d1, d2}
  Notes = {n1}
  MaxRounds = 2
  Prepalert = Prepalert
  Other = Other
  Ellipsis = Ellipsis
  NoLimit = NoLimit
  NoText = NoText
  NoDir = NoDir
  Blocks <- MCBlocks
  NoBlock = NoBlock
  Discard = Discard
INVARIANTS
  RenderedIsShown
