SPECIFICATION Spec
CONSTANTS
  at = at
  time = time
  value = value
  v = v
  w = w
  post = post
  header = header
  x = x
  y = y
  Handlers = {h1, h2}
  Policies <- MCPolicies
  NoPolicy = NoPolicy
  Fractions = 2
  NoHeader = NoHeader
  Columns = {at, time, value}
  Timed = {time}
  NameOrder <- MCNameOrder
  Values = {v, w}
  Empty = Empty
  Types = {header, post}
  Parts = {x, y}
  Schemas <- MCSchemas
  Bodies <- MCBodies
  Answers <- MCAnswers
  Results <- MCResults
  MaxReceive = 3
  Nothing = Nothing
  Attribute = Attribute
SYMMETRY Alike
INVARIANTS
  TypeOK
  ParametersArrive
  ResultIsTheirs
  ColumnsInOrder
  TextsAgree
  WaitsInBounds
