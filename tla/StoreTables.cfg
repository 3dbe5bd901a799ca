SPECIFICATION Spec
CONSTANTS
  i1 = i1
  i2 = i2
  i3 = i3
  plain = plain
  word = word
  tag = tag
  name = name
  Root = Root
  NoEntry = NoEntry
  Ids <- ThreeIds
  GroupTerms <- SomeGroupTerms
  Times <- TwoTimes
  Bodies <- TwoBodies
  MaxDepth = 3
  MaxCalls = 3
SYMMETRY AnyId
INVARIANTS
  TypeOK
  PostingsMatchTerms
  PositionsHavePostings
  TimesAgree
  TreeMatchesParents
  UnknownLeavesNoTrace
PROPERTIES
  SearchFindsCommitted
