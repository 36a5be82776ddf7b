SPECIFICATION Spec
CONSTANTS
  p1 = p1  p2 = p2
  Width32 = 8
  Width64 = 64
  Null = Null
  Nobody = Nobody
  Posts <- MCPosts
  MaxFields = 2
  OrderIds <- MCOrderIds
  Documents <- MCDocuments
  Users <- MCUsers
  Trim <- MCTrim
  Shelf <- MCShelf
INVARIANTS
  TypeOK
  OrderAsAsked
  TotalIsExact
  OneOrderOneLook
  ListIsOneInstant
  ReadsAreCurrent
  MutationInOrder
  OneKeyOneOrder
  AllOrErrors
