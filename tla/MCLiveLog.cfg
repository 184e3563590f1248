SPECIFICATION FairSpec
CONSTANTS
  Limit = 1
  Wide = {1}
  MaxSize <- MCMaxSize
  MaxGen <- MCMaxGen
  MaxDrops = 1
  MaxControl = 1
  Layouts <- MCLayouts
INVARIANTS
  TypeOK
  Lossless
  CursorsAgree
PROPERTIES
  DeliverySpec
  EventuallyShown
