\* Three kinds of subscriptions to a server that is updated three times.
SPECIFICATION FairSpec
CONSTANTS
  NAttr = 2
  AttrOps <- MCAttrOps
  RcbTrgOps = {"dchg"}
  RcbIntgPd = 0
  Configs <- MCConfigs
  MaxSection = 3
  MaxWire = 2
INVARIANTS
  TypeOK
  ShownIsCommitted
PROPERTIES
  InterrogationDelivered
  HeldCatchesUp
