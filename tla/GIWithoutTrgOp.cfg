\* The subscription of the report demo: GI without TRG_OPT_GI.
SPECIFICATION FairSpec
CONSTANTS
  NAttr = 2
  AttrOps <- MCAttrOps
  RcbTrgOps = {"dchg", "integrity"}
  RcbIntgPd = 5
  Configs <- MCDemoConfigs
  MaxSection = 1
  MaxWire = 2
PROPERTIES
  InterrogationDelivered
