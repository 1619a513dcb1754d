\* Two clients with the same RCB reference: UnsubscribeReport of one reaches the other.
SPECIFICATION Spec
CONSTANTS
  Client = {"c1", "c2"}
  Rcb <- MCOnly
  ServerRcb = {"ev"}
  Base = {}
  Alt01 <- MCNoAlt01
  RptId <- MCRptId
  RptIdOf <- MCDefaultRptId
  DefaultRptId <- MCDefaultRptId
  CandidateLists = {}
  Uses <- MCUsesAll
  SerialCalls = TRUE
  NoResubscribe = TRUE
  Thread = {t1}
  MaxHandlerID = 2
  MaxWire = 1
PROPERTIES
  UnsubscribeIsLocal
