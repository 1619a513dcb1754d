\* Two clients that use the same RCB in any way they like.
SPECIFICATION Spec
CONSTANTS
  Client = {"c1", "c2"}
  Rcb <- MCOnly
  ServerRcb = {"ev"}
  Base = {}
  Alt01 <- MCNoAlt01
  RptId <- MCRptId
  RptIdOf <- MCDefaultRptId
  DefaultRptId <- MCDefaultRptId
  CandidateLists = {}
  Uses <- MCUsesAll
  SerialCalls = FALSE
  NoResubscribe = FALSE
  Thread = {t1, t2}
  MaxHandlerID = 2
  MaxWire = 1
SYMMETRY Symmetry
INVARIANTS
  TypeOK
  HandlerIdsUnique
  HandlerGetsOwnReports
