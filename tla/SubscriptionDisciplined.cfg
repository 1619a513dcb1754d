\* One goroutine at a time works with an RCB; the server has both candidates.
SPECIFICATION FairSpec
CONSTANTS
  Client = {"c1"}
  Rcb <- MCBoth
  ServerRcb = {"ev", "ev01"}
  Base = {"ev"}
  Alt01 <- MCAlt01
  RptId <- MCRptId
  RptIdOf <- MCDefaultRptId
  DefaultRptId <- MCDefaultRptId
  CandidateLists <- MCCandidateLists
  Uses <- MCUsesAll
  SerialCalls = TRUE
  NoResubscribe = TRUE
  Thread = {t1, t2}
  MaxHandlerID = 2
  MaxWire = 1
INVARIANTS
  GrantedDelivers
  NoUnhandledReport
PROPERTIES
  ServesSubscriptions
  CallsReturn
  GrantedReportHandled
  ImplementsService
