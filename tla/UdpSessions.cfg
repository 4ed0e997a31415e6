SPECIFICATION Spec
CONSTANTS
  Clients <- MCClients
  Hosts <- MCHosts
  Jobs <- MCJobs
  FlowIds <- MCFlowIds
INVARIANT NothingLeaks RepliesGoHome
PROPERTY SessionsEnd
CHECK_DEADLOCK FALSE
