\* Two connections, one of two requests and one of one, over three hosts, while
\* certificates expire.
SPECIFICATION FairSpec
CONSTANTS
  c1 = c1
  c2 = c2
  Conns <- MCConns
  npm = npm
  pypi = pypi
  logger = logger
  Hosts <- MCHosts
  Interceptors <- MCInterceptors
  AuditLogger = logger
  Intercepts <- MCIntercepts
  Decrypts <- MCDecrypts
  Answers <- MCAnswers
  Bundles <- MCBundles
  Validity = 1
  Horizon = 2
  Requests <- MCRequests
INVARIANTS
  TrafficIsFiltered
PROPERTIES
  CertificatesAreFresh
  HandlersEnd
CHECK_DEADLOCK FALSE
