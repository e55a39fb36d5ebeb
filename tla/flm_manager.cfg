SPECIFICATION FairSpec
CONSTANTS
  serve = serve
  other = other
  p1 = p1
  p2 = p2
  r1 = r1
  r2 = r2
  Callers = {serve, other}
  Procs = {p1, p2}
  Reapers = {r1, r2}
  NoProc = NoProc
  IdleTimeout = 3
INVARIANTS
  ServerIsKept
PROPERTIES
  ServerOutlivesRequest
  IdleServerStopped
