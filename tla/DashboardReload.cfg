\* t1 has a writer that flushes, as in the tests of the handler; t2 is served by
\* "serve", behind LoggingMiddleware.
CONSTANTS
  Handlers = {h1, h2, h3}
  Tabs = {t1, t2}
  Bare = {t1}
  BufSize = 1
  MaxSilent = 1
SPECIFICATION DashSpec
INVARIANTS
  DashboardInv
PROPERTIES
  CatchesUp
