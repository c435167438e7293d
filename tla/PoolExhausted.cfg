SPECIFICATION Spec
CONSTANTS
  Threads = {t1, t2, t3}
  Conn = {c1, c2, c3}
  PoolSize = 2
  NoThread = NoThread
  NoConn = NoConn
PROPERTY RefusedOnlyWhenAllInUse
