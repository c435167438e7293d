SPECIFICATION FairSpec
CONSTANTS
  Threads = {t1, t2}
  Conn = {c1, c2}
  PoolSize = 1
  NoThread = NoThread
  NoConn = NoConn
PROPERTIES PoolIsOnce PoolBuiltOnce CallsReturn LostSessionsFlushed
