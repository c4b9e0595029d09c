SPECIFICATION AnyFairSpec
CONSTANTS
  t1 = t1
  t2 = t2
  t3 = t3
  Thread <- MCThread
  Object = {p1, p2, p3}
  Nobody = nobody
  MaxDepth = 3
  Consumer <- MCConsumer
  Producer <- MCProducer
  MaxItems = 2
  Expected = 3
INVARIANTS LockIsKept MutexAndLatchAreSound WakesAreDue
PROPERTIES IsReadersOrWriter WritersGetIn
