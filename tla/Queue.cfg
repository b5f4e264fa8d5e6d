CONSTANTS
  Threads = {t1, t2, t3}
  Messages = {m1, null}
  Null = null
  NoMessage = NoMessage
  NoThread = NoThread
  MaxLength = 2
SPECIFICATION Spec
INVARIANTS TypeOK NoLostWakeup
PROPERTIES AtomicSpec WaiterServed
CHECK_DEADLOCK FALSE
