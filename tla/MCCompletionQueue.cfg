SPECIFICATION LiveSpec
CONSTANTS
  Task = {t1, t2, t3}
  None = None
  MaxTimers = 2
  MaxCalls = 3
INVARIANTS TypeOK PendingIsExact NoThreadOutlivesVM NoLostWakeup DeliveredOnce
PROPERTIES EveryTaskResolves DestroyReturns
