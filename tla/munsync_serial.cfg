\* The two timer workers, one run of each at a time, with fair steps.  The
\* municipality says what it did with a file; anything else may fail.
SPECIFICATION FairSpec
CONSTANTS
  p1 = p1
  e1 = e1
  Report = {p1}
  Engineer = {e1}
  Team <- TeamOfAll
  Slot <- TimerSlots
  WorkerOf <- MCWorkerOf
  TimerSlot <- TimerSlots
  Faults <- ConfirmedFaults
  MaxRuns = 3
PROPERTIES DeliveredIsFinal EveryRunEnds DeliverySpec
CHECK_DEADLOCK FALSE
