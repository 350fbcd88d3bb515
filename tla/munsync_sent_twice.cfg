\* A manual run during a timer run, nothing else goes wrong.
SPECIFICATION Spec
CONSTANTS
  p1 = p1
  Report = {p1}
  Engineer = {}
  Team <- TeamOfAll
  Slot <- ReportSlots
  WorkerOf <- MCWorkerOf
  TimerSlot <- ReportTimer
  Faults = {}
  MaxRuns = 2
INVARIANTS ReportSentOnce
CHECK_DEADLOCK FALSE
