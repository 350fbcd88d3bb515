\* A timer run and a manual run of the report worker overlap; anything may fail.
SPECIFICATION Spec
CONSTANTS
  p1 = p1
  p2 = p2
  Report = {p1, p2}
  Engineer = {}
  Team <- TeamOfAll
  Slot <- ReportSlots
  WorkerOf <- MCWorkerOf
  TimerSlot <- ReportTimer
  Faults <- Fault
  MaxRuns = 2
SYMMETRY Symmetric
INVARIANTS TypeOK RunAccounting ReportSuccessIsStored UnlistedIsStored
CHECK_DEADLOCK FALSE
