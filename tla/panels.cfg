\* Every page of five front ends that writes a table, with every page that shows it: two
\* writes, any order of commits, answers and reads, refusals and lost answers.
SPECIFICATION Spec
CONSTANTS
  NULL = NULL
  Tours <- MCTours
  Forgotten <- MCForgotten
  MaxWrites = 2
INVARIANTS
  OwnChangesAreShown
PROPERTIES
  OwnChangesStay
CHECK_DEADLOCK FALSE
