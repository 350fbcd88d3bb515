\* Two tabs of one user work on imported projects; one saves, updates and prints, the other
\* imports and deletes, and anything may fail.
SPECIFICATION Spec
CONSTANTS
  Section <- MCSection
  Tool <- MCTool
  ToolsOf <- MCToolsOf
  Input <- MCInput
  Blank = "blank"
  Score <- MCScore
  Body <- FourBodies
  User = {"amir"}
  Slot <- Tabs
  UserOf <- OneUser
  KindsOf <- WorkAndImport
  External = {"r1"}
  Manual = "manual"
  Lists <- EitherSection
  City = {"shiraz", "tabriz"}
  ImportCity = "shiraz"
  Climate = {"3B", "5"}
  CityClimate <- MCCityClimate
  Faults = {"fail", "null"}
  MaxProjects = 2
  MaxSecond = 1
  MaxReports = 2
INVARIANTS TypeOK RowsHaveObjects NeverAssignedStaysBlank RowCoherent NoDuplicateImports
CHECK_DEADLOCK FALSE
