\* Two users with one tab each.
SPECIFICATION Spec
CONSTANTS
  Section <- MCSection
  Tool <- MCTool
  ToolsOf <- MCToolsOf
  Input <- MCInput
  Blank = "blank"
  Score <- MCScore
  Body <- TwoBodies
  User = {"tab1", "tab2"}
  Slot <- Tabs
  UserOf <- OwnUser
  KindsOf <- AllKinds
  External = {"r1"}
  Manual = "manual"
  Lists <- EitherSection
  City = {"shiraz"}
  ImportCity = "shiraz"
  Climate = {"3B", "5"}
  CityClimate <- MCCityClimate
  Faults = {"fail", "null"}
  MaxProjects = 2
  MaxSecond = 0
  MaxReports = 1
PROPERTIES BookSpec
CHECK_DEADLOCK FALSE
