\* Each of the six checklists, filled in by hand on the web and on the phone in turn,
\* while the building is a small one, a middle one or a large one.
SPECIFICATION Spec
CONSTANTS
  ElecItem <- MCElecItem
  ElecMax <- MCElecMax
  MechItem <- MCMechItem
  MechMax <- MCMechMax
  MonitoringItem <- MCMonitoringItem
  AlwaysActive = {"gen"}
  IntegratedItem = {"i0", "i1"}
  Glass <- MCGlass
  Gas <- MCGas
  Profile <- MCProfile
  CentralRows = {"m3"}
  NonCentralRows = {"m2"}
  Material <- MCMaterial
  Preset <- MCPreset
  WindowPreset <- MCWindowPreset
  Facts <- MCThreeFacts
  Start <- MCStart
  Client = {"web", "phone"}
  TextNumber <- MCTextNumber
  Thickness <- MCThickness
  Bridge <- MCBridge
  Factor <- MCFactor
  TargetKey = {"wall_ext_open", "wall_soil"}
  MaxEdits = 3
  MaxLayers = 2
  MaxAnalyses = 2
  MaxWindows = 2
INVARIANTS
  WebScoreIsShared
  DependentsFollow
  ReportsAgree
PROPERTIES
  ReopenKeepsScore
CHECK_DEADLOCK FALSE
