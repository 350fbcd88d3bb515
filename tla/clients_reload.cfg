\* The web page alone, nothing goes wrong.
SPECIFICATION Spec
CONSTANTS
  Section <- MCSection
  Tool <- MCTool
  ToolsOf <- MCToolsOf
  Input <- MCInput
  Blank = "blank"
  Score <- MCScore
  Body <- AnyBody
  Page = {"web"}
  Phone = {}
  Allowed = {"env"}
  ScoreOf <- MCScoreOf
  Mishaps = {}
  Alone = TRUE
INVARIANTS InputsBehindScores
