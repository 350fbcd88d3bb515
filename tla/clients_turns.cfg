\* One user takes turns between the web page and the phone; saves may fail.
SPECIFICATION Spec
CONSTANTS
  Section <- MCSection
  Tool <- MCTool
  ToolsOf <- MCToolsOf
  Input <- MCInput
  Blank = "blank"
  Score <- MCScore
  Body <- AnyBody
  Page = {"web"}
  Phone = {"phone"}
  Allowed = {"env"}
  ScoreOf <- MCScoreOf
  Mishaps = {"save"}
  Alone = TRUE
INVARIANTS ScoredOrBlank
PROPERTIES SentIsShown OthersKeepTheirScores
