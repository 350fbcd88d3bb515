\* Reports over every dataset of up to three rows, grouped, sorted, cut to a page and
\* drilled into, and every small expression as a calculated field.
SPECIFICATION Spec
CONSTANTS
  Today <- MCToday
  FieldType <- MCFieldType
  NullText <- MCNullText
  Numerals <- MCNumerals
  ServerNumerals <- MCServerNumerals
  TextTest <- MCTextTest
  NULL = NULL
  NaN = NaN
  Definition <- MCDefinition
  Question <- MCQuestion
INVARIANTS
  TotalsAddUp
  WeeksFollowTheCalendar
  ExpressionMeansItsTree
  DrillShowsItsGroup
  EnginesAgree
CHECK_DEADLOCK FALSE
