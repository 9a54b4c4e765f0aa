SPECIFICATION FlagsSpec
CONSTANTS
  Letters = {l1, l2}
  Editors = {e1}
  AllowKeep = TRUE
  MaxEdits = 1
PROPERTY AllMeansAll
CHECK_DEADLOCK FALSE
