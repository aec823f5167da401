CONSTANTS
  Sessions = {s1}
  Owners = {primary, pane}
  Primary = primary
  Symbols = {ES, NQ}
  Home = ES
  Opening = ES
  Frames = {m1, m5}
  Minute = m1
  None = None
  AuthRequired = FALSE
  PromptFeeds = TRUE
  MaxGeneration = 3
SPECIFICATION Spec
CHECK_DEADLOCK FALSE
INVARIANT ConflictIsAnswered
