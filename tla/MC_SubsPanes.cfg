CONSTANTS
  Sessions = {s1}
  Owners = {primary, pane}
  Primary = primary
  Symbols = {ES, NQ}
  Home = ES
  Opening = ES
  Frames = {m1, m5}
  Minute = m1
  None = None
  AuthRequired = FALSE
  PromptFeeds = FALSE
  MaxGeneration = 3
  Series = {A, B}
  MaxMounts = 2
  MaxBackoff = 2
SPECIFICATION MCSpec
INVARIANTS
  SubscriptionsInv
  OwnersAreServed
  BrowserIsTidy
CHECK_DEADLOCK FALSE
PROPERTIES
  UnusedIsReleased
  ConnectionComesBack
