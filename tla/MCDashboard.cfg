SPECIFICATION DashboardSpec
CONSTANTS
  Envs <- MCEnvs
  MaxStarts = 3
  Saves = {s1, s2}
  Pages = {g1}
  Tokens <- MCTokens
  Chats <- MCChats
  None = "none"
  Masked = "masked"
  EnvToken = "t1"
  EnvChat = "none"
  MaxSaves = 2
  MaxCrashes = 1
  Slots = {l1, l2}
  Limit = 2
  Cap = 3
  MaxAlerts = 3
  MaxClicks = 2
  MaxLosses = 1
  Callers = {w1, w2}
  Keys = {k1, k2}
  NoKey = NoKey
  Cooldown = 2
  Time <- MCTime
CHECK_DEADLOCK FALSE
INVARIANTS
  TypeOK
  RepairedByNextStart
  FirstStartDecides
  SettingsTypeOK
  SavesInAnswerOrder
  LiveFollowsTable
  PageNeverTorn
  FeedTypeOK
  NotifierTypeOK
  TableIsLastGrant
PROPERTIES
  PageConverges
  ImplementsRateLimit
  SilencedForCause
