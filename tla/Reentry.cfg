SPECIFICATION FairSpec
CONSTANTS
  a = a  b = b  d = d  e = e  chat = chat
  Nobody = Nobody  Ticker = tick
  Triggers = {a, b, d, e}
  TimeTriggers = {a, d}
  Stored = {a, b, e}
  Deadlines = {a}
  Addressed = {b, d}
  MaxReentries <- Often
  Scopes = {chat}
  Chats = {chat}
  Filter <- OneChat
  Handlers = {h1, h2}
  Texts = {x}
  MaxPerTick = 1
  Budget = 2
  SendBudget = 2
  RatePerHour = 1
  VerifiedAt = 1
  Lifetimes = 2
INVARIANTS TypeOK AtMostOncePerClaim BudgetKept RepeatOnlyUnseen
PROPERTIES DueClaimed
CHECK_DEADLOCK FALSE
