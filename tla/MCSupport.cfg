SPECIFICATION MCSpec
CONSTANTS
  slow = slow
  billing = billing
  chat = chat
  sam = sam
  Tickets <- MCTickets
  Staff <- OneStaff
  Conversations <- MCConversations
  Conversation <- MCConversation
  Solo = {slow}
  Workers = {w1}
  Sweep = sweep
  NoOne = NoOne
  NoRequest = NoRequest
  Moves = {"open", "in_progress", "resolved", "closed"}
  MaxCalls = 4
  Members = {ada, bola}
  Emails = {mailA, mailB}
  Desks = {d1, d2, d3}
  Blank = Blank
  MaxEdits = 4
CHECK_DEADLOCK FALSE
INVARIANTS TerminalIsStamped TrailReplays LoginsHold
PROPERTIES NoEternalWait
