SPECIFICATION MCSpec
CONSTANTS
  Subscribers = {ann, bob}
  Messages = {ann, bob}
  Batch = 1
  MaxSessions = 2
  Plans = {ann, bob}
  Lives = {1, 3, 8}
  MaxStops = 1
  Silents = {r1}
  Limited = {l1}
  MaxFlips = 2
  MaxEdits = 1
  MaxAlertKills = 1
CHECK_DEADLOCK FALSE
INVARIANTS SentAtMostOnce
PROPERTIES SmsCampaignHolds SessionDrains NoticesHold
