\* Three questions on two threads, two slots, the limit reached, one midnight,
\* restarts.
SPECIFICATION CFairSpec
CONSTANTS
  a1 = a1
  s2 = s2
  s1 = s1
  t1 = t1
  t2 = t2
  Asks = {a1}
  Streams = {s1, s2}
  Concurrency = 2
  DailyLimit = 2
  LastDay = 1
  Threads = {t1, t2}
  ThreadOf <- MCThreadOf
INVARIANTS
  SlotsAddUp
  NoWaiterForgotten
  DailyLimitHolds
  AnswersStay
PROPERTIES
  WaitersAreServed
  HistoricalThreadsUntouched
