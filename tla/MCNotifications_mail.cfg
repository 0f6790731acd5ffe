\* One mail, two executions, three attempts, a stall and the switch going off twice.
SPECIFICATION FairSpec
CONSTANTS
  m1 = m1  m2 = m2  s1 = s1  s2 = s2
  NoMail = NoMail  NoSlot = NoSlot
  Mails = {m1}
  Slots = {s1, s2}
  MaxAttempts = 3
  MaxStalls = 1
  MaxFlips = 2
INVARIANTS
  UnsentWasNotSent
  SentOnceUnlessFault
  ClaimsAreExclusive
  OwedHasJob
PROPERTIES
  OwedIsSettled
CHECK_DEADLOCK FALSE
