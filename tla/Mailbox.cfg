SPECIFICATION MailboxFairSpec
CONSTANTS
  Consumers = {c1, c2}
  Keys = {1, 2}
  Items = {i1, i2}
  NoItem = NoItem
INVARIANTS NobodySleepsBesideItem AnswerIsHonest
PROPERTIES StoreSpec WantedIsTaken
