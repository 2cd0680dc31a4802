SPECIFICATION FairFeedSpec
CONSTANTS
  Sockets = {"w1", "w2"}
  Audiences <- MCAudiences
  QueueSize = 2
  Beat = 2
  ExpiresAt = 2
  MaxTime = 3
  MaxVersion = 2
  MaxConnects = 2
INVARIANTS OpenIsSubscribed NewestIsKept BrokerIsTold
PROPERTIES NothingAfterExpiry LostSinksAreDropped
CHECK_DEADLOCK FALSE
