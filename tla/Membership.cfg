\* Two peers with two overlapping pings each, one worker and a queue of one job:
\* deaths overlap, and a job meets a full queue.
SPECIFICATION FairSpec
CONSTANTS
  n1 = n1
  n2 = n2
  w1 = w1
  NoJob = NoJob
  Node <- Peers
  Worker <- Pool
  MaxMiss = 2
  DeadAfter = 1
  QueueCap = 1
  MaxBusy = 2
  MaxAdmin = 2
INVARIANTS
  RingIsAliveSet
  NoDeathForgotten
PROPERTIES
  OneAnnouncementPerDeath
  RingFollowsPeers
  DeathIsHandled
