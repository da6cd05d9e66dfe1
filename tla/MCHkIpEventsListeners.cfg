SPECIFICATION Spec
CONSTANTS
  c1 = c1
  f1 = f1
  f2 = f2
  b1 = b1
  b2 = b2
  BadFd = BadFd
  Null = Null
  Wild = Wild
  Chrs <- MCChrs
  Fds <- MCFds
  Blocks <- MCBlocks
  MaxSubs <- MCMaxSubs
  MaxQueue <- MCMaxQueue
INVARIANTS
  NotifyReachesListeners
