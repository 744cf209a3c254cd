CONSTANTS
  Channels = {c1, c2}
  Fds = {fd1, fd2}
  NoFd = NoFd
  NoChannel = NoChannel
  KInitEventListSize = 1
SPECIFICATION FairSpec
INVARIANTS EpollCtlNeverFails EpollSetMatchesChannels
PROPERTY NoReadyChannelStarves
