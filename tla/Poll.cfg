CONSTANTS p1 = p1  p2 = p2  u1 = u1  u2 = u2
          Pollers <- TwoPollers
          Users <- TwoUsers
          Apps = {"poll", "epoll"}
          MaxStores = 2
          MaxShows = 1
SPECIFICATION FairPollSpec
INVARIANTS PollersAreWoken
PROPERTIES StoreIsRead
