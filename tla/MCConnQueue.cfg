SPECIFICATION FairSpec
CONSTANTS
  Workers = {w1, w2}
  Main = main
  Fds = {f1, f2, f3, f4}
  NoFd = NoFd
  Cap = 2
PROPERTY ImplementsService
PROPERTY EventuallyServed
INVARIANT TypeOK
INVARIANT OwnedOnce
INVARIANT WorkConserving
