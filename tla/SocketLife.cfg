SPECIFICATION Spec
CONSTANTS
  a = a
  b = b
  Clients <- TwoClients
  Fds = {1, 2, 3}
  Blocks = {1, 2, 3, 4, 5}
  MaxAddrs = 2
SYMMETRY Symmetric
INVARIANTS TypeOK HandlesOwned LeaksOnlyFromFailedTLS
