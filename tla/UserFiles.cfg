SPECIFICATION Spec
CONSTANTS
  h1 = h1
  h2 = h2
  p1 = p1
  p2 = p2
  a = a
  b = b
  Host = {h1, h2}
  Pid = {p1, p2}
  Place = {a, b}
  MaxProcesses = 3
  MaxKills = 1
  Nobody = Nobody
  Start = {1, 2, 3}
  Port <- Ports
  MaxCuts = 1
  MaxTogether = 2
  Unset = Unset
  Command = {p1, p2}
  Server = {"s", "t"}
  Saved = {"s"}
  MaxTokens = 2
  MaxBegun = 3
  MaxStopped = 1
SYMMETRY Symmetry
CHECK_DEADLOCK FALSE
INVARIANTS
  
  StartsWork
  TokensAgree
PROPERTIES
  
  InstallsOnce
