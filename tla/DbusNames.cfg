SPECIFICATION Spec
CONSTANTS
  ValidNames = {"p", "q", "r", "f", "g", "h"}
  AbsolutePaths = {"/d1", "/d2", "/d3", "/d4"}
  Callers = {"c1", "c2"}
  Clients = {"m1", "m2"}
  Workloads <- MCWorkloads
  Engine0 <- MCEngine0
  DmPools = {1, 6}
  Budgets <- NamingBudgets
INVARIANTS
  PoolNamesHeard
