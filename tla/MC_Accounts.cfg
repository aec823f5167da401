\* The plans of one account with its payments, and the ways in.
CONSTANTS
  Users = {u1}
  Sessions = {s1}
  FreePlan = "free"
  PaidPlans = {"elite"}
  TopPlan = "elite"
  ScopeCount = 1
  None = None
  AuthRequired = FALSE
  MaxPerUser = 1
  Period = 1
  MaxTime = 1
  MaxEvents = 2
  MaxCalls = 1
  alice = alice
  ip1 = ip1
  ip2 = ip2
  ip3 = ip3
  Names = {alice, guest}
  Guest = guest
  Ips = {ip1, ip2, ip3}
  Tokens = {jti1, jti2}
  Environments <- Worlds
  MaxAdminCalls = 1
  MaxFailures = 2
  GuardWindow = 2
  LockTime = 2
  GuardKeys = 2
  RateKeys = 2
  TokenLife = 1
  MaxReading = 1
SPECIFICATION MCSpec
INVARIANTS
  AccountsInv
  DoorHolds
PROPERTY EntryIsProven
CHECK_DEADLOCK FALSE
