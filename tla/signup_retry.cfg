SPECIFICATION PatientSpec
CONSTANTS
  Requests = {r1, r2}
  alice = alice
  pw1 = pw1
  pw2 = pw2
  Usernames = {alice}
  Passwords = {pw1, pw2}
  BadName = BadName
  BadPassword = BadPassword
  Null = Null
  Forged = Forged
  Logins <- OneClient
  TTL = 1
  MaxClock = 0
INVARIANTS SafeToRetry
