SPECIFICATION ApiSpec
CONSTANTS
  Requests = {r1}
  alice = alice
  pw1 = pw1
  pw2 = pw2
  Usernames = {alice}
  Passwords = {pw1, pw2}
  BadName = BadName
  BadPassword = BadPassword
  Null = Null
  Forged = Forged
  Logins <- Members
  TTL = 1
  MaxClock = 0
  NL = NL
  Cap = 3
  PublicCalls <- LogPages
  MaxPanics = 0
INVARIANTS CountedByRoute
