SPECIFICATION FairSpec
CONSTANTS
  Requests = {r1, r2, r3}
  alice = alice
  pw1 = pw1
  pw2 = pw2
  Usernames = {alice}
  Passwords = {pw1, pw2}
  BadName = BadName
  BadPassword = BadPassword
  Null = Null
  Forged = Forged
  Logins <- Rivals
  TTL = 1
  MaxClock = 2
INVARIANTS TypeOK OneOwner IdentityEarned SignupAnswersTrue
PROPERTIES AccountsStayReachable EveryRequestAnswered
