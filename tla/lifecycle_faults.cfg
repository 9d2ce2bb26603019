CONSTANTS
  u1 = u1
  r1 = r1
  r2 = r2
  Users = {u1}
  Reviews = {r1, r2}
  Owner <- MCOwner
  InitialFree = 1
  InitialBalance = 1
  MaxTries = 2
  Faults <- AllFaults
SPECIFICATION FairSpec
INVARIANTS CreditsConserved FailedIsRefunded WorkIsPaid
PROPERTIES EveryJobFinishes
