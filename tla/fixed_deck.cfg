CONSTANTS
  f1 = f1
  f2 = f2
  f3 = f3
  f4 = f4
  e1 = e1
  e2 = e2
  NoEdit = NoEdit
  Seed = Seed
  Deletion = Deletion
  NoRow = NoRow
  None = None
  NoDeck = NoDeck
  Findings = {f1, f2, f3}
  Key <- MCKey
  MaxKey <- MCMaxKey
  Edit <- MCEdit
  Unsafe <- MCUnsafe
  Requests = {q1, q2, q3}
  MaxInFlight = 2
  Faults = {"apply_crash", "cron_crash", "delete_crash"}
SPECIFICATION Spec
SYMMETRY Clicks
INVARIANTS DeckOnDisk FlagsMatchDeck NobodyWaitsInACircle
PROPERTIES KeepsPromise
CHECK_DEADLOCK FALSE
