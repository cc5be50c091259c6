\* Passes of up to two deletions over good and bad listings of two scopes, with
\* crashes and runs that raise.
SPECIFICATION Spec
CONSTANTS
  Handlers = {h1}
  h1 = h1
  h2 = h2
  Scopes = {root, project}
  Root = root
  root = root
  project = project
  Listings = {0, 1, 3}
  MinRemote = 2
  MaxPass = 2
  MaxCum = 1
  PassCap = 2
  Clicks = 0
  MaxTrips = 1
  MaxRough = 1
  FlakyDisk = FALSE
INVARIANTS
  TypeOK
  WithinBudget
  NoBlindPass
