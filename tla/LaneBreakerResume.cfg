\* Tray and dashboard resumes, two report handlers at once, lost replies, refused
\* writes, crashes inside resume().
SPECIFICATION FairSpec
CONSTANTS
  Handlers = {h1, h2}
  h1 = h1
  h2 = h2
  Scopes = {root}
  Root = root
  root = root
  project = project
  Listings = {0}
  MinRemote = 2
  MaxPass = 1
  MaxCum = 0
  PassCap = 0
  Clicks = 1
  MaxTrips = 3
  MaxRough = 1
  FlakyDisk = TRUE
INVARIANTS
  OneClickOneResume
PROPERTIES
  TripIsRemembered
