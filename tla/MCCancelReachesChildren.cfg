CONSTANTS
  r = r
  c1 = c1
  c2 = c2
  c3 = c3
  home = home
  docs = docs
  about = about
  ext = ext
  w1 = w1
  w2 = w2
  Jobs = {r, c1, c2, c3}
  Root = r
  Pages = {home, docs, about, ext}
  RootSeed = home
  SameHost = {home, docs, about}
  Matching = {docs}
  Links <- MCLinks
  Workers = {w1, w2}
  NoJob = NoJob
  NoPage = NoPage
  MaxCancels = 1
SPECIFICATION Spec
INVARIANTS
  CancelReachesChildren
CHECK_DEADLOCK FALSE
