CONSTANTS
  parent = parent
  child = child
  home = home
  homeOfChild = homeOfChild
  homeUrl = homeUrl
  Jobs = {parent, child}
  Pages = {home, homeOfChild}
  Workers = {w1, w2, w3}
  Urls = {homeUrl}
  Bodies = {b1}
  JobOf <- MCJobOf
  UrlOf <- MCUrlOf
  LinksTo <- MCLinksTo
  NoWorker = NoWorker
  NoBody = NoBody
  NoPage = NoPage
  ServerErrors = TRUE
SPECIFICATION Spec
INVARIANTS IInv RecordsHaveFiles NoOrphans NoStagingLeft
PROPERTIES ArtifactsAreFinal
SYMMETRY WorkersAlike
CHECK_DEADLOCK FALSE
