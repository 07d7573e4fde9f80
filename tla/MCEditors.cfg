CONSTANTS
  MaxBuilds = 3
  MaxRestarts = 3
  Bundles = {"old", "new"}
  Manifest <- MCManifest
  ServerJs = "server.js"
  Projects = {"one", "two"}
  MaxSessions = 3
  MaxVersion = 2
  MaxStarts = 3
SPECIFICATION Spec
INVARIANTS
  TypeOK
  LatestBuildRuns
  StartedServerIsBundled
  UsableVersionStarts
CHECK_DEADLOCK FALSE
