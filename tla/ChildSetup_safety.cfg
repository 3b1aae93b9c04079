CONSTANTS
  Paths <- MCPaths
  IO_CACHE_MAX = 7
  Configs <- MCConfigs
  Roots <- MCRoots
  Sources <- MCSources
  Databases <- MCDatabases
  Controllers = {"cpu"}
  MaxExec = 3
SPECIFICATION Spec
INVARIANTS CacheCoherent RootComplete NameServer RunsAsPromised ReexecsOnce
