CONSTANTS
  Paths <- MCPaths
  IO_CACHE_MAX = 7
  Configs <- TwiceConfigs
  Roots <- MCRoots
  Sources <- MCSources
  Databases <- TwiceDatabases
  Controllers = {"cpu"}
  MaxExec = 3
SPECIFICATION Spec
INVARIANT OneGidPerName
