SPECIFICATION Spec
CONSTANTS
  Versions = {1, 2}
  Openers = {"daemon", "export"}
  Daemon = "daemon"
INVARIANTS
  InstallBreaksNothing
  PurgeCleans
  DaemonFindsItsTables
