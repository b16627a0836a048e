CONSTANTS
  home = home
  hub = hub
  near = near
  far = far
  Shell = Shell
  search = search
  fetch = fetch
  Servers = {home, hub, near, far}
  Names = {Shell, search, fetch}
  Builtins = {Shell}
  Overlays <- TwoOverlays
  Offers <- FourOffers
  StartServers = {home, hub}
  Skills <- OneSkill
  OAuth = {far}
  MaxRuns = 2
SPECIFICATION FairSpec
INVARIANTS ToolsHaveOneSource OneConnection CleanStaysClean StepsAreCovered
PROPERTIES ToolsStay WaitsEnd
CHECK_DEADLOCK FALSE
