CONSTANTS
  epic = epic
  child = child
  lone = lone
  spend = spend
  send = send
  NONE = NONE
  Tasks <- MCTasks
  Stories <- MCStories
  Parent <- MCParent
  Deps <- MCDeps
  Actions = {spend, send}
  Risks <- MCRisks
  SpecEntry = {epic}
  Specced = {}
  Ready = {epic}
  SeedStates <- MCSeedStates
  MaxEvents = 1
SPECIFICATION FairSpec
PROPERTY HeldIsReleased
