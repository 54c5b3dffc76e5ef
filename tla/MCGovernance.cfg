CONSTANTS
  epic = epic
  child = child
  lone = lone
  spend = spend
  send = send
  NONE = NONE
  Tasks <- MCTasks
  Stories <- MCStories
  Parent <- MCParent
  Deps <- MCDeps
  Actions = {spend, send}
  Risks <- MCRisks
  SpecEntry = {epic, child}
  Specced = {child}
  Ready = {epic, child}
  SeedStates <- MCSeedStates
  MaxEvents = 2
SPECIFICATION FairSpec
INVARIANT GTypeOK
PROPERTY FounderBlockKept
PROPERTY GovernanceSettles
PROPERTY WellFormedIsReleased
PROPERTY StrandedCarriedOver
