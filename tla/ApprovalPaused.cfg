SPECIFICATION MCSpec
CONSTANTS
  Workflows = {w1}
  Clarifications = {}
  MaxRetries = 0
  CallerTargets <- OrchestratorTargets
  NoState = NoState
  Approvals = {a1}
  hr = hr
  payroll = payroll
  ann = ann
  ben = ben
  dan = dan
  NoUser = NoUser
  Users = {ann, ben, dan, root}
  Superusers = {root}
  Roles <- MCRoles
  RolesOf <- MCRolesOf
  Requester <- MCRequester
  Chains <- TwoLevels
  MaxHistory = 12
  MaxAskingHistory = 12
  MaxDecisions = 3
  WithIntent = FALSE
INVARIANTS WaitingIsPaused
CHECK_DEADLOCK FALSE
