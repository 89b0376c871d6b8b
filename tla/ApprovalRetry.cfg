SPECIFICATION MCSpec
CONSTANTS
  Workflows = {w1}
  Clarifications = {c1, c2}
  MaxRetries = 1
  CallerTargets <- OrchestratorTargets
  NoState = NoState
  Approvals = {a1, a2}
  hr = hr
  payroll = payroll
  ann = ann
  ben = ben
  dan = dan
  NoUser = NoUser
  Users = {ann, dan}
  Superusers = {}
  Roles <- MCRoles
  RolesOf <- MCRolesOf
  Requester <- MCRequester
  Chains <- OneLevel
  MaxHistory = 28
  MaxAskingHistory = 16
  MaxDecisions = 3
  WithIntent = TRUE
INVARIANTS TypeOK HistoryMatchesRow CompletedIffTerminal   
PROPERTIES TerminalIsFinal ImplementsLifecycle
CHECK_DEADLOCK FALSE
