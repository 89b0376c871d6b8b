SPECIFICATION MCCrashSpec
CONSTANTS
  Workflows = {w1}
  Clarifications = {}
  MaxRetries = 0
  CallerTargets <- ApprovalPath
  NoState = NoState
  Approvals = {a1}
  hr = hr
  payroll = payroll
  ann = ann
  ben = ben
  dan = dan
  NoUser = NoUser
  Users = {ann, ben, dan}
  Superusers = {}
  Roles <- MCRoles
  RolesOf <- MCRolesOf
  Requester <- MCRequester
  Chains <- TwoLevels
  MaxHistory = 11
  MaxAskingHistory = 11
  MaxDecisions = 3
  WithIntent = FALSE
INVARIANTS RejectionEndsRequest
CHECK_DEADLOCK FALSE
