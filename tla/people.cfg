SPECIFICATION Spec
CONSTANTS
  a1 = a1
  a2 = a2
  Procs = {a1, a2}
  MAX_FAILED_ATTEMPTS = 2
  LOCKOUT_MINUTES = 1
  MaxMinute = 4
  MaxLogins = 7
  Users = {"ann", "bob", "cat"}
  NoUser = NoUser
  Requests = {a1, a2}
  InitRole <- Role
  InitManager <- Manager
  InitSession <- SignedIn
  Forms <- EditForms
  Menus <- RequestMixes
  MaxDepth = 3
  MaxPassword = 3
  MaxSessions = 4
  MaxTokens = 2
  MaxReports = 1
  MaxRequests = 3
  Runners = {a1, a2}
  Reports = {"daily"}
  MaxHour = 1
  Period = 1
  MaxVersion = 3
  MaxRuns = 3
  Checkers = {a1, a2}
  NoChecker = NoChecker
  Goods = {"x"}
  Staff = {"ann"}
  MaxNotices = 4
  MaxReopened = 1
CHECK_DEADLOCK FALSE
INVARIANTS
  TypeOK
  
  LiveSessionsAreCurrent
  TokenUsedOnce
  AdminRemains
  ReportingLinesSound
  
  
