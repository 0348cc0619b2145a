SPECIFICATION CommandsSpec
CONSTANTS
  valset = valset
  reset = reset
  NoTarget = NoTarget
  NoTransaction = NoTransaction
  MaxTransactions = 4
  Targets <- MCTargets
  Commands <- MCCommands
  Plans <- MCPlans
  ContinueOnError = FALSE
  Attempts <- MCAttempts
  Names <- MCNames
  PlatformUarts = TRUE
  BaudLists <- MCBaudLists
  Behaviours <- MCBehaviours
  Threshold = 100
  AllowNmea = TRUE
  MaxHeard = 2
  NoModel = NoModel
  Requests <- MCRequests
  Absent = Absent
INVARIANTS NoForgottenCommand AgreesAndAccounts DiscoveryIsComplete PlansFitWorkflows WrittenAsAskedToTheProven
PROPERTIES ImplementsAttempt EveryAttemptEnds QuarantineIsFinal
