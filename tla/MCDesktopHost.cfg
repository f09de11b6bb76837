CONSTANTS
  Browsers = {"edge", "chrome"}
  TabsOf <- MCTabsOf
  MaxCmds = 2
  MaxPending = 1
SPECIFICATION Spec
INVARIANTS TypeOK StatusTruthful ShownIsOneList CommandsInOrder UnsharedPageOnly
CHECK_DEADLOCK FALSE
