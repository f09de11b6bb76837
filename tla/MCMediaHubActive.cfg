CONSTANTS
  Tabs <- MCTabs
  Stamps <- MCOneStamp
  Cmds = {"c1"}
SPECIFICATION Spec
INVARIANT PushedActiveFresh
