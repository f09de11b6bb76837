CONSTANTS
  Tabs <- MCTabs
  Stamps <- MCStamps
  Cmds = {"c1"}
SPECIFICATION Spec
INVARIANTS TypeOK ActiveIsBest PopupIsCurrent PushedTabsFresh
PROPERTIES RepeatKeepsActive FailedTargetForgotten CommandsSettle PublishesTabs
