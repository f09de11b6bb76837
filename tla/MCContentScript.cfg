CONSTANTS
  Frames = {"main", "embedded"}
  Elements <- MCElements
  Layouts <- MCLayouts
  MaxMail = 1
SPECIFICATION Spec
INVARIANT TypeOK
PROPERTIES GoneOnlyWhenLost MediaBecomesKnown ReportsSettle
