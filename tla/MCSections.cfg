CONSTANTS
  Written <- MCLines
  MaxLines = 4
  MaxFrames = 1
  Total <- MCTotal
SPECIFICATION Spec
INVARIANTS TypeOK LinesKeptInPlace ShownAsLabelled DeviceAgreesOnPlain
CHECK_DEADLOCK FALSE
