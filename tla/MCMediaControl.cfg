CONSTANTS
  Lists = {playing, paused}
  NoMedia = empty
  Capacity = 2
  MaxLines = 2
SPECIFICATION Spec
INVARIANTS TypeOK OnlyLossFallsBehind
PROPERTIES WindowSettles RefreshSettles
