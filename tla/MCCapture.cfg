\* The capture task ends with the mirror command if no display can be opened.
CONSTANTS
  Monitors = {r1, v1, v2}
  Virtual = {v1, v2}
  NoMonitor = NoMonitor
  Sizes <- TwoSizes
  Rotated = {v1}
  Macroblock = 2
  MaxWidth = 4
  MaxHeight = 4
  ShortWidths <- Missed
  ShortHeights = {}
  MaxMonitors = 2
  MaxVersion = 2
  MaxChanges = 1
  MaxFailures = 1
SPECIFICATION Spec
INVARIANT CaptureInv
INVARIANT NoStalePicture
PROPERTY OpensWhatWasAsked
PROPERTY PictureCatchesUp
CHECK_DEADLOCK FALSE
