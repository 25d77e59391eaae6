CONSTANTS
  MaxFrames = 4
  Sizes = {small, large}
  InitSize = small
  NoSize = NoSize
SPECIFICATION LoopSpec
INVARIANT LoopInv
PROPERTY NonceInStep
PROPERTY PictureHasItsCodec
PROPERTY KeyframeAfterCodec
PROPERTY ChannelSpec
CHECK_DEADLOCK FALSE
