---------------------------- MODULE PictureSize ----------------------------
(***************************************************************************)
(* fit_stream_dims of rotten-video/src/encoder.rs: the size in which a     *)
(* picture of any size is encoded.  The capture task scales what it grabs  *)
(* to that size and the encoder asks again for the size of what it gets.   *)
(***************************************************************************)
EXTENDS Integers

CONSTANTS
  Macroblock,           \* 16
  MaxWidth, MaxHeight,  \* MAX_STREAM_WIDTH, MAX_STREAM_HEIGHT
  ShortWidths,          \* sizes whose scaled width the floating-point factor
  ShortHeights          \* misses, and those whose scaled height it misses

ASSUME FitAssumption ==
  /\ Macroblock \in Nat \ {0}
  /\ MaxWidth \in Nat \ {0} /\ MaxWidth % Macroblock = 0
  /\ MaxHeight \in Nat \ {0} /\ MaxHeight % Macroblock = 0

\* align16.
Align(x) == (x \div Macroblock) * Macroblock

\* align16_ceil.
AlignUp(x) == ((x + Macroblock - 1) \div Macroblock) * Macroblock

AtLeastOne(x) == IF x < Macroblock THEN Macroblock ELSE x

Within(s) == s[1] <= MaxWidth /\ s[2] <= MaxHeight

\* The largest size of the same shape that is within the bounds.
Scaled(s) ==
  IF MaxWidth * s[2] <= MaxHeight * s[1]
  THEN <<MaxWidth, (s[2] * MaxWidth) \div s[1]>>
  ELSE <<(s[1] * MaxHeight) \div s[2], MaxHeight>>

\* The product with a factor that was rounded may come out just below a whole
\* number, and is truncated.
Truncated(s) ==
  << Scaled(s)[1] - (IF s \in ShortWidths THEN 1 ELSE 0),
     Scaled(s)[2] - (IF s \in ShortHeights THEN 1 ELSE 0) >>

FitAligned(s) ==
  IF s[1] = 0 \/ s[2] = 0 THEN <<Macroblock, Macroblock>>
  ELSE IF Within(s) THEN s
  ELSE << Align(AtLeastOne(Truncated(s)[1])), AlignUp(AtLeastOne(Truncated(s)[2])) >>

\* fit_stream_dims.
Fit(s) == FitAligned(<<Align(s[1]), AlignUp(s[2])>>)
=============================================================================
