--------------------------- MODULE CaptureProofs ---------------------------
(***************************************************************************)
(* Capture: frames are released on every way out of a grab, pictures have  *)
(* the size that was announced, and a picture that is sent again is what   *)
(* the screen shows, for any monitors, sizes and bounds.  The invariant is *)
(* inductive because it says of a grab under way, too, what is in hand.    *)
(***************************************************************************)
EXTENDS Capture, WellFoundedInduction, TLAPS

(* Dividing: the quotient, that it is the only one, and that it grows.     *)
LEMMA Quotient ==
  ASSUME NEW x \in Nat, NEW y \in Nat \ {0}
  PROVE  /\ x \div y \in Nat
         /\ (x \div y) * y <= x
         /\ x < (x \div y) * y + y
OBVIOUS

LEMMA QuotientUnique ==
  ASSUME NEW q \in Nat, NEW r \in Nat, NEW y \in Nat \ {0}, r < y
  PROVE  (q * y + r) \div y = q
OBVIOUS

LEMMA QuotientBounded ==
  ASSUME NEW x \in Nat, NEW y \in Nat \ {0}, NEW b \in Nat, x <= b * y
  PROVE  x \div y <= b
OBVIOUS

(* Multiples of a macroblock.                                              *)
OnGrid(x) == \E k \in Nat : x = k * Macroblock

LEMMA Multiple ==
  ASSUME NEW k \in Nat
  PROVE  /\ OnGrid(k * Macroblock)
         /\ k # 0 => k * Macroblock >= Macroblock
<1>1. k # 0 => k * Macroblock >= Macroblock
  BY FitAssumption
<1> QED
  BY <1>1 DEF OnGrid

LEMMA Limits ==
  /\ OnGrid(MaxWidth) /\ MaxWidth >= Macroblock
  /\ OnGrid(MaxHeight) /\ MaxHeight >= Macroblock
<1>1. ASSUME NEW m \in Nat \ {0}, m % Macroblock = 0
      PROVE  OnGrid(m) /\ m >= Macroblock
  <2>1. m = (m \div Macroblock) * Macroblock /\ m \div Macroblock \in Nat
    BY <1>1, FitAssumption
  <2>2. m \div Macroblock # 0
    BY <2>1, <1>1, FitAssumption
  <2> QED
    BY <2>1, <2>2, Multiple
<1> QED
  BY <1>1, FitAssumption

(* align16 and align16_ceil return the nearest multiple on either side.    *)
LEMMA Aligned ==
  ASSUME NEW x \in Nat
  PROVE  /\ Align(x) \in Nat /\ OnGrid(Align(x))
         /\ Align(x) <= x /\ (x >= Macroblock => Align(x) >= Macroblock)
         /\ AlignUp(x) \in Nat /\ OnGrid(AlignUp(x))
         /\ AlignUp(x) >= x
<1> DEFINE q == x \div Macroblock
           u == (x + Macroblock - 1) \div Macroblock
<1>1. q \in Nat /\ q * Macroblock <= x /\ x < q * Macroblock + Macroblock
  BY Quotient, FitAssumption
<1>2. x + Macroblock - 1 \in Nat
  BY FitAssumption
<1>3. /\ u \in Nat /\ u * Macroblock <= x + Macroblock - 1
      /\ x + Macroblock - 1 < u * Macroblock + Macroblock
  BY <1>2, Quotient, FitAssumption
<1>4. x >= Macroblock => q * Macroblock >= Macroblock
  <2>1. x >= Macroblock => q # 0
    BY <1>1, FitAssumption
  <2> QED
    BY <1>1, <2>1, Multiple
<1>5. Align(x) = q * Macroblock /\ AlignUp(x) = u * Macroblock
  BY DEF Align, AlignUp
<1> HIDE DEF q, u
<1>6. /\ q * Macroblock \in Nat /\ u * Macroblock \in Nat
      /\ u * Macroblock >= x
  BY <1>1, <1>3, FitAssumption
<1> QED
  BY <1>1, <1>3, <1>4, <1>5, <1>6, Multiple

(* A multiple stays as it is, and one that bounds a number bounds it       *)
(* rounded up.                                                             *)
LEMMA AlignedStays ==
  ASSUME NEW x \in Nat, NEW b \in Nat, OnGrid(b), x <= b
  PROVE  /\ Align(b) = b /\ AlignUp(b) = b
         /\ AlignUp(x) <= b
<1>1. PICK k \in Nat : b = k * Macroblock
  BY DEF OnGrid
<1>2. Macroblock - 1 \in Nat /\ 0 \in Nat
  BY FitAssumption
<1>3. \A r \in Nat : r < Macroblock => (k * Macroblock + r) \div Macroblock = k
  BY QuotientUnique, FitAssumption
<1>4. /\ (k * Macroblock + 0) \div Macroblock = k
      /\ (k * Macroblock + (Macroblock - 1)) \div Macroblock = k
  BY <1>2, <1>3, FitAssumption
<1>5. /\ b + Macroblock - 1 = k * Macroblock + (Macroblock - 1)
      /\ b = k * Macroblock + 0
  BY <1>1, FitAssumption
<1>6. Align(b) = b /\ AlignUp(b) = b
  BY <1>1, <1>3, <1>4, <1>5 DEF Align, AlignUp
<1>7. AlignUp(x) <= b
  <2> DEFINE u == (x + Macroblock - 1) \div Macroblock
  <2>1. x + Macroblock - 1 \in Nat
    BY FitAssumption
  <2>2. u \in Nat /\ u * Macroblock <= x + Macroblock - 1
    BY <2>1, Quotient, FitAssumption
  <2>3. u * Macroblock < k * Macroblock + Macroblock
    BY <1>1, <2>2, FitAssumption
  <2>4. u <= k
    BY <2>2, <2>3, FitAssumption
  <2>5. u * Macroblock <= k * Macroblock
    BY <2>2, <2>4, FitAssumption
  <2> QED
    BY <1>1, <2>5 DEF AlignUp
<1> QED
  BY <1>6, <1>7

(* A size that a picture can be encoded in.                                *)
Fitting(s) ==
  /\ s \in Nat \X Nat
  /\ OnGrid(s[1]) /\ s[1] >= Macroblock
  /\ OnGrid(s[2]) /\ s[2] >= Macroblock
  /\ Within(s)

(* Scaling stays within the bounds.                                        *)
LEMMA ScaledWithin ==
  ASSUME NEW s \in (Nat \ {0}) \X (Nat \ {0})
  PROVE  /\ Scaled(s) \in Nat \X Nat
         /\ Scaled(s)[1] <= MaxWidth /\ Scaled(s)[2] <= MaxHeight
<1>1. CASE MaxWidth * s[2] <= MaxHeight * s[1]
  <2>1. s[2] * MaxWidth \in Nat /\ s[2] * MaxWidth <= MaxHeight * s[1]
    BY <1>1, FitAssumption
  <2>2. /\ (s[2] * MaxWidth) \div s[1] \in Nat
        /\ (s[2] * MaxWidth) \div s[1] <= MaxHeight
    BY <2>1, Quotient, QuotientBounded, FitAssumption
  <2> QED
    BY <1>1, <2>2, FitAssumption DEF Scaled
<1>2. CASE ~(MaxWidth * s[2] <= MaxHeight * s[1])
  <2>1. s[1] * MaxHeight \in Nat /\ s[1] * MaxHeight <= MaxWidth * s[2]
    BY <1>2, FitAssumption
  <2>2. /\ (s[1] * MaxHeight) \div s[2] \in Nat
        /\ (s[1] * MaxHeight) \div s[2] <= MaxWidth
    BY <2>1, Quotient, QuotientBounded, FitAssumption
  <2> QED
    BY <1>2, <2>2, FitAssumption DEF Scaled
<1> QED
  BY <1>1, <1>2

(* fit_stream_dims returns a size that a picture can be encoded in.        *)
LEMMA FitFits ==
  ASSUME NEW s \in Nat \X Nat
  PROVE  Fitting(Fit(s))
<1> DEFINE a == <<Align(s[1]), AlignUp(s[2])>>
<1>1. /\ a \in Nat \X Nat /\ OnGrid(a[1]) /\ OnGrid(a[2])
  BY Aligned
<1>2. CASE a[1] = 0 \/ a[2] = 0
  <2>1. OnGrid(Macroblock)
    <3>1. Macroblock = 1 * Macroblock
      BY FitAssumption
    <3> QED
      BY <3>1, Multiple
  <2>2. Fit(s) = <<Macroblock, Macroblock>>
    BY <1>2 DEF Fit, FitAligned
  <2> QED
    BY <2>1, <2>2, Limits, FitAssumption DEF Fitting, Within
<1>3. CASE a[1] # 0 /\ a[2] # 0 /\ Within(a)
  <2>1. Fit(s) = a
    BY <1>3 DEF Fit, FitAligned
  <2>2. ASSUME NEW x \in Nat, OnGrid(x), x # 0 PROVE x >= Macroblock
    BY <2>2, FitAssumption DEF OnGrid
  <2> QED
    BY <1>1, <1>3, <2>1, <2>2 DEF Fitting
<1>4. CASE a[1] # 0 /\ a[2] # 0 /\ ~Within(a)
  <2> DEFINE x == AtLeastOne(Truncated(a)[1])
             y == AtLeastOne(Truncated(a)[2])
  <2>1. Fit(s) = <<Align(x), AlignUp(y)>>
    BY <1>4 DEF Fit, FitAligned
  <2>2. /\ Scaled(a) \in Nat \X Nat
        /\ Scaled(a)[1] <= MaxWidth /\ Scaled(a)[2] <= MaxHeight
    BY <1>1, <1>4, ScaledWithin
  <2>3. /\ x \in Nat /\ x >= Macroblock /\ x <= MaxWidth
        /\ y \in Nat /\ y >= Macroblock /\ y <= MaxHeight
    BY <2>2, Limits, FitAssumption DEF Truncated, AtLeastOne
  <2>4. AlignUp(y) <= MaxHeight
    BY <2>3, Limits, AlignedStays, FitAssumption
  <2> HIDE DEF x, y
  <2>5. /\ Align(x) \in Nat /\ OnGrid(Align(x)) /\ Align(x) <= x /\ Align(x) >= Macroblock
        /\ AlignUp(y) \in Nat /\ OnGrid(AlignUp(y)) /\ AlignUp(y) >= y
    BY <2>3, Aligned
  <2> QED
    BY <2>1, <2>3, <2>4, <2>5, FitAssumption DEF Fitting, Within
<1> QED
  BY <1>2, <1>3, <1>4

(* A size that fits is left as it is.                                      *)
LEMMA FitStays ==
  ASSUME NEW s, Fitting(s)
  PROVE  Fit(s) = s
<1>1. Align(s[1]) = s[1] /\ AlignUp(s[2]) = s[2]
  BY AlignedStays DEF Fitting
<1>2. s = <<s[1], s[2]>> /\ s[1] # 0 /\ s[2] # 0
  BY FitAssumption DEF Fitting
<1> QED
  BY <1>1, <1>2 DEF Fit, FitAligned, Fitting

(* Scaling is done once: what fit_stream_dims returns fits, and fitting it *)
(* again, which the encoder does with every picture, changes nothing.      *)
THEOREM FitOnce ==
  ASSUME NEW s \in Nat \X Nat
  PROVE  /\ Fit(s) \in Nat \X Nat
         /\ Fit(s)[1] % Macroblock = 0 /\ Fit(s)[1] > 0
         /\ Fit(s)[2] % Macroblock = 0 /\ Fit(s)[2] > 0
         /\ Within(Fit(s))
         /\ Fit(Fit(s)) = Fit(s)
<1>1. ASSUME NEW x \in Nat, OnGrid(x) PROVE x % Macroblock = 0
  BY <1>1, FitAssumption DEF OnGrid
<1> QED
  BY <1>1, FitFits, FitStays, FitAssumption DEF Fitting

(* A picture is one whatever it shows.                                     *)
LEMMA PictureType ==
  ASSUME NEW v \in -2..MaxVersion, NEW s \in Nat \X Nat
  PROVE  /\ Picture(v, s) \in Pictures
         /\ Picture(v, s).version = v
         /\ Picture(v, s).size = s
BY SizesAssumption DEF Picture, Pictures, NoSize

(* No picture and a blank one are pictures, and differ.                    *)
LEMMA SpecialPictures ==
  ASSUME announced \in Sizes \cup {NoSize}
  PROVE  /\ NoPicture \in Pictures
         /\ NoPicture.version = -2 /\ NoPicture.size = NoSize
         /\ Blank \in Pictures /\ Blank.size = announced /\ Blank.version = -1
<1>1. -2 \in -2..MaxVersion /\ -1 \in -2..MaxVersion
  BY BoundsAssumption
<1>2. NoSize \in Nat \X Nat /\ announced \in Nat \X Nat
  BY SizesAssumption DEF NoSize
<1> QED
  BY <1>1, <1>2, PictureType DEF NoPicture, Blank

(* What is sent after a grab has the size of the grab, fitted.             *)
LEMMA SendRight ==
  ASSUME NEW picture \in Pictures, Send(picture)
  PROVE  /\ sent' \in Pictures
         /\ sent'.version = picture.version
         /\ sent'.size = Fit(picture.size)
         /\ sent'.size[1] % Macroblock = 0 /\ sent'.size[2] % Macroblock = 0
         /\ sent'.size[1] > 0 /\ sent'.size[2] > 0
         /\ Within(sent'.size)
         /\ Fit(sent'.size) = sent'.size
<1>1. picture.version \in -2..MaxVersion /\ picture.size \in Nat \X Nat
  BY DEF Pictures
<1>2. /\ sent' \in Pictures
      /\ sent'.version = picture.version
      /\ sent'.size = Fit(picture.size)
  BY <1>1, PictureType, FitOnce DEF Send
<1> QED
  BY <1>1, <1>2, FitOnce

(* The start.                                                              *)
LEMMA InitIInv == Init => CaptureInv
<1> SUFFICES ASSUME Init PROVE CaptureInv
  OBVIOUS
<1>1. active \in SUBSET Monitors
  BY DEF Init, On, Lists
<1>2. TypeOK
  <2>1. size \in [Monitors -> Sizes]
    BY DEF Init
  <2>2. NoPicture \in Pictures
    BY SpecialPictures DEF Init
  <2> QED
    BY <1>1, <2>1, <2>2, BoundsAssumption DEF Init, TypeOK
<1>3. Released /\ AsAnnounced /\ Encodable /\ Backend /\ Kept /\ Chosen
  BY DEF Init, Released, AsAnnounced, Encodable, Natural, Backend, Running, Kept, Chosen
<1> QED
  BY <1>2, <1>3 DEF CaptureInv

(* What the system lists at a position is a monitor or nothing.            *)
LEMMA OutputAtType ==
  ASSUME outputs \in Lists, NEW i \in Int
  PROVE  OutputAt(i) \in Monitors \cup {NoMonitor}
<1>1. \A j \in DOMAIN outputs : outputs[j] \in Monitors
  BY DEF Lists
<1> QED
  BY <1>1 DEF OutputAt

(* Positions that count are indices.                                       *)
LEMMA ListedTypes == VirtualListed \subseteq Listed /\ Listed \subseteq Indices
BY DEF VirtualListed, Listed

(* A set of indices that is not empty has a first one.                     *)
LEMMA FirstExists ==
  ASSUME NEW s, s \subseteq Indices, s # {}
  PROVE  First(s) \in s /\ \A j \in s : First(s) <= j
<1>1. s \subseteq Nat
  BY BoundsAssumption DEF Indices
<1>2. \E x \in s : \A y \in s : ~ (<<y, x>> \in OpToRel(<, Nat))
  BY <1>1, NatLessThanWellFounded, WFMin
<1>3. PICK x \in s : \A y \in s : ~ (<<y, x>> \in OpToRel(<, Nat))
  BY <1>2
<1>4. \A y \in s : x <= y
  <2> SUFFICES ASSUME NEW y \in s PROVE x <= y
    OBVIOUS
  <2>1. ~ (y < x)
    BY <1>1, <1>3 DEF OpToRel
  <2> QED
    BY <1>1, <2>1
<1> QED
  BY <1>4 DEF First

(* What select_virtual_display returns.                                    *)
LEMMA SelectVirtualRight ==
  ASSUME VirtualListed # {}
  PROVE  /\ SelectVirtual \in VirtualListed
         /\ wanted \in VirtualListed => SelectVirtual = wanted
         /\ wanted \notin VirtualListed =>
              \A i \in VirtualListed : SelectVirtual <= i
BY ListedTypes, FirstExists DEF SelectVirtual

(* Resolving the index.                                                    *)
LEMMA ResolveIInv == CaptureInv /\ Resolve => CaptureInv'
<1> SUFFICES ASSUME CaptureInv, Resolve PROVE CaptureInv'
  OBVIOUS
<1>1. index' \in {NoIndex} \cup Indices
  <2>1. 0 \in Indices
    BY BoundsAssumption DEF Indices
  <2>2. CASE mode = "virtual" /\ VirtualListed # {}
    BY <2>2, SelectVirtualRight, ListedTypes DEF Resolve, CaptureInv, TypeOK
  <2>3. CASE ~(mode = "virtual" /\ VirtualListed # {})
    BY <2>1, <2>3 DEF Resolve, CaptureInv, TypeOK
  <2> QED
    BY <2>2, <2>3
<1>2. TypeOK'
  BY <1>1 DEF Resolve, CaptureInv, TypeOK, config, display, task
<1>3. Released' /\ AsAnnounced' /\ Encodable' /\ Backend' /\ Kept'
  BY DEF Resolve, CaptureInv, TypeOK, Released, AsAnnounced, Encodable, Natural, Backend, Running, Kept,
         config, display, task
<1>4. Chosen'
  <2>1. /\ VirtualListed' = VirtualListed
        /\ phase' # "selected" /\ mode' = mode /\ wanted' = wanted
    BY DEF Resolve, VirtualListed, Listed, OutputAt, config, display
  <2>2. CASE mode = "virtual" /\ VirtualListed # {}
    BY <2>1, <2>2, SelectVirtualRight DEF Resolve, Chosen
  <2>3. CASE ~(mode = "virtual" /\ VirtualListed # {})
    BY <2>1, <2>3 DEF Resolve, Chosen, CaptureInv, TypeOK
  <2> QED
    BY <2>2, <2>3
<1> QED
  BY <1>2, <1>3, <1>4 DEF CaptureInv

(* Opening the display, at last.                                           *)
LEMMA OpenedIInv ==
  ASSUME CaptureInv, phase \in {"resolved", "selected"},
         NEW m \in Monitors, NEW d \in {"none", "live"}, Opened(m, d),
         d = "live" <=> platform = "windows"
  PROVE  CaptureInv'
<1>1. TypeOK'
  BY DEF Opened, CaptureInv, TypeOK, config, display, task
<1>2. Released' /\ Backend' /\ Chosen'
  BY DEF Opened, CaptureInv, TypeOK, Released, Backend, Running, Chosen,
         config, display, task
<1>3. AsAnnounced' /\ Encodable' /\ Kept'
  BY DEF Opened, CaptureInv, TypeOK, AsAnnounced, Encodable, Natural, Backend, Running, Kept,
         NoPicture, Picture, config, display, task
<1> QED
  BY <1>1, <1>2, <1>3 DEF CaptureInv

(* The other steps of opening.                                             *)
LEMMA SelectLinuxIInv == CaptureInv /\ SelectLinux => CaptureInv'
<1> SUFFICES ASSUME CaptureInv, SelectLinux PROVE CaptureInv'
  OBVIOUS
<1>1. index \in Int
  BY BoundsAssumption DEF CaptureInv, TypeOK, Indices, NoIndex
<1>2. selected' \in Monitors \cup {NoMonitor}
  BY <1>1, OutputAtType DEF SelectLinux, CaptureInv, TypeOK
<1>3. TypeOK'
  BY <1>2 DEF SelectLinux, CaptureInv, TypeOK, config, display, task
<1>4. Released' /\ AsAnnounced' /\ Encodable' /\ Backend' /\ Kept'
  BY DEF SelectLinux, CaptureInv, TypeOK, Released, AsAnnounced, Encodable, Natural, Backend, Running, Kept,
         config, display, task, NoPicture, Picture
<1>5. Chosen'
  <2>1. /\ Listed' = Listed /\ VirtualListed' = VirtualListed
        /\ \A i : OutputAt(i)' = OutputAt(i)
        /\ mode' = mode /\ wanted' = wanted /\ index' = index /\ steady' = steady
    BY DEF SelectLinux, VirtualListed, Listed, OutputAt, config, display
  <2>2. OutputAt(index)' = OutputAt(index)
    BY DEF SelectLinux, OutputAt, display
  <2> QED
    BY <2>1, <2>2 DEF SelectLinux, Chosen, CaptureInv
<1> QED
  BY <1>3, <1>4, <1>5 DEF CaptureInv

(* A grab that has nothing new.                                            *)
LEMMA AcquireTimeoutIInv == CaptureInv /\ AcquireTimeout => CaptureInv'
<1> SUFFICES ASSUME CaptureInv, AcquireTimeout PROVE CaptureInv'
  OBVIOUS
<1> DEFINE again == IF last # NoPicture THEN last ELSE Blank
<1>1. /\ again \in Pictures
      /\ again.size = IF again.version = -1 THEN announced ELSE Natural
      /\ last # NoPicture => again = last
  BY SpecialPictures DEF CaptureInv, TypeOK, AsAnnounced
<1>2. Send(again)
  BY DEF AcquireTimeout
<1> HIDE DEF again
<1>3. /\ sent' \in Pictures
      /\ sent'.version = again.version /\ sent'.size = Fit(again.size)
  BY <1>1, <1>2, SendRight
<1>4. TypeOK'
  BY <1>3 DEF AcquireTimeout, CaptureInv, TypeOK, config, display, opening
<1>5. Released' /\ Backend' /\ Chosen'
  BY DEF AcquireTimeout, CaptureInv, TypeOK, Released, Backend, Running, Chosen,
         config, display, opening
<1>6. AsAnnounced'
  BY <1>1, <1>3
  DEF AcquireTimeout, CaptureInv, AsAnnounced, Natural, Backend, config, display, opening
<1>7. Encodable'
  BY <1>1, <1>2, SendRight DEF Encodable
<1>8. Kept'
  BY <1>1, <1>3 DEF AcquireTimeout, CaptureInv, TypeOK, Kept, Backend, Running, NoPicture,
     Picture, config, display, opening
<1> QED
  BY <1>4, <1>5, <1>6, <1>7, <1>8 DEF CaptureInv

(* A frame is acquired.                                                    *)
LEMMA AcquireFrameIInv == CaptureInv /\ AcquireFrame => CaptureInv'
<1> SUFFICES ASSUME CaptureInv, AcquireFrame PROVE CaptureInv'
  OBVIOUS
<1>1. version \in -2..MaxVersion /\ version >= 0
  BY BoundsAssumption DEF CaptureInv, TypeOK
<1>2. Texture = Natural /\ Texture \in Nat \X Nat
  <2>1. /\ target \in Monitors /\ size[target] = announced
        /\ platform = "windows"
    BY DEF AcquireFrame, CaptureInv, TypeOK, AsAnnounced, Backend
  <2>2. size[target] \in Nat \X Nat
    BY <2>1, SizesAssumption DEF CaptureInv, TypeOK
  <2> QED
    BY <2>1, <2>2 DEF Natural, Texture, Turned
<1>3. /\ grabbed' \in Pictures
      /\ grabbed'.version = version /\ grabbed'.size = Natural
  BY <1>1, <1>2, PictureType DEF AcquireFrame
<1>4. TypeOK'
  BY <1>3 DEF AcquireFrame, CaptureInv, TypeOK, config, display, opening
<1>5. Released' /\ Backend' /\ Chosen'
  BY DEF AcquireFrame, CaptureInv, TypeOK, Released, Backend, Running, Chosen,
         config, display, opening
<1>6. AsAnnounced' /\ Encodable'
  BY <1>1, <1>3 DEF AcquireFrame, CaptureInv, AsAnnounced, Encodable, Natural, Running,
     config, display, opening
<1>7. Kept'
  BY <1>3 DEF AcquireFrame, CaptureInv, Kept, config, display, opening
<1> QED
  BY <1>4, <1>5, <1>6, <1>7 DEF CaptureInv

(* It is copied, kept, sent and released.                                  *)
LEMMA CopyFrameIInv == CaptureInv /\ CopyFrame => CaptureInv'
<1> SUFFICES ASSUME CaptureInv, CopyFrame PROVE CaptureInv'
  OBVIOUS
<1>1. /\ grabbed \in Pictures /\ Send(grabbed)
      /\ grabbed.size = Natural /\ grabbed.version >= 0
  BY DEF CopyFrame, CaptureInv, TypeOK, AsAnnounced
<1>2. /\ sent' \in Pictures
      /\ sent'.version = grabbed.version /\ sent'.size = Fit(Natural)
  BY <1>1, SendRight
<1>3. TypeOK'
  BY <1>1, <1>2, SpecialPictures
  DEF CopyFrame, CaptureInv, TypeOK, Released, KeepLast, config, display, opening
<1>4. Released' /\ Backend' /\ Chosen'
  BY DEF CopyFrame, CaptureInv, TypeOK, Released, Backend, Running, Chosen,
         KeepLast, config, display, opening
<1>5. AsAnnounced'
  <2>1. sent'.version \in Int /\ sent'.version # -1
    BY <1>1, <1>2 DEF Pictures
  <2> QED
    BY <1>1, <1>2, <2>1
    DEF CopyFrame, CaptureInv, AsAnnounced, Natural, KeepLast, config, display, opening
<1>6. Encodable'
  BY <1>1, SendRight DEF Encodable
<1>7. Kept'
  BY <1>2
  DEF CopyFrame, CaptureInv, TypeOK, Kept, Backend, Running, KeepLast, config, display, opening
<1> QED
  BY <1>3, <1>4, <1>5, <1>6, <1>7 DEF CaptureInv

(* Copying it fails.                                                       *)
LEMMA CopyFailsIInv == CaptureInv /\ CopyFails => CaptureInv'
<1> SUFFICES ASSUME CaptureInv, CopyFails PROVE CaptureInv'
  OBVIOUS
<1>1. TypeOK'
  BY BoundsAssumption, SpecialPictures, PictureType
  DEF CopyFails, CaptureInv, TypeOK, Released, DropFrame, config, display, opening
<1>2. Released' /\ Backend' /\ Chosen'
  BY DEF CopyFails, CaptureInv, TypeOK, Released, Backend, Running, Chosen,
         DropFrame, config, display, opening
<1>3. AsAnnounced' /\ Encodable'
  BY SpecialPictures, PictureType
  DEF CopyFails, CaptureInv, TypeOK, AsAnnounced, Encodable, Natural, Backend, DropFrame, config, display, opening
<1>4. Kept'
  BY PictureType
  DEF CopyFails, CaptureInv, TypeOK, Kept, Backend, Running, DropFrame, config, display, opening
<1> QED
  BY <1>1, <1>2, <1>3, <1>4 DEF CaptureInv

(* No frame is acquired.                                                   *)
LEMMA AcquireFailsIInv == CaptureInv /\ AcquireFails => CaptureInv'
<1> SUFFICES ASSUME CaptureInv, AcquireFails PROVE CaptureInv'
  OBVIOUS
<1>1. TypeOK'
  BY BoundsAssumption, SpecialPictures, PictureType
  DEF AcquireFails, CaptureInv, TypeOK, config, display, opening
<1>2. Released' /\ Backend' /\ Chosen'
  BY DEF AcquireFails, CaptureInv, TypeOK, Released, Backend, Running, Chosen,
         config, display, opening
<1>3. AsAnnounced' /\ Encodable'
  BY SpecialPictures, PictureType
  DEF AcquireFails, CaptureInv, TypeOK, AsAnnounced, Encodable, Natural, Backend, config, display, opening
<1>4. Kept'
  BY PictureType
  DEF AcquireFails, CaptureInv, TypeOK, Kept, Backend, Running, config, display, opening
<1> QED
  BY <1>1, <1>2, <1>3, <1>4 DEF CaptureInv

(* The server draws a pixmap.                                              *)
LEMMA DrawPixmapIInv == CaptureInv /\ DrawPixmap => CaptureInv'
<1> SUFFICES ASSUME CaptureInv, DrawPixmap PROVE CaptureInv'
  OBVIOUS
<1>1. version \in -2..MaxVersion /\ version >= 0
  BY BoundsAssumption DEF CaptureInv, TypeOK
<1>2. announced = Natural /\ announced \in Nat \X Nat
  BY SizesAssumption DEF DrawPixmap, CaptureInv, TypeOK, Natural, NoSize
<1>3. /\ grabbed' \in Pictures
      /\ grabbed'.version = version /\ grabbed'.size = Natural
  BY <1>1, <1>2, PictureType DEF DrawPixmap
<1>4. TypeOK'
  BY <1>3 DEF DrawPixmap, CaptureInv, TypeOK, config, display, opening
<1>5. Released' /\ Backend' /\ Chosen'
  BY DEF DrawPixmap, CaptureInv, TypeOK, Released, Backend, Running, Chosen,
         config, display, opening
<1>6. AsAnnounced' /\ Encodable'
  BY <1>1, <1>3 DEF DrawPixmap, CaptureInv, AsAnnounced, Encodable, Natural, Running,
     config, display, opening
<1>7. Kept'
  BY <1>3 DEF DrawPixmap, CaptureInv, TypeOK, Kept, Backend, Running, config, display, opening
<1> QED
  BY <1>4, <1>5, <1>6, <1>7 DEF CaptureInv

(* Its image arrives.                                                      *)
LEMMA GetImageIInv == CaptureInv /\ GetImage => CaptureInv'
<1> SUFFICES ASSUME CaptureInv, GetImage PROVE CaptureInv'
  OBVIOUS
<1>1. /\ grabbed \in Pictures /\ Send(grabbed)
      /\ grabbed.size = Natural /\ grabbed.version >= 0
  BY DEF GetImage, CaptureInv, TypeOK, AsAnnounced
<1>2. /\ sent' \in Pictures
      /\ sent'.version = grabbed.version /\ sent'.size = Fit(Natural)
  BY <1>1, SendRight
<1>3. TypeOK'
  BY <1>1, <1>2, SpecialPictures
  DEF GetImage, CaptureInv, TypeOK, Released, config, display, opening
<1>4. Released' /\ Backend' /\ Chosen'
  BY DEF GetImage, CaptureInv, TypeOK, Released, Backend, Running, Chosen,
         config, display, opening
<1>5. AsAnnounced'
  <2>1. sent'.version \in Int /\ sent'.version # -1
    BY <1>1, <1>2 DEF Pictures
  <2> QED
    BY <1>1, <1>2, <2>1
    DEF GetImage, CaptureInv, AsAnnounced, Natural, config, display, opening
<1>6. Encodable'
  BY <1>1, SendRight DEF Encodable
<1>7. Kept'
  BY <1>2
  DEF GetImage, CaptureInv, TypeOK, Kept, Backend, Running, config, display, opening
<1> QED
  BY <1>3, <1>4, <1>5, <1>6, <1>7 DEF CaptureInv

(* It does not.                                                            *)
LEMMA GetImageFailsIInv == CaptureInv /\ GetImageFails => CaptureInv'
<1> SUFFICES ASSUME CaptureInv, GetImageFails PROVE CaptureInv'
  OBVIOUS
<1>1. TypeOK'
  BY BoundsAssumption, SpecialPictures, PictureType
  DEF GetImageFails, CaptureInv, TypeOK, config, display, opening
<1>2. Released' /\ Backend' /\ Chosen'
  BY DEF GetImageFails, CaptureInv, TypeOK, Released, Backend, Running, Chosen,
         config, display, opening
<1>3. AsAnnounced' /\ Encodable'
  BY SpecialPictures, PictureType
  DEF GetImageFails, CaptureInv, TypeOK, AsAnnounced, Encodable, Natural, Backend, config, display, opening
<1>4. Kept'
  BY PictureType
  DEF GetImageFails, CaptureInv, TypeOK, Kept, Backend, Running, config, display, opening
<1> QED
  BY <1>1, <1>2, <1>3, <1>4 DEF CaptureInv

(* The synthetic source.                                                   *)
LEMMA SyntheticIInv == CaptureInv /\ (StartSynthetic \/ SyntheticFrame) => CaptureInv'
<1> SUFFICES ASSUME CaptureInv, StartSynthetic \/ SyntheticFrame PROVE CaptureInv'
  OBVIOUS
<1>1. CASE StartSynthetic
  <2>1. TypeOK'
    BY <1>1 DEF StartSynthetic, CaptureInv, TypeOK, config, display, task
  <2>2. Released' /\ AsAnnounced' /\ Encodable' /\ Backend' /\ Kept' /\ Chosen'
    BY <1>1 DEF StartSynthetic, CaptureInv, TypeOK, Released, AsAnnounced, Encodable, Backend,
       Running, Kept, Chosen, config, display, task
  <2> QED
    BY <2>1, <2>2 DEF CaptureInv
<1>2. CASE SyntheticFrame
  <2>1. version' \in 0..MaxVersion
    BY <1>2, BoundsAssumption DEF SyntheticFrame, CaptureInv, TypeOK
  <2>2. sent' \in Pictures
    <3>1. version \in -2..MaxVersion /\ announced \in Nat \X Nat
      BY BoundsAssumption, SizesAssumption DEF CaptureInv, TypeOK, NoSize
    <3> QED
      BY <1>2, <3>1, PictureType DEF SyntheticFrame
  <2>3. TypeOK'
    BY <1>2, <2>1, <2>2 DEF SyntheticFrame, CaptureInv, TypeOK, config, display, opening
  <2>4. Released' /\ AsAnnounced' /\ Encodable' /\ Backend' /\ Kept' /\ Chosen'
    BY <1>2 DEF SyntheticFrame, CaptureInv, TypeOK, Released, AsAnnounced, Encodable, Backend,
       Running, Kept, Chosen, config, display, opening
  <2> QED
    BY <2>3, <2>4 DEF CaptureInv
<1> QED
  BY <1>1, <1>2

(* The screen changes.                                                     *)
LEMMA ScreenChangesIInv == CaptureInv /\ ScreenChanges => CaptureInv'
<1> SUFFICES ASSUME CaptureInv, ScreenChanges PROVE CaptureInv'
  OBVIOUS
<1>1. TypeOK'
  BY BoundsAssumption
  DEF ScreenChanges, CaptureInv, TypeOK, config, display, opening, task
<1>2. Released' /\ AsAnnounced' /\ Encodable' /\ Backend' /\ Kept' /\ Chosen'
  BY DEF ScreenChanges, CaptureInv, TypeOK, Released, AsAnnounced, Encodable, Natural, Backend, Running,
         Kept, Chosen, config, display, opening, task
<1> QED
  BY <1>1, <1>2 DEF CaptureInv

(* The monitors change.                                                    *)
LEMMA MonitorsChangeIInv == CaptureInv /\ MonitorsChange => CaptureInv'
<1> SUFFICES ASSUME CaptureInv, MonitorsChange PROVE CaptureInv'
  OBVIOUS
<1>1. TypeOK'
  <2>1. active' \in SUBSET Monitors /\ outputs' \in Lists
    <3>1. active' \in SUBSET {outputs'[i] : i \in DOMAIN outputs'} /\ outputs' \in Lists
      BY DEF MonitorsChange, On
    <3>2. \A i \in DOMAIN outputs' : outputs'[i] \in Monitors
      BY <3>1 DEF Lists
    <3> QED
      BY <3>1, <3>2
  <2>2. size' \in [Monitors -> Sizes]
    BY DEF MonitorsChange, CaptureInv, TypeOK
  <2>3. changes' \in 0..MaxChanges
    BY BoundsAssumption DEF MonitorsChange, CaptureInv, TypeOK
  <2> QED
    BY <2>1, <2>2, <2>3 DEF MonitorsChange, CaptureInv, TypeOK, config, opening, task
<1>2. Released' /\ AsAnnounced' /\ Encodable' /\ Backend' /\ Kept' /\ Chosen'
  BY DEF MonitorsChange, CaptureInv, TypeOK, Released, AsAnnounced, Encodable, Natural, Backend, Running,
         Kept, Chosen, config, opening, task
<1> QED
  BY <1>1, <1>2 DEF CaptureInv

(* Opening fails.                                                          *)
LEMMA OpenFailsIInv == CaptureInv /\ OpenFails => CaptureInv'
<1> SUFFICES ASSUME CaptureInv, OpenFails PROVE CaptureInv'
  OBVIOUS
<1>1. TypeOK'
  BY DEF OpenFails, CaptureInv, TypeOK, config, display, opening, task
<1>2. Released' /\ AsAnnounced' /\ Encodable' /\ Backend' /\ Kept' /\ Chosen'
  BY DEF OpenFails, CaptureInv, TypeOK, Released, AsAnnounced, Encodable, Natural, Backend, Running,
         Kept, Chosen, config, display, opening, task
<1> QED
  BY <1>1, <1>2 DEF CaptureInv

(* Nothing changes.                                                        *)
LEMMA StutterIInv == CaptureInv /\ UNCHANGED vars => CaptureInv'
<1> SUFFICES ASSUME CaptureInv, UNCHANGED vars PROVE CaptureInv'
  OBVIOUS
<1>1. TypeOK' /\ Released' /\ AsAnnounced' /\ Encodable' /\ Backend' /\ Kept'
  BY DEF vars, CaptureInv, TypeOK, Released, AsAnnounced, Encodable, Natural, Backend, Running, Kept
<1>2. Chosen'
  BY DEF vars, CaptureInv, Chosen, Listed, VirtualListed, OutputAt
<1> QED
  BY <1>1, <1>2 DEF CaptureInv

(* The inductive step.                                                     *)
LEMMA StepIInv == CaptureInv /\ [Next]_vars => CaptureInv'
<1> SUFFICES ASSUME CaptureInv, [Next]_vars PROVE CaptureInv'
  OBVIOUS
<1>1. CASE OpenWindows
  <2>1. index \in Int
    BY BoundsAssumption DEF CaptureInv, TypeOK, Indices, NoIndex
  <2>2. OutputAt(index) \in Monitors
    BY <1>1, <2>1, OutputAtType DEF OpenWindows, CaptureInv, TypeOK
  <2> QED
    BY <1>1, <2>2, OpenedIInv DEF OpenWindows
<1>2. CASE OpenLinux
  <2>1. OutputAt(index) \in Monitors /\ platform = "linux"
    BY <1>2 DEF OpenLinux, CaptureInv, TypeOK, Backend
  <2> QED
    BY <1>2, <2>1, OpenedIInv DEF OpenLinux
<1> QED
  BY <1>1, <1>2, ResolveIInv, SelectLinuxIInv, OpenFailsIInv, AcquireTimeoutIInv,
     AcquireFrameIInv, CopyFrameIInv, CopyFailsIInv, AcquireFailsIInv, DrawPixmapIInv,
     GetImageIInv, GetImageFailsIInv, SyntheticIInv, ScreenChangesIInv, MonitorsChangeIInv, StutterIInv
  DEF Next

(* Types, released frames, announced sizes and what is known of the        *)
(* pictures, of every state.                                               *)
THEOREM Invariance == Spec => []CaptureInv
BY InitIInv, StepIInv, PTL DEF Spec

(* A picture that is sent again because nothing changed is what the screen *)
(* shows.                                                                  *)
THEOREM NothingStale == Spec => []NoStalePicture
<1>1. CaptureInv => NoStalePicture
  BY DEF CaptureInv, Kept, NoStalePicture
<1> QED
  BY Invariance, <1>1, PTL

(* The display that is opened is the one asked for, if the monitors stay   *)
(* as they are meanwhile.                                                  *)
THEOREM RightDisplay == Spec => OpensWhatWasAsked
<1>1. CaptureInv /\ [Next]_vars => [AskedFor]_vars
  <2> SUFFICES ASSUME CaptureInv, Next, Opens, steady = "yes" PROVE AskedFor
    BY DEF AskedFor
  <2>1. CASE OpenWindows
    <3>1. target' = OutputAt(index) /\ platform = "windows"
      BY <2>1 DEF OpenWindows, Opened
    <3>2. mode = "virtual" => OutputAt(index) \in Virtual
      BY <2>1 DEF Opens, CaptureInv, Chosen, VirtualListed
    <3> QED
      BY <3>1, <3>2 DEF AskedFor, Opens, CaptureInv, Chosen
  <2>2. CASE OpenLinux
    <3>1. target' = OutputAt(index) /\ OutputAt(index) \in active
      BY <2>2 DEF OpenLinux, Opened
    <3>2. mode = "virtual" => OutputAt(index) \in Virtual
      BY <2>2 DEF Opens, CaptureInv, Chosen, VirtualListed
    <3>3. index \in Listed => selected = OutputAt(index)
      BY <2>2 DEF OpenLinux, CaptureInv, Chosen
    <3>4. OutputAt(index) # NoMonitor
      BY <3>1, MonitorsAssumption DEF CaptureInv, TypeOK
    <3>5. index + 1 \in DOMAIN outputs
      BY <3>4 DEF OutputAt
    <3>6. index \in Indices
      <4>1. PICK n \in 0..MaxMonitors : outputs \in [1..n -> Monitors]
        BY DEF CaptureInv, TypeOK, Lists
      <4>2. index + 1 \in 1..n
        BY <3>5, <4>1
      <4> QED
        BY <4>2, BoundsAssumption DEF Indices, CaptureInv, TypeOK, NoIndex
    <3>7. index \in Listed
      BY <3>1, <3>4, <3>6 DEF Listed
    <3> QED
      BY <3>1, <3>2, <3>3, <3>7 DEF AskedFor, Opens, CaptureInv, Chosen
  <2>3. CASE ~OpenWindows /\ ~OpenLinux
    BY <2>3 DEF Opens, Next, Resolve, SelectLinux, OpenFails, AcquireTimeout, AcquireFrame,
       CopyFrame, CopyFails, AcquireFails, DrawPixmap, GetImage, GetImageFails,
       StartSynthetic, SyntheticFrame, ScreenChanges, MonitorsChange, Running
  <2> QED
    BY <2>1, <2>2, <2>3
<1> QED
  BY Invariance, <1>1, PTL DEF Spec, OpensWhatWasAsked
=============================================================================
