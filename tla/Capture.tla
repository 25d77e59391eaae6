------------------------------ MODULE Capture ------------------------------
(***************************************************************************)
(* Screen capture: choosing a display (rotten-capture/src/backend.rs,      *)
(* virtual_display.rs), opening and grabbing it through DXGI (dxgi.rs) or  *)
(* X11 (linux.rs), and the capture task of rotten-app/src/mirror.rs that   *)
(* sends what it grabs to the frame channel.                               *)
(*                                                                         *)
(* A picture is the version of the screen it shows and its size; the       *)
(* pixels and their order are left out.  Monitors come, go and change      *)
(* their mode at any time.                                                 *)
(***************************************************************************)
EXTENDS PictureSize, Sequences

CONSTANTS
  Monitors,
  Virtual,              \* those with the name of a virtual display
  NoMonitor,
  Rotated,              \* those whose picture is rotated
  Sizes,                \* widths and heights
  MaxMonitors,          \* monitors connected at a time (a bound of the model)
  MaxVersion,           \* changes of the screen (a bound of the model)
  MaxChanges,           \* changes of the monitors (a bound of the model)
  MaxFailures           \* grabs that fail in the system (a bound of the model)

ASSUME MonitorsAssumption == Virtual \subseteq Monitors /\ NoMonitor \notin Monitors
ASSUME SizesAssumption == Sizes \subseteq (Nat \ {0}) \X (Nat \ {0})
ASSUME BoundsAssumption ==
  /\ MaxMonitors \in Nat \ {0} /\ MaxVersion \in Nat
  /\ MaxChanges \in Nat /\ MaxFailures \in Nat

VARIABLES
  platform,             \* "windows" or "linux"
  wanted,               \* config.display_index, NoIndex for None
  mode,                 \* "test" for config.test_mode, "virtual" for
                        \* config.virtual_display_only, or "any"
  outputs,              \* the monitors in the order the system lists them
  active,               \* those with a CRTC (X11 lists the others too)
  size,                 \* the size of each monitor
  changes,              \* history: changes of the monitors
  steady,               \* history: "yes" if there was none since Resolve
  phase,                \* what the capture task is doing
  index,                \* while opening, the index that was resolved
  selected,             \* while opening, the display found under it (X11)
  target,               \* the monitor that is captured
  announced,            \* DisplayInfo of displays(): the size of the stream
  duplication,          \* IDXGIOutputDuplication: "none", "live" or "lost"
  dirty,                \* "yes" if the screen changed since it was acquired
  version,              \* the version of the screen
  held,                 \* DXGI frames acquired and not released
  pixmaps,              \* X11 pixmaps created and not freed
  grabbed,              \* the picture of the grab under way
  last,                 \* DxgiCapture::last_frame
  sent,                 \* the last picture sent to the frame channel
  failures,             \* history: grabs that failed
  missed                \* history: "yes" while an acquired change was not sent

config == <<platform, wanted, mode>>
display == <<outputs, active, size, changes>>
opening == <<index, selected, target, announced>>
task == <<held, pixmaps, grabbed, last, sent, failures, missed>>
vars == <<platform, wanted, mode, outputs, active, size, changes, steady,
          phase, index, selected, target, announced, duplication, dirty,
          version, held, pixmaps, grabbed, last, sent, failures, missed>>

NoIndex == -1
NoSize == <<0, 0>>
Turned(s) == <<s[2], s[1]>>
Indices == 0..MaxMonitors-1

\* Lists of monitors without repetition.
Lists ==
  {s \in UNION {[1..n -> Monitors] : n \in 0..MaxMonitors} :
     \A i, j \in DOMAIN s : s[i] = s[j] => i = j}

\* The monitors that are on, all that Windows lists.
On(p, list) ==
  {on \in SUBSET {list[i] : i \in DOMAIN list} :
     p = "windows" => \A i \in DOMAIN list : list[i] \in on}

Picture(v, s) == [version |-> v, size |-> s]
NoPicture == Picture(-2, NoSize)
Blank == Picture(-1, announced)

Init ==
  /\ platform \in {"windows", "linux"}
  /\ wanted \in {NoIndex} \cup Indices
  /\ mode \in {"virtual", "any", "test"}
  /\ outputs \in Lists
  /\ active \in On(platform, outputs)
  /\ \E s \in Sizes : size = [m \in Monitors |-> s]
  /\ changes = 0
  /\ steady = "yes"
  /\ phase = "start"
  /\ index = NoIndex
  /\ selected = NoMonitor
  /\ target = NoMonitor
  /\ announced = NoSize
  /\ duplication = "none"
  /\ dirty = "no"
  /\ version = 0
  /\ held = 0
  /\ pixmaps = 0
  /\ grabbed = NoPicture
  /\ last = NoPicture
  /\ sent = NoPicture
  /\ failures = 0
  /\ missed = "no"

(***************************************************************************)
(* Choosing and opening a display.                                         *)
(***************************************************************************)

\* The monitor the system lists at position i, counted from 0.
OutputAt(i) == IF i + 1 \in DOMAIN outputs THEN outputs[i + 1] ELSE NoMonitor

\* enumerate_outputs, enumerate_randr_displays: X11 gives an output that is
\* off no display, but its position to nobody else.
Listed == {i \in Indices : OutputAt(i) # NoMonitor
                           /\ (platform = "linux" => OutputAt(i) \in active)}

\* filter_virtual_displays.
VirtualListed == {i \in Listed : OutputAt(i) \in Virtual}

First(s) == CHOOSE i \in s : \A j \in s : i <= j

\* Mutant: the first virtual display, whatever was asked for.
SelectFirst == First(VirtualListed)

\* select_virtual_display.
SelectVirtual == IF wanted \in VirtualListed THEN wanted ELSE First(VirtualListed)

\* create_capture_backend, up to the backend.
Resolve ==
  /\ phase = "start"
  /\ steady' = "yes"
  /\ \/ /\ mode = "virtual" /\ VirtualListed # {}
        /\ index' = SelectVirtual
        /\ phase' = "resolved"
     \/ /\ mode = "virtual" /\ VirtualListed = {}
        /\ phase' = "failed"
        /\ UNCHANGED index
     \/ /\ mode = "any"
        /\ index' = IF wanted = NoIndex THEN 0 ELSE wanted
        /\ phase' = "resolved"
  /\ UNCHANGED <<config, display, selected, target, announced, duplication, dirty,
                 version, task>>

\* The backend is open and its display gives the stream its size.
Opened(m, d) ==
  /\ index' = NoIndex
  /\ selected' = NoMonitor
  /\ target' = m
  /\ announced' = size[m]
  /\ duplication' = d
  /\ dirty' \in IF d = "live" THEN {"yes", "no"} ELSE {dirty}
  /\ phase' = "ready"
  /\ UNCHANGED <<config, display, steady, version, task>>

\* DxgiCapture::open.
OpenWindows ==
  /\ phase = "resolved" /\ platform = "windows"
  /\ OutputAt(index) # NoMonitor
  /\ Opened(OutputAt(index), "live")

\* The display that stands for the whole screen if no output is on.
WholeScreen == platform = "linux" /\ Listed = {} /\ index = 0

\* X11Capture::open: the displays are listed, again if a virtual one was
\* asked for, and the one with the index is looked up.
SelectLinux ==
  /\ phase = "resolved" /\ platform = "linux"
  /\ index \in Listed \/ WholeScreen
  /\ selected' = IF index \in Listed THEN OutputAt(index) ELSE NoMonitor
  /\ phase' = "selected"
  /\ UNCHANGED <<config, display, steady, index, target, announced, duplication,
                 dirty, version, task>>

\* monitor_region_for_display: outputs are asked for once more.
OpenLinux ==
  /\ phase = "selected"
  /\ OutputAt(index) \in active
  /\ Opened(OutputAt(index), "none")

\* Nothing there, or an error of the system; the mirror command ends.
OpenFails ==
  /\ phase \in {"start", "resolved", "selected"}
  /\ phase' = "failed"
  /\ UNCHANGED <<config, display, steady, opening, duplication, dirty, version, task>>

(***************************************************************************)
(* The capture task.                                                       *)
(***************************************************************************)

\* A frame was grabbed: it is scaled and sent.
Send(picture) == sent' = Picture(picture.version, Fit(picture.size))

\* run_mirror with --test: the size is that of the command line.
StartSynthetic ==
  /\ phase = "start" /\ mode = "test"
  /\ announced' \in Sizes
  /\ phase' = "synthetic"
  /\ UNCHANGED <<config, display, steady, index, selected, target, duplication, dirty,
                 version, task>>

\* SyntheticSource::next_frame, which is sent as it is.
SyntheticFrame ==
  /\ phase = "synthetic"
  /\ version' = (version + 1) % (MaxVersion + 1)
  /\ sent' = Picture(version, announced)
  /\ UNCHANGED <<config, display, steady, phase, opening, duplication, dirty,
                 held, pixmaps, grabbed, last, failures, missed>>

(***************************************************************************)
(* Grabbing: DXGI.                                                         *)
(***************************************************************************)

\* AcquireNextFrame has nothing new for 16 ms: the last frame is sent again,
\* or a blank one.
AcquireTimeout ==
  /\ phase = "ready" /\ duplication = "live" /\ dirty = "no"
  /\ Send(IF last # NoPicture THEN last ELSE Blank)
  /\ UNCHANGED <<config, display, steady, phase, opening, duplication, dirty, version,
                 held, pixmaps, grabbed, last, failures, missed>>

\* The texture of a frame is not rotated, whatever the monitor is.
Texture == IF target \in Rotated THEN Turned(size[target]) ELSE size[target]

\* AcquireNextFrame has a frame, because the screen changed or only the pointer
\* moved; the frame stays as it is until it is released.
AcquireFrame ==
  /\ phase = "ready" /\ duplication = "live"
  /\ phase' = "acquired"
  /\ dirty' = "no"
  /\ held' = held + 1
  /\ grabbed' = Picture(version, Texture)
  /\ UNCHANGED <<config, display, steady, opening, duplication, version,
                 pixmaps, last, sent, failures, missed>>

\* Mutant: the frame that was acquired is not kept.
KeepOlder == UNCHANGED last

\* grab_frame after try_acquire_frame.
KeepLast == last' = grabbed

\* try_acquire_frame goes through: the frame is copied and released.
CopyFrame ==
  /\ phase = "acquired"
  /\ phase' = "ready"
  /\ held' = held - 1
  /\ KeepLast
  /\ Send(grabbed)
  /\ missed' = "no"
  /\ grabbed' = NoPicture
  /\ UNCHANGED <<config, display, steady, opening, duplication, dirty, version,
                 pixmaps, failures>>

\* Mutant: an error returns before the frame is released.
DropFrameForgotten == UNCHANGED held

\* AcquiredFrame::drop.
DropFrame == held' = held - 1

\* It fails after the frame was acquired: no resource, texture or mapping.
CopyFails ==
  /\ phase = "acquired"
  /\ failures < MaxFailures
  /\ phase' = "ready"
  /\ DropFrame
  /\ failures' = failures + 1
  /\ missed' = "yes"
  /\ grabbed' = NoPicture
  /\ UNCHANGED <<config, display, steady, opening, duplication, dirty, version,
                 pixmaps, last, sent>>

\* AcquireNextFrame fails; once the duplication is lost it always does.
AcquireFails ==
  /\ phase = "ready" /\ platform = "windows"
  /\ \/ duplication = "lost" /\ UNCHANGED failures
     \/ failures < MaxFailures /\ failures' = failures + 1
  /\ UNCHANGED <<config, display, steady, phase, opening, duplication, dirty, version,
                 held, pixmaps, grabbed, last, sent, missed>>

(***************************************************************************)
(* Grabbing: X11.                                                          *)
(***************************************************************************)

\* Mutant: a pixmap is only created while there is none.
DrawPixmapAlone ==
  /\ phase = "ready" /\ platform = "linux"
  /\ pixmaps = 0
  /\ phase' = "drawn"
  /\ pixmaps' = pixmaps + 1
  /\ grabbed' = Picture(version, announced)
  /\ UNCHANGED <<config, display, steady, opening, duplication, dirty, version,
                 held, last, sent, failures, missed>>

\* The requests of grab_frame; the server copies the region it was opened
\* with into a new pixmap.
DrawPixmap ==
  /\ phase = "ready" /\ platform = "linux"
  /\ phase' = "drawn"
  /\ pixmaps' = pixmaps + 1
  /\ grabbed' = Picture(version, announced)
  /\ UNCHANGED <<config, display, steady, opening, duplication, dirty, version,
                 held, last, sent, failures, missed>>

\* The image arrives.
GetImage ==
  /\ phase = "drawn"
  /\ phase' = "ready"
  /\ pixmaps' = pixmaps - 1
  /\ Send(grabbed)
  /\ grabbed' = NoPicture
  /\ UNCHANGED <<config, display, steady, opening, duplication, dirty, version,
                 held, last, failures, missed>>

\* An error arrives: grab_frame returns and the pixmap stays.
GetImageFails ==
  /\ phase = "drawn"
  /\ failures < MaxFailures
  /\ phase' = "ready"
  /\ failures' = failures + 1
  /\ grabbed' = NoPicture
  /\ UNCHANGED <<config, display, steady, opening, duplication, dirty, version,
                 held, pixmaps, last, sent, missed>>

(***************************************************************************)
(* The system.                                                             *)
(***************************************************************************)
Running == phase \in {"ready", "acquired", "drawn"}

\* The monitor that is captured shows something else.
ScreenChanges ==
  /\ Running
  /\ version < MaxVersion
  /\ version' = version + 1
  /\ dirty' = IF duplication = "live" THEN "yes" ELSE dirty
  /\ UNCHANGED <<config, display, steady, phase, opening, duplication, task>>

\* Monitors are plugged in, unplugged, switched or renumbered, and one may change
\* its mode.  A duplication does not outlive its output or the mode of it.  It
\* is left out where nobody has looked at monitors yet or does any more: X11
\* copies from the region it was opened with.
MonitorsChange ==
  /\ phase \in {"resolved", "selected"} \/ duplication = "live"
  /\ changes < MaxChanges
  /\ changes' = changes + 1
  /\ outputs' \in Lists
  /\ active' \in On(platform, outputs')
  /\ \E m \in Monitors, s \in Sizes : size' = [size EXCEPT ![m] = s]
  /\ steady' = "no"
  /\ \/ duplication = "live" /\ duplication' = "lost"
     \/ /\ duplication = "live" => \E i \in DOMAIN outputs' : outputs'[i] = target
        /\ duplication = "live" => size'[target] = size[target]
        /\ UNCHANGED duplication
  /\ UNCHANGED <<config, phase, opening, dirty, version, task>>

Open == Resolve \/ OpenWindows \/ SelectLinux \/ OpenLinux
Grab == AcquireTimeout \/ AcquireFrame \/ CopyFrame \/ DrawPixmap \/ GetImage

Next ==
  \/ Resolve \/ OpenWindows \/ SelectLinux \/ OpenLinux \/ OpenFails
  \/ AcquireTimeout \/ AcquireFrame \/ CopyFrame \/ CopyFails \/ AcquireFails
  \/ DrawPixmap \/ GetImage \/ GetImageFails
  \/ StartSynthetic \/ SyntheticFrame
  \/ ScreenChanges \/ MonitorsChange

\* The capture task grabs in a loop, each time on a thread of its own.
Fairness == WF_vars(Grab)

Spec == Init /\ [][Next]_vars /\ Fairness

(***************************************************************************)
(* Properties.                                                             *)
(***************************************************************************)
Pictures == [version : -2..MaxVersion, size : Nat \X Nat]

\* Types of the variables.
TypeOK ==
  /\ platform \in {"windows", "linux"}
  /\ wanted \in {NoIndex} \cup Indices
  /\ mode \in {"virtual", "any", "test"}
  /\ outputs \in Lists
  /\ active \in SUBSET Monitors
  /\ size \in [Monitors -> Sizes]
  /\ changes \in 0..MaxChanges
  /\ steady \in {"yes", "no"}
  /\ phase \in {"start", "resolved", "selected", "ready", "acquired", "drawn", "failed", "synthetic"}
  /\ index \in {NoIndex} \cup Indices
  /\ selected \in Monitors \cup {NoMonitor}
  /\ target \in Monitors \cup {NoMonitor}
  /\ announced \in Sizes \cup {NoSize}
  /\ duplication \in {"none", "live", "lost"}
  /\ dirty \in {"yes", "no"}
  /\ version \in 0..MaxVersion
  /\ held \in Nat /\ pixmaps \in Nat
  /\ grabbed \in Pictures /\ last \in Pictures /\ sent \in Pictures
  /\ failures \in 0..MaxFailures
  /\ missed \in {"yes", "no"}

\* No frame of the desktop stays acquired once grab_frame returned, on any
\* way out of it: DXGI gives no other while it does.  Of the pixmaps of X11
\* there is at most one for each grab that failed.
Released ==
  /\ held = IF phase = "acquired" THEN 1 ELSE 0
  /\ pixmaps <= failures + (IF phase = "drawn" THEN 1 ELSE 0)
  /\ phase = "drawn" => pixmaps > 0

\* The size of what is grabbed, given what was announced.
Natural ==
  IF platform = "windows" /\ target \in Rotated THEN Turned(announced) ELSE announced

\* Every picture is sent in the size that the stream was announced with when
\* capturing began, whatever the monitors did since.  Of a rotated monitor DXGI
\* gives frames of the other size, and only those that are blank are as announced.
AsAnnounced ==
  /\ duplication = "live" => target \in Monitors /\ size[target] = announced
  /\ phase \in {"acquired", "drawn"} =>
       grabbed.size = Natural /\ grabbed.version >= 0
  /\ last # NoPicture => last.size = Natural /\ last.version >= 0
  /\ Running /\ sent # NoPicture =>
       sent.size = IF sent.version = -1 THEN Fit(announced) ELSE Fit(Natural)

\* What is sent is taken by the encoder as it is: it is a whole number of
\* macroblocks within the bounds, and fitting it again changes nothing.
Encodable ==
  Running /\ sent # NoPicture =>
    /\ sent.size[1] % Macroblock = 0 /\ sent.size[2] % Macroblock = 0
    /\ sent.size[1] > 0 /\ sent.size[2] > 0
    /\ Within(sent.size)
    /\ Fit(sent.size) = sent.size

\* The backend and what it has opened belong together.
Backend ==
  /\ phase = "acquired" => platform = "windows"
  /\ phase = "drawn" => platform = "linux"
  /\ phase = "selected" => platform = "linux"
  /\ platform = "linux" => duplication = "none"
  /\ ~Running => duplication = "none" /\ last = NoPicture /\ missed = "no"
  /\ ~Running /\ phase # "synthetic" => sent = NoPicture /\ version = 0

\* The frame that was kept is the newest one, unless the grab of a newer one
\* failed half way.
Kept ==
  duplication = "live" /\ dirty = "no" /\ version > 0 =>
    /\ phase = "acquired" => grabbed.version = version
    /\ phase = "ready" /\ missed = "no" =>
         last.version = version /\ sent.version = version

\* While a backend is opened and no monitor changes, the index is the one
\* asked for, and under it is what the list had there.
Chosen ==
  phase \in {"resolved", "selected"} /\ steady = "yes" =>
    /\ mode = "any" /\ wanted # NoIndex => index = wanted
    /\ mode = "virtual" =>
         /\ index \in VirtualListed
         /\ wanted \in VirtualListed => index = wanted
         /\ wanted \notin VirtualListed => \A i \in VirtualListed : index <= i
    /\ phase = "selected" =>
         selected = IF index \in Listed THEN OutputAt(index) ELSE NoMonitor

\* The inductive invariant.
CaptureInv == TypeOK /\ Released /\ AsAnnounced /\ Encodable /\ Backend /\ Kept /\ Chosen

\* When DXGI reports no change, the picture that is sent again is what the
\* screen shows, unless a grab failed after it had acquired the change.
NoStalePicture ==
  /\ duplication = "live" /\ phase = "ready"
  /\ dirty = "no" /\ missed = "no" /\ version > 0
  => sent.version = version

Opens == phase \in {"resolved", "selected"} /\ phase' = "ready"

\* If no monitor changes while the backend is opened, the display that is
\* captured is the one asked for: with --virtual-display a virtual one, the
\* one with the index if it is virtual and otherwise the first.
AskedFor ==
  Opens /\ steady = "yes" =>
    /\ mode = "any" /\ wanted # NoIndex => target' = OutputAt(wanted)
    /\ mode = "virtual" =>
         /\ target' \in Virtual
         /\ wanted \in VirtualListed => target' = OutputAt(wanted)
         /\ wanted \notin VirtualListed =>
              \A i \in VirtualListed : index <= i
    /\ platform = "linux" => target' \in active /\ target' = selected

OpensWhatWasAsked == [][AskedFor]_vars

\* A change of the screen is sent, however many grabs fail, unless the
\* duplication is lost or the grab failed after it had acquired the change.
PictureCatchesUp ==
  \A k \in 1..MaxVersion :
    Running /\ version >= k ~>
      sent.version >= k \/ duplication = "lost" \/ missed = "yes"
=============================================================================
