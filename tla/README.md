# RottingApple in TLA+

RottingApple mirrors the screen of a Linux or Windows machine to an Apple TV:
it finds the TV by mDNS, pairs with a PIN, sets up an AirPlay 2 mirroring
session over RTSP, captures and encodes the desktop, and sends H.264 pictures
over TCP together with a silent audio stream over UDP. This directory holds
TLA+ modules of the parts whose correctness depends on order, on interleaving,
on failures or on arithmetic at boundaries, TLC configurations that check them
on small instances, and TLAPS proofs of the main safety results.

Source paths below are relative to the repository root, with
`video = crates/rotten-video/src`, `app = crates/rotten-app/src`,
`protocol = crates/rotten-protocol/src`, `pairing = crates/rotten-pairing/src`,
`core = crates/rotten-core/src`, `crypto = crates/rotten-crypto/src`,
`capture = crates/rotten-capture/src`, `discovery = crates/rotten-discovery/src`,
`fpemu = tools/fpsap-helper/fpemu`.

## 1. Inventory

`main.rs` runs every command on one `current_thread` tokio runtime. Tasks are
therefore interleaved only at awaits; blocking work (capture, encoding) runs on
blocking threads. When a command's main future returns, the runtime is dropped
and its tasks vanish with it. Different commands are different processes and
share only the files in the user's directory.

| Component | Where | State | Operations | Talks to |
|---|---|---|---|---|
| Frame channel | `video/stream.rs` | one slot, drop counter, a tokio `Notify`, the count of `Arc`s | `send`, `recv`, dropping the sender | capture task, stream loop |
| Stream loop | `video/stream.rs` | `codec_sent`, stream size, `au_index`, `first_frame_sent`, the first-frame oneshot, statistics | the branches of `select!`: frame, statistics watchdog, data heartbeat; `send_access_unit` | channel, encoder, cipher, data socket, `run_mirror` |
| Encoder control | `video/encoder.rs` | coded size, `force_idr`, openh264 | `encode`, re-creation on a new size | stream loop |
| Picture ciphers | `crypto/mirror_aes.rs`, `crypto/chacha.rs` | the kept rest of a block; the nonce counter | `encrypt_frame`, `seal` | stream loop |
| Session tasks | `app/mirror.rs` | broadcast of the first frame, intervals, the connection behind a `Mutex` | relay, feedback, heartbeat, audio start, return of `run_mirror` | stream loop, RTSP connection |
| RTSP connection | `protocol/airplay_conn.rs` | `cseq`, the socket | `rtsp_request`, `post`, `read_rtsp_response` | TV |
| Session setup | `protocol/mirror.rs`, `mirror_rtsp.rs`, `pair_verify.rs`, `fp_setup.rs` | ports, ids, latency, diagnostic flags | the chain connect ... volume; the timing responder; the acceptor of the event port | TV on TCP and UDP |
| Event channel | `protocol/mirror_rtsp.rs` | the reassembly buffer | `receiver_event_loop` | TV |
| Pairing and its store | `pairing/credentials.rs`, `legacy_pin.rs`, `core/config.rs`, `app/cli.rs` | a JSON file, a snapshot of it per command, a pairing in progress | `load`, three steps of pair-setup-pin, `upsert`, `save` | TV, the user, other commands |
| FairPlay emulator memory | `fpemu/fpexchange_interp.go` | page map, 16-slot page cache, snapshot of the code | `read8..64`, `write8..64`, `readN`, `writeN`, `mapRange`, `setCodeRegion`, `fetchInst` | interpreter |
| FairPlay emulator instructions | `fpemu/fpexchange_interp.go` | registers, vectors, flags, the program counter | `fpStep`: about a hundred ARM64 instructions | memory |
| FairPlay exchange | `fpemu/fpexchange_interp.go`, `fpexchange_data.go`, `tools/fpsap-helper/main.go` | the loaded snapshot, a bump heap, the names of stubs, a count of instructions | loading, fixups, sealing the code; `fpRun`; libc, digest, cipher and dispatch stubs | instructions, memory; a process of its own, asked by the setup |
| Audio silence | `protocol/audio_rtp.rs` | RTP time, sequence number, sync counter | pacing, packets, syncs, the ALAC writer | TV on UDP, session clock |
| Session clock | `core/ntp.rs`, `protocol/ntp.rs` | an `Instant` | NTP fixed point with and without an epoch | audio, timing, video headers |
| Mirror packets | `video/mirror_packet.rs` | none | splitting an access unit, parameter sets, avcC, headers and their stamps | stream loop, session clock |
| Scaling and pacing | `video/encoder.rs`, `pacing.rs` | none | fitting sizes, bit rates | capture, stream loop |
| Capture | `capture/*.rs`, `app/mirror.rs` | the display that was opened, objects of the window system, the last frame | choosing and opening a display, `grab_frame` per backend, the capture task | window system, frame channel |
| Discovery | `discovery/*.rs`, `core/device.rs` | a daemon, a deadline, devices found | browse, resolve | pairing, setup |
| Placeholders and utilities | `app/audio.rs`, `core/session.rs`, `pairing/homekit.rs`, `tlv.rs`, `protocol/http.rs`, `rtsp.rs`, probe, logging | - | - | - |

How the parts meet in one session:

    capture task --frame channel--> stream loop --data socket (TCP)--> TV
                                       |  first-frame oneshot
                                       v
                                  run_mirror: relay --broadcast--> feedback, heartbeat, audio
                                                                       |  Mutex
    setup chain ------------------RTSP connection (TCP)<---------------+----> TV
    timing responder, event acceptor <--- UDP / TCP opened by the TV
    event loop -----------------> event port opened by this side

### What is hard here, and what correctness means

* *Frame channel.* `select!` drops a half-run `recv` whenever a timer wins;
  `Notify` keeps one permit; dropping the sender notifies nobody. Correct: the
  receiver never sleeps on a full slot, gets the newest frame, each at most
  once; drops are counted exactly; the loop notices the end.
* *Stream loop and encoder.* The picture size, the parameter sets already sent
  and the wish for a keyframe are kept in three places; access units may have
  no picture. Correct: no picture before the parameter sets of its size, a
  keyframe behind new ones, a nonce per picture and for nothing else, and a
  first-frame signal that means a picture is out.
* *Session tasks.* Two tasks and `run_mirror` share a connection on which
  requests and responses are matched by position only, and a response may be
  abandoned half read. Correct: one exchange at a time, a task takes its own
  response and nothing else but what an abandoned one left in front of it,
  nobody starves, `run_mirror` returns.
* *Setup.* Both sides wait for each other over two transports, one of which
  loses messages; the TV may change what it was asked for. Correct: it
  completes with a TV that is willing, ends with one that is not, and both
  sides agree on what was negotiated.
* *Event channel.* Requests arrive cut and pipelined, and at 64 KiB the buffer
  is cleared, whatever is in it. Correct: answers in order, one each, none early,
  none forgotten; and where the clearing makes that impossible, none twice.
* *Picture ciphers.* Blocks are shared between frames of any length. Correct:
  no keystream byte is used twice and the frames form one stream.
* *Credentials.* No lock, no atomic replace. Correct: whatever is stored or
  handed out is registered on the TV it is filed under, and a loss is noticed.
* *Emulator memory.* Page cache, pages made on demand, split accesses.
  Correct: the guest sees flat memory.
* *Emulator instructions.* Decoding is a cascade of masks in which the order
  matters, widths mix, carry and overflow are told from wrapped sums. Correct:
  every instruction the guest has does what the ARM architecture says, and none
  is refused or taken for another.
* *FairPlay exchange.* The snapshot has only the bytes that a recorded run
  touched, each once, and whatever is missing reads as zeros or as a stub,
  silently. Correct: what the guest names is there when the code is copied,
  heap blocks are apart, the run ends.
* *Packets and clock.* The encoder delimits units in three ways that must be
  told apart; stamps are fixed point of another unit. Correct: the TV parses the
  slices the encoder made, and pictures are stamped as far apart as they leave.
* *Capture.* A display is an index that is looked up up to three times while
  monitors come and go; a grab has several steps that may fail. Correct: the
  display asked for, nothing left acquired, no old picture sent for a new one.
* *Audio, discovery:* see the plan. `PROJECT.json` lists the hazards of all
  parts at their lines.

## 2. Modules and how they correspond to the code

| Module | Code | Steps |
|---|---|---|
| `LatestValue` | the promise of `LatestFrameSender/Receiver` | publish, deliver, close, end, abandon |
| `FrameChannel` | `send`, `recv`, `Notify`, the branches of `select!` | one poll of a future is a step |
| `StreamLoop` | `run_stream_loop`, `send_access_unit`, `SoftwareEncoder::encode`; extends `FrameChannel` | from one await to the next |
| `MirrorTasks` | `run_mirror`, `rtsp_request`, `post`, `read_rtsp_response` | a task from one await to the next |
| `ReceiverEvents` | `receiver_event_loop` and its parsers | a read; one round of the parsing loop |
| `MirrorSetup` | `MirrorConnection::connect` and what it calls | a request, or the processing of its response |
| `MirrorAes` | `MirrorAesCtr::encrypt_frame` | one frame |
| `VideoPackets` | `send_access_unit`, `mirror_packet.rs`, `core/ntp.rs`; extends `MirrorAes` | one access unit, a timing reply, time passing |
| `Credentials` | `PairingManager`, `pair_setup_pin`, `CredentialsStore` | an exchange, an open, a write |
| `FlatMemory` | what a guest may expect of memory | one access |
| `FpMemory` | `fpMem` | one page lookup and the bytes it moves |
| `FpFlags` | `fpAddWithCarry64/32`, `condHolds` and the instructions that set flags | one instruction |
| `FpWords`, `FpDecode`, `FpExecute`, `FpSimd` | the helpers on words, the switches of `fpStep`, one operator per `fpExec` function | none: operators |
| `FpArm` | what the ARM manual says of the same encodings | none: operators |
| `GuestCode`, `GuestData` | `fpexchange_data.go`: pages, spans, jumps, stubs, fixups, pointers | none: data |
| `FpInstructions` | `fpStep`; extends `FpFlags` and `GuestCode` | one instruction |
| `FpExchange` | `FPSAPExchangeStandalone`, `fpRun`, `handleStub`, `fpDynStubClassify`; extends `GuestData` | a page, a fixup, an argument; an instruction or a stub |
| `PictureSize` | `fit_stream_dims` | none: operators |
| `Capture` | `create_capture_backend`, `DxgiCapture`, `X11Capture`, the capture task, the synthetic source; extends `PictureSize` | one listing of the displays; a grab up to a call that may fail |

`*Proofs` modules extend the modules they are about: `StreamLoopProofs` also has
the proofs of `FrameChannel`, `VideoPacketsProofs` those of `MirrorAes`,
`FpGuestProofs` those of `FpFlags`, of `FpInstructions` and of the snapshot and the heap of
`FpExchange`,
`SetupProofs` those of `MirrorSetup` and `ReceiverEvents`. `MC*` modules only
supply constants. Definitions marked `Mutant:` are plausible errors in the definition
that follows; with one of them put in its place the property named in
`PROJECT.json` fails, which shows that the property depends on that code.

*FrameChannel.* A frame is its position in the sequence of frames sent; `sent`,
`taken` and `last` are history. `waiter` is the `Notified` future inside a
pending `recv`. `CancelRecv` is what `select!` does to it when another branch
completes: a wake-up that was given to it and not yet seen is handed on, which
is what the documentation of `Notified` promises (tokio is external). `Finish`
and `Fail` stand for a branch's handler; `StreamLoop` refines them.

*StreamLoop.* It adds to the channel's variables the encoder, what
`send_access_unit` remembers, the data socket and what the TV has understood.
openh264 is external: it answers an intra request with an IDR picture behind
parameter sets or skips the frame, in which case the request stays pending.
A run of the loop is a run of `FrameChannel` (property `ChannelSpec`).

*MirrorTasks.* The stream loop is reduced to what `run_mirror` sees of it. The
`Mutex` is a FIFO queue, as tokio documents. A response is a head and perhaps a
body in a later segment; a head can be unparsable, in which case its body stays
in the socket for whoever comes next. There it stands in front of the next head,
and `parse_status` takes the second word of the first line whatever that is: a
body of one word glued to `RTSP/1.0 200 OK` does no harm (`ReadJoined`), one that
has a second word may be a status or an error (`ReadJoined`, `ReadGarbled`), and
one with an empty line of its own is read as a response, without its turn
(`ReadStray`). From then on the connection is `astray`: any read may end in any
way or never. `cseq` counts modulo a small number.

*ReceiverEvents.* The byte stream is cut into pieces by what the parsers see in
it: a request line, lines with CSeq or Content-Length, an empty line, other bytes,
text or not. A head is four pieces, a body any sequence of them, so that a body
may hold empty lines and lines like those of a head. A read returns any number of
pieces; `Limit` is 64 KiB in pieces. `HeaderEnd`, `ContentLen`, `Cseq` are what the
parsers compute of whatever is in the buffer, be it a request or the rest of one.
`Clear` throws the buffer away between pieces or within one, in the middle of a
head as well as of a body: what is left of a line is then no line the parsers
know, and of a character no UTF-8.

*MirrorSetup.* `Order` is the chain of awaits; `asked` and `answer` are the
exchange that is going on. The TV is external: `helpful` is a TV and a network
that refuse nothing, and for which the setup must complete. It answers the audio
SETUP only after a reply on the timing port, as the comments of the code say.
`acceptor` says where the event task listens: on the timing port's number, which
is what the TV is told, or on another port when that one is taken for TCP.
The TV may name any plist value as its stream id; `PlistInt` is `plist_int`, which
makes 0 of an integer above `i64::MAX` (`MaxSigned`) and of what is no number, and
an integer of a real.

*MirrorAes.* The keystream is the sequence 0, 1, 2, ...; a ciphertext is the
positions it was combined with. `og` holds the position where the kept block
begins, `next_crypt_count` how many of its bytes are left.

*VideoPackets.* Bytes are numbers; an access unit is a sequence of NAL units that
`Bitstreams` delimits as openh264 (external) or one of the other forms that the
comments of `extract_nals` name may. A unit is what H.264 says it is (`Unit`): not
empty, its length fits the two bytes of the avcC record, it neither begins nor
ends with a zero byte and holds no start code; `UnitsAssumption` asks this of the
access units and is all the proofs know of them. `AccessUnitArrives` parses the
packets as the TV has to. Time is counted in units of which `Second` make a second, and
stamps in `Fraction`s, so that the carry from the bias into the seconds happens;
`stamped` keeps the last stamp of each kind with the time it was made.
Two facts from writing it down, which no run is about: a unit with a length
prefix whose first NAL has 1 byte or 256 to 511 would be taken for Annex B
(openh264 emits Annex B, so it does not happen), and a latency of 1 ms, as
for a TV that names none, makes the bias of every picture the least one of 5 ms.

*Credentials.* Each process is one command; credentials are the number of the
key pair they hold. `Open` empties the file, `Write` fills it; two writers may
overlap, which leaves the tail of the longer text (`Overwritten`). Before a key
is stored the TV has to have seen it in step 3.

*FpMemory.* Page objects are numbered in the order they are made; slot 0 of the
cache matches page 0 from the beginning, as in the code, and is told apart by
its nil object. An access is an operation in progress, and each piece is one
`pageCached` and the bytes it reaches. Addresses wrap as `uint64` does, at a
smaller power.

*FpFlags.* Words are integers below `Half64 * 2` and `Half32 * 2`; `last` is the
history of the instruction that set the flags: its operands and its width. The
64-bit carry is the code's comparison with the wrapped sum, the 32-bit one is
read off the wider word. Addition and subtraction with immediates, shifted and
extended registers differ in where the operands come from and are one action;
so are the logical ones. Registers and the decoding of operands are those of
the next paragraph.

*FpInstructions.* Words of 64 bits are sets of bit positions, since no integer of
TLC is wide enough; masks and shifts are then set theory. `FpDecode` has the
switches in the code's order, `FpExecute` and `FpSimd` one operator per `fpExec`
function, from a processor to the processor after it, with the code's oddities;
`FpArm` gives the results anew from the ARM manual, by other means (bit by bit,
by the columns of written arithmetic, a vector as one word). A step executes one
instruction on one of the given contents of the processor. `GuestCode` has one
instruction of each kind of each page of the guest: of each operation, size,
mask and shift. The interpreter differs from the architecture in places the
guest does not have (`GuestExecutes` says so): `FMOV` of a scalar immediate is
unreachable behind an earlier case; `SHL` is tested before `MOVI`, so that
`ORR` of an immediate with cmode 5 executes as a shift; `MOVI` takes odd cmodes
for moves and cmodes 9 to 11 otherwise than the manual; `MOVK` to a W register
keeps the upper half; `EXT` of 64 bits uses the high halves; atomics are taken
for loads with a register offset; SIMD loads with a register offset and
`LDNP`, `STNP` are refused; a write-back comes before the transfer. `LeftOpen`
names the encodings of which the architecture itself says nothing, a base
register that is written back and loaded for instance, or a word of 32 bits
that is shifted by more; none is among those tried (`EncodingAssumption`).

*GuestCode, GuestData, FpExchange.* The snapshot is there as it is: 77 pages with
the spans of bytes each lists, 138 fixups, the named stubs, and of the code
where its jumps, calls and runs-on lead and which pages its `ADRP`s name. Of the
places they lead to, those the recorded run did not get to are not in the snapshot
(`lacks`, such as the target of the `cbnz` to 0x1a12a2694); they are kept apart
(`Unrecorded`), and the guest finds a stub there.
Addresses are pairs of a page number and an offset. `FpExchange` loads it page
by page, applies the fixups, maps the trampoline, copies the code region, puts
the arguments on the heap and runs. What the guest does is left open: an
instruction leads to any of `Places`, leaves any of `Links` in the link register
or is refused. It may do so, as its code uses x30 as scratch too. The heap is
counted from the page it begins in, in words below `Word`. Facts that the
model rests on or shows: no fixup writes where there is something or reads what
another one wrote, ten of them read bytes that are partly absent, and twelve
places where execution runs on from one span into another exist only after the
fixups. Oddities of the run, which are in the model: the branch of
`fpRun` for missing code does not compare the count with the limit; a stub
address keeps the name that its first call got, by what the registers looked
like; sizes wrap near 2^64, in `calloc` too; a result that is too short is
twenty zeros and no error, and the guest's return code is never read.
(`_realloc` copies nothing and `dispatch_once` sets the predicate without
calling the block; both are effects on memory, which is left out.)

*Capture.* A picture is the version of the screen it shows and its size. `dirty`
is what DXGI knows of changes since the last `AcquireNextFrame`, `held` the
frames acquired, `missed` the history of a change that was acquired and not
copied. What is sent has its size fitted (`Fit`), by `f64` arithmetic that may
miss a whole number from below: `ShortWidths` and `ShortHeights` are the sizes
for which it does, 2384 by anything up to 1344 for example, and the
proofs hold for any. An X11 output that is off has a position but is no display. Listing the
displays is one step although it asks the server for one output after another;
between listings, and under DXGI afterwards, monitors change at will
(`MonitorsChange`). DXGI and the X
server are external: a duplication is lost when its output goes or changes its
mode, and a texture is not rotated with its monitor.

## 3. Runs

`tlc -workers 2 -config X.cfg M` in this directory; each takes between a second
and two minutes.

| Run | Instance | Distinct states | What it shows |
|---|---|---|---|
| `frame_channel` (`MCFrameChannel.cfg`) | 5 frames | 975 | Conservation of frames, no lost wake-up, the loop ends after the sender is gone, drops get reported, refinement of `LatestValue` with its liveness |
| `stream_loop` (`MCStreamLoop.cfg`) | 4 frames, 2 sizes | 52,633 | Pictures have their parameter sets and keyframe, nonces in step, the first-frame signal, refinement of `FrameChannel` with its fairness |
| `mirror_tasks` (`MCMirrorTasks.cfg`) | CSeq modulo 3, audio on | 20,854 | The invariant of the proof with one exchange at a time; what a keepalive reads answers its request, but for what a failed one left in front; keepalives and audio start, are served, and `run_mirror` returns unless it waits on a connection that went astray |
| `receiver_events` (`MCReceiverEvents.cfg`) | 3 requests, bodies of 1 and 4 pieces, with empty lines and a CSeq, clearing above 5 | 293,975 | While requests fit, answers in order, never early, none passed over; none twice however the buffer is cleared; modest requests are all answered |
| `receiver_events_binary` (`MCReceiverEventsBinary.cfg`) | 2 requests | - | *Violation*: a request that is not text gets no answer |
| `mirror_setup` (`MCMirrorSetup.cfg`) | 2 stream ids, 5 more that the TV may name, 1 latency and the default | 170,044 | RECORD comes when everything is ready, latency agreed, and the id if it is an integer up to `i64::MAX`, the hint is right, the setup ends, and completes with a willing TV |
| `video_packets` (`MCVideoPackets.cfg`) | blocks of 8, 21 bytes in all, slices of 1 to 5 bytes, parameter sets, delimiters, messages | 19,036 | The TV gets slices and parameter sets whatever delimits them; one stream, no keystream byte twice; stamps keep the distances of what they stamp |
| `credentials` (`MCCredentials.cfg`) | 2 commands, 2 TVs, 3 key pairs, faults | 112,344 | Only registered credentials, losses are noticed |
| `fp_memory` (`MCFpMemory.cfg`) | pages of 8, 3 pages, 2 cache slots, 2 accesses | 105,004 | Refinement of `FlatMemory`, the invariant of the proof with the page table |
| `fp_instructions` (`MCFpInstructions.cfg`) | the guest's instructions and 750 other encodings, 3 contents of the processor; for the flags words of 8 and 4 values, a code of 2 | 7,407 | Every instruction leaves what ARM says, at the addresses ARM says; the guest has none that is refused or misread; every condition decides as the operands compare |
| `fp_exchange` (`MCFpExchange.cfg`) | the snapshot, 13 places, 4 values, words below 4992, a limit of 4 instructions | 44,864 | The snapshot is whole when its code is copied, but for the places the recorded run did not get to; heap blocks are apart, the run ends but for one loop |
| `capture` (`MCCapture.cfg`) | 3 monitors, 2 of them virtual and 1 rotated, 2 sizes, 2 changes of the screen, 1 of the monitors, 1 failure | 352,226 | The right display, frames released, sizes announced and encodable, no stale picture, changes are sent |

**Bounds and why they are enough.**

* `MaxFrames` (channel 5, loop 4) bounds the frames sent. A frame matters only
  as newest or overwritten, so three are enough to overwrite, deliver and be
  left over; the rest leave room for a size change after a skipped frame and
  back. `Sizes` has two members because only "same or different" is looked at.
* `CSeqs` = 3 tells the current request from the previous one of either task;
  more cannot be in flight, which `OneExchange` says.
* `MaxRequests` = 3 with requests of 5 and 8 pieces and a limit of 5 gives a
  request cleared in its head, its body or a line, with another one behind it that
  is read together with the rest and cleared as well, and one after that.
* `StreamIds` has the smallest and the largest; the TV may name another, one below
  zero, one too large, a real that saturates and no number. The chain of the setup
  is finite and needs no bound.
* `Block` = 8 and 21 bytes in all, with access units whose payloads have 5 bytes
  and more, make pictures that fit into what is kept of a block, end with it, go
  past it and skip one; the proofs cover all other sizes. Slices have no byte, one
  byte, zeros in front and an emulation prevention byte behind the first, which
  is what the scan for start codes can trip over. `Second` = 2, `Fraction` = 3 and
  a bias of 1 carry into the seconds every other time; `MaxElapsed` = 2 lets the
  clock pass a second between a reply and a picture.
* Two commands are enough to overlap, two TVs to lose what another command
  stored, three key pairs to replace one as well. `Processes` and `Devices` are
  symmetric, and the runs with symmetry check invariants only.
* Pages of 8 bytes are the smallest that can be crossed by 8-byte words as well
  as by their 4-byte halves; with 3 pages and 2 slots, pages 0 and 2 share slot 0,
  which is the one that matches page 0 before it holds anything; a block of 11
  spans three pages. `MaxOps` = 2 makes a write and the access that sees it;
  pages mapped before or between them come for free (`MapRange` is not
  counted). Two writes before a read are covered by the refinement, which is
  step by step.
* Words of 3 and 2 bits have every pair of signs, a carry and an overflow with
  and without each other, and bits of the wider word that the narrower one must
  not see; the proof covers all sizes. They are for the flags only.
* The instructions are executed on full words of 64 bits. The guest's run on
  contents 1 and 3, the others on 2 and 3 (`GuestFills`, `OtherFills`): two with
  unlike signs and carries, and one with 0, -1 and the smallest and largest
  numbers in the registers. The flags before an instruction are varied only for
  those that look at them. `Others` has every combination of the bits that
  choose an operation, a size or a form for each group of encodings.
* `Places` has the entry, code that only a fixup brings, missing code, a `BRK` and
  a named stub of each kind that differs for the heap or the run; a `_malloc`
  and a `_nop` each stand for many names. `Values` has nothing, 164, an address
  of code and -1, so that products, round-ups and the heap wrap. Four
  instructions are enough to classify an address and come back to it;
  `MaxBlocks` = 10 is reached only in the loop that the limit does not see: the
  arguments take five.
* Two monitors at a time (`MaxMonitors`) out of three shift an index onto a real
  monitor, another virtual one or nothing. Two changes of the screen make an old
  and a new picture of a grab that failed (`MaxFailures` = 1) between them. Macroblocks
  of 2 and pictures of up to 4 by 4 have sizes of 6 by 3 and 3 by 6 rounded and
  scaled in either side, one of them just missed. One
  change of the monitors may do all at once: unplug, plug, switch, resize; a
  second one during a grab makes no difference to what is already lost.

`CHECK_DEADLOCK FALSE` is set wherever the system may stop (the loop has ended,
the setup is over, the connection is closed, no display can be opened, the bound
is reached).

**Fairness, and why the code justifies it.**

* `FrameChannel`, `StreamLoop`: handlers complete (weak fairness); in
  `StreamLoop` this includes that the TV drains its socket, since writes have no
  timeout. `recv`, the end of the stream and the watchdog's tick are strongly
  fair: `select!` polls its branches in random order, and its intervals are due
  again and again but at most once a second each, so no branch that is ready
  again and again is passed over for ever. Nothing is assumed of the producer
  or of the data heartbeat.
* `MirrorTasks`: tokio polls tasks that are woken and its timers fire; the
  `Mutex` is a FIFO queue, so the lock needs no fairness of its own. The TV
  answers or closes, which is an assumption: no request has a timeout. Of a
  connection that went astray it is not assumed that what the task waits for ever
  comes, only that its end is noticed. The stream loop need never end.
* `MirrorSetup`: `connect` and its tasks are polled. Datagrams may be lost any
  number of times, but a probe that is sent again and again gets through, and
  so does a reply (strong fairness of `AnswerProbe` and `TvSyncs`). As above the
  TV answers or closes.
* `ReceiverEvents`: the loop is polled when the socket is readable, and the TV
  completes a request it has begun unless it closes.
* `Capture`: the task grabs in a loop, each grab on a thread of its own, so a
  grab that can go on does (weak fairness of `Grab`). Grabs that fail are no part
  of it, and nothing is assumed of monitors.
* `FpExchange`: one thread executes one step after another, so a run that can go
  on does (weak fairness of `Next`). Nothing is assumed of the guest.
* `Credentials`, `FpMemory`, `FpInstructions`, `VideoPackets` are checked for
  safety only.

**Where the code and its texts differ.**

* `rtsp_request_meta` wants head and body together to be UTF-8. The comments
  above `receiver_event_loop` say that every request is answered with 200 OK,
  that the payloads are plists and that silence causes a reset; a binary plist
  is drained without an answer. `ModestRequestsAnswered` states what does hold,
  and the run `receiver_events_binary` shows the rest.
* Two more, which are not runs. `core/ntp.rs` (lines 3 to 11) wants one clock for
  timing replies, audio and video, and says that headers which omit the NTP epoch
  are dropped by the TV as long past; video headers do omit it
  (`mirror_packet.rs:14`, `core/ntp.rs:51`), while the replies carry it. No property
  here says that a picture is not stamped in the past: by the epoch, it is.
  `StampsPaced` says only that what it is off stays the same. And `pair` writes back the store it
  loaded before the user typed the PIN: of two commands that overlap, the later
  one takes the earlier one's credentials away, which is why `LossIsNoticed`
  speaks of commands that did not overlap.
* Met while reading, in code that is not modelled yet: `BitWriter::write`
  (`protocol/audio_rtp.rs:393`) puts the low bits of a value first when it does
  not fit into the current byte. Only the sample count of the ALAC header is
  affected (352 behind 23 bits becomes 0x58000000); the comment at line 361 says
  that a frame has `spf` samples per channel.
* `RunEnds` has an exception, which is in the code although no text excludes it: a
  stub or missing code that is reached while the link register holds its own
  address returns to itself, and those branches skip the limit.

## 4. Proofs

`tlapm M.tla` checks them. Assumptions are the `ASSUME`s of the modules, all of
them about constants, which TLC evaluates in the runs; they ask for naturals,
for finite sets where sizes are compared, and in `FpMemory` for page sizes that
are multiples of 8 and for payloads of the sizes the code has.

* **`StreamLoopProofs`, the channel** - for any number of frames. Conservation is
  not inductive without knowing that an occupied slot holds the newest frame, nor
  is "no sleep on a full slot" without knowing that the loop has no `Notified`
  outside `select!`; the invariant adds `SlotIsNewest`, `LastWasSent` and
  `NoFutureOutsideSelect`. From it follow `FramesConserved`, `WakeupNotLost`,
  `NewestOnly`, and `ImplementsLatestValue`: the initial state and every step of
  the channel map to the abstract queue or leave it unchanged.
* **`StreamLoopProofs`, the loop** - for any number of frames and any sizes. The
  steps of the loop are steps of the channel or leave it alone (`UsesChannel`), so
  that the channel's invariant is at hand. On top of it `LoopIInv` relates what
  the three places know: the TV has the parameter sets that `codec_sent` stands
  for (`CodecAtTv`), an access unit that is being sent is of the size the loop
  believes in (`UnitBeingSent`), and unless an intra request is still open the TV
  has a keyframe behind the current parameter sets (`KeyedUnlessRequested`).
  `PictureBehindItsCodec` and `KeyframeBehindCodec` follow. The nonces
  (`NoncesInStep`) need that at most the picture being written is sealed and not
  out (`SealedInStep`); the first-frame signal (`SignalsFirstPicture`) that each
  picture has an access unit of its own, and each access unit a frame
  (`PicturesFromUnits`, `UnitsFromFrames`).
* **`MirrorTasksProofs`** - for every modulus of CSeq, against a TV that answers,
  garbles, splits or closes. That a request meets no other (`OneExchange`) and
  that each keepalive reads its own response, behind at most the body of a request
  whose sender gave up (`ResponsesMatch`, an action property), both need two more
  facts. `QueueSound`: nobody is in the queue of
  the `Mutex` twice, and whoever is in an exchange is at its head. `WireSound`:
  between exchanges the wire has at most the body that was left behind a head
  which could not be parsed, and during one, besides that, the request or the
  answer to it, with its CSeq (`InStep`); that ends with the step that takes such a
  body for a response (`astray`), behind which `ResponsesMatch` promises nothing
  but that nobody else reads.
* **`SetupProofs`, the setup** - for any stream ids, latencies and order of events,
  with datagrams lost and connections closed at any time. What each answer
  settles stays settled: `AudioSettled`, `VideoSettled`, `DataSettled` and
  `LatencySettled` say so for every await behind it, which takes the order of the
  chain (`NextAwait`, from `Order` by uniqueness of its members). The key is that
  of the id the TV named as far as `plist_int` leaves it alone (`SessionAgreed`). That the
  hint of a failed setup is right (`BlameIsRightHolds`) needs that the flag is up
  before a reply is out (`ProbeSeen`): a probe that was answered was seen.
* **`SetupProofs`, the event channel** - for any bodies, any cutting of the
  requests and any limit. `EventInv` is about what has been answered; it is
  inductive with what is still to be parsed. The buffer and what is on its way are
  one sequence of pieces that keep their order and distances, whatever is missing
  between them (`Known`, `Spaced`, `ToEnd`, `InTurn`). While requests fit nothing is
  ever cleared, so that the pieces are whole and the sequence begins with a request
  line (`InStep`): what the parsers find is then one request (`ParsedRequest`). However
  it was cleared, the lines with a CSeq that are still to come are of later requests
  than those answered (`Ahead`, by `CseqPlaces` and `UsedUp`), so that none comes
  twice.
* **`VideoPacketsProofs`, the cipher** - for every block size and every length of
  payload. That no byte of keystream is used twice (`KeystreamNotReused`) needs to
  know where the unused ones are: what is kept is the end of the last block made
  (`KeptIsTail`) and everything used lies before it (`NothingAhead`); that frames
  form one stream (`StreamsAsOne`) needs in addition that the cipher's position
  less what is kept is the number of bytes encrypted (`InStep`).
* **`VideoPacketsProofs`, packets** - for every unit of time, epoch and bias.
  `StampsKeepTime` rests on the fixed point of a sum being that of its parts, or one
  more, although it divides twice and carries into the seconds (`StampsKeepPace`,
  by `QuotientOfSum`), and on a stamp being the one of its time (`StampsOK`). `ParameterSetsFound` is about data: a TV that reads the avcC
  record as its format says gets back the parameter sets that were put in, for
  all of them; it is put together from `Announced`, one set with its length.
* **`VideoPacketsProofs`, access units** - `UnitsExtracted` says that
  `extract_nals` finds the units again in whatever form of the three the encoder
  delimits them, for any units and any number of them, and `UnitsArrive` that the
  TV then gets every slice, in order and whole (`AccessUnitArrives`). The
  invariant behind it, `Arrival`, says what the last packets are in terms of the
  units put in. Both are about recursive functions and need induction. The
  induction theorems of the library take an operator as a parameter; `Induct`
  does without: it is about a *set* of numbers, and rests on the least member of
  its complement (`WFMin`). With it `ReaderExists` and `BuilderExists` show that
  a reader or a concatenation defined by recursion along positions is the
  function its equation says it is, and the rest is about what lies where in the
  bytes: a start code is where one was put and nowhere else (`NoneWithin`,
  `EndFound`), and units with a length prefix are read one by one (`TvReads`).
* **`CredentialsProofs`** - for any commands, TVs and numbers of pairings, with
  crashes and overlapping writes. What is in the file comes from a snapshot, a
  snapshot from the file or from step 3; so the invariant asks the same of the
  snapshots (`SnapshotsRegistered`) and of the key of a command that is about to
  save (`SavedKeyRegistered`), which needs that it has one (`KeyPairMade`).
  `NothingLostUnnoticed` has an invariant of its own: as long as commands did not
  overlap (`Undisturbed`), one runs at a time, it holds all that was handed out,
  its key pair is the newest there is, and the file it writes has been emptied.
* **`FpMemoryProofs`** - for every page size, number of pages and of cache
  slots. `PageTable` says that the cache agrees with the page map and that pages
  share no object. That it stays so, and that every piece stays within its page
  and within its data, depends on how far an access can be when it goes on:
  `Progress` (a word within a page is not begun; a word of 8 bytes is never in
  the middle of a half that lies within a page).
* **`FpMemoryProofs`, `ImplementsFlatMemory`** - every step maps to a step of
  `FlatMemory` or is not seen in it: a write is done where it begins, since `Memory`
  has its data from then on, a read where it returns. A page lookup changes no
  byte, whichever page it makes or entry it replaces (`Lookup`); a piece of a
  write stores what was to be stored and nothing else (`PieceStored`, with the
  arithmetic of addresses that wrap: `Behind`, `BehindAt`); and the bytes a read
  has gathered are those memory has, as nothing is written meanwhile (`Gathered`).
* **`FpGuestProofs`, the flags** - for words of any two even sizes. The invariant
  says of the last instruction that set the flags what each flag means; its heart
  is the lemma `WordSum`: the wrapped sum is the sum, or less by one modulus, and
  the carry tells which. `Comparisons` then follows by arithmetic on the operands.
* **`FpGuestProofs`, the heap** - for every guest, every word size above a page and
  any number of allocations. That blocks are apart (`HeapBlocksApart`) is not
  inductive without knowing where the next one goes: behind all others, on a
  multiple of 16; that nothing asked for has exceeded a word (`wrapped`) is what
  keeps the rounded size no smaller than the one asked for. Alignment needs no
  such condition, as a word is a multiple of 16.
* **`FpGuestProofs`, the snapshot** - for every snapshot that has what the named
  assumptions of `FpExchange` ask for, from `PagesAssumption` to
  `GuestAssumption`; TLC evaluates them on the one there is. They are about the
  data alone: pages are listed once, spans and targets of fixups are apart, jumps
  lead to what is listed or copied, or to the places named as not recorded, where
  nothing is, and `ADRP`s to what is there. `SnapshotWhole` is about the
  program: what is in memory at each phase, and in the copy of the code. The
  invariant `LoadedInv` says that memory is the union of the parts put so far,
  that is pages and then fixups in their order (`PutPart`), and that the copy,
  once there, has all of them. Since parts are apart (`PartsApart`), what a
  fixup reads is what its page listed, however many fixups ran before
  (`CopiesListed`).
* **`FpGuestProofs`, the instructions** - for every encoding that the
  architecture says something of (`EncodingAssumption`) and every contents of
  registers of 64 bits (`ContentsAssumption`), where TLC tries one of each kind
  and three contents. `AddressesSafe`: the bytes that an instruction stores and
  where are those of `FpArm`, for all forms of access;
  `BranchesSafe`: so is the program counter, for every instruction;
  `FlagsSafe`: so are the flags, set by sums, differences, conjunctions and
  conditional compares and kept by every other instruction. The code
  adds by carries that ripple through a word, the architecture by columns of
  twelve bits, with `Number` a sum of powers over a set; `ArmSumIs` shows that
  both are `SumOf`, the sum bit by bit. It needs induction along the columns
  and along the positions of a carry (`Induct`), and that adding the powers of a
  set in any order gives the same (`Adds`). A field of an instruction is then
  the sum of its bits (`Fields`), so that which handler an instruction gets,
  and that it is refused when it gets none (`Dispatches`), is a matter of cases;
  every handler either leaves the program counter to `Advance` or is a branch,
  and either stores nothing or what `ArmStored` says. Of the flags the carry
  and the overflow are not found as the architecture defines them: the code
  compares the wrapped sum with an operand, which tells the carry because above
  the highest bit in which they differ the carry is only passed on (`CarryOut`),
  and it compares signs, where the architecture has a sum of one digit more
  (`AddWithCarryIs`). Shifts and masks are runs of bits in both (`ShiftIs`,
  `MaskIs`), the masks with the element found from the leading one of `N:NOT(imms)`
  (`SizeIs`) and the run rotated in it (`RunIs`). The invariant,
  `MachineInv`, says that the machine holds what the last instruction made of a
  processor with the contents assumed.
* **`CaptureProofs`** - for any monitors, sizes and bounds. `FitOnce`, about
  `PictureSize`: a size that was fitted is a multiple of the macroblock within the
  bounds and is left as it is when fitted again, so that the encoder does not
  scale what the capture task has scaled; it follows from the bounds being
  multiples themselves (`AlignedStays`). Of the capture: that a kept picture
  is the newest (`Kept`) needs to know what a grab under way has in hand; that
  all sizes agree (`AsAnnounced`) that a live duplication still has the mode it
  was opened with; that the display is the one asked for, that the index and the
  display found under it stay right while nothing changes (`Chosen`). An index
  that is chosen among virtual displays exists and is the first because a set of
  naturals has a least member (`FirstExists`).

Each inductive invariant was an invariant of a TLC run before it was proved.

Model-checked only:

* everything under fairness (`EndsAfterSenderDropped`, `DropsReported`, the
  liveness of `LatestValueSpec` and `ChannelSpec`, `KeepalivesStart`,
  `KeepaliveServed`, `MirrorReturns`, `SetupCompletes`, `SetupEnds`,
  `ModestRequestsAnswered`, `PictureCatchesUp`, `RunEnds`), since TLAPS does not
  handle liveness under fairness and `ENABLED`. Of the two refinements with
  fairness the safety part is proved (`ImplementsLatestValue`, `UsesChannel`);
* what the instructions compute besides addresses, the program counter and the
  flags, that is `ComputesAsArm` as to registers and vectors (`RegistersAsArm`,
  `VectorsAsArm`): products, quotients and lanes each have a reference by
  recursion over bits or digits of their own, which the lemma on sums does not
  cover;
* what is about this guest (`GuestExecutes`): there is one instance of it, and TLC
  checks that one. Of the snapshot the assumptions named above.

No module here declares a `RECURSIVE` operator, so that all of them can be proved
about. Recursion is written as recursive functions; outside `VideoPacketsProofs` and
the sums of `FpGuestProofs`, facts that need induction over data are avoided by keeping history
variables (`total`, `used`) instead of sums over sequences.

## 5. What is not modelled

* Cryptography (SRP, Ed25519, ChaCha20-Poly1305, AES, SHA-512, FairPlay) is
  taken as it is: a proof matches or does not, a signature verifies or does not.
* Pixels, encoded bits of a slice and byte counts; logging and statistics other
  than the drop counter; the wording of errors except the hint of a failed SETUP.
* tokio, openh264, the mDNS daemon, X11, DXGI and the TV are external and appear
  as the code uses them.
* Of the FairPlay snapshot the values of constants and white-box tables; of the
  emulator what the library stubs do to the guest's memory (copies, digests,
  ciphers). That the exchange computes the right hash is thus not shown, only
  that the machine it runs on is right.
* The helper process (`main.go`, `fpsap_helper.rs`) reads its input, runs one
  exchange and prints the result; the setup has it as a step that may fail. An
  embedded helper is never extracted, as the build script writes it empty.
* Vendored C (`playfair`), build scripts, the probe, logging.
* `PairingManager::remove`, HomeKit pairing, `rtsp.rs`, `app/audio.rs` and
  `MirrorSession` are reached by no command or do nothing.
* Not yet modelled: the components of the plan below. Hazards without a property
  in `PROJECT.json` belong to them.

## 6. Plan

Done, in this order: the frame channel with its abstract queue, since every
picture goes through it; the stream loop on top of it; the session tasks and
the connection they share; the event channel; the setup; the picture cipher;
the credentials store; the emulator's memory; its condition flags; screen capture
and the size of pictures; the packets of an access unit and the clock of their
stamps; every instruction of the emulator; the snapshot and the run of an
exchange. Next:

1. `AudioStream` - RTP time, pacing and sync packets of `audio_rtp.rs` over the
   clock that `VideoPackets` has: RTP time against the clock that the syncs tie
   it to, at 2^32 too; the epoch of the syncs.
2. `Algorithms` - the ALAC bit writer (see above) and the TLV8 coder as pure operators against
   reference definitions over bounded inputs.
3. `Discovery` - deadline, daemon, the name a device is filed under.
4. `Session` - setup, tasks and loop composed, to state that keepalives run from
   the first picture to the end of a session.

Proofs planned: the registers that sums, logical instructions, bit fields and
loads leave against `FpArm`, with the lemmas that the flags and the addresses
have; then lanes and products.
