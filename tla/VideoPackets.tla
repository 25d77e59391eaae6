---------------------------- MODULE VideoPackets ----------------------------
(***************************************************************************)
(* What becomes of an access unit on its way to the TV: send_access_unit   *)
(* (rotten-video/src/stream.rs) and all of mirror_packet.rs on top of the  *)
(* AES-CTR cipher of MirrorAes, and the clock its stamps are read from     *)
(* (rotten-core/src/ntp.rs), which the timing responder reads as well.     *)
(*                                                                         *)
(* Bytes are numbers below 256, and access units are short: of a length    *)
(* prefix only the two low bytes can be other than zero.  Time is counted  *)
(* in units of which Second make a second.  Writing to the data socket,    *)
(* its failures and the order of packets are in StreamLoop.                *)
(***************************************************************************)
EXTENDS MirrorAes, SequencesExt

CONSTANTS
  AccessUnits,          \* sequences of NAL units the encoder may emit
  Second,               \* units of time in a second (10^9)
  Fraction,             \* fractions of a second in an NTP stamp (2^32)
  Epoch,                \* NTP_EPOCH_OFFSET
  LeastBias,            \* the 5 ms below which no bias goes
  TimestampBias,        \* timestamp_bias
  MaxElapsed            \* time that passes (a bound of the model)

ASSUME ClockAssumption ==
  /\ Second \in Nat \ {0}
  /\ Fraction \in Nat /\ Fraction >= Second
  /\ {Epoch, LeastBias, TimestampBias, MaxElapsed} \subseteq Nat

VARIABLES
  elapsed,              \* NTP_START.elapsed()
  stamped,              \* history: the last timing reply's and the last
                        \* picture's stamp, and when each was made, or -1
  codecSent,            \* codec_sent
  unit,                 \* history: NAL units of the last access unit
  config,               \* payload of its codec packet, or <<>>
  header,               \* of its picture packet
  payload               \* of its picture packet, before encryption

clockVars == <<elapsed, stamped>>
packetVars == <<codecSent, unit, config, header, payload>>
allVars == <<vars, clockVars, packetVars>>

Stamps == {"reply", "picture"}
NoStamp == [at |-> -1, stamp |-> 0]
NoHeader == [len |-> 0, key |-> FALSE, stamp |-> 0]

(***************************************************************************)
(* Taking a bitstream apart.                                               *)
(***************************************************************************)
Code3 == <<0, 0, 1>>
Code4 == <<0, 0, 0, 1>>

\* Length of the start code at position i, or 0.
StartCode(data, i) ==
  IF i + 2 <= Len(data) /\ SubSeq(data, i, i + 2) = Code3 THEN 3
  ELSE IF i + 3 <= Len(data) /\ SubSeq(data, i, i + 3) = Code4 THEN 4
  ELSE 0

\* Mutant: a unit is taken to end at a short start code only.
NalEndShort(data, begin) ==
  LET ends == {j \in begin..Len(data) - 3 : StartCode(data, j) = 3}
  IN IF ends = {} THEN Len(data) + 1 ELSE Min(ends)

\* Where the unit that begins at `begin` ends: at the next start code behind
\* which there is a byte, or with the data.
NalEnd(data, begin) ==
  LET ends == {j \in begin..Len(data) - 3 : StartCode(data, j) # 0}
  IN IF ends = {} THEN Len(data) + 1 ELSE Min(ends)

\* from[i]: the units found from position i on.  Behind a start code that
\* another follows at once, the scan goes on one byte later.
SplitAnnexB(data) ==
  LET from[i \in 1..Len(data) + 2] ==
        LET code == StartCode(data, i)
            begin == i + code
            end == NalEnd(data, begin)
        IN IF i > Len(data) THEN <<>>
           ELSE IF code = 0 THEN from[i + 1]
           ELSE IF begin < end
                THEN <<SubSeq(data, begin, end - 1)>> \o from[end]
                ELSE from[begin + 1]
  IN from[1]

\* The length of four bytes at i; more than there are bytes if it has high ones.
LengthAt(data, i) ==
  IF data[i] = 0 /\ data[i + 1] = 0
  THEN 256 * data[i + 2] + data[i + 3]
  ELSE Len(data)

SplitPrefixed(data) ==
  LET from[i \in 1..Len(data) + 1] ==
        IF i + 3 > Len(data) THEN <<>>
        ELSE LET end == i + 4 + LengthAt(data, i)
             IN IF LengthAt(data, i) = 0 \/ end > Len(data) + 1 THEN <<>>
                ELSE <<SubSeq(data, i + 4, end - 1)>> \o from[end]
  IN from[1]

\* Data that begin with a start code are split at start codes, others by
\* lengths; data that yield nothing are one unit.
ExtractNals(data) ==
  IF StartCode(data, 1) # 0 THEN SplitAnnexB(data)
  ELSE IF SplitPrefixed(data) = <<>> /\ data # <<>> THEN <<data>>
  ELSE SplitPrefixed(data)

NalType(nal) == nal[1] % 32

Byte == 0..255

\* What H.264 says of every unit: it is not empty, begins with its type, does
\* not end with a zero, and emulation prevention keeps start codes out of it.
\* Its length fits into two bytes (a bound of the model).
Unit ==
  {nal \in Seq(Byte) :
     /\ Len(nal) > 0 /\ Len(nal) \div 256 \in Byte
     /\ nal[1] # 0 /\ nal[Len(nal)] # 0
     /\ \A i \in 1..Len(nal) : StartCode(nal, i) = 0}

ASSUME UnitsAssumption == AccessUnits \subseteq Seq(Unit) \ {<<>>}

SpsTypes == {7}
PpsTypes == {8}
VclTypes == 1..5

\* The units of these types, in order.
OfTypes(nals, types) ==
  LET upTo[k \in 0..Len(nals)] ==
        IF k = 0 THEN <<>>
        ELSE IF NalType(nals[k]) \in types THEN upTo[k - 1] \o <<nals[k]>>
        ELSE upTo[k - 1]
  IN upTo[Len(nals)]

\* The last of them, or <<>>.
LastOf(nals, types) ==
  LET found == OfTypes(nals, types)
  IN IF found = <<>> THEN <<>> ELSE Last(found)

PartitionAccessUnit(data) ==
  LET nals == ExtractNals(data)
  IN [sps |-> LastOf(nals, SpsTypes), pps |-> LastOf(nals, PpsTypes),
      vcl |-> OfTypes(nals, VclTypes)]

(***************************************************************************)
(* Putting packets together.                                               *)
(***************************************************************************)
Length16(s) == <<Len(s) \div 256, Len(s) % 256>>
Length32(s) == <<0, 0>> \o Length16(s)

Profile(sps) == IF Len(sps) >= 4 THEN SubSeq(sps, 2, 4) ELSE <<0, 0, 0>>

BuildAvccConfig(sps, pps) ==
  <<1>> \o Profile(sps) \o <<255, 225>> \o Length16(sps) \o sps
        \o <<1>> \o Length16(pps) \o pps \o <<2, 0, 0, 0>>

NalsToAvcc(nals) ==
  FlattenSeq([k \in DOMAIN nals |-> Length32(nals[k]) \o nals[k]])

(***************************************************************************)
(* The clock.                                                              *)
(***************************************************************************)
\* Mutant: the bias does not carry into the seconds.
FixedPointNoCarry(time, offset) ==
  (elapsed \div Second + offset) * Fraction
    + ((time % Second) * Fraction) \div Second

FixedPoint(time, offset) ==
  (time \div Second + offset) * Fraction
    + ((time % Second) * Fraction) \div Second

NtpEpochNow == FixedPoint(elapsed, Epoch)

Bias == IF TimestampBias < LeastBias THEN LeastBias ELSE TimestampBias

\* Video headers omit the epoch.
NtpTimeWithBias == FixedPoint(elapsed + Bias, 0)

Stamp(kind, value) ==
  stamped' = [stamped EXCEPT ![kind] = [at |-> elapsed, stamp |-> value]]

(***************************************************************************)
(* The encoder (openh264, external).  It puts a long start code in front   *)
(* of the first unit and long or short ones in front of the others; the    *)
(* comments of extract_nals add length prefixes, and a unit without        *)
(* anything in front.  A first unit of 1 byte, or of 256 to 511, must not  *)
(* have a length prefix: it looks like a start code.                       *)
(***************************************************************************)
Bitstreams(nals) ==
  {FlattenSeq([k \in DOMAIN nals |-> (IF k = 1 THEN Code4 ELSE code) \o nals[k]])
     : code \in {Code3, Code4}}
  \cup {data \in {NalsToAvcc(nals)} : StartCode(data, 1) = 0}
  \cup {nals[k] : k \in {k \in DOMAIN nals : Len(nals) = 1}}

HasIdr(nals) == \E k \in DOMAIN nals : NalType(nals[k]) = 5

(***************************************************************************)
(* The actions.                                                            *)
(***************************************************************************)
PacketInit ==
  /\ Init
  /\ elapsed = 0
  /\ stamped = [kind \in Stamps |-> NoStamp]
  /\ codecSent = FALSE
  /\ unit = <<>>
  /\ config = <<>>
  /\ header = NoHeader
  /\ payload = <<>>

TimePasses ==
  /\ elapsed < MaxElapsed
  /\ elapsed' = elapsed + 1
  /\ UNCHANGED <<vars, stamped, packetVars>>

\* ntp_timing_responder answers a probe.
AnswerProbe ==
  /\ Stamp("reply", NtpEpochNow)
  /\ UNCHANGED <<vars, elapsed, packetVars>>

\* A new size has unset codec_sent before.
SendCodec(parts, key, resized) ==
  LET needed == key /\ (resized \/ ~codecSent)
                    /\ parts.sps # <<>> /\ parts.pps # <<>>
  IN /\ config' = IF needed THEN BuildAvccConfig(parts.sps, parts.pps) ELSE <<>>
     /\ codecSent' = (needed \/ (codecSent /\ ~resized))

SendPicture(vcl, key) ==
  /\ payload' = NalsToAvcc(vcl)
  /\ EncryptFrame(Len(payload'))
  /\ header' = [len |-> Len(payload'), key |-> key, stamp |-> NtpTimeWithBias]
  /\ Stamp("picture", header'.stamp)

NoPicture ==
  /\ payload' = <<>>
  /\ header' = NoHeader
  /\ UNCHANGED <<vars, stamped>>

SendAccessUnit(nals, parts, key, resized) ==
  /\ HasIdr(nals) => key
  /\ unit' = nals
  /\ SendCodec(parts, key, resized)
  /\ IF parts.vcl = <<>> THEN NoPicture ELSE SendPicture(parts.vcl, key)
  /\ UNCHANGED elapsed

SendSome ==
  \E nals \in AccessUnits : \E data \in Bitstreams(nals) :
    LET parts == PartitionAccessUnit(data)
    IN \E key \in BOOLEAN, resized \in BOOLEAN :
         SendAccessUnit(nals, parts, key, resized)

PacketNext == TimePasses \/ AnswerProbe \/ SendSome

PacketSpec == PacketInit /\ [][PacketNext]_allVars

(***************************************************************************)
(* The TV (external): it deciphers the payloads as one stream, takes units *)
(* by their lengths, and finds the parameter sets where avcC has them.     *)
(***************************************************************************)
Deciphered ==
  [i \in 1..size |-> IF cipher[i] = total - size + i - 1 THEN payload[i] ELSE -1]

TvUnits(bytes) ==
  LET from[i \in 1..Len(bytes) + 1] ==
        IF i + 3 > Len(bytes) THEN <<>>
        ELSE LET end == i + 4 + 256 * bytes[i + 2] + bytes[i + 3]
             IN IF end > Len(bytes) + 1 THEN <<>>
                ELSE <<SubSeq(bytes, i + 4, end - 1)>> \o from[end]
  IN from[1]

TvParameterSets(avcc) ==
  LET n == 256 * avcc[7] + avcc[8]
      m == 256 * avcc[n + 10] + avcc[n + 11]
  IN <<SubSeq(avcc, 9, n + 8), SubSeq(avcc, n + 12, n + m + 11)>>

(***************************************************************************)
(* Properties.                                                             *)
(***************************************************************************)

\* The TV gets the slices of the access unit and no others, whole and in
\* order, however the encoder delimits its units and wherever the cipher's
\* blocks end (until a payload is shorter than what is kept of a block: see
\* OneStream); and the last parameter sets of the unit if any are announced.
AccessUnitArrives ==
  /\ payload # <<>> => header.len = size
  /\ payload # <<>> /\ shorts = 0 => TvUnits(Deciphered) = OfTypes(unit, VclTypes)
  /\ payload = <<>> => OfTypes(unit, VclTypes) = <<>>
  /\ config # <<>> =>
       TvParameterSets(config) = <<LastOf(unit, SpsTypes), LastOf(unit, PpsTypes)>>

\* The fractions by which a stamp b gains on the time that passed since a.
Gained(a, b) == b.stamp - a.stamp - ((b.at - a.at) * Fraction) \div Second

\* Pictures are stamped as far apart as they leave, and timing replies as they
\* are made, to one fraction, also when the bias or the clock carries into the
\* next second.  So what a picture's stamp is off the clock that the TV was given
\* stays what it is; that it is off by the whole epoch is no concern of this.
StampsPaced ==
  [][\A kind \in Stamps :
       stamped[kind].at # -1 => Gained(stamped[kind], stamped'[kind]) \in {0, 1}]_allVars
=============================================================================
