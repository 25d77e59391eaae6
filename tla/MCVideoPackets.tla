--------------------------- MODULE MCVideoPackets ---------------------------
(* VideoPackets with slices of one, two, three and five bytes, with zeros   *)
(* in them as emulation prevention leaves them, alone, in pairs and behind  *)
(* parameter sets, delimiters and messages.                                 *)
EXTENDS VideoPackets

Bodies == {<<>>, <<1>>, <<0, 1>>, <<0, 0, 3, 1>>}
Slices(first) == {<<first>> \o body : body \in Bodies}
Idr == 101
Other == 65

Sps == <<103, 66, 0, 31>>
Sps2 == <<103, 77>>
Pps == <<104, 206>>
Delimiter == <<9, 240>>
Message == <<6, 5, 128>>
Filler == <<12, 255>>

MCAccessUnits ==
  {<<s>> : s \in Slices(Idr) \cup Slices(Other)}
  \cup {<<s, t>> : s, t \in Slices(Other)}
  \cup {<<Sps, Pps, s>> : s \in Slices(Idr)}
  \cup {<<Sps, Pps>>, <<Delimiter, Sps2, Sps, Pps, Message, <<101, 1>>, <<101, 0, 1>> >>,
        <<Delimiter, Pps, <<65, 1>>, Filler>>, <<Delimiter, Sps2, Pps, Message, <<101>> >>}
=============================================================================
