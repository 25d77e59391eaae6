-------------------------- MODULE MCReceiverEvents --------------------------
(* ReceiverEvents with a few pipelined requests.  Bodies are short, or too  *)
(* long for the buffer; they are text or not, and hold empty lines or lines *)
(* like those of a head.                                                    *)
EXTENDS ReceiverEvents

Text == [kind |-> "text", value |-> 0]
Binary == [kind |-> "binary", value |-> 0]
EmptyLine == [kind |-> "end", value |-> 0]

MCBodies ==
  {<<Binary>>, <<EmptyLine>>, <<Text, Text, Binary, Text>>,
   <<Text, [kind |-> "length", value |-> 1], EmptyLine, [kind |-> "cseq", value |-> 1]>>}

FewBodies == {<<Text>>, <<Binary>>}
=============================================================================
