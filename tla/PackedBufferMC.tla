--------------------------- MODULE PackedBufferMC ----------------------------
(***************************************************************************)
(* Messages of up to two segments with words of two bytes (nothing, one or *)
(* two nonzero bytes), runs cut off after two words.                       *)
(***************************************************************************)
EXTENDS PackedBuffer, SequencesExt

\* A bound: words per segment.
MaxWords == 4

MCMessages ==
  LET first == {<<0>>, <<1>>, <<2, 2>>}
      last == UNION {[1 .. n -> 0 .. W] : n \in 0 .. MaxWords}
  IN  {<<a>> : a \in last} \cup {<<a, b>> : a \in first, b \in last}
==============================================================================
