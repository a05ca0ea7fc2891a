---------------------------- MODULE MCTextStream ----------------------------
(* Ids 1 to 5 cut characters and stop strings in different places; 6 is a     *)
(* special end-of-sequence id, 7 a requested stop id, 8 a special id that     *)
(* ends nothing.  E leads a three-byte sequence, c may stand second in it, d  *)
(* only third.  The stop lists: none, one string that overlaps itself, two    *)
(* that overlap each other, two that overlap a character of three bytes, and  *)
(* one that ends in U+FFFD.                                                   *)
EXTENDS TextStream

a == 97
b == 98
E == 224
c == 160
d == 128

MCTokenBytes == << <<a>>, <<b, a>>, <<E>>, <<c>>, <<d, b>>, <<a, E>>, <<b>>, <<b, b>> >>
MCStopLists ==
  { <<>>,
    << <<a, a, b>> >>,
    << <<b, a, b, a>>, <<a, b>> >>,
    << <<b, E, c, d>>, <<E, c, d, b>> >>,
    << <<a>> \o Replacement, <<b, b>> >> }
MCPrompts == { <<>>, <<1, 2>> }
=============================================================================
