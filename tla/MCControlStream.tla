---------------------------- MODULE MCControlStream ----------------------------
(* A broker that stamps negative, absent, repeated and rewound numbers, and *)
(* announces no interval, a short one, a long one and an overflowing one.  *)
EXTENDS ControlStream


MCSeqs == -1..2
MCAnnounced == {0, 1, 3, 4}
===============================================================================
