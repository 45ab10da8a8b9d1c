------------------------------ MODULE SeqWindow ------------------------------
(***************************************************************************)
(* The replay guard a broker relies on: per session, one window over both  *)
(* capabilities, which a permit may only move forward.                     *)
(***************************************************************************)
EXTENDS Integers

CONSTANT Sessions

VARIABLE last           \* per session, the sequence number last accepted

Init == last = [s \in Sessions |-> 0]

Accept(s) ==
  /\ last'[s] > last[s]
  /\ last' = [last EXCEPT ![s] = last'[s]]

Next == \E s \in Sessions : Accept(s)

Spec == Init /\ [][Next]_last
===============================================================================
