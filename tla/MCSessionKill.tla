---------------------------- MODULE MCSessionKill ----------------------------
(* Two screen streams of one session, and a PTY operation of another: a    *)
(* KILL of the second session finds no screen stream.                      *)
EXTENDS SessionKill, TLC

CONSTANTS s1, s2, d1, d2, p1

MCSessionOf == d1 :> s1 @@ d2 :> s1 @@ p1 :> s2
===============================================================================
