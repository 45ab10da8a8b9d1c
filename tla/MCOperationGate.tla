--------------------------- MODULE MCOperationGate ---------------------------
(* Small sets of permits for OperationGate.                                *)
EXTENDS OperationGate, TLC

CONSTANTS A, B, s1, whoami

PTY(d, q, cmd, issued, expires) ==
  [form |-> "ok", sig |-> "valid", device |-> d, session |-> s1, seq |-> q,
   capability |-> "CONSTRAINED_PTY", command |-> cmd, issued |-> issued, expires |-> expires]

Screen(d, q, issued, expires) ==
  [PTY(d, q, None, issued, expires) EXCEPT !.capability = "VIEW_ONLY"]

\* Permits the broker signed: two for device A, with the seq numbers of one session, and
\* one for device B, that makes the agent build B's Authorizer, after which A's is built
\* anew.  With MaxValidity = 2 and Skew = 1 the first is good from 1 to 4 and the second
\* from 2 to 5; the third would be good from 1 to 5, but it is too long by one.
MCPermits == {PTY(A, 1, whoami, 2, 4), Screen(A, 2, 3, 5), Screen(B, 3, 2, 5)}

\* The line the permit binds, as it should be and padded beyond MaxCommandLine.
MCLines == {[command |-> whoami, long |-> long] : long \in BOOLEAN}

\* Goroutines are interchangeable.
Interchangeable == Permutations(Calls)

===============================================================================
