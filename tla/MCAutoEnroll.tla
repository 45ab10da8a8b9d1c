---------------------------- MODULE MCAutoEnroll ----------------------------
(* An instance of AutoEnroll: three certificates of the machine that follow  *)
(* one another, the last with a key that cannot be acquired yet, and one of  *)
(* a server.                                                                 *)
EXTENDS AutoEnroll

Key(binding, provider, opens, answers) ==
  [binding |-> binding, provider |-> provider, opens |-> opens, answers |-> answers]
Ksp == Key("info", "ksp", TRUE, TRUE)
Machine(id, rank, from, until, key) ==
  [id |-> id, rank |-> rank, from |-> from, until |-> until, eku |-> "client", subject |-> "corp", san |-> "adcomputer", key |-> key]
Old    == Machine("old", 1, 0, 2, Ksp)
New    == Machine("new", 2, 1, 9, Key("handle", "csp", TRUE, TRUE))
Broken == Machine("broken", 3, 1, 9, Key("handle", "ksp", FALSE, FALSE))
Server == [Machine("server", 0, 1, 9, Ksp) EXCEPT !.eku = "server"]
MCCerts == {Old, New, Broken, Server}
MCInitialCerts == {{}, {Old, Broken, Server}}
MCFilter == [eku |-> "client", subject |-> "corp", san |-> ""]
MCRecords == {[kind |-> "none"], [kind |-> "corrupt"], [kind |-> "token", cert |-> "old", expires |-> 2],
              [kind |-> "tokenless", cert |-> "server"]}
=============================================================================
