-------------------------- MODULE AutoEnrollProofs --------------------------
(***************************************************************************)
(* The runner of the mTLS mode for any certificates, records and bounds:   *)
(* types, who may speak, and how many key handles are open.                *)
(***************************************************************************)
EXTENDS AutoEnroll, FiniteSetTheorems, WellFoundedInduction, TLAPS

Ids == {c.id : c \in Certs}
TokenlessRecords == [kind : {"tokenless"}, cert : Ids]
TokenRecords == [kind : {"token"}, cert : Ids, expires : Int]
SoundRecords == TokenlessRecords \cup TokenRecords
RecordsOnDisk == [kind : {"none", "corrupt"}] \cup SoundRecords

Places == {"wait", "read", "cert", "enroll", "persist", "refresh", "renew", "heartbeat",
           "poll", "execute", "submit", "activate", "idle"}
\* Where the runner speaks as the certificate it has loaded.
Speaking == {"refresh", "renew", "heartbeat", "poll", "execute", "submit", "activate"}

Processes ==
  [run : {"loop", "held"}, pc : Places, first : BOOLEAN, cfg : {NoRecord} \cup SoundRecords,
   loaded : Certs \cup {None}, refs : Int, signers : Nat, waited : Nat, failures : Nat,
   command : {"none", "other", "update"}]

(* A handle per loaded certificate, and the one of the wait.               *)
Handles(p) ==
  /\ p.signers = p.waited + (IF p.loaded = None THEN 0 ELSE 1)
  /\ p.waited <= 1 /\ (p.pc = "wait" => p.waited = 0)

(* What the process vouches for, given the certificates the backend knows. *)
Vouched(p, certs) ==
  /\ p.cfg \in SoundRecords => p.cfg.cert \in certs
  /\ p.pc \in {"enroll", "persist"} => p.loaded # None
  /\ p.pc = "persist" => p.loaded.id \in certs
  /\ p.pc \in Speaking => /\ p.loaded # None /\ p.cfg \in SoundRecords
                          /\ p.cfg.cert = p.loaded.id
  /\ p.pc \in {"refresh", "renew"} => p.cfg \in TokenRecords

GoodProc(p, certs) == p \in Processes /\ Handles(p) /\ Vouched(p, certs)

IInv ==
  /\ now \in 0..MaxNow /\ my \subseteq Certs /\ backend \in {"up", "down", "odd"}
  /\ known \subseteq Ids /\ plan \in {"none", "pending", "launched"}
  /\ record \in RecordsOnDisk /\ (record \in SoundRecords => record.cert \in known)
  /\ proc = Off \/ GoodProc(proc, known)
  /\ call.kind \in Authenticated => call.cert \in known /\ call.record = call.cert

-----------------------------------------------------------------------------
(* A finite set that a relation orders totally has a first element.        *)
LEMMA HasFirst ==
  ASSUME NEW S, IsFiniteSet(S), NEW R,
         \A x, y \in S : x = y \/ << x, y >> \in R \/ << y, x >> \in R,
         \A x, y, z \in S : << x, y >> \in R /\ << y, z >> \in R => << x, z >> \in R
  PROVE  \A T \in SUBSET S : T # {} => \E x \in T : \A y \in T \ {x} : << x, y >> \in R
<1> DEFINE First(T) == \E x \in T : \A y \in T \ {x} : << x, y >> \in R
           Bad == {n \in Nat : \E T \in SUBSET S : T # {} /\ ~First(T) /\ Cardinality(T) = n}
           L == OpToRel(<, Nat)
<1>1. IsWellFoundedOn(L, Nat) /\ \A m, n \in Nat : << n, m >> \in L <=> n < m
  BY NatLessThanWellFounded DEF OpToRel
<1> HIDE DEF L
<1>2. \A T \in SUBSET S : IsFiniteSet(T) /\ Cardinality(T) \in Nat
  BY FS_Subset, FS_CardinalityType
\* The smallest set without a first element has one once an element is put back.
<1>3. Bad = {}
  <2> SUFFICES ASSUME Bad # {} PROVE FALSE
    OBVIOUS
  <2>1. PICK n \in Bad : \A m \in Bad : ~(<< m, n >> \in L)
    <3>1. Bad \subseteq Nat
      OBVIOUS
    <3> HIDE DEF Bad
    <3> QED BY <1>1, <3>1, WFMin
  <2>2. PICK T \in SUBSET S : T # {} /\ ~First(T) /\ Cardinality(T) = n
    BY <2>1
  <2>3. PICK t : t \in T
    BY <2>2
  <2> DEFINE U == T \ {t}
  <2>4. U \in SUBSET S /\ Cardinality(U) = n - 1 /\ n - 1 \in Nat
    <3>1. IsFiniteSet(T) /\ n \in Nat /\ n # 0
      BY <1>2, <2>1, <2>2, <2>3, FS_EmptySet
    <3>2. Cardinality(U) = n - 1
      BY <2>2, <2>3, <3>1, FS_RemoveElement
    <3> QED BY <3>1, <3>2
  <2>5. U # {}
    <3> SUFFICES ASSUME U = {} PROVE FALSE
      OBVIOUS
    <3> QED BY <2>2, <2>3
  <2>6. First(U)
    <3> SUFFICES ASSUME ~First(U) PROVE FALSE
      OBVIOUS
    <3>1. n - 1 \in Bad
      BY <2>4, <2>5
    <3>2. n - 1 < n /\ n \in Nat
      BY <2>1, <2>4
    <3> QED BY <1>1, <2>1, <2>4, <3>1, <3>2
  <2>7. PICK x \in U : \A y \in U \ {x} : << x, y >> \in R
    BY <2>6
  <2>8. CASE << x, t >> \in R
    <3>1. \A y \in T \ {x} : << x, y >> \in R
      BY <2>3, <2>7, <2>8
    <3> QED BY <2>2, <2>7, <3>1
  <2>9. CASE << t, x >> \in R
    <3>1. \A y \in T \ {t} : << t, y >> \in R
      BY <2>2, <2>3, <2>7, <2>9
    <3> QED BY <2>2, <2>3, <3>1
  <2> QED BY <2>2, <2>3, <2>7, <2>8, <2>9
<1>4. ASSUME NEW T \in SUBSET S, T # {} PROVE First(T)
  <2> SUFFICES ASSUME ~First(T) PROVE FALSE
    OBVIOUS
  <2>1. Cardinality(T) \in Bad
    BY <1>2, <1>4
  <2> QED BY <1>3, <2>1
<1> QED BY <1>4

(* The order by which a certificate is picked is total and transitive, so  *)
(* the one that ranks first is one of the store.                           *)
LEMMA LoadGives ==
  ASSUME NEW certs \in SUBSET Certs
  PROVE  LoadEligibleCert(certs) \in certs \cup {None}
<1> DEFINE R == {w \in Certs \X Certs : Outranks(w[1], w[2])}
<1>1. \A c, d \in Certs : << c, d >> \in R <=> Outranks(c, d)
  OBVIOUS
<1>2. \A c, d \in Certs : c = d \/ Outranks(c, d) \/ Outranks(d, c)
  BY AutoEnrollAssumption DEF Outranks
<1>3. \A c, d, e \in Certs : Outranks(c, d) /\ Outranks(d, e) => Outranks(c, e)
  BY AutoEnrollAssumption DEF Outranks
<1> HIDE DEF R
<1>4. \A T \in SUBSET Certs : T # {} => \E x \in T : \A y \in T \ {x} : << x, y >> \in R
  <2>1. /\ \A x, y \in Certs : x = y \/ << x, y >> \in R \/ << y, x >> \in R
        /\ \A x, y, z \in Certs : << x, y >> \in R /\ << y, z >> \in R => << x, z >> \in R
    BY <1>1, <1>2, <1>3
  <2>2. IsFiniteSet(Certs)
    BY AutoEnrollAssumption
  <2> QED BY <2>1, <2>2, HasFirst
<1>5. Usable(certs) \subseteq certs
  BY DEF Usable, FilterCandidates
<1>6. CASE Usable(certs) = {}
  BY <1>6 DEF LoadEligibleCert
<1>7. CASE Usable(certs) # {}
  <2>1. \E c \in Usable(certs) : \A d \in Usable(certs) \ {c} : Outranks(c, d)
    BY <1>1, <1>4, <1>5, <1>7
  <2> QED BY <1>5, <1>7, <2>1 DEF LoadEligibleCert
<1> QED BY <1>6, <1>7

-----------------------------------------------------------------------------
LEMMA InitHolds == Init => IInv
<1> SUFFICES ASSUME Init PROVE IInv
  OBVIOUS
<1>1. record \in RecordsOnDisk /\ (record \in SoundRecords <=> Sound(record))
  BY RecordsAssumption
     DEF Init, RecordsOnDisk, SoundRecords, TokenlessRecords, TokenRecords, Sound, Ids
<1>2. known \subseteq Ids /\ (record \in SoundRecords => record.cert \in known)
  BY <1>1 DEF Init, SoundRecords, TokenlessRecords, TokenRecords
<1>3. now \in 0..MaxNow /\ my \subseteq Certs /\ backend \in {"up", "down", "odd"}
      /\ plan \in {"none", "pending", "launched"} /\ proc = Off /\ call = NoCall
  BY AutoEnrollAssumption DEF Init
<1> QED BY <1>1, <1>2, <1>3 DEF IInv, NoCall, Authenticated

(* More certificates known does not unvouch a process.                     *)
LEMMA KnownGrows ==
  ASSUME NEW p, NEW k, NEW l, k \subseteq l, GoodProc(p, k)
  PROVE  GoodProc(p, l)
BY DEF GoodProc, Vouched

(* How an iteration or the loop may end.                                   *)
LEMMA Endings ==
  ASSUME GoodProc(proc, known)
  PROVE  /\ GoodProc(EndIteration, known)
         /\ GoodProc([EndIteration EXCEPT !.failures = 0], known)
         /\ GoodProc(Failed(EndIteration), known)
         /\ GoodProc(Failed([EndIteration EXCEPT !.failures = 0]), known)
         /\ Fatal = Off \/ GoodProc(Fatal, known)
<1>1. ASSUME NEW p, p \in Processes, NEW n \in Nat PROVE [p EXCEPT !.failures = n] \in Processes
  BY <1>1 DEF Processes
<1>2. EndIteration \in Processes
  BY DEF EndIteration, GoodProc, Processes, Places
<1>3. GoodProc(EndIteration, known)
  <2>1. /\ EndIteration.pc = "idle" /\ EndIteration.signers = proc.signers
        /\ EndIteration.waited = proc.waited /\ EndIteration.loaded = proc.loaded
        /\ EndIteration.cfg = proc.cfg
    BY DEF EndIteration, GoodProc, Processes
  <2> QED BY <1>2, <2>1 DEF GoodProc, Handles, Vouched, Speaking
<1>4. ASSUME NEW p, GoodProc(p, known), NEW n \in Nat
      PROVE  GoodProc([p EXCEPT !.failures = n], known)
  <2> DEFINE q == [p EXCEPT !.failures = n]
  <2>1. /\ q.pc = p.pc /\ q.signers = p.signers /\ q.waited = p.waited
        /\ q.loaded = p.loaded /\ q.cfg = p.cfg /\ q \in Processes
    BY <1>1, <1>4 DEF GoodProc, Processes
  <2> HIDE DEF q
  <2> QED BY <1>4, <2>1 DEF GoodProc, Handles, Vouched, q
<1>5. ASSUME NEW p, GoodProc(p, known) PROVE GoodProc(Failed(p), known)
  <2>1. p.failures + 1 \in Nat
    BY <1>5 DEF GoodProc, Processes
  <2> QED BY <1>4, <1>5, <2>1 DEF Failed
<1>6. Fatal = Off \/ GoodProc(Fatal, known)
  <2> DEFINE q == [proc EXCEPT !.run = "held"]
  <2>1. /\ q.pc = proc.pc /\ q.signers = proc.signers /\ q.waited = proc.waited
        /\ q.loaded = proc.loaded /\ q.cfg = proc.cfg /\ q \in Processes
    BY DEF GoodProc, Processes
  <2> HIDE DEF q
  <2>2. GoodProc(q, known)
    BY <2>1 DEF GoodProc, Handles, Vouched
  <2> QED BY <2>2 DEF Fatal, q
<1> QED BY <1>3, <1>4, <1>5, <1>6

(* A step that moves the process on, to a place that asks no more of it.   *)
LEMMA MovesOn ==
  ASSUME GoodProc(proc, known), NEW pc \in Places,
         pc = "wait" => proc.waited = 0,
         pc = "persist" => proc.loaded.id \in known,
         pc \in {"enroll", "persist"} => proc.loaded # None,
         pc \in Speaking => /\ proc.loaded # None /\ proc.cfg \in SoundRecords
                            /\ proc.cfg.cert = proc.loaded.id,
         pc \in {"refresh", "renew"} => proc.cfg \in TokenRecords,
         NEW command \in {"none", "other", "update"}, NEW n \in Nat
  PROVE  /\ GoodProc([proc EXCEPT !.pc = pc], known)
         /\ GoodProc([proc EXCEPT !.pc = pc, !.failures = n], known)
         /\ GoodProc([proc EXCEPT !.pc = pc, !.command = command], known)
<1> DEFINE Qs == {[proc EXCEPT !.pc = pc], [proc EXCEPT !.pc = pc, !.failures = n],
                  [proc EXCEPT !.pc = pc, !.command = command]}
<1>1. ASSUME NEW q \in Qs
      PROVE  /\ q.pc = pc /\ q.signers = proc.signers /\ q.waited = proc.waited
             /\ q.loaded = proc.loaded /\ q.cfg = proc.cfg /\ q \in Processes
  <2>1. proc \in Processes
    BY DEF GoodProc
  <2>2. CASE q = [proc EXCEPT !.pc = pc]
    BY <2>1, <2>2 DEF Processes
  <2>3. CASE q = [proc EXCEPT !.pc = pc, !.failures = n]
    BY <2>1, <2>3 DEF Processes
  <2>4. CASE q = [proc EXCEPT !.pc = pc, !.command = command]
    BY <2>1, <2>4 DEF Processes
  <2> QED BY <2>2, <2>3, <2>4
<1>2. ASSUME NEW q \in Qs PROVE GoodProc(q, known)
  <2> HIDE DEF Qs
  <2> QED BY <1>1 DEF GoodProc, Handles, Vouched
<1> QED BY <1>2

LEMMA Working ==
  ASSUME IInv, NEW pc, At(pc)
  PROVE  GoodProc(proc, known) /\ proc.pc = pc
BY DEF IInv, At, Off

\* The runner speaks for the certificate it has loaded.
LEMMA SendsHold ==
  ASSUME GoodProc(proc, known), proc.pc \in Speaking, NEW kind, call' = Sends(kind)
  PROVE  call'.cert \in known /\ call'.record = call'.cert
BY DEF GoodProc, Vouched, Sends

(* A step of the runner that leaves the world and the record alone.        *)
LEMMA QuietStep ==
  ASSUME IInv, UNCHANGED << World, record >>, proc' = Off \/ GoodProc(proc', known),
         plan' \in {"none", "pending", "launched"},
         call' = call \/ call'.kind \notin Authenticated
           \/ (call'.cert \in known /\ call'.record = call'.cert)
  PROVE  IInv'
BY DEF IInv, World

LEMMA FindsCert ==
  ASSUME IInv, WaitForCert \/ EnsureCert
  PROVE  IInv'
<1> DEFINE c == LoadEligibleCert(my)
<1>1. c \in Certs \cup {None} /\ UNCHANGED << World, record, plan, call >>
  BY LoadGives DEF IInv, WaitForCert, EnsureCert
<1> HIDE DEF c
<1>2. SUFFICES proc' = Off \/ GoodProc(proc', known)
  BY <1>1, QuietStep DEF IInv
<1>3. CASE WaitForCert
  <2>1. GoodProc(proc, known) /\ proc.pc = "wait"
    BY <1>3, Working DEF WaitForCert
  <2> DEFINE p == [proc EXCEPT !.pc = "read", !.signers = @ + 1, !.waited = @ + 1]
  <2>2. /\ p.pc = "read" /\ p.loaded = proc.loaded /\ p.cfg = proc.cfg
        /\ p.signers = proc.signers + 1 /\ p.waited = proc.waited + 1 /\ p \in Processes
    <3>1. proc.signers + 1 \in Nat /\ proc.waited + 1 \in Nat /\ proc \in Processes
      BY <2>1 DEF GoodProc, Processes
    <3>2. p = [proc EXCEPT !.pc = "read", !.signers = proc.signers + 1, !.waited = proc.waited + 1]
      BY <3>1 DEF Processes
    <3> HIDE DEF p
    <3> QED BY <3>1, <3>2 DEF Processes, Places
  <2> HIDE DEF p
  <2>3. GoodProc(p, known)
    <3>1. Handles(p)
      BY <2>1, <2>2 DEF GoodProc, Handles, Processes
    <3> QED BY <2>1, <2>2, <3>1 DEF GoodProc, Vouched, Speaking
  <2> QED BY <1>3, <2>3 DEF WaitForCert, p
<1>4. CASE EnsureCert
  <2>1. GoodProc(proc, known) /\ proc.pc = "cert"
    BY <1>4, Working DEF EnsureCert
  <2>2. CASE proc' = EndIteration
    BY <2>1, <2>2, Endings
  <2>3. CASE c # None /\ c = proc.loaded /\ proc' = [Reload(proc) EXCEPT !.pc = "enroll"]
    <3>1. proc' = [proc EXCEPT !.pc = "enroll"]
      BY <2>3 DEF Reload
    <3> QED BY <2>1, <2>3, <3>1, MovesOn DEF Places, Speaking
  <2>4. CASE c # None /\ proc' = [Rotate(proc, c) EXCEPT !.pc = "enroll"]
    <3> DEFINE n == IF proc.loaded = None THEN proc.signers + 1 ELSE proc.signers
    <3>1. proc \in Processes /\ n \in Nat /\ ContextRefs(c, my) \in Int
      BY <2>1 DEF GoodProc, Processes, ContextRefs
    <3>2. proc' = [proc EXCEPT !.loaded = c, !.refs = ContextRefs(c, my), !.signers = n,
                               !.pc = "enroll"]
      BY <2>4, <3>1 DEF Rotate, Processes
    <3>3. /\ proc'.pc = "enroll" /\ proc'.loaded = c /\ proc'.cfg = proc.cfg
          /\ proc'.signers = n /\ proc'.waited = proc.waited /\ proc' \in Processes
      BY <1>1, <3>1, <3>2 DEF Processes, Places
    <3>4. Handles(proc')
      BY <2>1, <2>4, <3>3 DEF GoodProc, Handles, Processes
    <3> QED BY <2>1, <2>4, <3>3, <3>4 DEF GoodProc, Vouched, Speaking
  <2>5. \/ proc' = EndIteration
        \/ c # None /\ proc' = [(IF c = proc.loaded THEN Reload(proc) ELSE Rotate(proc, c))
                                  EXCEPT !.pc = "enroll"]
    BY <1>4 DEF EnsureCert, c
  <2> QED BY <2>2, <2>3, <2>4, <2>5
<1> QED BY <1>3, <1>4

LEMMA ReadHolds ==
  ASSUME IInv, Read
  PROVE  IInv'
<1>1. GoodProc(proc, known) /\ proc.pc = "read"
  BY Working DEF Read
<1>2. UNCHANGED << World, record >> /\ plan' \in {"none", "pending", "launched"}
      /\ (call' = call \/ call'.kind \notin Authenticated)
  BY DEF Read, Sweep, IInv, Authenticated
<1>3. CASE proc' = EndIteration
  BY <1>1, <1>2, <1>3, Endings, QuietStep
<1>4. CASE record.kind # "corrupt" /\ proc' = [proc EXCEPT !.cfg = record, !.pc = "cert"]
  <2>1. record \in {NoRecord} \cup SoundRecords /\ (record \in SoundRecords => record.cert \in known)
    BY <1>4 DEF IInv, RecordsOnDisk, NoRecord
  <2>2. /\ proc'.pc = "cert" /\ proc'.loaded = proc.loaded /\ proc'.cfg = record
        /\ proc'.signers = proc.signers /\ proc'.waited = proc.waited /\ proc' \in Processes
    BY <1>1, <1>4, <2>1 DEF GoodProc, Processes, Places
  <2>3. GoodProc(proc', known)
    BY <1>1, <2>1, <2>2 DEF GoodProc, Handles, Vouched, Speaking
  <2> QED BY <1>2, <2>3, QuietStep
<1> QED BY <1>3, <1>4 DEF Read

LEMMA ReconcileHolds ==
  ASSUME IInv, ReconcileEnrollment
  PROVE  IInv'
<1>1. GoodProc(proc, known) /\ proc.pc = "enroll" /\ proc.loaded \in Certs
      /\ proc.loaded.id \in Ids
  BY Working DEF ReconcileEnrollment, GoodProc, Vouched, Processes, Ids
<1>2. UNCHANGED << now, my, backend, record, plan >>
  BY DEF ReconcileEnrollment
<1>3. CASE NeedsReissue(proc.cfg, proc.loaded)
  <2>1. PICK answer \in Answers(NoRecord) :
          /\ call' = [kind |-> "enroll", cert |-> proc.loaded.id]
          /\ known' = IF answer \in {"ok", "lost"} THEN known \cup {proc.loaded.id} ELSE known
          /\ proc' = CASE Validate(answer)   -> [proc EXCEPT !.pc = "persist"]
                       [] answer = "auth"    -> Fatal
                       [] OTHER              -> EndIteration
    BY <1>3 DEF ReconcileEnrollment
  <2>2. known \subseteq known' /\ known' \subseteq Ids
        /\ (record' \in SoundRecords => record'.cert \in known')
    BY <1>1, <1>2, <2>1 DEF IInv
  <2>3. proc' = Off \/ GoodProc(proc', known')
    <3>1. CASE answer = "ok"
      <4>1. proc' = [proc EXCEPT !.pc = "persist"] /\ proc.loaded.id \in known'
        BY <2>1, <3>1 DEF Validate
      <4>2. /\ proc'.pc = "persist" /\ proc'.loaded = proc.loaded /\ proc'.cfg = proc.cfg
            /\ proc'.signers = proc.signers /\ proc'.waited = proc.waited /\ proc' \in Processes
        BY <1>1, <4>1 DEF GoodProc, Processes, Places
      <4> QED BY <1>1, <2>2, <4>1, <4>2 DEF GoodProc, Handles, Vouched, Speaking
    <3>2. CASE answer # "ok"
      <4>1. proc' \in {Fatal, EndIteration}
        BY <2>1, <3>2 DEF Validate
      <4>2. proc' = Off \/ GoodProc(proc', known)
        BY <1>1, <4>1, Endings
      <4> QED BY <2>2, <4>2, KnownGrows
    <3> QED BY <3>1, <3>2
  <2> QED BY <1>2, <2>1, <2>2, <2>3 DEF IInv, Authenticated
<1>4. CASE ~NeedsReissue(proc.cfg, proc.loaded)
  <2>1. UNCHANGED << World, record, plan, call >>
        /\ proc' = [proc EXCEPT !.pc = IF Tokenless(proc.cfg) THEN "heartbeat" ELSE "refresh"]
    BY <1>2, <1>4 DEF ReconcileEnrollment, World
  <2>2. proc.cfg \in SoundRecords /\ proc.cfg.cert = proc.loaded.id /\ proc.loaded # None
    BY <1>1, <1>4 DEF NeedsReissue, CertThumbprintChanged, GoodProc, Processes, Vouched
  <2>3. ~Tokenless(proc.cfg) => proc.cfg \in TokenRecords
    BY <2>2 DEF SoundRecords, TokenlessRecords, Tokenless
  <2>4. GoodProc(proc', known)
    <3>1. CASE Tokenless(proc.cfg)
      <4>1. proc' = [proc EXCEPT !.pc = "heartbeat"]
        BY <2>1, <3>1
      <4> QED BY <1>1, <2>2, <4>1, MovesOn DEF Places
    <3>2. CASE ~Tokenless(proc.cfg)
      <4>1. proc' = [proc EXCEPT !.pc = "refresh"]
        BY <2>1, <3>2
      <4> QED BY <1>1, <2>2, <2>3, <3>2, <4>1, MovesOn DEF Places
    <3> QED BY <3>1, <3>2
  <2> QED BY <2>1, <2>4, QuietStep DEF IInv
<1> QED BY <1>3, <1>4

(* What is written is kept in memory as well, if the rights could be set.  *)
LEMMA WrittenHolds ==
  ASSUME IInv, GoodProc(proc, known), NEW r \in SoundRecords, r.cert = proc.loaded.id,
         r.cert \in known, proc.loaded # None, UNCHANGED << World, plan, call >>,
         Written(r, "heartbeat")
  PROVE  IInv'
<1>1. record' \in RecordsOnDisk /\ (record' \in SoundRecords => record'.cert \in known)
  BY DEF Written, IInv, RecordsOnDisk
<1>2. proc' = Off \/ GoodProc(proc', known)
  <2>1. CASE proc' = EndIteration
    BY <2>1, Endings
  <2>2. CASE proc' = [proc EXCEPT !.cfg = r, !.pc = "heartbeat"]
    <3>1. /\ proc'.pc = "heartbeat" /\ proc'.loaded = proc.loaded /\ proc'.cfg = r
          /\ proc'.signers = proc.signers /\ proc'.waited = proc.waited /\ proc' \in Processes
      BY <2>2 DEF GoodProc, Processes, Places
    <3> QED BY <3>1 DEF GoodProc, Handles, Vouched, Speaking
  <2> QED BY <2>1, <2>2 DEF Written
<1> QED BY <1>1, <1>2 DEF IInv, World

LEMMA PersistHolds ==
  ASSUME IInv, Persist \/ PersistToken
  PROVE  IInv'
<1>1. CASE Persist
  <2>1. GoodProc(proc, known) /\ proc.pc = "persist"
    BY <1>1, Working DEF Persist
  <2>2. proc.loaded.id \in known /\ proc.loaded # None /\ known \subseteq Ids
    BY <2>1 DEF GoodProc, Vouched, IInv
  <2> DEFINE r == [kind |-> "tokenless", cert |-> proc.loaded.id]
  <2>3. r \in SoundRecords /\ r.cert = proc.loaded.id
    BY <2>2 DEF SoundRecords, TokenlessRecords
  <2>4. UNCHANGED << World, plan, call >> /\ Written(r, "heartbeat")
    BY <1>1 DEF Persist
  <2> HIDE DEF r
  <2> QED BY <2>1, <2>2, <2>3, <2>4, WrittenHolds
<1>2. CASE PersistToken
  <2>1. GoodProc(proc, known) /\ proc.pc = "renew"
    BY <1>2, Working DEF PersistToken
  <2>2. proc.cfg \in TokenRecords /\ proc.cfg.cert = proc.loaded.id /\ proc.loaded # None
        /\ proc.cfg.cert \in known
    BY <2>1 DEF GoodProc, Vouched, SoundRecords, Speaking
  <2> DEFINE r == [proc.cfg EXCEPT !.expires = now + RefreshWindow + 1]
  <2>3. r \in SoundRecords /\ r.cert = proc.loaded.id
    <3>1. now + RefreshWindow + 1 \in Int
      BY AutoEnrollAssumption DEF IInv
    <3> QED BY <2>2, <3>1 DEF SoundRecords, TokenRecords
  <2>4. UNCHANGED << World, plan, call >> /\ Written(r, "heartbeat")
    BY <1>2 DEF PersistToken
  <2> HIDE DEF r
  <2> QED BY <2>1, <2>2, <2>3, <2>4, WrittenHolds
<1> QED BY <1>1, <1>2

\* Where the runner speaks it may go on speaking.
LEMMA GoesOn ==
  ASSUME GoodProc(proc, known), proc.pc \in Speaking,
         NEW pc \in {"heartbeat", "poll", "execute", "submit", "activate"},
         NEW command \in {"none", "other", "update"}
  PROVE  /\ GoodProc([proc EXCEPT !.pc = pc], known)
         /\ GoodProc([proc EXCEPT !.pc = pc, !.failures = 0], known)
         /\ GoodProc([proc EXCEPT !.pc = pc, !.command = command], known)
<1>1. /\ proc.loaded # None /\ proc.cfg \in SoundRecords /\ proc.cfg.cert = proc.loaded.id
      /\ pc \in Places /\ pc \notin {"wait", "enroll", "persist", "refresh", "renew"}
  BY DEF GoodProc, Vouched, Places
<1> QED BY <1>1, MovesOn

LEMMA RefreshHolds ==
  ASSUME IInv, MaybeRefreshToken
  PROVE  IInv'
<1>1. GoodProc(proc, known) /\ proc.pc = "refresh" /\ proc.pc \in Speaking
  BY Working DEF MaybeRefreshToken, Speaking
<1>2. UNCHANGED << World, plan, record >> /\ plan' \in {"none", "pending", "launched"}
  BY DEF MaybeRefreshToken, IInv
<1>3. call' = call \/ call' = Sends("refresh")
  BY DEF MaybeRefreshToken
<1>4. proc' \in {[proc EXCEPT !.pc = "renew"], [proc EXCEPT !.pc = "heartbeat"], Fatal, EndIteration}
  BY DEF MaybeRefreshToken
<1>5. GoodProc([proc EXCEPT !.pc = "renew"], known)
  <2>1. proc.loaded # None /\ proc.cfg \in SoundRecords /\ proc.cfg.cert = proc.loaded.id
        /\ proc.cfg \in TokenRecords
    BY <1>1 DEF GoodProc, Vouched
  <2> QED BY <1>1, <2>1, MovesOn DEF Places
<1>6. proc' = Off \/ GoodProc(proc', known)
  BY <1>1, <1>4, <1>5, Endings, GoesOn
<1> QED BY <1>1, <1>2, <1>3, <1>6, QuietStep, SendsHold

LEMMA SpeaksHold ==
  ASSUME IInv, SendHeartbeat \/ Poll \/ Submit
  PROVE  IInv'
<1>1. GoodProc(proc, known) /\ proc.pc \in Speaking
  BY Working DEF SendHeartbeat, Poll, Submit, Speaking
<1>2. UNCHANGED << World, record >> /\ plan' \in {"none", "pending", "launched"}
  BY DEF SendHeartbeat, Poll, Submit, IInv
<1>3. \E kind \in Authenticated : call' = Sends(kind)
  BY DEF SendHeartbeat, Poll, Submit, Authenticated
<1>4. proc' = Off \/ GoodProc(proc', known)
  <2>1. CASE SendHeartbeat
    <3>1. proc' \in {[EndIteration EXCEPT !.failures = 0], [proc EXCEPT !.pc = "poll", !.failures = 0],
                     Fatal, Off, Failed([EndIteration EXCEPT !.failures = 0])}
      BY <2>1 DEF SendHeartbeat
    <3> QED BY <1>1, <3>1, Endings, GoesOn
  <2>2. CASE Poll
    <3>1. PICK command \in {"none", "other", "update"} :
            proc' \in {EndIteration, [proc EXCEPT !.pc = "execute", !.command = command],
                       Fatal, Failed(EndIteration)}
      BY <2>2 DEF Poll
    <3> QED BY <1>1, <3>1, Endings, GoesOn
  <2>3. CASE Submit
    <3>1. proc' \in {EndIteration, [proc EXCEPT !.pc = "activate"], Fatal, Failed(EndIteration)}
      BY <2>3 DEF Submit
    <3> QED BY <1>1, <3>1, Endings, GoesOn
  <2> QED BY <2>1, <2>2, <2>3
<1> QED BY <1>1, <1>2, <1>3, <1>4, QuietStep, SendsHold

LEMMA ExecuteHolds ==
  ASSUME IInv, Execute
  PROVE  IInv'
<1>1. GoodProc(proc, known) /\ proc.pc \in Speaking
  BY Working DEF Execute, Speaking
<1>2. PICK staged \in BOOLEAN :
        /\ plan' = IF staged /\ proc.command = "update" THEN "pending" ELSE plan
        /\ proc' = [proc EXCEPT !.pc = "submit", !.command = IF staged THEN @ ELSE "other"]
  BY DEF Execute
<1> DEFINE command == IF staged THEN proc.command ELSE "other"
<1>3. command \in {"none", "other", "update"}
      /\ proc' = [proc EXCEPT !.pc = "submit", !.command = command]
  BY <1>1, <1>2 DEF GoodProc, Processes
<1>4. GoodProc(proc', known)
  BY <1>1, <1>3, GoesOn
<1> QED BY <1>2, <1>4, QuietStep DEF Execute, IInv

\* The end of an iteration, the ticker, and the process coming and going.
LEMMA RoundHolds ==
  ASSUME IInv, MaybeLaunchSelfUpdateActivation \/ Tick \/ Start \/ Stop
  PROVE  IInv'
<1>1. UNCHANGED << World, record >>
  BY DEF MaybeLaunchSelfUpdateActivation, Tick, Start, Stop
<1>2. plan' \in {"none", "pending", "launched"}
  BY DEF MaybeLaunchSelfUpdateActivation, Tick, Start, Stop, IInv
<1>3. call' = call \/ call'.kind \notin Authenticated
  BY DEF MaybeLaunchSelfUpdateActivation, Tick, Start, Stop, NoCall, Authenticated
<1>4. proc' = Off \/ GoodProc(proc', known)
  <2>1. CASE MaybeLaunchSelfUpdateActivation
    <3>1. GoodProc(proc, known)
      BY <2>1, Working DEF MaybeLaunchSelfUpdateActivation
    <3> QED BY <2>1, <3>1, Endings DEF MaybeLaunchSelfUpdateActivation
  <2>2. CASE Tick
    <3>1. GoodProc(proc, known)
      BY <2>2, Working DEF Tick
    <3> QED BY <2>2, <3>1, MovesOn DEF Tick, Places, Speaking
  <2>3. CASE Start
    <3>1. GoodProc(Fresh, known)
      BY DEF Fresh, GoodProc, Processes, Places, Handles, Vouched, Speaking, NoRecord,
             SoundRecords, TokenlessRecords, TokenRecords
    <3> QED BY <2>3, <3>1 DEF Start
  <2>4. CASE Stop
    BY <2>4 DEF Stop
  <2> QED BY <2>1, <2>2, <2>3, <2>4
<1> QED BY <1>1, <1>2, <1>3, <1>4, QuietStep

LEMMA AroundHolds ==
  ASSUME IInv, Clock \/ Turn
  PROVE  IInv'
<1>1. CASE Clock
  <2>1. now' \in 0..MaxNow
    BY <1>1, AutoEnrollAssumption DEF Clock, IInv
  <2> QED BY <1>1, <2>1 DEF Clock, IInv
<1>2. CASE Turn
  <2>1. my' \subseteq Certs /\ backend' \in {"up", "down", "odd"}
    BY <1>2 DEF Turn, IInv
  <2> QED BY <1>2, <2>1 DEF Turn, IInv
<1> QED BY <1>1, <1>2

LEMMA NextHolds == IInv /\ [Next]_vars => IInv'
<1> SUFFICES ASSUME IInv, [Next]_vars PROVE IInv'
  OBVIOUS
<1>1. CASE UNCHANGED vars
  BY <1>1 DEF vars, IInv
<1>2. CASE Runner
  BY <1>2, FindsCert, ReadHolds, ReconcileHolds, PersistHolds, RefreshHolds, SpeaksHold,
     ExecuteHolds, RoundHolds DEF Runner
<1> QED BY <1>1, <1>2, RoundHolds, AroundHolds DEF Next

LEMMA Invariance == Spec => []IInv
BY InitHolds, NextHolds, PTL DEF Spec
-----------------------------------------------------------------------------
(* The shapes of the runner's state, and that it reaches the places where  *)
(* it speaks (RunOnce after ReconcileEnrollment) only with a certificate   *)
(* loaded and a record that decoded.                                       *)
THEOREM TypeCorrect == Spec => []TypeOK
<1>1. ASSUME IInv PROVE TypeOK
  <2>1. record.kind \in {"none", "corrupt", "tokenless", "token"}
    BY <1>1 DEF IInv, RecordsOnDisk, SoundRecords, TokenlessRecords, TokenRecords
  <2>2. CASE proc = Off
    BY <1>1, <2>1, <2>2 DEF TypeOK, IInv, Off, Ids
  <2>3. CASE GoodProc(proc, known)
    <3>1. proc.run \in {"loop", "held"} /\ proc.pc \in Places
      BY <2>3 DEF GoodProc, Processes
    <3>2. proc.pc \notin {"wait", "read", "cert", "idle"} => proc.loaded # None
      BY <2>3, <3>1 DEF GoodProc, Vouched, Places, Speaking
    <3>3. proc.pc \notin {"wait", "read", "cert", "idle", "enroll", "persist"} => Sound(proc.cfg)
      BY <2>3, <3>1 DEF GoodProc, Vouched, Places, Speaking, Sound, SoundRecords,
                        TokenlessRecords, TokenRecords
    <3> QED BY <1>1, <2>1, <3>1, <3>2, <3>3 DEF TypeOK, IInv, Ids
  <2> QED BY <1>1, <2>2, <2>3 DEF IInv
<1> QED BY <1>1, Invariance, PTL

(* A heartbeat, a poll, a result or a refresh goes out only under a        *)
(* certificate the backend has confirmed, and the record on disk names     *)
(* such a one (EnsureCert, ReconcileEnrollment and Persist), whatever the  *)
(* store, the answers and the restarts did in between.                     *)
THEOREM SpeaksAsEnrolled == Spec => []IdentityBound
<1>1. ASSUME IInv PROVE IdentityBound
  <2>1. Sound(record) => record \in SoundRecords
    BY <1>1 DEF IInv, RecordsOnDisk, Sound
  <2> QED BY <1>1, <2>1 DEF IInv, IdentityBound
<1> QED BY <1>1, Invariance, PTL

(* However long the runner lives and however often its certificate is      *)
(* renewed or loaded again, it holds one key handle for the certificate    *)
(* in use and the one that waiting for the first left open (EnsureCert).   *)
THEOREM HandlesStayBounded == Spec => []HandlesBounded
<1>1. ASSUME IInv PROVE HandlesBounded
  BY <1>1 DEF IInv, GoodProc, Handles, HandlesBounded, Off
<1> QED BY <1>1, Invariance, PTL
=============================================================================
