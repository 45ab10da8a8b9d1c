--------------------------- MODULE CollectorsProofs ---------------------------
(***************************************************************************)
(* The two commands that only read, for any host and whatever changes on   *)
(* it meanwhile: what a backup manifest lists, and what an inventory tells *)
(* and counts.                                                             *)
(***************************************************************************)
EXTENDS Commands, WellFoundedInduction, TLAPS

(* A step of the executor is a step of the collectors, or leaves them alone. *)
LEMMA CollectorsMove ==
  ASSUME [Next]_commands
  PROVE  [B!Next]_(B!backup) /\ [I!Next]_(I!inventory)
<1> DEFINE Backup == [B!Next]_(B!backup)
           Inventory == [I!Next]_(I!inventory)
<1>1. backup = B!backup /\ backup' = B!backup' /\ inventory = I!inventory /\ inventory' = I!inventory'
  BY DEF backup, B!backup, inventory, I!inventory
<1>2. CASE UNCHANGED <<backup, inventory>>
  BY <1>1, <1>2
<1>3. CASE B!Next /\ UNCHANGED inventory
  BY <1>1, <1>3
<1>4. CASE I!Next /\ UNCHANGED backup
  BY <1>1, <1>4
<1>5. CASE UNCHANGED commands
  BY <1>2, <1>5 DEF commands
<1>6. ASSUME NEW c \in Sent, Execute(c) PROVE Backup /\ Inventory
  <2>1. CASE AllStill
    BY <1>2, <2>1 DEF AllStill
  <2>2. CASE Enter(c) /\ ~c.malformed
    <3>1. CASE c.type = "COLLECT_BACKUP_DRYRUN" /\ B!Begin(c.body) /\ OnlyBackup
      <4>1. c.body \in Roots
        BY <2>2, <3>1, BodiesAssumption
      <4>2. B!Next
        BY <3>1, <4>1, Zenon DEF B!Next
      <4>3. UNCHANGED inventory
        BY <3>1, Zenon DEF OnlyBackup
      <4> QED BY <1>3, <4>2, <4>3, Zenon
    <3>2. CASE c.type = "COLLECT_INVENTORY" /\ I!Begin(c.body) /\ OnlyInventory
      <4>1. c.body \in Asked
        BY <2>2, <3>2, BodiesAssumption
      <4>2. I!Next
        BY <3>2, <4>1, Zenon DEF I!Next
      <4>3. UNCHANGED backup
        BY <3>2, Zenon DEF OnlyInventory
      <4> QED BY <1>4, <4>2, <4>3, Zenon
    <3>3. CASE OnlySoftware \/ OnlyDisplay \/ OnlyUsers \/ OnlyStaging \/ OnlyRenewals \/ AllStill
      BY <1>2, <3>3 DEF OnlySoftware, OnlyDisplay, OnlyUsers, OnlyStaging, OnlyRenewals, AllStill
    <3> QED BY <2>2, <3>1, <3>2, <3>3 DEF Enter
  <2>3. AllStill \/ (Enter(c) /\ ~c.malformed)
    <3>1. AllStill \/ (Refusal(c) = "" /\ Enter(c))
      BY <1>6, Zenon DEF Execute
    <3>2. Refusal(c) = "" => Dispatched(c) = ""
      BY Zenon DEF Refusal
    <3>3. Dispatched(c) = "" => ~c.malformed
      BY DEF Dispatched
    <3> QED BY <3>1, <3>2, <3>3, Zenon
  <2> QED BY <2>1, <2>2, <2>3
<1>7. CASE Report
  BY <1>2, <1>7 DEF Report, Answer, AllStill
<1>8. CASE OnlySoftware \/ OnlyDisplay \/ OnlyUsers \/ OnlyStaging \/ OnlyRenewals
  BY <1>2, <1>8 DEF OnlySoftware, OnlyDisplay, OnlyUsers, OnlyStaging, OnlyRenewals
<1>9. CASE OnlyBackup /\ (B!Walk \/ B!Edit \/ B!Abandon)
  <2>1. B!Next
    BY <1>9, Zenon DEF B!Next
  <2>2. UNCHANGED inventory
    BY <1>9, Zenon DEF OnlyBackup
  <2> QED BY <1>3, <2>1, <2>2, Zenon
<1>10. CASE OnlyInventory /\ (I!Agent \/ I!RunOut \/ I!Turn \/ I!Abandon)
  <2>1. I!Next
    BY <1>10, Zenon DEF I!Next
  <2>2. UNCHANGED backup
    BY <1>10, Zenon DEF OnlyInventory
  <2> QED BY <1>4, <2>1, <2>2, Zenon
<1>11. CASE Agent
  BY <1>8, <1>9, <1>10, <1>11 DEF Agent
<1>12. CASE Host
  BY <1>8, <1>9, <1>10, <1>12 DEF Host
<1>13. CASE Deadline
  BY <1>8, <1>13 DEF Deadline
<1>14. CASE Stopped
  BY <1>8, <1>9, <1>10, <1>14 DEF Stopped
<1> QED BY <1>5, <1>6, <1>7, <1>11, <1>12, <1>13, <1>14 DEF Next

LEMMA CollectorsBegin == Init => B!Init /\ I!Init
BY DEF Init

\* What every natural number has, the least one without it would have too.
LEMMA NoLeast ==
  ASSUME NEW Bad \in SUBSET Nat, \A n \in Bad : n # 0 /\ n - 1 \in Bad
  PROVE  Bad = {}
<1> DEFINE L == OpToRel(<, Nat)
<1>1. IsWellFoundedOn(L, Nat) /\ \A m, n \in Nat : << n, m >> \in L <=> n < m
  BY NatLessThanWellFounded DEF OpToRel
<1> HIDE DEF L
<1> SUFFICES ASSUME Bad # {} PROVE FALSE
  OBVIOUS
<1>2. PICK n \in Bad : \A m \in Bad : ~(<< m, n >> \in L)
  BY <1>1, WFMin
<1>3. n - 1 \in Bad /\ n - 1 < n
  BY <1>2
<1> QED BY <1>1, <1>2, <1>3

-----------------------------------------------------------------------------
(* COLLECT_BACKUP_DRYRUN. Paths first: a prefix agrees in every place, and a *)
(* path without a link on the way is what the system makes of it.            *)
Text == Seq(STRING)

LEMMA PrefixIs ==
  ASSUME NEW q \in Text, NEW p \in Text
  PROVE  B!IsPrefix(q, p) <=> Len(q) <= Len(p) /\ \A i \in 1..Len(q) : q[i] = p[i]
<1>1. SubSeq(q, 1, Len(q)) = q
  BY DEF Text
<1>2. CASE Len(q) <= Len(p)
  <2>1. /\ SubSeq(p, 1, Len(q)) \in Text /\ Len(SubSeq(p, 1, Len(q))) = Len(q)
        /\ \A i \in 1..Len(q) : SubSeq(p, 1, Len(q))[i] = p[i]
    BY <1>2 DEF Text
  <2>2. q = SubSeq(p, 1, Len(q)) <=> \A i \in 1..Len(q) : q[i] = p[i]
    BY <2>1 DEF Text
  <2> QED BY <1>1, <1>2, <2>2 DEF B!IsPrefix
<1> QED BY <1>2 DEF B!IsPrefix

LEMMA PrefixOfPrefix ==
  ASSUME NEW o \in Text, NEW q \in Text, NEW p \in Text, B!IsPrefix(o, q), B!IsPrefix(q, p)
  PROVE  B!IsPrefix(o, p)
<1>1. Len(o) <= Len(q) /\ Len(q) <= Len(p) /\ Len(o) \in Nat /\ Len(q) \in Nat /\ Len(p) \in Nat
  BY PrefixIs DEF Text
<1>2. \A i \in 1..Len(o) : o[i] = p[i]
  BY <1>1, PrefixIs
<1> QED BY <1>1, <1>2, PrefixIs

\* The beginnings of a path, by length.
LEMMA CutIs ==
  ASSUME NEW p \in Text, NEW k \in 0..Len(p)
  PROVE  /\ SubSeq(p, 1, k) \in Text /\ Len(SubSeq(p, 1, k)) = k
         /\ \A i \in 1..k : SubSeq(p, 1, k)[i] = p[i]
         /\ B!IsPrefix(SubSeq(p, 1, k), p)
<1>1. /\ SubSeq(p, 1, k) \in Text /\ Len(SubSeq(p, 1, k)) = k
      /\ \A i \in 1..k : SubSeq(p, 1, k)[i] = p[i]
  BY DEF Text
<1> DEFINE c == SubSeq(p, 1, k)
<1> HIDE DEF c
<1>2. c \in Text /\ Len(c) = k /\ \A i \in 1..k : c[i] = p[i]
  BY <1>1 DEF c
<1>3. k <= Len(p)
  BY DEF Text
<1>4. B!IsPrefix(c, p)
  BY <1>2, <1>3, PrefixIs
<1> QED BY <1>1, <1>4 DEF c

LEMMA PrefixIsCut ==
  ASSUME NEW q \in Text, NEW p \in Text, B!IsPrefix(q, p)
  PROVE  q = SubSeq(p, 1, Len(q)) /\ Len(q) \in 0..Len(p)
<1>1. Len(q) \in 0..Len(p) /\ \A i \in 1..Len(q) : q[i] = p[i]
  BY PrefixIs DEF Text
<1>2. /\ SubSeq(p, 1, Len(q)) \in Text /\ Len(SubSeq(p, 1, Len(q))) = Len(q)
      /\ \A i \in 1..Len(q) : SubSeq(p, 1, Len(q))[i] = p[i]
  BY <1>1, CutIs
<1> QED BY <1>1, <1>2 DEF Text

\* A beginning of a beginning is one.
LEMMA CutOfCut ==
  ASSUME NEW p \in Text, NEW k \in 0..Len(p), NEW j \in 0..k
  PROVE  SubSeq(SubSeq(p, 1, k), 1, j) = SubSeq(p, 1, j)
<1>1. SubSeq(p, 1, k) \in Text /\ Len(SubSeq(p, 1, k)) = k /\ \A i \in 1..k : SubSeq(p, 1, k)[i] = p[i]
  BY CutIs
<1>2. /\ SubSeq(SubSeq(p, 1, k), 1, j) \in Text /\ Len(SubSeq(SubSeq(p, 1, k), 1, j)) = j
      /\ \A i \in 1..j : SubSeq(SubSeq(p, 1, k), 1, j)[i] = SubSeq(p, 1, k)[i]
  BY <1>1, CutIs
<1>3. SubSeq(p, 1, j) \in Text /\ Len(SubSeq(p, 1, j)) = j /\ \A i \in 1..j : SubSeq(p, 1, j)[i] = p[i]
  BY CutIs
<1>4. \A i \in 1..j : SubSeq(SubSeq(p, 1, k), 1, j)[i] = SubSeq(p, 1, j)[i]
  BY <1>1, <1>2, <1>3
<1> QED BY <1>2, <1>3, <1>4 DEF Text

LEMMA StraightCut ==
  ASSUME NEW p \in Text, B!IsStraight(p), NEW k \in 0..Len(p)
  PROVE  B!IsStraight(SubSeq(p, 1, k))
<1>1. Len(SubSeq(p, 1, k)) = k /\ k \in Nat /\ k <= Len(p)
  BY CutIs DEF Text
<1>2. \A j \in 1..k : SubSeq(SubSeq(p, 1, k), 1, j) = SubSeq(p, 1, j)
  BY CutOfCut DEF Text
<1>3. \A j \in 1..k : B!Kind(SubSeq(p, 1, j)) # "link"
  BY <1>1 DEF B!IsStraight, Text
<1> DEFINE c == SubSeq(p, 1, k)
<1> HIDE DEF c
<1>4. Len(c) = k /\ \A j \in 1..k : B!Kind(SubSeq(c, 1, j)) # "link"
  BY <1>1, <1>2, <1>3 DEF c
<1>5. B!IsStraight(c)
  BY <1>4 DEF B!IsStraight
<1> QED BY <1>5 DEF c

\* Such a path is its own, with a last name or without.
LEMMA StraightIsReal ==
  ASSUME NEW p \in Text, B!IsStraight(p)
  PROVE  B!RealPath(p) = p /\ B!OwnPath(p) = p
<1>1. B!RealPath(p) = p
  BY DEF B!RealPath
<1>2. CASE p # <<>>
  <2>1. B!Front(p) = SubSeq(p, 1, Len(p) - 1) /\ Len(p) - 1 \in 0..Len(p)
    BY <1>2 DEF B!Front, Text
  <2>2. B!RealPath(B!Front(p)) = B!Front(p)
    BY <2>1, StraightCut DEF B!RealPath
  <2>3. Append(SubSeq(p, 1, Len(p) - 1), p[Len(p)]) = p
    BY <1>2 DEF Text
  <2> QED BY <1>1, <1>2, <2>1, <2>2, <2>3 DEF B!OwnPath, B!Last
<1> QED BY <1>1, <1>2 DEF B!OwnPath

\* What the system makes of a path has no link on the way, if it is there.
LEMMA RealIsStraight ==
  ASSUME NEW p, B!Nowhere \notin DOMAIN tree, B!Kind(B!RealPath(p)) # "none"
  PROVE  B!RealPath(p) \in DOMAIN tree /\ B!IsStraight(B!RealPath(p))
<1>1. B!RealPath(p) \in DOMAIN tree
  BY DEF B!Kind
<1> QED BY <1>1 DEF B!RealPath

\* In a sound tree every beginning of the path of something is a directory.
LEMMA AllDirectories ==
  ASSUME B!TreeSound(tree), NEW p \in DOMAIN tree, B!Kind(p) # "none"
  PROVE  \A k \in 0..(Len(p) - 1) : SubSeq(p, 1, k) \in DOMAIN tree /\ B!Kind(SubSeq(p, 1, k)) = "dir"
<1>1. p \in Text /\ Len(p) \in Nat
  BY DEF B!TreeSound, Text
<1> DEFINE Dir(k) == SubSeq(p, 1, k) \in DOMAIN tree /\ B!Kind(SubSeq(p, 1, k)) = "dir"
           Bad == {n \in Nat : n < Len(p) /\ ~Dir(Len(p) - 1 - n)}
<1>2. ASSUME NEW q \in DOMAIN tree, B!Kind(q) # "none", q # <<>>
      PROVE  B!Front(q) \in DOMAIN tree /\ B!Kind(B!Front(q)) = "dir"
  BY <1>2 DEF B!TreeSound, B!Kind
<1>3. ASSUME NEW n \in Bad PROVE n # 0 /\ n - 1 \in Bad
  <2>1. CASE n = 0
    <3>1. p # <<>> /\ B!Front(p) = SubSeq(p, 1, Len(p) - 1)
      BY <1>1, <2>1 DEF B!Front
    <3>2. Dir(Len(p) - 1)
      BY <1>2, <3>1
    <3>3. Len(p) - 1 - n = Len(p) - 1
      BY <1>1, <2>1
    <3> QED BY <3>2, <3>3
  <2>2. CASE n # 0 /\ Dir(Len(p) - n)
    <3> DEFINE q == SubSeq(p, 1, Len(p) - n)
    <3>1. Len(p) - n \in 0..Len(p) /\ Len(p) - n > 0 /\ Len(p) - 1 - n \in 0..(Len(p) - n)
      BY <1>1, <2>2
    <3>2. q \in Text /\ Len(q) = Len(p) - n
      BY <1>1, <3>1, CutIs
    <3> HIDE DEF q
    <3>3. B!Front(q) = SubSeq(q, 1, Len(p) - 1 - n) /\ q # <<>>
      <4>1. Len(q) - 1 = Len(p) - 1 - n /\ Len(q) > 0
        BY <1>1, <3>1, <3>2
      <4> QED BY <4>1 DEF B!Front
    <3>4. B!Front(q) = SubSeq(p, 1, Len(p) - 1 - n)
      BY <1>1, <3>1, <3>3, CutOfCut DEF q
    <3>5. q \in DOMAIN tree /\ B!Kind(q) # "none"
      BY <2>2 DEF q
    <3>6. Dir(Len(p) - 1 - n)
      BY <1>2, <3>3, <3>4, <3>5
    <3> QED BY <3>6
  <2>3. CASE n # 0 /\ ~Dir(Len(p) - n)
    <3>1. Len(p) - 1 - (n - 1) = Len(p) - n
      BY <1>1
    <3> QED BY <1>1, <2>3, <3>1
  <2> QED BY <2>1, <2>2, <2>3
<1>4. Bad = {}
  BY <1>3, NoLeast
<1>5. ASSUME NEW k \in 0..(Len(p) - 1) PROVE Dir(k)
  <2>1. Len(p) - 1 - k \in Nat /\ Len(p) - 1 - k < Len(p) /\ Len(p) - 1 - (Len(p) - 1 - k) = k
    BY <1>1
  <2> QED BY <1>4, <2>1
<1> QED BY <1>5

\* The beginnings of the path of a file: directories, but for the file itself.
LEMMA WayToFile ==
  ASSUME B!TreeSound(tree), NEW p \in DOMAIN tree, B!Kind(p) = "file", NEW q \in Text, B!IsPrefix(q, p)
  PROVE  /\ p \in Text /\ B!IsStraight(q) /\ q \in DOMAIN tree
         /\ q # p => B!Kind(q) = "dir" /\ Len(q) < Len(p)
<1>1. p \in Text /\ Len(p) \in Nat
  BY DEF B!TreeSound, Text
<1>2. q = SubSeq(p, 1, Len(q)) /\ Len(q) \in 0..Len(p)
  BY <1>1, PrefixIsCut
<1>3. SubSeq(p, 1, Len(p)) = p
  BY <1>1 DEF Text
<1>4. \A k \in 0..(Len(p) - 1) : SubSeq(p, 1, k) \in DOMAIN tree /\ B!Kind(SubSeq(p, 1, k)) = "dir"
  BY AllDirectories
<1>5. B!IsStraight(p)
  <2> SUFFICES ASSUME NEW k \in 1..Len(p) PROVE B!Kind(SubSeq(p, 1, k)) # "link"
    BY DEF B!IsStraight
  <2>1. CASE k = Len(p)
    BY <1>3, <2>1
  <2>2. CASE k # Len(p)
    BY <1>1, <1>4, <2>2
  <2> QED BY <2>1, <2>2
<1>6. B!IsStraight(q)
  BY <1>1, <1>2, <1>5, StraightCut
<1>7. CASE Len(q) = Len(p)
  BY <1>1, <1>2, <1>3, <1>6, <1>7
<1>8. CASE Len(q) # Len(p)
  <2>1. Len(q) \in 0..(Len(p) - 1) /\ Len(q) < Len(p)
    BY <1>1, <1>2, <1>8
  <2> QED BY <1>1, <1>2, <1>4, <1>6, <2>1
<1> QED BY <1>7, <1>8

(* The walk of a backup. A file holds a place in it from the moment its root *)
(* is begun: the item that is looked at, the directory that is listed, or a  *)
(* name that is left in a directory under way is on the way to it.           *)
OnTheWay(r, q, p) == B!IsPrefix(r.path, q) /\ B!IsPrefix(q, p)
Ahead(r, p) ==
  \/ scan.pc \in {"attributes", "open", "judge"} /\ OnTheWay(r, scan.path, p)
  \/ scan.pc = "list" /\ OnTheWay(r, scan.stack[Len(scan.stack)].dir, p)
  \/ \E j \in 1..Len(scan.stack) : \E n \in scan.stack[j].left : OnTheWay(r, Append(scan.stack[j].dir, n), p)
Met(i, p) ==
  \/ \E e \in scan.entries : e.read = p
  \/ i > Len(scan.of) - Len(scan.left)
  \/ Ahead(scan.of[i], p)
NoneMissed ==
  nEdits = 0 /\ scan.unresolved = 0 =>
    \A i \in 1..Len(scan.of) : \A p \in B!Eligible(scan.of[i]) : Met(i, p)
Inside(e) == e.still => B!IsPrefix(e.root, e.read) /\ ~B!DeniedBySegment(e.read)
Frames == [dir : DOMAIN tree, left : SUBSET STRING]
ScanFields ==
  {"pc", "left", "root", "stack", "path", "canon", "reparse", "entries", "denied", "containers", "unresolved",
   "of", "since", "looked"}
WalkShape ==
  /\ DOMAIN scan = ScanFields
  /\ scan.pc \in {"root", "list", "next", "attributes", "open", "judge"}
  /\ scan.looked \in Nat /\ scan.looked <= nEdits /\ scan.unresolved \in Nat
  /\ scan.stack \in Seq(Frames)
  /\ scan.pc = "root" => scan.stack = <<>>
  /\ scan.pc \in {"list", "next"} => scan.stack # <<>>
  /\ scan.pc = "list" => scan.stack[Len(scan.stack)].left = {}
  /\ scan.pc \in {"attributes", "open", "judge"} => scan.path \in Text \ {<<>>}
WalkRoots ==
  /\ scan.of \in Roots /\ scan.left \in Seq(B!Range(scan.of)) /\ Len(scan.left) <= Len(scan.of)
  /\ \A j \in 1..Len(scan.left) : scan.left[j] = scan.of[Len(scan.of) - Len(scan.left) + j]
WalkJudged ==
  /\ \A e \in scan.entries : Inside(e)
  /\ scan.pc = "judge" =>
       /\ scan.canon \in DOMAIN tree
       /\ scan.stack # <<>> => B!IsPrefix(scan.root, scan.canon)
       /\ scan.looked = nEdits => B!IsStraight(scan.canon)
       /\ nEdits = 0 /\ B!IsStraight(scan.path) => scan.canon = scan.path
TreeHere ==
  /\ nEdits \in Nat /\ DOMAIN tree \subseteq Text \ {B!Nowhere}
  /\ nEdits = 0 => B!TreeSound(tree)
BInv ==
  /\ TreeHere
  /\ scan.pc # "idle" => WalkShape /\ WalkRoots /\ WalkJudged /\ NoneMissed
  /\ ManifestHonest

LEMMA RootsAre ==
  ASSUME NEW roots \in Roots
  PROVE  /\ roots \in Seq(B!Range(roots))
         /\ \A i \in 1..Len(roots) : roots[i] \in B!Range(roots) /\ roots[i].path \in Text \ {<<>>}
<1>1. roots \in Seq(B!Range(roots)) /\ \A r \in B!Range(roots) : r.path \in Text \ {<<>>}
  BY CommandsAssumption DEF B!BackupAssumption, Text
<1>2. \A i \in 1..Len(roots) : roots[i] \in B!Range(roots)
  BY <1>1
<1> QED BY <1>1, <1>2

LEMMA SegmentsOfPrefix ==
  ASSUME NEW q \in Text, NEW p \in Text, B!IsPrefix(q, p), ~B!DeniedBySegment(p)
  PROVE  ~B!DeniedBySegment(q)
<1>1. Len(q) \in Nat /\ Len(p) \in Nat /\ Len(q) <= Len(p) /\ \A i \in 1..Len(q) : q[i] = p[i]
  BY PrefixIs DEF Text
<1>2. \A i \in 1..Len(q) : i \in 1..Len(p)
  BY <1>1
<1> QED BY <1>1, <1>2 DEF B!DeniedBySegment

\* What is on the way to an eligible file is denied by no rule, is what the
\* system makes of it, and names the next thing on the way.
LEMMA WayIsOpen ==
  ASSUME B!TreeSound(tree), NEW r, r.path \in Text \ {<<>>}, NEW p \in B!Eligible(r),
         NEW q \in Text, OnTheWay(r, q, p)
  PROVE  /\ B!IsStraight(q) /\ q \in DOMAIN tree /\ q # <<>>
         /\ ~B!ClassifyDenied(q, B!Base(q))
         /\ q = p => B!Kind(q) = "file"
         /\ q # p => B!Kind(q) = "dir" /\ \E n \in B!NamesIn(q) : OnTheWay(r, Append(q, n), p)
<1>1. /\ p \in DOMAIN tree /\ B!Kind(p) = "file" /\ ~B!DeniedBySegment(p)
      /\ \A i \in Len(r.path)..Len(p) : i > 0 => ~B!DeniedByName(p[i]) /\ ~B!IsArchive(p[i])
  BY DEF B!Eligible
<1>2. B!IsPrefix(r.path, q) /\ B!IsPrefix(q, p)
  BY DEF OnTheWay
<1>3. /\ p \in Text /\ B!IsStraight(q) /\ q \in DOMAIN tree
      /\ q # p => B!Kind(q) = "dir" /\ Len(q) < Len(p)
  BY <1>1, <1>2, WayToFile
<1>4. /\ Len(q) \in Nat /\ Len(p) \in Nat /\ Len(r.path) \in Nat /\ Len(r.path) > 0
      /\ Len(q) <= Len(p) /\ Len(r.path) <= Len(q)
      /\ \A i \in 1..Len(q) : q[i] = p[i]
  BY <1>2, <1>3, PrefixIs DEF Text
<1>5. q # <<>> /\ B!Base(q) = q[Len(q)] /\ Len(q) \in 1..Len(q)
  <2>1. Len(q) > 0 /\ Len(q) \in 1..Len(q)
    BY <1>4
  <2>2. q # <<>>
    BY <2>1
  <2> QED BY <2>1, <2>2 DEF B!Base, B!Last
<1>6. ~B!DeniedBySegment(q)
  BY <1>1, <1>2, <1>3, SegmentsOfPrefix
<1>7. ~B!DeniedByName(q[Len(q)]) /\ ~B!IsArchive(q[Len(q)])
  <2>1. q[Len(q)] = p[Len(q)] /\ Len(q) \in Len(r.path)..Len(p) /\ Len(q) > 0
    BY <1>4, <1>5
  <2> QED BY <1>1, <2>1
<1>8. ~B!ClassifyDenied(q, B!Base(q))
  BY <1>5, <1>6, <1>7 DEF B!ClassifyDenied
<1>9. ASSUME q # p PROVE \E n \in B!NamesIn(q) : OnTheWay(r, Append(q, n), p)
  <2> DEFINE k == Len(q) + 1
             c == SubSeq(p, 1, k)
  <2>1. k \in 0..Len(p) /\ k \in 1..Len(p) /\ k > 0 /\ k - 1 = Len(q) /\ Len(q) < Len(p) /\ Len(q) \in 0..k
    BY <1>3, <1>4, <1>9
  <2>2. c \in Text /\ Len(c) = k /\ (\A i \in 1..k : c[i] = p[i]) /\ B!IsPrefix(c, p)
    BY <1>3, <2>1, CutIs
  <2>3. q = SubSeq(c, 1, k - 1)
    <3>1. q = SubSeq(p, 1, Len(q))
      BY <1>2, <1>3, PrefixIsCut
    <3> QED BY <1>3, <2>1, <3>1, CutOfCut
  <2>4. c \in DOMAIN tree /\ B!Kind(c) # "none"
    <3>1. c \in DOMAIN tree /\ (c # p => B!Kind(c) = "dir")
      BY <1>1, <2>2, WayToFile
    <3> QED BY <1>1, <3>1
  <2> HIDE DEF c, k
  <2>5. B!Front(c) = q /\ B!Last(c) = c[k] /\ c # <<>> /\ c = Append(q, c[k])
    BY <2>1, <2>2, <2>3 DEF B!Front, B!Last, Text
  <2>6. B!Last(c) \in B!NamesIn(q)
    BY <2>4, <2>5 DEF B!NamesIn
  <2>7. B!IsPrefix(r.path, c)
    <3>1. \A i \in 1..Len(r.path) : r.path[i] = p[i]
      BY <1>2, <1>3, PrefixOfPrefix, PrefixIs
    <3>2. Len(r.path) <= k /\ \A i \in 1..Len(r.path) : i \in 1..k
      BY <1>4, <2>1
    <3> QED BY <2>2, <3>1, <3>2, PrefixIs
  <2> QED BY <2>2, <2>5, <2>6, <2>7 DEF OnTheWay
<1> QED BY <1>1, <1>3, <1>5, <1>8, <1>9

LEMMA NoScanIs == B!NoScan.pc = "idle" /\ ~B!NoManifest.done
BY DEF B!NoScan, B!NoManifest

LEMMA BackupInit == B!Init => BInv
<1> SUFFICES ASSUME B!Init PROVE BInv
  OBVIOUS
<1>1. B!TreeSound(tree) /\ nEdits = 0 /\ scan.pc = "idle" /\ ~manifest.done
  BY CommandsAssumption, NoScanIs DEF B!Init, B!BackupAssumption
<1> QED BY <1>1 DEF BInv, TreeHere, B!TreeSound, Text, ManifestHonest, B!EntriesInside, B!NothingSkipped, B!Listed

\* The walk changes neither the tree nor what was said of it.
LEMMA TreeStays ==
  ASSUME tree' = tree, nEdits' = nEdits
  PROVE  /\ Frames' = Frames /\ (\A e : Inside(e)' <=> Inside(e))
         /\ (\A p : B!IsStraight(p)' <=> B!IsStraight(p)) /\ (\A r : B!Eligible(r)' = B!Eligible(r))
         /\ TreeHere => TreeHere'
<1>1. \A p : B!Kind(p)' = B!Kind(p)
  BY DEF B!Kind
<1>2. \A p : B!IsStraight(p)' <=> B!IsStraight(p)
  BY <1>1 DEF B!IsStraight
<1>3. \A r : B!Eligible(r)' = B!Eligible(r)
  BY <1>1 DEF B!Eligible
<1>4. Frames' = Frames /\ \A e : Inside(e)' <=> Inside(e)
  BY DEF Frames, Inside
<1>5. TreeHere => TreeHere'
  BY DEF TreeHere, B!TreeSound
<1> QED BY <1>2, <1>3, <1>4, <1>5

LEMMA ManifestStays ==
  ASSUME ManifestHonest, manifest' = manifest, tree' = tree, nEdits' = nEdits
  PROVE  ManifestHonest'
<1>1. B!EntriesInside'
  BY DEF ManifestHonest, B!EntriesInside, B!Listed
<1>2. B!NothingSkipped'
  BY TreeStays DEF ManifestHonest, B!NothingSkipped
<1> QED BY <1>1, <1>2 DEF ManifestHonest

\* A step of the walk that looks at nothing new: it counts and goes back to
\* what is left, and if it lets something go it has counted that.
LEMMA GoesBack ==
  ASSUME BInv, scan.pc # "idle", B!Quiet,
         DOMAIN scan' = ScanFields,
         scan'.of = scan.of, scan'.left = scan.left, scan'.looked = scan.looked, scan'.unresolved \in Nat,
         scan'.pc \in {"root", "next"}, (scan'.pc = "root") <=> (scan'.stack = <<>>),
         scan'.stack \in Seq(Frames),
         \A e \in scan'.entries : Inside(e),
         nEdits = 0 /\ scan'.unresolved = 0 => NoneMissed'
  PROVE  BInv'
<1>1. TreeHere' /\ ManifestHonest'
  BY TreeStays, ManifestStays DEF BInv, B!Quiet
<1>2. WalkShape'
  BY TreeStays DEF BInv, B!Quiet, WalkShape
<1>3. WalkRoots'
  BY DEF BInv, WalkRoots
<1>4. WalkJudged'
  BY TreeStays DEF B!Quiet, WalkJudged
<1>5. NoneMissed'
  BY DEF NoneMissed, B!Quiet
<1> QED BY <1>1, <1>2, <1>3, <1>4, <1>5 DEF BInv

\* The walk misses nothing as long as whatever is ahead stays so or is listed.
LEMMA StaysAhead ==
  ASSUME BInv, scan.pc # "idle", B!Quiet,
         scan'.of = scan.of, scan'.left = scan.left, scan'.unresolved = scan.unresolved,
         scan.entries \subseteq scan'.entries,
         \A r, p : /\ nEdits = 0 /\ B!TreeSound(tree) /\ r.path \in Text \ {<<>>}
                   /\ p \in B!Eligible(r) /\ Ahead(r, p)
                   => Ahead(r, p)' \/ \E e \in scan'.entries : e.read = p
  PROVE  NoneMissed'
<1> SUFFICES ASSUME nEdits = 0, scan.unresolved = 0, NEW i \in 1..Len(scan.of), NEW p \in B!Eligible(scan.of[i])
             PROVE  Met(i, p)'
  BY TreeStays DEF B!Quiet, NoneMissed
<1>1. Met(i, p)
  BY DEF BInv, NoneMissed
<1>2. B!TreeSound(tree)
  BY DEF BInv, TreeHere
<1>3. scan.of[i].path \in Text \ {<<>>}
  BY RootsAre DEF BInv, WalkRoots
<1>4. CASE \E e \in scan.entries : e.read = p
  BY <1>4 DEF Met
<1>5. CASE i > Len(scan.of) - Len(scan.left)
  BY <1>5 DEF Met
<1>6. CASE Ahead(scan.of[i], p)
  <2>1. Ahead(scan.of[i], p)' \/ \E e \in scan'.entries : e.read = p
    <3> DEFINE r == scan.of[i]
    <3>1. r' = r
      OBVIOUS
    <3> HIDE DEF r
    <3>2. Ahead(r, p)' \/ \E e \in scan'.entries : e.read = p
      <4>1. r.path \in Text \ {<<>>} /\ p \in B!Eligible(r) /\ Ahead(r, p)
        BY <1>3, <1>6 DEF r
      <4>2. PICK x : x = r
        OBVIOUS
      <4>3. Ahead(x, p)' \/ \E e \in scan'.entries : e.read = p
        BY <1>2, <4>1, <4>2
      <4> QED BY <3>1, <4>2, <4>3
    <3> QED BY <3>2 DEF r
  <2> QED BY <2>1 DEF Met
<1> QED BY <1>1, <1>4, <1>5, <1>6 DEF Met

\* The frames of the walk: the last one is taken away, or one comes on top.
LEMMA FramesPop ==
  ASSUME NEW s \in Seq(Frames), s # <<>>
  PROVE  /\ B!Front(s) \in Seq(Frames) /\ Len(B!Front(s)) = Len(s) - 1 /\ Len(s) \in 1..Len(s)
         /\ B!Last(s) = s[Len(s)] /\ s[Len(s)] \in Frames
         /\ \A j \in 1..(Len(s) - 1) : B!Front(s)[j] = s[j]
<1>1. Len(s) \in 1..Len(s) /\ Len(s) - 1 \in Nat /\ \A j \in 1..(Len(s) - 1) : j \in 1..Len(s)
  <2>1. Len(s) \in Nat /\ Len(s) # 0
    OBVIOUS
  <2> QED BY <2>1
<1>2. /\ SubSeq(s, 1, Len(s) - 1) \in Seq(Frames) /\ Len(SubSeq(s, 1, Len(s) - 1)) = Len(s) - 1
      /\ \A j \in 1..(Len(s) - 1) : SubSeq(s, 1, Len(s) - 1)[j] = s[j]
  <2> DEFINE k == Len(s) - 1
  <2>1. k \in Nat /\ k <= Len(s)
    BY <1>1
  <2> HIDE DEF k
  <2>2. SubSeq(s, 1, k) \in Seq(Frames) /\ Len(SubSeq(s, 1, k)) = k
    <3>1. \A j \in 1..k : s[j] \in Frames
      BY <2>1
    <3> QED BY <2>1, <3>1
  <2>3. \A j \in 1..k : SubSeq(s, 1, k)[j] = s[j]
    BY <2>1
  <2> QED BY <2>2, <2>3 DEF k
<1>3. s[Len(s)] \in Frames
  BY <1>1
<1> QED BY <1>1, <1>2, <1>3 DEF B!Front, B!Last

LEMMA NamesAre ==
  ASSUME TreeHere, NEW d
  PROVE  B!NamesIn(d) \subseteq STRING
<1> SUFFICES ASSUME NEW q \in DOMAIN tree, q # <<>> PROVE B!Last(q) \in STRING
  BY DEF B!NamesIn
<1>1. q \in Text
  BY DEF TreeHere
<1>2. Len(q) \in 1..Len(q)
  BY <1>1 DEF Text
<1> QED BY <1>1, <1>2 DEF Text, B!Last

LEMMA LosesWell ==
  ASSUME BInv, scan.pc \in {"open", "judge"}, B!Unresolved
  PROVE  BInv'
<1>1. WalkShape
  BY DEF BInv
<1>2. /\ DOMAIN scan' = ScanFields /\ scan'.of = scan.of /\ scan'.left = scan.left /\ scan'.looked = scan.looked
      /\ scan'.unresolved = scan.unresolved + 1 /\ scan'.stack = scan.stack /\ scan'.entries = scan.entries
      /\ scan'.pc = (IF scan.stack = <<>> THEN "root" ELSE "next") /\ B!Quiet
  BY <1>1 DEF B!Unresolved, B!Resume, WalkShape, ScanFields
<1>3. scan'.unresolved \in Nat /\ scan'.unresolved # 0
  BY <1>1, <1>2 DEF WalkShape
<1>4. \A e \in scan.entries : Inside(e)
  BY DEF BInv, WalkJudged
<1> QED BY <1>1, <1>2, <1>3, <1>4, GoesBack DEF WalkShape

LEMMA DeniesWell ==
  ASSUME BInv, scan.pc = "judge", NEW name, B!Denied(name),
         name = B!Base(IF scan.stack = <<>> THEN scan.canon ELSE scan.path), B!ClassifyDenied(scan.canon, name)
  PROVE  BInv'
<1>1. WalkShape /\ WalkJudged
  BY DEF BInv
<1>2. /\ DOMAIN scan' = ScanFields /\ scan'.of = scan.of /\ scan'.left = scan.left /\ scan'.looked = scan.looked
      /\ scan'.unresolved = scan.unresolved /\ scan'.stack = scan.stack /\ scan'.entries = scan.entries
      /\ scan'.pc = (IF scan.stack = <<>> THEN "root" ELSE "next") /\ B!Quiet
  BY <1>1 DEF B!Denied, B!Resume, WalkShape, ScanFields
<1>3. ASSUME nEdits = 0, B!TreeSound(tree), NEW r, r.path \in Text \ {<<>>}, NEW p \in B!Eligible(r), Ahead(r, p)
      PROVE  Ahead(r, p)'
  <2>1. ~OnTheWay(r, scan.path, p)
    <3> SUFFICES ASSUME OnTheWay(r, scan.path, p) PROVE FALSE
      OBVIOUS
    <3>1. scan.path \in Text
      BY <1>1 DEF WalkShape
    <3>2. B!IsStraight(scan.path) /\ ~B!ClassifyDenied(scan.path, B!Base(scan.path))
      BY <1>3, <3>1, WayIsOpen
    <3>3. scan.canon = scan.path
      BY <1>1, <1>3, <3>2 DEF WalkJudged
    <3> QED BY <3>2, <3>3
  <2> QED BY <1>2, <1>3, <2>1 DEF Ahead, OnTheWay
<1>4. NoneMissed'
  BY <1>2, <1>3, StaysAhead
<1> QED BY <1>1, <1>2, <1>4, GoesBack DEF WalkShape, WalkJudged

LEMMA DescendsWell ==
  ASSUME BInv, scan.pc = "judge", B!Descend(scan.canon)
  PROVE  BInv'
<1>1. WalkShape /\ WalkJudged /\ WalkRoots
  BY DEF BInv
<1> DEFINE new == [dir |-> scan.canon, left |-> {}]
<1>2. /\ DOMAIN scan' = ScanFields /\ scan'.of = scan.of /\ scan'.left = scan.left /\ scan'.looked = scan.looked
      /\ scan'.unresolved = scan.unresolved /\ scan'.stack = Append(scan.stack, new) /\ scan'.entries = scan.entries
      /\ scan'.pc = "list" /\ B!Quiet
  BY <1>1 DEF B!Descend, WalkShape, ScanFields
<1>3. new \in Frames /\ new.dir = scan.canon /\ new.left = {}
  BY <1>1 DEF Frames, WalkJudged
<1> HIDE DEF new
<1>4. /\ scan'.stack \in Seq(Frames) /\ Len(scan'.stack) = Len(scan.stack) + 1 /\ scan'.stack # <<>>
      /\ scan'.stack[Len(scan'.stack)] = new /\ \A j \in 1..Len(scan.stack) : scan'.stack[j] = scan.stack[j]
      /\ \A j \in 1..Len(scan.stack) : j \in 1..Len(scan'.stack)
  BY <1>1, <1>2, <1>3 DEF WalkShape
<1>5. ASSUME nEdits = 0, B!TreeSound(tree), NEW r, r.path \in Text \ {<<>>}, NEW p \in B!Eligible(r), Ahead(r, p)
      PROVE  Ahead(r, p)'
  <2>1. CASE OnTheWay(r, scan.path, p)
    <3>1. B!IsStraight(scan.path)
      BY <1>1, <1>5, <2>1, WayIsOpen DEF WalkShape
    <3>2. scan.canon = scan.path
      BY <1>1, <1>5, <3>1 DEF WalkJudged
    <3> QED BY <1>2, <1>3, <1>4, <2>1, <3>2 DEF Ahead, OnTheWay
  <2>2. CASE \E j \in 1..Len(scan.stack) : \E n \in scan.stack[j].left : OnTheWay(r, Append(scan.stack[j].dir, n), p)
    BY <1>4, <2>2 DEF Ahead, OnTheWay
  <2> QED BY <1>5, <2>1, <2>2 DEF Ahead
<1>6. NoneMissed'
  BY <1>2, <1>5, StaysAhead
<1>7. TreeHere' /\ ManifestHonest'
  BY <1>2, TreeStays, ManifestStays DEF BInv, B!Quiet
<1>8. WalkShape'
  BY <1>1, <1>2, <1>3, <1>4, TreeStays DEF B!Quiet, WalkShape
<1>9. WalkRoots' /\ WalkJudged'
  BY <1>1, <1>2, TreeStays DEF B!Quiet, WalkRoots, WalkJudged
<1> QED BY <1>6, <1>7, <1>8, <1>9 DEF BInv

LEMMA ListsWell ==
  ASSUME BInv, B!List
  PROVE  BInv'
<1>1. WalkShape /\ WalkJudged /\ TreeHere /\ scan.pc = "list" /\ B!Quiet
  BY DEF BInv, B!List
<1> DEFINE top == Len(scan.stack)
           dir == scan.stack[top].dir
<1>2. /\ scan.stack # <<>> /\ B!Last(scan.stack) = scan.stack[top] /\ top \in 1..Len(scan.stack)
      /\ scan.stack[top] \in Frames
      /\ B!Front(scan.stack) \in Seq(Frames)
  BY <1>1, FramesPop DEF WalkShape
<1>3. CASE scan' = B!Resume(B!Pop(B!CountUnresolved(scan)))
  <2>1. /\ DOMAIN scan' = ScanFields /\ scan'.of = scan.of /\ scan'.left = scan.left /\ scan'.looked = scan.looked
        /\ scan'.unresolved = scan.unresolved + 1 /\ scan'.stack = B!Front(scan.stack) /\ scan'.entries = scan.entries
        /\ scan'.pc = (IF B!Front(scan.stack) = <<>> THEN "root" ELSE "next")
    BY <1>1, <1>3 DEF B!Resume, B!Pop, B!CountUnresolved, WalkShape, ScanFields
  <2>2. scan'.unresolved \in Nat /\ scan'.unresolved # 0
    BY <1>1, <2>1 DEF WalkShape
  <2> QED BY <1>1, <1>2, <2>1, <2>2, GoesBack DEF WalkJudged
<1>4. CASE /\ B!Kind(B!RealPath(dir)) = "dir"
           /\ scan' = [scan EXCEPT !.pc = "next", !.stack[top].left = B!NamesIn(B!RealPath(dir))]
  <2> DEFINE names == B!NamesIn(B!RealPath(dir))
  <2>1. names \subseteq STRING
    BY <1>1, NamesAre
  <2> HIDE DEF names
  <2>2. /\ DOMAIN scan' = ScanFields /\ scan'.of = scan.of /\ scan'.left = scan.left /\ scan'.looked = scan.looked
        /\ scan'.unresolved = scan.unresolved /\ scan'.stack = [scan.stack EXCEPT ![top].left = names]
        /\ scan'.entries = scan.entries /\ scan'.pc = "next"
    BY <1>1, <1>4 DEF WalkShape, ScanFields, names
  <2> DEFINE new == [scan.stack[top] EXCEPT !.left = names]
  <2>3. new \in Frames /\ new.dir = dir /\ new.left = names
    BY <1>2, <2>1 DEF Frames
  <2>4. scan'.stack = [scan.stack EXCEPT ![top] = new]
    BY <2>2
  <2> HIDE DEF new
  <2>5. /\ scan'.stack \in Seq(Frames) /\ Len(scan'.stack) = Len(scan.stack) /\ scan'.stack[top] = new
        /\ \A j \in 1..Len(scan.stack) : j # top => scan'.stack[j] = scan.stack[j]
    BY <1>1, <1>2, <2>3, <2>4 DEF WalkShape
  <2>6. scan'.stack # <<>>
    BY <1>2, <2>5
  <2>7. ASSUME nEdits = 0, B!TreeSound(tree), NEW r, r.path \in Text \ {<<>>}, NEW p \in B!Eligible(r), Ahead(r, p)
        PROVE  Ahead(r, p)'
    <3>1. CASE OnTheWay(r, dir, p)
      <4>1. dir \in Text
        BY <1>1, <1>2 DEF Frames, TreeHere
      <4>2. B!RealPath(dir) = dir
        BY <2>7, <3>1, <4>1, WayIsOpen, StraightIsReal
      <4>3. dir # p
        BY <1>4, <2>7, <3>1, <4>1, <4>2, WayIsOpen
      <4>4. PICK n \in names : OnTheWay(r, Append(dir, n), p)
        BY <2>7, <3>1, <4>1, <4>2, <4>3, WayIsOpen DEF names
      <4>5. top \in 1..Len(scan'.stack) /\ scan'.stack[top].dir = dir /\ scan'.stack[top].left = names
        BY <1>2, <2>3, <2>5
      <4> QED BY <4>4, <4>5 DEF Ahead, OnTheWay
    <3>2. ASSUME NEW j \in 1..Len(scan.stack), NEW n \in scan.stack[j].left, OnTheWay(r, Append(scan.stack[j].dir, n), p)
          PROVE  Ahead(r, p)'
      <4>1. CASE j # top
        BY <2>5, <3>2, <4>1 DEF Ahead, OnTheWay
      <4>2. CASE j = top
        BY <1>1, <3>2, <4>2 DEF WalkShape
      <4> QED BY <4>1, <4>2
    <3> QED BY <1>1, <2>7, <3>1, <3>2 DEF Ahead
  <2>8. NoneMissed'
    BY <1>1, <2>2, <2>7, StaysAhead
  <2> QED BY <1>1, <2>2, <2>5, <2>6, <2>8, GoesBack DEF WalkShape, WalkJudged
<1> QED BY <1>1, <1>2, <1>3, <1>4 DEF B!List

LEMMA NamesWell ==
  ASSUME BInv, B!NextName
  PROVE  BInv'
<1>1. WalkShape /\ WalkJudged /\ WalkRoots /\ TreeHere /\ scan.pc = "next" /\ B!Quiet
  BY DEF BInv, B!NextName
<1> DEFINE end == Len(scan.stack)
           top == scan.stack[end]
<1>2. /\ scan.stack # <<>> /\ B!Last(scan.stack) = top /\ end \in 1..Len(scan.stack)
      /\ top \in Frames /\ top.dir \in Text /\ top.left \subseteq STRING
      /\ B!Front(scan.stack) \in Seq(Frames) /\ Len(B!Front(scan.stack)) = end - 1
      /\ \A j \in 1..(end - 1) : B!Front(scan.stack)[j] = scan.stack[j]
  BY <1>1, FramesPop DEF WalkShape, Frames, TreeHere
<1>3. CASE top.left = {}
  <2>1. scan' = B!Resume(B!Pop(scan))
    BY <1>2, <1>3 DEF B!NextName
  <2>2. /\ DOMAIN scan' = ScanFields /\ scan'.of = scan.of /\ scan'.left = scan.left /\ scan'.looked = scan.looked
        /\ scan'.unresolved = scan.unresolved /\ scan'.stack = B!Front(scan.stack) /\ scan'.entries = scan.entries
        /\ scan'.pc = (IF B!Front(scan.stack) = <<>> THEN "root" ELSE "next")
    BY <1>1, <2>1 DEF B!Resume, B!Pop, WalkShape, ScanFields
  <2>3. ASSUME NEW r, NEW p, Ahead(r, p) PROVE Ahead(r, p)'
    <3>1. PICK j \in 1..end : \E n \in scan.stack[j].left : OnTheWay(r, Append(scan.stack[j].dir, n), p)
      BY <1>1, <2>3 DEF Ahead
    <3>2. j # end /\ end \in Nat
      BY <1>1, <1>3, <3>1 DEF WalkShape
    <3>3. j \in 1..(end - 1)
      BY <3>1, <3>2
    <3>4. j \in 1..Len(scan'.stack) /\ scan'.stack[j] = scan.stack[j]
      BY <1>2, <2>2, <3>3
    <3> QED BY <3>1, <3>4 DEF Ahead, OnTheWay
  <2>4. NoneMissed'
    BY <1>1, <2>2, <2>3, StaysAhead
  <2> QED BY <1>1, <1>2, <2>2, <2>4, GoesBack DEF WalkShape, WalkJudged
<1>4. CASE top.left # {}
  <2> DEFINE name == CHOOSE n \in top.left : TRUE
             new == [top EXCEPT !.left = @ \ {name}]
             path == Append(top.dir, name)
  <2>1. name \in top.left
    BY <1>4
  <2> HIDE DEF name
  <2>2. new \in Frames /\ new.dir = top.dir /\ new.left = top.left \ {name}
    BY <1>2 DEF Frames
  <2>3. path \in Text \ {<<>>}
    <3>1. path \in Text /\ Len(path) = Len(top.dir) + 1 /\ Len(top.dir) \in Nat
      BY <1>2, <2>1 DEF Text
    <3> HIDE DEF path
    <3>2. Len(path) # 0
      BY <3>1
    <3> QED BY <3>1, <3>2
  <2>4. /\ DOMAIN scan' = ScanFields /\ scan'.of = scan.of /\ scan'.left = scan.left /\ scan'.looked = scan.looked
        /\ scan'.unresolved = scan.unresolved /\ scan'.stack = [scan.stack EXCEPT ![end].left = @ \ {name}]
        /\ scan'.entries = scan.entries /\ scan'.pc = "attributes" /\ scan'.path = path
    BY <1>1, <1>4 DEF B!NextName, B!Last, WalkShape, ScanFields, name
  <2>5. scan'.stack = [scan.stack EXCEPT ![end] = new]
    BY <1>2, <2>4
  <2> HIDE DEF new, path
  <2>6. /\ scan'.stack \in Seq(Frames) /\ Len(scan'.stack) = Len(scan.stack) /\ scan'.stack[end] = new
        /\ \A j \in 1..Len(scan.stack) : j # end => scan'.stack[j] = scan.stack[j]
    BY <1>1, <1>2, <2>2, <2>5 DEF WalkShape
  <2>7. ASSUME NEW r, NEW p, Ahead(r, p) PROVE Ahead(r, p)'
    <3>0. PICK j \in 1..end : \E n \in scan.stack[j].left : OnTheWay(r, Append(scan.stack[j].dir, n), p)
      BY <1>1, <2>7 DEF Ahead
    <3>1. PICK n \in scan.stack[j].left : OnTheWay(r, Append(scan.stack[j].dir, n), p)
      BY <3>0
    <3>2. CASE j = end /\ n = name
      <4>1. OnTheWay(r, path, p)
        BY <3>1, <3>2 DEF path
      <4> QED BY <2>4, <4>1 DEF Ahead, OnTheWay
    <3>3. CASE j = end /\ n # name
      <4>1. /\ end \in 1..Len(scan'.stack) /\ n \in scan'.stack[end].left
            /\ OnTheWay(r, Append(scan'.stack[end].dir, n), p)
        BY <1>2, <2>2, <2>6, <3>1, <3>3
      <4> QED BY <4>1 DEF Ahead, OnTheWay
    <3>4. CASE j # end
      BY <2>6, <3>1, <3>4 DEF Ahead, OnTheWay
    <3> QED BY <3>2, <3>3, <3>4
  <2>8. NoneMissed'
    BY <1>1, <2>4, <2>7, StaysAhead
  <2>9. TreeHere' /\ ManifestHonest'
    BY <1>1, TreeStays, ManifestStays DEF BInv, B!Quiet
  <2>10. WalkShape'
    BY <1>1, <2>3, <2>4, <2>6, TreeStays DEF B!Quiet, WalkShape
  <2>11. WalkRoots' /\ WalkJudged'
    BY <1>1, <2>4, TreeStays DEF B!Quiet, WalkRoots, WalkJudged
  <2> QED BY <2>8, <2>9, <2>10, <2>11 DEF BInv
<1> QED BY <1>3, <1>4

LEMMA AttributesWell ==
  ASSUME BInv, B!Attributes
  PROVE  BInv'
<1>1. WalkShape /\ WalkJudged /\ WalkRoots /\ scan.pc = "attributes" /\ B!Quiet
  BY DEF BInv, B!Attributes
<1>2. /\ DOMAIN scan' = ScanFields /\ scan'.of = scan.of /\ scan'.left = scan.left /\ scan'.looked = scan.looked
      /\ scan'.unresolved = scan.unresolved /\ scan'.stack = scan.stack /\ scan'.path = scan.path
      /\ scan'.entries = scan.entries /\ scan'.pc = "open"
  BY <1>1 DEF B!Attributes, WalkShape, ScanFields
<1>3. NoneMissed'
  <2>1. ASSUME NEW r, NEW p, Ahead(r, p) PROVE Ahead(r, p)'
    BY <1>1, <1>2, <2>1 DEF Ahead, OnTheWay
  <2> QED BY <1>1, <1>2, <2>1, StaysAhead
<1>4. TreeHere' /\ ManifestHonest'
  BY <1>1, TreeStays, ManifestStays DEF BInv, B!Quiet
<1>5. WalkShape'
  BY <1>1, <1>2, TreeStays DEF B!Quiet, WalkShape
<1>6. WalkRoots' /\ WalkJudged'
  BY <1>1, <1>2, TreeStays DEF B!Quiet, WalkRoots, WalkJudged
<1> QED BY <1>3, <1>4, <1>5, <1>6 DEF BInv

LEMMA OpensWell ==
  ASSUME BInv, B!Open
  PROVE  BInv'
<1>1. WalkShape /\ WalkJudged /\ WalkRoots /\ TreeHere /\ scan.pc = "open"
  BY DEF BInv, B!Open
<1> DEFINE canon == B!RealPath(scan.path)
<1>2. CASE B!Unresolved
  BY <1>1, <1>2, LosesWell
<1>3. CASE /\ B!Kind(canon) # "none" /\ B!Quiet
           /\ scan.stack # <<>> => B!WithinRoot(canon, scan.root)
           /\ scan' = [scan EXCEPT !.pc = "judge", !.canon = canon, !.looked = nEdits]
  <2>1. canon \in DOMAIN tree /\ B!IsStraight(canon)
    BY <1>1, <1>3, RealIsStraight DEF TreeHere
  <2>2. B!IsStraight(scan.path) => canon = scan.path
    BY <1>1, StraightIsReal DEF WalkShape
  <2> HIDE DEF canon
  <2>3. /\ DOMAIN scan' = ScanFields /\ scan'.of = scan.of /\ scan'.left = scan.left /\ scan'.looked = nEdits
        /\ scan'.unresolved = scan.unresolved /\ scan'.stack = scan.stack /\ scan'.path = scan.path
        /\ scan'.entries = scan.entries /\ scan'.pc = "judge" /\ scan'.canon = canon /\ scan'.root = scan.root
    BY <1>1, <1>3 DEF WalkShape, ScanFields
  <2>4. NoneMissed'
    <3>1. ASSUME NEW r, NEW p, Ahead(r, p) PROVE Ahead(r, p)'
      BY <1>1, <2>3, <3>1 DEF Ahead, OnTheWay
    <3> QED BY <1>1, <1>3, <2>3, <3>1, StaysAhead
  <2>5. TreeHere' /\ ManifestHonest'
    BY <1>3, TreeStays, ManifestStays DEF BInv, B!Quiet
  <2>6. nEdits \in Nat /\ nEdits <= nEdits
    BY <1>1 DEF TreeHere
  <2>7. WalkShape'
    BY <1>1, <1>3, <2>3, <2>6, TreeStays DEF B!Quiet, WalkShape
  <2>8. WalkRoots'
    BY <1>1, <2>3 DEF WalkRoots
  <2>9. WalkJudged'
    BY <1>1, <1>3, <2>1, <2>2, <2>3, TreeStays DEF B!Quiet, WalkJudged, B!WithinRoot
  <2> QED BY <2>4, <2>5, <2>7, <2>8, <2>9 DEF BInv
<1> QED BY <1>2, <1>3 DEF B!Open

\* The file that is judged: what is read of it is what was opened, while the
\* tree is still the same.
LEMMA JudgesWell ==
  ASSUME BInv, B!Judge
  PROVE  BInv'
<1>1. WalkShape /\ WalkJudged /\ WalkRoots /\ TreeHere /\ scan.pc = "judge"
  BY DEF BInv, B!Judge
<1> DEFINE canon == scan.canon
           name == B!Base(IF scan.stack = <<>> THEN canon ELSE scan.path)
           read == B!OwnPath(canon)
           entry == [root |-> scan.root, canon |-> canon, read |-> read, still |-> scan.looked = nEdits]
<1>2. CASE B!Unresolved
  BY <1>1, <1>2, LosesWell
<1>3. CASE B!ClassifyDenied(canon, name) /\ B!Denied(name)
  BY <1>1, <1>3, DeniesWell
<1>4. CASE B!Descend(canon)
  BY <1>1, <1>4, DescendsWell
<1>5. CASE /\ scan.stack # <<>> /\ B!Kind(read) \notin {"none", "dir"} /\ ~B!ClassifyDenied(canon, name)
           /\ B!Quiet /\ scan' = B!Resume([scan EXCEPT !.entries = @ \cup {entry}])
  <2>1. /\ DOMAIN scan' = ScanFields /\ scan'.of = scan.of /\ scan'.left = scan.left /\ scan'.looked = scan.looked
        /\ scan'.unresolved = scan.unresolved /\ scan'.stack = scan.stack /\ scan'.entries = scan.entries \cup {entry}
        /\ scan'.pc = (IF scan.stack = <<>> THEN "root" ELSE "next")
    BY <1>1, <1>5 DEF B!Resume, WalkShape, ScanFields
  <2>2. Inside(entry)
    <3> SUFFICES ASSUME entry.still PROVE B!IsPrefix(entry.root, entry.read) /\ ~B!DeniedBySegment(entry.read)
      BY DEF Inside
    <3>1. scan.looked = nEdits /\ entry.root = scan.root /\ entry.read = read
      OBVIOUS
    <3>2. canon \in Text /\ B!IsStraight(canon) /\ B!IsPrefix(scan.root, canon)
      BY <1>1, <1>5, <3>1 DEF WalkJudged, TreeHere
    <3>3. read = canon
      BY <3>2, StraightIsReal
    <3>4. ~B!DeniedBySegment(canon)
      BY <1>5 DEF B!ClassifyDenied
    <3> QED BY <3>1, <3>2, <3>3, <3>4
  <2>3. ASSUME nEdits = 0, B!TreeSound(tree), NEW r, r.path \in Text \ {<<>>}, NEW p \in B!Eligible(r), Ahead(r, p)
        PROVE  Ahead(r, p)' \/ \E e \in scan'.entries : e.read = p
    <3>1. CASE OnTheWay(r, scan.path, p)
      <4>1. B!IsStraight(scan.path) /\ scan.path \in Text /\ (scan.path # p => B!Kind(scan.path) = "dir")
        BY <1>1, <2>3, <3>1, WayIsOpen DEF WalkShape
      <4>2. canon = scan.path
        BY <1>1, <2>3, <4>1 DEF WalkJudged
      <4>3. read = scan.path
        BY <4>1, <4>2, StraightIsReal
      <4>4. entry.read = p
        BY <1>5, <4>1, <4>3
      <4> QED BY <2>1, <4>4
    <3>2. CASE \E j \in 1..Len(scan.stack) : \E n \in scan.stack[j].left : OnTheWay(r, Append(scan.stack[j].dir, n), p)
      BY <2>1, <3>2 DEF Ahead, OnTheWay
    <3> QED BY <1>1, <2>3, <3>1, <3>2 DEF Ahead
  <2> HIDE DEF entry
  <2>4. NoneMissed'
    BY <1>1, <1>5, <2>1, <2>3, StaysAhead
  <2>5. \A e \in scan'.entries : Inside(e)
    BY <1>1, <2>1, <2>2 DEF WalkJudged
  <2> QED BY <1>1, <1>5, <2>1, <2>4, <2>5, GoesBack DEF WalkShape
<1> HIDE DEF canon, name, read, entry
<1> QED BY <1>2, <1>3, <1>4, <1>5 DEF B!Judge, canon, name, read, entry

LEMMA RootsWell ==
  ASSUME BInv, B!NextRoot
  PROVE  BInv'
<1>1. /\ WalkShape /\ WalkJudged /\ WalkRoots /\ NoneMissed /\ TreeHere /\ scan.pc = "root" /\ scan.left # <<>>
      /\ B!Quiet /\ scan.stack = <<>>
  BY DEF BInv, B!NextRoot, WalkShape
<1> DEFINE r == Head(scan.left)
           n == Len(scan.of) - Len(scan.left)
<1>2. /\ Len(scan.of) \in Nat /\ Len(scan.left) \in 1..Len(scan.of) /\ n + 1 \in 1..Len(scan.of) /\ n \in Nat
      /\ r = scan.left[1] /\ r = scan.of[n + 1] /\ r.path \in Text \ {<<>>}
  <2>1. Len(scan.of) \in Nat /\ Len(scan.left) \in Nat /\ Len(scan.left) # 0 /\ Len(scan.left) <= Len(scan.of)
    BY <1>1, RootsAre DEF WalkRoots
  <2> DEFINE a == Len(scan.of)
             b == Len(scan.left)
  <2> HIDE DEF a, b
  <2>2. /\ n + 1 \in 1..Len(scan.of) /\ 1 \in 1..Len(scan.left) /\ n \in Nat
        /\ Len(scan.left) \in 1..Len(scan.of)
    <3>1. a \in Nat /\ b \in Nat /\ b # 0 /\ b <= a
      BY <2>1 DEF a, b
    <3>2. a - b + 1 \in 1..a /\ 1 \in 1..b /\ a - b \in Nat /\ b \in 1..a
      BY <3>1
    <3> QED BY <3>2 DEF a, b
  <2>3. r = scan.left[1] /\ r = scan.of[n + 1]
    <3>1. scan.left[1] = scan.of[Len(scan.of) - Len(scan.left) + 1]
      BY <1>1, <2>2 DEF WalkRoots
    <3>2. Head(scan.left) = scan.left[1]
      BY <1>1 DEF WalkRoots
    <3> QED BY <3>1, <3>2
  <2> QED BY <1>1, <2>1, <2>2, <2>3, RootsAre DEF WalkRoots
<1>3. /\ Tail(scan.left) \in Seq(B!Range(scan.of)) /\ Len(Tail(scan.left)) = Len(scan.left) - 1
      /\ \A j \in 1..(Len(scan.left) - 1) : Tail(scan.left)[j] = scan.left[j + 1]
  <2> DEFINE s == scan.left
             T == B!Range(scan.of)
  <2>1. s \in Seq(T) /\ s # <<>>
    BY <1>1 DEF WalkRoots
  <2> HIDE DEF s, T
  <2>2. Tail(s) \in Seq(T) /\ Len(Tail(s)) = Len(s) - 1
    BY <2>1
  <2>3. \A j \in 1..(Len(s) - 1) : Tail(s)[j] = s[j + 1]
    BY <2>1, <2>2
  <2> QED BY <2>2, <2>3 DEF s, T
<1>4. /\ DOMAIN scan' = ScanFields /\ scan'.of = scan.of /\ scan'.left = Tail(scan.left) /\ scan'.looked = scan.looked
      /\ scan'.stack = scan.stack /\ scan'.entries = scan.entries
      /\ \/ scan'.pc = "attributes" /\ scan'.path = r.path /\ scan'.unresolved = scan.unresolved
         \/ scan'.pc = "root" /\ scan'.unresolved = scan.unresolved + 1
  BY <1>1 DEF B!NextRoot, WalkShape, ScanFields
<1>5. WalkShape'
  <2>1. scan'.pc \in {"root", "attributes"} /\ (scan'.pc = "attributes" => scan'.path \in Text \ {<<>>})
    BY <1>2, <1>4
  <2>2. scan'.unresolved \in Nat
    BY <1>1, <1>4 DEF WalkShape
  <2> HIDE DEF r
  <2> QED BY <1>1, <1>4, <2>1, <2>2, TreeStays DEF B!Quiet, WalkShape
<1>6. WalkRoots'
  <2>1. Len(scan'.left) <= Len(scan'.of)
    BY <1>2, <1>3, <1>4
  <2>2. ASSUME NEW j \in 1..Len(scan'.left)
        PROVE  scan'.left[j] = scan'.of[Len(scan'.of) - Len(scan'.left) + j]
    <3>1. j \in 1..(Len(scan.left) - 1) /\ j + 1 \in 1..Len(scan.left)
      BY <1>2, <1>3, <1>4
    <3>2. scan.left[j + 1] = scan.of[Len(scan.of) - Len(scan.left) + (j + 1)]
      BY <1>1, <3>1 DEF WalkRoots
    <3>3. Len(scan.of) - Len(scan.left) + (j + 1) = Len(scan.of) - (Len(scan.left) - 1) + j
      <4> DEFINE a == Len(scan.of)
                 b == Len(scan.left)
      <4>1. a \in Int /\ b \in Int /\ j \in Int
        BY <1>2, <3>1
      <4> HIDE DEF a, b
      <4>2. a - b + (j + 1) = a - (b - 1) + j
        BY <4>1
      <4> QED BY <4>2 DEF a, b
    <3> QED BY <1>3, <1>4, <3>1, <3>2, <3>3
  <2> QED BY <1>1, <1>3, <1>4, <2>1, <2>2 DEF WalkRoots
<1>7. WalkJudged'
  BY <1>1, <1>4, TreeStays DEF B!Quiet, WalkJudged
<1>8. NoneMissed'
  <2> SUFFICES ASSUME nEdits = 0, scan'.unresolved = 0, NEW i \in 1..Len(scan.of), NEW p \in B!Eligible(scan.of[i])
               PROVE  Met(i, p)'
    BY <1>1, <1>4, TreeStays DEF B!Quiet, NoneMissed
  <2>1. /\ scan.unresolved = 0 /\ scan'.pc = "attributes" /\ scan'.path = r.path
    BY <1>1, <1>4 DEF WalkShape
  <2>2. Met(i, p)
    BY <1>1, <2>1 DEF NoneMissed
  <2>3. ~Ahead(scan.of[i], p)
    BY <1>1 DEF Ahead
  <2>4. CASE \E e \in scan.entries : e.read = p
    BY <1>4, <2>4 DEF Met
  <2>5. CASE i > n + 1
    <3> DEFINE a == Len(scan.of)
               b == Len(scan.left)
    <3>1. a \in Int /\ b \in Int /\ Len(scan'.of) = a /\ Len(scan'.left) = b - 1
      BY <1>2, <1>3, <1>4
    <3> HIDE DEF a, b
    <3>2. i > a - b + 1 /\ i \in Int
      <4>1. i \in Int
        OBVIOUS
      <4> QED BY <2>5, <4>1 DEF a, b
    <3>3. i > Len(scan'.of) - Len(scan'.left)
      BY <3>1, <3>2
    <3> QED BY <3>3 DEF Met
  <2>6. CASE i = n + 1
    <3>1. B!IsPrefix(r.path, p) /\ scan.of[i] = r /\ p \in Text
      BY <1>1, <1>2, <2>6 DEF B!Eligible, B!IsStrictPrefix, TreeHere
    <3>2. OnTheWay(scan.of[i], r.path, p)
      BY <1>2, <3>1, PrefixIs DEF OnTheWay, Text
    <3>3. Ahead(scan.of[i], p)'
      BY <1>4, <2>1, <3>2 DEF Ahead, OnTheWay
    <3> QED BY <3>3 DEF Met
  <2>7. i > n \/ \E e \in scan.entries : e.read = p
    BY <2>2, <2>3 DEF Met
  <2> HIDE DEF n
  <2>8. i \in Int /\ n \in Int
    BY <1>2
  <2>9. i > n + 1 \/ i = n + 1 \/ \E e \in scan.entries : e.read = p
    BY <2>7, <2>8
  <2> QED BY <2>4, <2>5, <2>6, <2>9
<1>9. TreeHere' /\ ManifestHonest'
  BY <1>1, TreeStays, ManifestStays DEF BInv, B!Quiet
<1> QED BY <1>5, <1>6, <1>7, <1>8, <1>9 DEF BInv

LEMMA CompletesWell ==
  ASSUME BInv, B!Complete
  PROVE  BInv'
<1>1. /\ WalkShape /\ WalkJudged /\ WalkRoots /\ NoneMissed /\ TreeHere /\ scan.pc = "root" /\ scan.left = <<>>
      /\ scan.stack = <<>> /\ tree' = tree /\ nEdits' = nEdits
  BY DEF BInv, B!Complete, WalkShape
<1>2. /\ manifest'.entries = scan.entries /\ manifest'.of = scan.of /\ manifest'.unresolved = scan.unresolved
  BY DEF B!Complete
<1>3. B!EntriesInside'
  BY <1>1, <1>2 DEF WalkJudged, Inside, B!EntriesInside, B!Listed
<1>4. B!NothingSkipped'
  <2>1. ASSUME nEdits = 0, scan.unresolved = 0, NEW i \in 1..Len(scan.of), NEW p \in B!Eligible(scan.of[i])
        PROVE  p \in {e.read : e \in scan.entries}
    <3>1. ~Ahead(scan.of[i], p)
      BY <1>1 DEF Ahead
    <3>2. ~(i > Len(scan.of) - Len(scan.left))
      BY <1>1, RootsAre DEF WalkRoots
    <3> QED BY <1>1, <2>1, <3>1, <3>2 DEF NoneMissed, Met
  <2>2. nEdits = 0 /\ scan.unresolved = 0 =>
          \A i \in 1..Len(scan.of) : B!Eligible(scan.of[i]) \subseteq {e.read : e \in scan.entries}
    BY <2>1
  <2>3. \A r : B!Eligible(r)' = B!Eligible(r)
    BY <1>1, TreeStays
  <2> QED BY <1>1, <1>2, <2>2, <2>3 DEF B!NothingSkipped
<1>5. TreeHere' /\ scan'.pc = "idle"
  BY <1>1, TreeStays, NoScanIs DEF B!Complete
<1> QED BY <1>3, <1>4, <1>5 DEF BInv, ManifestHonest

LEMMA BeginsWell ==
  ASSUME BInv, NEW roots \in Roots, B!Begin(roots)
  PROVE  BInv'
<1>1. tree' = tree /\ nEdits' = nEdits /\ TreeHere'
  BY TreeStays DEF BInv, B!Begin
<1>2. CASE roots = <<>>
  BY <1>1, <1>2, NoScanIs DEF B!Begin, BInv, ManifestHonest, B!EntriesInside, B!NothingSkipped, B!Listed
<1>3. CASE roots # <<>>
  <2>1. /\ DOMAIN scan' = ScanFields /\ scan'.of = roots /\ scan'.left = roots /\ scan'.looked = nEdits
        /\ scan'.stack = <<>> /\ scan'.entries = {} /\ scan'.unresolved = 0 /\ scan'.pc = "root"
    BY <1>3 DEF B!Begin, ScanFields
  <2>2. roots \in Seq(B!Range(roots)) /\ Len(roots) \in Nat
    BY RootsAre
  <2>3. ManifestHonest'
    BY <1>1, <1>3, ManifestStays DEF BInv, B!Begin
  <2>4. WalkShape'
    BY <1>1, <2>1 DEF BInv, TreeHere, WalkShape
  <2>5. WalkRoots'
    BY <2>1, <2>2 DEF WalkRoots
  <2>6. WalkJudged'
    BY <2>1 DEF WalkJudged
  <2>7. NoneMissed'
    <3>1. \A i \in 1..Len(roots) : i > Len(roots) - Len(roots)
      BY <2>2
    <3> QED BY <2>1, <3>1 DEF NoneMissed, Met
  <2> QED BY <1>1, <2>3, <2>4, <2>5, <2>6, <2>7 DEF BInv
<1> QED BY <1>2, <1>3

\* After an edit nothing is claimed of what was opened before.
LEMMA EditsWell ==
  ASSUME BInv, B!Edit
  PROVE  BInv'
<1>1. scan' = scan /\ manifest' = manifest /\ DOMAIN tree' = DOMAIN tree /\ nEdits' = nEdits + 1 /\ TreeHere
  BY DEF BInv, B!Edit
<1>2. nEdits' \in Nat /\ nEdits' # 0 /\ TreeHere' /\ \A n \in Nat : n <= nEdits => n <= nEdits' /\ n # nEdits'
  BY <1>1 DEF TreeHere
<1>3. ManifestHonest'
  BY <1>1, <1>2 DEF BInv, ManifestHonest, B!EntriesInside, B!NothingSkipped, B!Listed
<1>4. CASE scan.pc # "idle"
  <2>1. WalkShape'
    BY <1>1, <1>2, <1>4 DEF BInv, WalkShape, Frames
  <2>2. WalkRoots' /\ NoneMissed'
    BY <1>1, <1>2, <1>4 DEF BInv, WalkRoots, NoneMissed
  <2>3. WalkJudged'
    BY <1>1, <1>2, <1>4 DEF BInv, WalkShape, WalkJudged, Inside
  <2> QED BY <1>2, <1>3, <2>1, <2>2, <2>3 DEF BInv
<1> QED BY <1>1, <1>2, <1>3, <1>4 DEF BInv

LEMMA BackupStep == BInv /\ [B!Next]_(B!backup) => BInv'
<1> SUFFICES ASSUME BInv, [B!Next]_(B!backup) PROVE BInv'
  OBVIOUS
<1>1. CASE UNCHANGED B!backup
  <2>1. scan' = scan /\ manifest' = manifest /\ tree' = tree /\ nEdits' = nEdits
    BY <1>1 DEF B!backup
  <2>2. TreeHere' /\ ManifestHonest'
    BY <2>1, TreeStays, ManifestStays DEF BInv
  <2>3. scan.pc # "idle" => WalkShape' /\ WalkRoots' /\ WalkJudged'
    BY <2>1, TreeStays DEF BInv, WalkShape, WalkRoots, WalkJudged
  <2>4. scan.pc # "idle" => NoneMissed'
    BY <2>1, TreeStays DEF BInv, NoneMissed, Met, Ahead, OnTheWay
  <2> QED BY <2>1, <2>2, <2>3, <2>4 DEF BInv
<1>2. CASE B!Abandon
  <2>1. manifest' = manifest /\ tree' = tree /\ nEdits' = nEdits /\ scan'.pc = "idle"
    BY <1>2, NoScanIs DEF B!Abandon
  <2> QED BY <2>1, TreeStays, ManifestStays DEF BInv
<1>3. CASE B!Walk
  BY <1>3, RootsWell, CompletesWell, ListsWell, NamesWell, AttributesWell, OpensWell, JudgesWell DEF B!Walk
<1> QED BY <1>1, <1>2, <1>3, BeginsWell, EditsWell DEF B!Next

(* A manifest tells of files that were inside their root and outside of every *)
(* denied directory when they were read, however the tree was moved and       *)
(* linked under the walk, for any tree, roots and edits; and one that counts  *)
(* nothing as unresolved lists every eligible file of a tree left alone.      *)
THEOREM ManifestsHonest == Spec => []ManifestHonest
<1>1. Init => BInv
  BY CollectorsBegin, BackupInit
<1>2. BInv /\ [Next]_commands => BInv'
  BY CollectorsMove, BackupStep
<1>3. BInv => ManifestHonest
  BY DEF BInv
<1> QED BY <1>1, <1>2, <1>3, PTL DEF Spec
-----------------------------------------------------------------------------
(* COLLECT_INVENTORY. A reading: what a block tells of a source, held        *)
(* against what the source answered.                                         *)
Counted == {"run", "folder", "tasks", "page", "powershell", "history", "getHotfix", "search", "upgrade", "events"}
Reading(s, v, a) ==
  /\ v = 0 => I!Innocent(s, a)
  /\ s \in {<<"cip", "">>, <<"sipolicy", "">>} /\ v = 0 => a.how = "absent" \/ a.n = 0
  /\ s[1] \in Counted => v = I!Held(a)
\* An error that no later source of the block makes good.
Lasting(b) == \E e \in I!Critical(b) : e[1] \notin I!Refusals
BlockShape(b) ==
  /\ DOMAIN b = {"of", "rest", "left", "told", "seen", "errors"}
  /\ b.of \in I!Blocks /\ b.rest \in Seq(I!Blocks) /\ b.left \subseteq 1..Len(I!Sources(b.of))
ToldIsRead(b) ==
  \A s \in DOMAIN b.told :
    /\ s \in DOMAIN b.seen /\ Reading(s, b.told[s], b.seen[s])
    /\ \E i \in (1..Len(I!Sources(b.of))) \ b.left : s = I!Sources(b.of)[i]
Covered(b) ==
  \A i \in 1..Len(I!Sources(b.of)) :
    \/ I!Sources(b.of)[i][1] \in I!Dispensable \/ I!Sources(b.of)[i] \in DOMAIN b.told
    \/ i \in b.left \/ Lasting(b)
LastPage == 3 + MaxPages
OneSource(b) ==
  b.of = "localAdmins" =>
    /\ b.left \cap 4..LastPage # {} => LastPage \in b.left
    /\ (\E s \in DOMAIN b.told : s[1] = "page") => b.left = {} \/ LastPage \in b.left
    /\ <<"powershell", "">> \in DOMAIN b.told => b.left = {} /\ \A s \in DOMAIN b.told : s[1] # "page"
KindsOf(f) ==
  CASE f = "hardware"        -> {"class"}
    [] f = "outdated"        -> {"upgrade"}
    [] f = "securityPosture" -> {"defender", "securityCenter", "firewall", "bitlocker"}
    [] f = "localAdmins"     -> {"alias", "machineSid", "aliasName", "page", "powershell", "wmi"}
    [] f = "pendingReboot"   -> {"key", "value", "computerName"}
    [] f = "deviceHealth"    -> {"drives", "volume", "memory", "uptime"}
    [] f = "diagnostics"     -> {"backend", "dns", "tls"}
    [] f = "services"        -> {"manager", "open", "config", "status"}
    [] f = "hotfix"          -> {"history", "getHotfix", "search", "service", "policy"}
    [] f = "startup"         -> {"run", "folder", "tasks", "rdp", "firewallLog"}
    [] f = "appControl"      -> {"ci", "deviceGuard", "cip", "sipolicy", "srp", "collection", "appIdSvc"}
    [] f = "securityNetwork" -> {"events"}
\* A list of sources: each of them once, of the kinds of its block.
IsList(q, kinds) ==
  /\ Len(q) \in Nat
  /\ \A i \in 1..Len(q) : q[i][1] \in kinds
  /\ \A i, j \in 1..Len(q) : q[i] = q[j] => i = j

\* The blocks whose sources the code names one by one.
LEMMA NamedSources ==
  ASSUME NEW f \in I!Blocks \ {"localAdmins", "deviceHealth", "services"}
  PROVE  IsList(I!Sources(f), KindsOf(f))
<1>1. CASE f = "hardware"
  <2> DEFINE q == I!Sources("hardware")
             k == KindsOf("hardware")
  <2>1. Len(q) = 6 /\ k = {"class"}
    BY DEF I!Sources, KindsOf
  <2>2. /\ q[1][1] = "class" /\ q[2][1] = "class" /\ q[3][1] = "class" /\ q[4][1] = "class"
        /\ q[5][1] = "class" /\ q[6][1] = "class" /\ q[1][2] = "cs" /\ q[2][2] = "os"
        /\ q[3][2] = "cpu" /\ q[4][2] = "bios" /\ q[5][2] = "disks" /\ q[6][2] = "nics"
    BY DEF I!Sources
  <2> HIDE DEF q, k
  <2>3. \A i \in 1..6 : i = 1 \/ i = 2 \/ i = 3 \/ i = 4 \/ i = 5 \/ i = 6
    OBVIOUS
  <2>4. \A i \in 1..6 : q[i][1] \in k
    BY <2>1, <2>2, <2>3
  <2>5. \A i, j \in 1..6 : q[i] = q[j] => i = j
    BY <2>2, <2>3
  <2>6. IsList(q, k)
    BY <2>1, <2>4, <2>5 DEF IsList
  <2> QED BY <1>1, <2>6 DEF q, k
<1>2. CASE f = "outdated"
  <2> DEFINE q == I!Sources("outdated")
             k == KindsOf("outdated")
  <2>1. Len(q) = 1 /\ k = {"upgrade"}
    BY DEF I!Sources, KindsOf
  <2>2. /\ q[1][1] = "upgrade"
    BY DEF I!Sources
  <2> HIDE DEF q, k
  <2>3. \A i \in 1..1 : i = 1
    OBVIOUS
  <2>6. IsList(q, k)
    BY <2>1, <2>2, <2>3 DEF IsList
  <2> QED BY <1>2, <2>6 DEF q, k
<1>3. CASE f = "securityPosture"
  <2> DEFINE q == I!Sources("securityPosture")
             k == KindsOf("securityPosture")
  <2>1. Len(q) = 4 /\ k = {"defender", "securityCenter", "firewall", "bitlocker"}
    BY DEF I!Sources, KindsOf
  <2>2. /\ q[1][1] = "defender" /\ q[2][1] = "securityCenter" /\ q[3][1] = "firewall" /\ q[4][1] = "bitlocker"
    BY DEF I!Sources
  <2> HIDE DEF q, k
  <2>3. \A i \in 1..4 : i = 1 \/ i = 2 \/ i = 3 \/ i = 4
    OBVIOUS
  <2>4. \A i \in 1..4 : q[i][1] \in k
    BY <2>1, <2>2, <2>3
  <2>5. \A i, j \in 1..4 : q[i] = q[j] => i = j
    BY <2>2, <2>3
  <2>6. IsList(q, k)
    BY <2>1, <2>4, <2>5 DEF IsList
  <2> QED BY <1>3, <2>6 DEF q, k
<1>4. CASE f = "pendingReboot"
  <2> DEFINE q == I!Sources("pendingReboot")
             k == KindsOf("pendingReboot")
  <2>1. Len(q) = 6 /\ k = {"key", "value", "computerName"}
    BY DEF I!Sources, KindsOf
  <2>2. /\ q[1][1] = "key" /\ q[2][1] = "key" /\ q[3][1] = "value" /\ q[4][1] = "computerName"
        /\ q[5][1] = "value" /\ q[6][1] = "value" /\ q[1][2] = "cbs" /\ q[2][2] = "windowsUpdate"
        /\ q[3][2] = "renames" /\ q[5][2] = "updateExe" /\ q[6][2] = "netlogon"
    BY DEF I!Sources
  <2> HIDE DEF q, k
  <2>3. \A i \in 1..6 : i = 1 \/ i = 2 \/ i = 3 \/ i = 4 \/ i = 5 \/ i = 6
    OBVIOUS
  <2>4. \A i \in 1..6 : q[i][1] \in k
    BY <2>1, <2>2, <2>3
  <2>5. \A i, j \in 1..6 : q[i] = q[j] => i = j
    BY <2>2, <2>3
  <2>6. IsList(q, k)
    BY <2>1, <2>4, <2>5 DEF IsList
  <2> QED BY <1>4, <2>6 DEF q, k
<1>5. CASE f = "diagnostics"
  <2> DEFINE q == I!Sources("diagnostics")
             k == KindsOf("diagnostics")
  <2>1. Len(q) = 3 /\ k = {"backend", "dns", "tls"}
    BY DEF I!Sources, KindsOf
  <2>2. /\ q[1][1] = "backend" /\ q[2][1] = "dns" /\ q[3][1] = "tls"
    BY DEF I!Sources
  <2> HIDE DEF q, k
  <2>3. \A i \in 1..3 : i = 1 \/ i = 2 \/ i = 3
    OBVIOUS
  <2>4. \A i \in 1..3 : q[i][1] \in k
    BY <2>1, <2>2, <2>3
  <2>5. \A i, j \in 1..3 : q[i] = q[j] => i = j
    BY <2>2, <2>3
  <2>6. IsList(q, k)
    BY <2>1, <2>4, <2>5 DEF IsList
  <2> QED BY <1>5, <2>6 DEF q, k
<1>6. CASE f = "hotfix"
  <2> DEFINE q == I!Sources("hotfix")
             k == KindsOf("hotfix")
  <2>1. Len(q) = 6 /\ k = {"history", "getHotfix", "search", "service", "policy"}
    BY DEF I!Sources, KindsOf
  <2>2. /\ q[1][1] = "history" /\ q[2][1] = "getHotfix" /\ q[3][1] = "search" /\ q[4][1] = "service"
        /\ q[5][1] = "service" /\ q[6][1] = "policy" /\ q[4][2] = "wuauserv" /\ q[5][2] = "bits"
    BY DEF I!Sources
  <2> HIDE DEF q, k
  <2>3. \A i \in 1..6 : i = 1 \/ i = 2 \/ i = 3 \/ i = 4 \/ i = 5 \/ i = 6
    OBVIOUS
  <2>4. \A i \in 1..6 : q[i][1] \in k
    BY <2>1, <2>2, <2>3
  <2>5. \A i, j \in 1..6 : q[i] = q[j] => i = j
    BY <2>2, <2>3
  <2>6. IsList(q, k)
    BY <2>1, <2>4, <2>5 DEF IsList
  <2> QED BY <1>6, <2>6 DEF q, k
<1>7. CASE f = "startup"
  <2> DEFINE q == I!Sources("startup")
             k == KindsOf("startup")
  <2>1. Len(q) = 10 /\ k = {"run", "folder", "tasks", "rdp", "firewallLog"}
    BY DEF I!Sources, KindsOf
  <2>2. /\ q[1][1] = "run" /\ q[2][1] = "run" /\ q[3][1] = "run" /\ q[4][1] = "run"
        /\ q[5][1] = "run" /\ q[6][1] = "folder" /\ q[7][1] = "folder" /\ q[8][1] = "tasks"
        /\ q[9][1] = "rdp" /\ q[10][1] = "firewallLog" /\ q[1][2] = "HKLM" /\ q[2][2] = "HKLM_ONCE"
        /\ q[3][2] = "WOW6432" /\ q[4][2] = "HKCU" /\ q[5][2] = "HKCU_ONCE" /\ q[6][2] = "common"
        /\ q[7][2] = "user"
    BY DEF I!Sources
  <2> HIDE DEF q, k
  <2>3. \A i \in 1..10 : i = 1 \/ i = 2 \/ i = 3 \/ i = 4 \/ i = 5 \/ i = 6 \/ i = 7 \/ i = 8 \/ i = 9 \/ i = 10
    OBVIOUS
  <2>4. \A i \in 1..10 : q[i][1] \in k
    BY <2>1, <2>2, <2>3
  <2>5. \A i, j \in 1..10 : q[i] = q[j] => i = j
    BY <2>2, <2>3
  <2>6. IsList(q, k)
    BY <2>1, <2>4, <2>5 DEF IsList
  <2> QED BY <1>7, <2>6 DEF q, k
<1>8. CASE f = "appControl"
  <2> DEFINE q == I!Sources("appControl")
             k == KindsOf("appControl")
  <2>1. Len(q) = 12 /\ k = {"ci", "deviceGuard", "cip", "sipolicy", "srp", "collection", "appIdSvc"}
    BY DEF I!Sources, KindsOf
  <2>2. /\ q[1][1] = "ci" /\ q[2][1] = "ci" /\ q[3][1] = "deviceGuard" /\ q[4][1] = "cip"
        /\ q[5][1] = "sipolicy" /\ q[6][1] = "srp" /\ q[7][1] = "collection" /\ q[8][1] = "collection"
        /\ q[9][1] = "collection" /\ q[10][1] = "collection" /\ q[11][1] = "collection" /\ q[12][1] = "appIdSvc"
        /\ q[1][2] = "Policy" /\ q[2][2] = "Config" /\ q[7][2] = "Exe" /\ q[8][2] = "Dll"
        /\ q[9][2] = "Script" /\ q[10][2] = "Msi" /\ q[11][2] = "Appx"
    BY DEF I!Sources
  <2> HIDE DEF q, k
  <2>3. \A i \in 1..12 : i = 1 \/ i = 2 \/ i = 3 \/ i = 4 \/ i = 5 \/ i = 6 \/ i = 7 \/ i = 8 \/ i = 9 \/ i = 10 \/ i = 11 \/ i = 12
    OBVIOUS
  <2>4. \A i \in 1..12 : q[i][1] \in k
    BY <2>1, <2>2, <2>3
  <2>5. \A i, j \in 1..12 : q[i] = q[j] => i = j
    BY <2>2, <2>3
  <2>6. IsList(q, k)
    BY <2>1, <2>4, <2>5 DEF IsList
  <2> QED BY <1>8, <2>6 DEF q, k
<1>9. CASE f = "securityNetwork"
  <2> DEFINE q == I!Sources("securityNetwork")
             k == KindsOf("securityNetwork")
  <2>1. Len(q) = 1 /\ k = {"events"}
    BY DEF I!Sources, KindsOf
  <2>2. /\ q[1][1] = "events"
    BY DEF I!Sources
  <2> HIDE DEF q, k
  <2>3. \A i \in 1..1 : i = 1
    OBVIOUS
  <2>6. IsList(q, k)
    BY <2>1, <2>2, <2>3 DEF IsList
  <2> QED BY <1>9, <2>6 DEF q, k
<1> QED BY <1>1, <1>2, <1>3, <1>4, <1>5, <1>6, <1>7, <1>8, <1>9 DEF I!Blocks

\* A list after a list, and one that is given place by place.
LEMMA Joined ==
  ASSUME NEW T, NEW p \in Seq(T), NEW q \in Seq(T)
  PROVE  /\ p \o q \in Seq(T) /\ Len(p) \in Nat /\ Len(q) \in Nat /\ Len(p \o q) = Len(p) + Len(q)
         /\ \A i \in 1..Len(p) : (p \o q)[i] = p[i]
         /\ \A i \in 1..Len(q) : (p \o q)[Len(p) + i] = q[i]
OBVIOUS

LEMMA LocalAdminsSources ==
  LET q == I!Sources("localAdmins") IN
  /\ Len(q) = MaxPages + 5 /\ MaxPages \in Nat \ {0}
  /\ q[1] = <<"alias", "">> /\ q[2] = <<"machineSid", "">> /\ q[3] = <<"aliasName", "">>
  /\ \A i \in 1..MaxPages : q[3 + i] = <<"page", i>>
  /\ q[MaxPages + 4] = <<"powershell", "">> /\ q[MaxPages + 5] = <<"wmi", "">>
<1> DEFINE T == {<<"alias", "">>, <<"machineSid", "">>, <<"aliasName", "">>, <<"powershell", "">>, <<"wmi", "">>}
                  \cup {<<"page", i>> : i \in 1..MaxPages}
           h == <<<<"alias", "">>, <<"machineSid", "">>, <<"aliasName", "">>>>
           p == [i \in 1..MaxPages |-> <<"page", i>>]
           t == <<<<"powershell", "">>, <<"wmi", "">>>>
           q == I!Sources("localAdmins")
<1>1. MaxPages \in Nat \ {0}
  BY CommandsAssumption DEF I!InventoryAssumption
<1>2. q = (h \o p) \o t
  BY DEF I!Sources
<1>3. h \in Seq(T) /\ Len(h) = 3 /\ t \in Seq(T) /\ Len(t) = 2
  <2> DEFINE a == <<"alias", "">>
             b == <<"machineSid", "">>
             c == <<"aliasName", "">>
             d == <<"powershell", "">>
             e == <<"wmi", "">>
  <2>1. a \in T /\ b \in T /\ c \in T /\ d \in T /\ e \in T
    OBVIOUS
  <2> HIDE DEF a, b, c, d, e, T
  <2>2. <<a, b, c>> \in Seq(T) /\ Len(<<a, b, c>>) = 3 /\ <<d, e>> \in Seq(T) /\ Len(<<d, e>>) = 2
    BY <2>1
  <2> QED BY <2>2 DEF a, b, c, d, e
<1>4. p \in Seq(T) /\ Len(p) = MaxPages /\ \A i \in 1..MaxPages : p[i] = <<"page", i>>
  <2>1. \A i \in 1..MaxPages : p[i] = <<"page", i>>
    OBVIOUS
  <2>2. \A i \in 1..MaxPages : <<"page", i>> \in T
    BY <1>1
  <2> HIDE DEF T
  <2>3. p \in Seq(T) /\ Len(p) = MaxPages
    BY <1>1, <2>2
  <2> QED BY <2>1, <2>3
<1>5. h[1] = <<"alias", "">> /\ h[2] = <<"machineSid", "">> /\ h[3] = <<"aliasName", "">>
  OBVIOUS
<1>6. t[1] = <<"powershell", "">> /\ t[2] = <<"wmi", "">>
  OBVIOUS
<1> HIDE DEF h, p, t, q, T
<1>7. /\ h \o p \in Seq(T) /\ Len(h \o p) = 3 + MaxPages
      /\ \A i \in 1..3 : (h \o p)[i] = h[i]
      /\ \A i \in 1..MaxPages : (h \o p)[3 + i] = p[i]
  <2> h \in Seq(T) /\ p \in Seq(T)
    BY <1>3, <1>4
  <2>1. /\ h \o p \in Seq(T) /\ Len(h \o p) = Len(h) + Len(p)
        /\ \A i \in 1..Len(h) : (h \o p)[i] = h[i]
        /\ \A i \in 1..Len(p) : (h \o p)[Len(h) + i] = p[i]
    BY Joined
  <2> QED BY <1>3, <1>4, <2>1
<1> DEFINE r == h \o p
<1> HIDE DEF r
<1>8. r \in Seq(T) /\ Len(r) = 3 + MaxPages /\ \A i \in 1..3 : r[i] = h[i] /\ q = r \o t
  BY <1>2, <1>7 DEF r
<1>8a. \A i \in 1..MaxPages : r[3 + i] = <<"page", i>>
  BY <1>4, <1>7 DEF r
<1>9. /\ Len(q) = Len(r) + 2
      /\ \A i \in 1..Len(r) : q[i] = r[i]
      /\ \A i \in 1..2 : q[Len(r) + i] = t[i]
  <2> r \in Seq(T) /\ t \in Seq(T)
    BY <1>3, <1>8
  <2>1. /\ Len(r \o t) = Len(r) + Len(t)
        /\ \A i \in 1..Len(r) : (r \o t)[i] = r[i]
        /\ \A i \in 1..Len(t) : (r \o t)[Len(r) + i] = t[i]
    BY Joined
  <2> QED BY <1>3, <1>8, <2>1
<1>10. Len(q) = MaxPages + 5
  BY <1>1, <1>8, <1>9
<1>11. \A i \in 1..3 : q[i] = h[i]
  BY <1>1, <1>8, <1>9
<1>12. \A i \in 1..MaxPages : q[3 + i] = <<"page", i>>
  <2> SUFFICES ASSUME NEW i \in 1..MaxPages PROVE q[3 + i] = <<"page", i>>
    OBVIOUS
  <2>1. 3 + i \in 1..Len(r)
    BY <1>1, <1>8
  <2> QED BY <1>8a, <1>9, <2>1
<1>13. q[(3 + MaxPages) + 1] = t[1] /\ q[(3 + MaxPages) + 2] = t[2]
  BY <1>8, <1>9
<1>14. (3 + MaxPages) + 1 = MaxPages + 4 /\ (3 + MaxPages) + 2 = MaxPages + 5
  BY <1>1
<1>15. q[MaxPages + 4] = t[1] /\ q[MaxPages + 5] = t[2]
  BY <1>13, <1>14
<1>16. q[1] = h[1] /\ q[2] = h[2] /\ q[3] = h[3]
  BY <1>11
<1> QED BY <1>1, <1>5, <1>6, <1>10, <1>12, <1>15, <1>16 DEF q

LEMMA ListsJoin ==
  ASSUME NEW T, NEW p \in Seq(T), NEW q \in Seq(T), NEW k, NEW l, k \cap l = {}, IsList(p, k), IsList(q, l)
  PROVE  IsList(p \o q, k \cup l)
<1> DEFINE r == p \o q
<1>1. /\ Len(p) \in Nat /\ Len(q) \in Nat /\ Len(r) = Len(p) + Len(q)
      /\ \A i \in 1..Len(p) : r[i] = p[i]
      /\ \A i \in 1..Len(q) : r[Len(p) + i] = q[i]
  BY Joined
<1> HIDE DEF r
<1> DEFINE m == Len(p)
<1>2. \A i \in 1..Len(r) : (i \in 1..m /\ r[i] = p[i]) \/ (i - m \in 1..Len(q) /\ r[i] = q[i - m])
  <2> SUFFICES ASSUME NEW i \in 1..Len(r), i \notin 1..m PROVE i - m \in 1..Len(q) /\ r[i] = q[i - m]
    BY <1>1
  <2>1. i - m \in 1..Len(q) /\ m + (i - m) = i
    BY <1>1
  <2> QED BY <1>1, <2>1
<1>3. /\ \A i \in 1..m : p[i][1] \in k
      /\ \A i \in 1..Len(q) : q[i][1] \in l
      /\ \A i, j \in 1..m : p[i] = p[j] => i = j
      /\ \A i, j \in 1..Len(q) : q[i] = q[j] => i = j
  BY DEF IsList
<1>4. \A i \in 1..Len(r) : r[i][1] \in k \cup l
  BY <1>2, <1>3
<1>5. ASSUME NEW i \in 1..Len(r), NEW j \in 1..Len(r), r[i] = r[j] PROVE i = j
  <2>1. CASE i \in 1..m /\ r[i] = p[i] /\ j \in 1..m /\ r[j] = p[j]
    BY <1>3, <1>5, <2>1
  <2>2. CASE i - m \in 1..Len(q) /\ r[i] = q[i - m] /\ j - m \in 1..Len(q) /\ r[j] = q[j - m]
    <3>1. i - m = j - m
      BY <1>3, <1>5, <2>2
    <3> QED BY <1>1, <3>1
  <2>3. CASE i \in 1..m /\ r[i] = p[i] /\ j - m \in 1..Len(q) /\ r[j] = q[j - m]
    BY <1>3, <1>5, <2>3
  <2>4. CASE i - m \in 1..Len(q) /\ r[i] = q[i - m] /\ j \in 1..m /\ r[j] = p[j]
    BY <1>3, <1>5, <2>4
  <2> QED BY <1>2, <2>1, <2>2, <2>3, <2>4
<1>6. IsList(r, k \cup l)
  BY <1>1, <1>4, <1>5 DEF IsList
<1> QED BY <1>6 DEF r

LEMMA DeviceHealthSources == IsList(I!Sources("deviceHealth"), KindsOf("deviceHealth"))
<1> DEFINE a == <<"drives", "">>
           d == <<"memory", "">>
           e == <<"uptime", "">>
           v == [i \in 1..Len(Volumes) |-> <<"volume", Volumes[i]>>]
           T == {a, d, e} \cup {v[i] : i \in 1..Len(Volumes)}
           h == <<a>>
           t == <<d, e>>
<1>1. Len(Volumes) \in Nat /\ \A i, j \in 1..Len(Volumes) : Volumes[i] = Volumes[j] => i = j
  BY CommandsAssumption DEF I!InventoryAssumption, I!IsInjective
<1>2. I!Sources("deviceHealth") = (h \o v) \o t
  BY DEF I!Sources
<1>3. a[1] = "drives" /\ d[1] = "memory" /\ e[1] = "uptime"
  OBVIOUS
<1>4. \A i \in 1..Len(Volumes) : v[i][1] = "volume" /\ v[i][2] = Volumes[i]
  OBVIOUS
<1>5. Len(v) = Len(Volumes) /\ v \in Seq(T)
  <2> SUFFICES ASSUME Len(Volumes) \in Nat, \A i \in 1..Len(Volumes) : <<"volume", Volumes[i]>> \in T PROVE Len(v) = Len(Volumes) /\ v \in Seq(T)
    BY <1>1
  <2> HIDE DEF T
  <2> QED OBVIOUS
<1>6. a \in T /\ d \in T /\ e \in T
  OBVIOUS
<1> HIDE DEF a, d, e, v, T
<1>7. h \in Seq(T) /\ Len(h) = 1 /\ h[1] = a /\ t \in Seq(T) /\ Len(t) = 2 /\ t[1] = d /\ t[2] = e
  BY <1>6
<1> HIDE DEF h, t
<1>8. IsList(h, {"drives"}) /\ IsList(t, {"memory", "uptime"})
  <2>1. \A i \in 1..1 : i = 1
    OBVIOUS
  <2>2. \A i \in 1..2 : i = 1 \/ i = 2
    OBVIOUS
  <2>3. d # e
    BY <1>3
  <2> QED BY <1>3, <1>7, <2>1, <2>2, <2>3 DEF IsList
<1>9. IsList(v, {"volume"})
  BY <1>1, <1>4, <1>5 DEF IsList
<1>10. IsList(h \o v, {"drives"} \cup {"volume"}) /\ h \o v \in Seq(T)
  BY <1>5, <1>7, <1>8, <1>9, ListsJoin
<1>11. IsList((h \o v) \o t, ({"drives"} \cup {"volume"}) \cup {"memory", "uptime"})
  <2> DEFINE r == h \o v
  <2> HIDE DEF r
  <2>1. r \in Seq(T) /\ IsList(r, {"drives"} \cup {"volume"})
    BY <1>10 DEF r
  <2>2. IsList(r \o t, ({"drives"} \cup {"volume"}) \cup {"memory", "uptime"})
    BY <1>7, <1>8, <2>1, ListsJoin
  <2> QED BY <2>2 DEF r
<1>12. KindsOf("deviceHealth") = ({"drives"} \cup {"volume"}) \cup {"memory", "uptime"}
  BY DEF KindsOf
<1> QED BY <1>2, <1>11, <1>12

LEMMA ServicesSources == IsList(I!Sources("services"), KindsOf("services"))
<1> DEFINE n == Len(Allowlist)
           w == <<"open", "config", "status">>
           v == I!ServiceSources
           a == <<"manager", "">>
           T == {a} \cup {v[i] : i \in 1..3 * n}
           h == <<a>>
<1>1. n \in Nat /\ \A i, j \in 1..n : Allowlist[i] = Allowlist[j] => i = j
  BY CommandsAssumption DEF I!InventoryAssumption, I!IsInjective
<1>2. I!Sources("services") = h \o v
  BY DEF I!Sources
<1>3. v = [i \in 1..3 * n |-> <<w[1 + ((i - 1) % 3)], Allowlist[1 + ((i - 1) \div 3)]>>]
  BY DEF I!ServiceSources
<1>4. \A i \in 1..3 * n : v[i][1] = w[1 + ((i - 1) % 3)] /\ v[i][2] = Allowlist[1 + ((i - 1) \div 3)]
  BY <1>3
<1>5. w[1] = "open" /\ w[2] = "config" /\ w[3] = "status"
  OBVIOUS
<1>6. 3 * n \in Nat
  BY <1>1
<1>7. Len(v) = 3 * n /\ v \in Seq(T)
  <2>1. \A i \in 1..3 * n : v[i] \in T
    OBVIOUS
  <2> HIDE DEF T
  <2>2. v \in [1..3 * n -> T]
    BY <1>3, <2>1
  <2> HIDE DEF v
  <2> QED BY <1>6, <2>2
<1>8. a \in T /\ a[1] = "manager"
  OBVIOUS
<1>9. \A i \in 1..3 * n : 1 + ((i - 1) % 3) \in 1..3 /\ 1 + ((i - 1) \div 3) \in 1..n
  BY <1>1
<1> HIDE DEF n, w, v, a, T
<1>10. \A i \in 1..3 : i = 1 \/ i = 2 \/ i = 3
  OBVIOUS
<1>11. \A i \in 1..3 * n : v[i][1] \in {"open", "config", "status"}
  BY <1>4, <1>5, <1>9, <1>10
<1>12. ASSUME NEW i \in 1..3 * n, NEW j \in 1..3 * n, v[i] = v[j] PROVE i = j
  <2> DEFINE x == 1 + ((i - 1) % 3)
             y == 1 + ((j - 1) % 3)
             x2 == 1 + ((i - 1) \div 3)
             y2 == 1 + ((j - 1) \div 3)
  <2>1. w[x] = w[y] /\ Allowlist[x2] = Allowlist[y2]
    BY <1>4, <1>12
  <2>2. x \in 1..3 /\ y \in 1..3 /\ x2 \in 1..n /\ y2 \in 1..n
    BY <1>9
  <2>3. x = y /\ x2 = y2
    <3> HIDE DEF x, y, x2, y2
    <3> QED BY <1>1, <1>5, <1>10, <2>1, <2>2
  <2>4. i \in Int /\ j \in Int
    BY <1>6
  <2> QED BY <2>3, <2>4
<1>13. IsList(v, {"open", "config", "status"})
  BY <1>6, <1>7, <1>11, <1>12 DEF IsList
<1>14. h \in Seq(T) /\ Len(h) = 1 /\ h[1] = a
  BY <1>8
<1> HIDE DEF h
<1>15. IsList(h, {"manager"})
  <2>1. \A i \in 1..1 : i = 1
    OBVIOUS
  <2> QED BY <1>8, <1>14, <2>1 DEF IsList
<1>16. IsList(h \o v, {"manager"} \cup {"open", "config", "status"})
  BY <1>7, <1>13, <1>14, <1>15, ListsJoin
<1>17. KindsOf("services") = {"manager"} \cup {"open", "config", "status"}
  BY DEF KindsOf
<1> QED BY <1>2, <1>16, <1>17

LEMMA SourcesAre ==
  ASSUME NEW f \in I!Blocks
  PROVE  IsList(I!Sources(f), KindsOf(f))
<1>1. CASE f = "localAdmins"
  <2> DEFINE q == I!Sources("localAdmins")
             k == KindsOf("localAdmins")
             M == MaxPages
  <2>1. /\ Len(q) = M + 5 /\ M \in Nat
        /\ q[1][1] = "alias" /\ q[2][1] = "machineSid" /\ q[3][1] = "aliasName"
        /\ \A i \in 1..M : q[3 + i][1] = "page" /\ q[3 + i][2] = i
        /\ q[M + 4][1] = "powershell" /\ q[M + 5][1] = "wmi"
    <3>1. /\ Len(q) = M + 5 /\ M \in Nat
          /\ q[1] = <<"alias", "">> /\ q[2] = <<"machineSid", "">> /\ q[3] = <<"aliasName", "">>
          /\ \A i \in 1..M : q[3 + i] = <<"page", i>>
          /\ q[M + 4] = <<"powershell", "">> /\ q[M + 5] = <<"wmi", "">>
      BY LocalAdminsSources
    <3> HIDE DEF q, M
    <3>2. \A i \in 1..M : q[3 + i][1] = "page" /\ q[3 + i][2] = i
      <4> SUFFICES ASSUME NEW i \in 1..M PROVE q[3 + i][1] = "page" /\ q[3 + i][2] = i
        OBVIOUS
      <4>1. q[3 + i] = <<"page", i>>
        BY <3>1
      <4> QED BY <4>1
    <3>3. q[1][1] = "alias" /\ q[2][1] = "machineSid" /\ q[3][1] = "aliasName"
      <4>1. q[1] = <<"alias", "">> /\ q[2] = <<"machineSid", "">> /\ q[3] = <<"aliasName", "">>
        BY <3>1
      <4>2. <<"alias", "">>[1] = "alias" /\ <<"machineSid", "">>[1] = "machineSid" /\ <<"aliasName", "">>[1] = "aliasName"
        OBVIOUS
      <4> QED BY <4>1, <4>2, Zenon
    <3>4. q[M + 4][1] = "powershell" /\ q[M + 5][1] = "wmi"
      <4>1. q[M + 4] = <<"powershell", "">> /\ q[M + 5] = <<"wmi", "">>
        BY <3>1
      <4>2. <<"powershell", "">>[1] = "powershell" /\ <<"wmi", "">>[1] = "wmi"
        OBVIOUS
      <4> QED BY <4>1, <4>2, Zenon
    <3> QED BY <3>1, <3>2, <3>3, <3>4
  <2>2. k = {"alias", "machineSid", "aliasName", "page", "powershell", "wmi"}
    BY DEF KindsOf
  <2> HIDE DEF q, k, M
  <2>3. \A i \in 4..(M + 3) : q[i][1] = "page" /\ q[i][2] = i - 3
    <3> SUFFICES ASSUME NEW i \in 4..(M + 3) PROVE q[i][1] = "page" /\ q[i][2] = i - 3
      OBVIOUS
    <3>1. i - 3 \in 1..M /\ 3 + (i - 3) = i
      BY <2>1
    <3> QED BY <2>1, <3>1
  <2>4. \A i \in 1..(M + 5) : i \in {1, 2, 3, M + 4, M + 5} \/ i \in 4..(M + 3)
    BY <2>1
  <2>5. \A i \in 1..Len(q) : q[i][1] \in k
    BY <2>1, <2>2, <2>3, <2>4
  <2>6. \A i, j \in 4..(M + 3) : q[i] = q[j] => i = j
    <3> SUFFICES ASSUME NEW i \in 4..(M + 3), NEW j \in 4..(M + 3), q[i] = q[j] PROVE i = j
      OBVIOUS
    <3>1. i - 3 = j - 3
      BY <2>3
    <3> QED BY <2>1, <3>1
  <2>7. \A i, j \in 1..Len(q) : q[i] = q[j] => i = j
    <3> SUFFICES ASSUME NEW i \in 1..(M + 5), NEW j \in 1..(M + 5), q[i] = q[j], q[i][1] = q[j][1] PROVE i = j
      BY <2>1
    <3>1. CASE i \in {1, 2, 3, M + 4, M + 5} /\ j \in {1, 2, 3, M + 4, M + 5}
      BY <2>1, <3>1
    <3>2. CASE i \in 4..(M + 3) /\ j \in 4..(M + 3)
      BY <2>6, <3>2
    <3> \A x \in {1, 2, 3, M + 4, M + 5} : q[x][1] # "page"
      BY <2>1
    <3>3. CASE i \in 4..(M + 3) /\ j \in {1, 2, 3, M + 4, M + 5}
      BY <2>3, <3>3
    <3>4. CASE i \in {1, 2, 3, M + 4, M + 5} /\ j \in 4..(M + 3)
      BY <2>3, <3>4
    <3> QED BY <2>4, <3>1, <3>2, <3>3, <3>4
  <2>8. IsList(q, k)
    BY <2>1, <2>5, <2>7 DEF IsList
  <2> QED BY <1>1, <2>8 DEF q, k
<1>2. CASE f = "deviceHealth"
  BY <1>2, DeviceHealthSources
<1>3. CASE f = "services"
  BY <1>3, ServicesSources
<1>4. CASE f \notin {"localAdmins", "deviceHealth", "services"}
  BY <1>4, NamedSources
<1> QED BY <1>1, <1>2, <1>3, <1>4

-----------------------------------------------------------------------------
(* One reading. Whatever a source answers, the block tells of it what it     *)
(* said, or has an error, or may do without it.                              *)
BlockFields == {"of", "rest", "left", "told", "seen", "errors"}
\* What a step from b to c may do on account of the source s with answer a.
Outcome(b, s, a, c) ==
  /\ DOMAIN c = BlockFields /\ c.of = b.of /\ c.rest = b.rest /\ c.seen = b.seen /\ c.left \subseteq b.left
  /\ \A t \in DOMAIN c.told : \/ t = s /\ Reading(s, c.told[s], a)
                              \/ t # s /\ t \in DOMAIN b.told /\ c.told[t] = b.told[t]
  /\ \A t \in DOMAIN b.told : t \in DOMAIN c.told \/ t[1] = "page"
  /\ \A e \in b.errors : e \in c.errors \/ e[1] \in I!Refusals
  /\ s[1] \in I!Dispensable \/ s \in DOMAIN c.told \/ s \in c.errors
  /\ \A i \in b.left :
       \/ i \in c.left \/ I!Sources(b.of)[i][1] \in I!Dispensable
       \/ s \in c.errors /\ s[1] \in {"manager", "alias"}

LEMMA TellIs ==
  ASSUME NEW b, DOMAIN b = BlockFields, NEW s, NEW v
  PROVE  LET c == I!Tell(b, s, v) IN
         /\ DOMAIN c = BlockFields /\ c.of = b.of /\ c.rest = b.rest /\ c.seen = b.seen /\ c.left = b.left /\ c.errors = b.errors
         /\ DOMAIN c.told = DOMAIN b.told \cup {s} /\ c.told[s] = v
         /\ \A t \in DOMAIN b.told : t # s => c.told[t] = b.told[t]
BY DEF I!Tell, I!With, BlockFields

LEMMA FailIs ==
  ASSUME NEW b, DOMAIN b = BlockFields, NEW s
  PROVE  LET c == I!Fail(b, s) IN
         /\ DOMAIN c = BlockFields /\ c.of = b.of /\ c.rest = b.rest /\ c.seen = b.seen /\ c.left = b.left /\ c.told = b.told
         /\ c.errors = b.errors \cup {s}
BY DEF I!Fail, BlockFields

LEMMA WithoutIs ==
  ASSUME NEW b, DOMAIN b = BlockFields, NEW kinds
  PROVE  LET c == I!Without(b, kinds) IN
         /\ DOMAIN c = BlockFields /\ c.of = b.of /\ c.rest = b.rest /\ c.seen = b.seen /\ c.told = b.told /\ c.errors = b.errors
         /\ c.left \subseteq b.left
         /\ \A i \in b.left : i \in c.left \/ I!Sources(b.of)[i][1] \in kinds
BY DEF I!Without, BlockFields

LEMMA PastIs ==
  ASSUME NEW b, DOMAIN b = BlockFields, NEW s
  PROVE  LET c == I!PastService(b, s) IN
         /\ DOMAIN c = BlockFields /\ c.of = b.of /\ c.rest = b.rest /\ c.seen = b.seen /\ c.told = b.told /\ c.errors = b.errors
         /\ c.left \subseteq b.left
         /\ \A i \in b.left : i \in c.left \/ I!Sources(b.of)[i] \in {<<"config", s[2]>>, <<"status", s[2]>>}
BY DEF I!PastService, BlockFields

LEMMA DoneIs ==
  ASSUME NEW b, DOMAIN b = BlockFields
  PROVE  LET c == I!Done(b) IN
         /\ DOMAIN c = BlockFields /\ c.of = b.of /\ c.rest = b.rest /\ c.seen = b.seen /\ c.told = b.told
         /\ c.left = {} /\ c.errors = {e \in b.errors : e[1] \notin I!Refusals}
BY DEF I!Done, BlockFields

\* The ways a reader of a source ends.
LEMMA AfterTell ==
  ASSUME NEW b, DOMAIN b = BlockFields, NEW s, s \notin DOMAIN b.told, NEW a, NEW v, Reading(s, v, a)
  PROVE  Outcome(b, s, a, I!Tell(b, s, v))
<1> DEFINE c == I!Tell(b, s, v)
<1>1. /\ DOMAIN c = BlockFields /\ c.of = b.of /\ c.rest = b.rest /\ c.seen = b.seen /\ c.left = b.left /\ c.errors = b.errors
      /\ DOMAIN c.told = DOMAIN b.told \cup {s} /\ c.told[s] = v
      /\ \A t \in DOMAIN b.told : t # s => c.told[t] = b.told[t]
  BY TellIs
<1> HIDE DEF c
<1>2. Outcome(b, s, a, c)
  BY <1>1 DEF Outcome
<1> QED BY <1>2 DEF c

LEMMA AfterFail ==
  ASSUME NEW b, DOMAIN b = BlockFields, NEW s, s \notin DOMAIN b.told, NEW a
  PROVE  Outcome(b, s, a, I!Fail(b, s)) /\ s \in I!Fail(b, s).errors
<1> DEFINE c == I!Fail(b, s)
<1>1. /\ DOMAIN c = BlockFields /\ c.of = b.of /\ c.rest = b.rest /\ c.seen = b.seen /\ c.left = b.left /\ c.told = b.told
      /\ c.errors = b.errors \cup {s}
  BY FailIs
<1> HIDE DEF c
<1>2. Outcome(b, s, a, c) /\ s \in c.errors
  BY <1>1 DEF Outcome
<1> QED BY <1>2 DEF c

LEMMA AfterBoth ==
  ASSUME NEW b, DOMAIN b = BlockFields, NEW s, s \notin DOMAIN b.told, NEW a, NEW v, Reading(s, v, a)
  PROVE  Outcome(b, s, a, I!Tell(I!Fail(b, s), s, v)) /\ Outcome(b, s, a, I!Fail(I!Tell(b, s, v), s))
<1> DEFINE f == I!Fail(b, s)
           c == I!Tell(f, s, v)
           t == I!Tell(b, s, v)
           d == I!Fail(t, s)
<1>1. /\ DOMAIN f = BlockFields /\ f.of = b.of /\ f.rest = b.rest /\ f.seen = b.seen /\ f.left = b.left /\ f.told = b.told
      /\ f.errors = b.errors \cup {s}
  BY FailIs
<1>2. /\ DOMAIN t = BlockFields /\ t.of = b.of /\ t.rest = b.rest /\ t.seen = b.seen /\ t.left = b.left /\ t.errors = b.errors
      /\ DOMAIN t.told = DOMAIN b.told \cup {s} /\ t.told[s] = v
      /\ \A u \in DOMAIN b.told : u # s => t.told[u] = b.told[u]
  BY TellIs
<1> HIDE DEF f, t
<1>3. /\ DOMAIN c = BlockFields /\ c.of = f.of /\ c.rest = f.rest /\ c.seen = f.seen /\ c.left = f.left /\ c.errors = f.errors
      /\ DOMAIN c.told = DOMAIN f.told \cup {s} /\ c.told[s] = v
      /\ \A u \in DOMAIN f.told : u # s => c.told[u] = f.told[u]
  BY <1>1, TellIs
<1>4. /\ DOMAIN d = BlockFields /\ d.of = t.of /\ d.rest = t.rest /\ d.seen = t.seen /\ d.left = t.left /\ d.told = t.told
      /\ d.errors = t.errors \cup {s}
  BY <1>2, FailIs
<1> HIDE DEF c, d
<1>5. Outcome(b, s, a, c)
  BY <1>1, <1>3 DEF Outcome
<1>6. Outcome(b, s, a, d)
  BY <1>2, <1>4 DEF Outcome
<1> QED BY <1>5, <1>6 DEF c, d, f, t

LEMMA AfterNothing ==
  ASSUME NEW b, DOMAIN b = BlockFields, NEW s, s \notin DOMAIN b.told, NEW a, s[1] \in I!Dispensable
  PROVE  Outcome(b, s, a, b)
BY DEF Outcome

\* What comes after it that leaves out some of the sources that follow.
LEMMA AfterWithout ==
  ASSUME NEW b, DOMAIN b = BlockFields, NEW s, NEW a, NEW c, Outcome(b, s, a, c), NEW kinds,
         kinds \subseteq I!Dispensable \/ (s \in c.errors /\ s[1] = "manager")
  PROVE  Outcome(b, s, a, I!Without(c, kinds))
<1> DEFINE d == I!Without(c, kinds)
<1>1. DOMAIN c = BlockFields /\ c.of = b.of
  BY DEF Outcome
<1>2. /\ DOMAIN d = BlockFields /\ d.of = c.of /\ d.rest = c.rest /\ d.seen = c.seen /\ d.told = c.told /\ d.errors = c.errors
      /\ d.left \subseteq c.left
      /\ \A i \in c.left : i \in d.left \/ I!Sources(c.of)[i][1] \in kinds
  BY <1>1, WithoutIs
<1> HIDE DEF d
<1>3. d.left \subseteq b.left
  BY <1>2 DEF Outcome
<1>4. \A i \in b.left :
       \/ i \in d.left \/ I!Sources(b.of)[i][1] \in I!Dispensable
       \/ s \in d.errors /\ s[1] \in {"manager", "alias"}
  BY <1>1, <1>2 DEF Outcome
<1>5. Outcome(b, s, a, d)
  BY <1>2, <1>3, <1>4 DEF Outcome
<1> QED BY <1>5 DEF d

LEMMA AfterPast ==
  ASSUME NEW b, DOMAIN b = BlockFields, NEW s, NEW a, NEW c, Outcome(b, s, a, c)
  PROVE  Outcome(b, s, a, I!PastService(c, s))
<1> DEFINE d == I!PastService(c, s)
           e == <<"config", s[2]>>
           g == <<"status", s[2]>>
<1>1. DOMAIN c = BlockFields /\ c.of = b.of
  BY DEF Outcome
<1>2. /\ DOMAIN d = BlockFields /\ d.of = c.of /\ d.rest = c.rest /\ d.seen = c.seen /\ d.told = c.told /\ d.errors = c.errors
      /\ d.left \subseteq c.left
      /\ \A i \in c.left : i \in d.left \/ I!Sources(c.of)[i] \in {e, g}
  BY <1>1, PastIs
<1>3. e[1] \in I!Dispensable /\ g[1] \in I!Dispensable
  BY DEF I!Dispensable
<1> HIDE DEF d, e, g
<1>4. d.left \subseteq b.left
  BY <1>2 DEF Outcome
<1>5. \A i \in b.left :
       \/ i \in d.left \/ I!Sources(b.of)[i][1] \in I!Dispensable
       \/ s \in d.errors /\ s[1] \in {"manager", "alias"}
  BY <1>1, <1>2, <1>3 DEF Outcome
<1>6. Outcome(b, s, a, d)
  BY <1>2, <1>4, <1>5 DEF Outcome
<1> QED BY <1>6 DEF d

LEMMA AfterDone ==
  ASSUME NEW b, DOMAIN b = BlockFields, NEW s, NEW a, NEW c, Outcome(b, s, a, c), s[1] \in I!Dispensable,
         \A i \in b.left : I!Sources(b.of)[i][1] \in I!Dispensable
  PROVE  Outcome(b, s, a, I!Done(c))
<1> DEFINE d == I!Done(c)
<1>1. DOMAIN c = BlockFields /\ c.of = b.of
  BY DEF Outcome
<1>2. /\ DOMAIN d = BlockFields /\ d.of = c.of /\ d.rest = c.rest /\ d.seen = c.seen /\ d.told = c.told
      /\ d.left = {} /\ d.errors = {e \in c.errors : e[1] \notin I!Refusals}
  BY <1>1, DoneIs
<1> HIDE DEF d
<1>3. Outcome(b, s, a, d)
  BY <1>2 DEF Outcome
<1> QED BY <1>3 DEF d

\* What suffices for a reading, by the kind of the source.
Unread == {"dns", "tls", "drives", "manager", "alias", "aliasName", "machineSid"}
LEMMA ReadingIs ==
  ASSUME NEW s, NEW a, NEW v
  PROVE  /\ s[1] \in Unread => Reading(s, v, a)
         /\ s[1] \in {"key", "open"} /\ (v = 0 => a.how = "absent") => Reading(s, v, a)
         /\ /\ s[1] \notin Unread \cup {"key", "open", "volume"}
            /\ v = 0 => a.how = "absent" \/ a.n = 0 \/ (s[1] \in {"upgrade", "securityCenter"} /\ a.how = "none") \/ s[1] = "ci"
            /\ s[1] \in Counted => v = I!Held(a)
            => Reading(s, v, a)
<1> DEFINE x == <<"cip", "">>
           y == <<"sipolicy", "">>
<1>1. x[1] = "cip" /\ y[1] = "sipolicy"
  OBVIOUS
<1> HIDE DEF x, y
<1>2. Reading(s, v, a) <=> /\ v = 0 => I!Innocent(s, a)
                           /\ s \in {x, y} /\ v = 0 => a.how = "absent" \/ a.n = 0
                           /\ s[1] \in Counted => v = I!Held(a)
  BY DEF Reading, x, y
<1>3. s[1] \in Unread => Reading(s, v, a)
  BY <1>1, <1>2 DEF Unread, I!Innocent, Counted
<1>4. s[1] \in {"key", "open"} /\ (v = 0 => a.how = "absent") => Reading(s, v, a)
  BY <1>1, <1>2 DEF I!Innocent, Counted
<1>5. ASSUME s[1] \notin Unread \cup {"key", "open", "volume"}
      PROVE  I!Innocent(s, a) <=> a.how = "absent" \/ a.how = "none" \/ a.n = 0 \/ s[1] = "ci"
  BY <1>5 DEF Unread, I!Innocent
<1>6. ASSUME s[1] \notin Unread \cup {"key", "open", "volume"},
             v = 0 => a.how = "absent" \/ a.n = 0 \/ (s[1] \in {"upgrade", "securityCenter"} /\ a.how = "none") \/ s[1] = "ci",
             s[1] \in Counted => v = I!Held(a)
      PROVE  Reading(s, v, a)
  BY <1>1, <1>2, <1>5, <1>6
<1> QED BY <1>3, <1>4, <1>6

LEMMA VolumeReading ==
  ASSUME NEW s, NEW a, I!IsAnswer(a), s[1] = "volume", a.how = "read", a.odd # 0
  PROVE  Reading(s, IF I!LowDisk(a.n, a.odd) THEN 1 ELSE 0, a)
<1> DEFINE x == <<"cip", "">>
           y == <<"sipolicy", "">>
<1>1. x[1] = "cip" /\ y[1] = "sipolicy"
  OBVIOUS
<1> HIDE DEF x, y
<1>2. s \notin {x, y} /\ s[1] \notin Counted /\ a.odd > 0
  BY <1>1 DEF Counted, I!IsAnswer
<1>3. ~I!LowDisk(a.n, a.odd) => I!Innocent(s, a)
  BY <1>2 DEF I!Innocent
<1>4. Reading(s, IF I!LowDisk(a.n, a.odd) THEN 1 ELSE 0, a) <=>
        /\ (IF I!LowDisk(a.n, a.odd) THEN 1 ELSE 0) = 0 => I!Innocent(s, a)
        /\ s \in {x, y} /\ (IF I!LowDisk(a.n, a.odd) THEN 1 ELSE 0) = 0 => a.how = "absent" \/ a.n = 0
        /\ s[1] \in Counted => (IF I!LowDisk(a.n, a.odd) THEN 1 ELSE 0) = I!Held(a)
  BY Zenon DEF Reading, x, y
<1> QED BY <1>2, <1>3, <1>4

\* Every reader but those of the members of a group.
LEMMA MostOutcomes ==
  ASSUME NEW b, DOMAIN b = BlockFields, NEW s, s \notin DOMAIN b.told, NEW a, I!IsAnswer(a),
         NEW f \in I!Blocks \ {"localAdmins"}, s[1] \in KindsOf(f)
  PROVE  Outcome(b, s, a, I!Take(b, s, a))
<1> DEFINE O(c) == Outcome(b, s, a, c)
           Fit(v) == Reading(s, v, a)
           k == s[1]
<1> USE DEF I!IsAnswer
<1>1. \A v : Fit(v) => O(I!Tell(b, s, v)) /\ O(I!Tell(I!Fail(b, s), s, v)) /\ O(I!Fail(I!Tell(b, s, v), s))
  BY AfterTell, AfterBoth
<1>2. O(I!Fail(b, s)) /\ (k \in I!Dispensable => O(b))
  BY AfterFail, AfterNothing
<1>3. \A v : k \in Unread => Fit(v)
  BY ReadingIs
<1>4. \A v : k \in {"key", "open"} /\ (v = 0 => a.how = "absent") => Fit(v)
  BY ReadingIs
<1>5. \A v : /\ k \notin Unread \cup {"key", "open", "volume"}
             /\ v = 0 => a.how = "absent" \/ a.n = 0 \/ (k \in {"upgrade", "securityCenter"} /\ a.how = "none") \/ k = "ci"
             /\ k \in Counted => v = I!Held(a)
             => Fit(v)
  BY ReadingIs
<1>6. \A c : O(c) => \A kinds : kinds \subseteq I!Dispensable \/ (s \in c.errors /\ k = "manager") => O(I!Without(c, kinds))
  BY AfterWithout
<1>7. \A c : O(c) => O(I!PastService(c, s))
  BY AfterPast
<1>8. s \in I!Fail(b, s).errors
  BY AfterFail
<1>10. k = "volume" /\ a.how = "read" /\ a.odd # 0 => Fit(IF I!LowDisk(a.n, a.odd) THEN 1 ELSE 0)
  BY VolumeReading
<1> SUFFICES O(I!Take(b, s, a))
  OBVIOUS
<1> HIDE DEF O, Fit
<1>11. CASE k \in {"computerName", "config", "status", "rdp", "search", "service", "policy", "defender", "firewall", "bitlocker", "events"}
  <2>1. I!Take(b, s, a) = (IF a.how = "read" THEN I!Tell(b, s, a.n) ELSE I!Fail(b, s))
    BY <1>11 DEF I!Take, I!TakeName, I!TakeServiceState, I!TakeRdp, I!TakeSearch, I!TakeUpdateService, I!TakePolicy, I!TakeDefender, I!TakeFirewall, I!TakeBitlocker, I!TakeEvents
  <2>2. a.how = "read" => Fit(a.n)
    BY <1>11, <1>5 DEF Unread, Counted, I!Held
  <2> QED BY <1>1, <1>2, <2>1, <2>2
<1>12. CASE k \in {"value", "firewallLog", "cip", "sipolicy"}
  <2>1. I!Take(b, s, a) = I!TakeValue(b, s, a)
    BY <1>12 DEF I!Take, I!TakeFirewallLog, I!TakeCip, I!TakeSipolicy
  <2>2. (a.how = "absent" => Fit(0)) /\ (a.how = "read" => Fit(a.n))
    BY <1>12, <1>5 DEF Unread, Counted, I!Held
  <2> QED BY <1>1, <1>2, <2>1, <2>2 DEF I!TakeValue
<1>13. CASE k \in {"memory", "uptime"}
  <2>1. I!Take(b, s, a) = I!TakeMemory(b, s, a)
    BY <1>13 DEF I!Take, I!TakeUptime, I!TakeMemory
  <2>2. a.how = "read" => Fit(a.n)
    BY <1>13, <1>5 DEF Unread, Counted, I!Held
  <2> QED BY <1>1, <1>2, <2>1, <2>2 DEF I!TakeMemory
<1>14. CASE k \in {"run", "folder"}
  <2>1. I!Take(b, s, a) = I!TakeRunKey(b, s, a)
    BY <1>14 DEF I!Take, I!TakeFolder
  <2>2. (a.how = "absent" => Fit(0)) /\ (a.how = "read" => Fit(a.n))
    BY <1>14, <1>5 DEF Unread, Counted, I!Held
  <2> QED BY <1>1, <1>2, <2>1, <2>2 DEF I!TakeRunKey
<1>15. CASE k = "tasks"
  <2>1. I!Take(b, s, a) = I!TakeTasks(b, s, a)
    BY <1>15 DEF I!Take
  <2>2. a.how = "read" => Fit(a.n)
    BY <1>15, <1>5 DEF Unread, Counted, I!Held
  <2> QED BY <1>1, <1>2, <2>1, <2>2 DEF I!TakeTasks
<1>16. CASE k = "key"
  <2>1. I!Take(b, s, a) = I!TakeKey(b, s, a)
    BY <1>16 DEF I!Take
  <2>2. Fit(1) /\ (a.how = "absent" => Fit(0))
    BY <1>16, <1>4 DEF Unread, Counted, I!Held
  <2> QED BY <1>1, <1>2, <2>1, <2>2 DEF I!TakeKey
<1>17. CASE k = "drives"
  <2>1. I!Take(b, s, a) = I!TakeDrives(b, s, a)
    BY <1>17 DEF I!Take
  <2>2. Fit(0)
    BY <1>17, <1>3 DEF Unread
  <2>3. \A c : O(c) => O(I!Without(c, {"volume"}))
    BY <1>6 DEF I!Dispensable
  <2> QED BY <1>1, <1>2, <2>1, <2>2, <2>3 DEF I!TakeDrives
<1>18. CASE k = "volume"
  <2>1. I!Take(b, s, a) = I!TakeVolume(b, s, a)
    BY <1>18 DEF I!Take
  <2>2. a.how = "read" /\ a.odd # 0 => Fit(IF I!LowDisk(a.n, a.odd) THEN 1 ELSE 0)
    BY <1>18, <1>10
  <2>3. O(b)
    BY <1>2, <1>18 DEF I!Dispensable
  <2> QED BY <1>1, <1>2, <2>1, <2>2, <2>3 DEF I!TakeVolume
<1>19. CASE k = "manager"
  <2>1. I!Take(b, s, a) = I!TakeManager(b, s, a)
    BY <1>19 DEF I!Take
  <2>2. Fit(0)
    BY <1>19, <1>3 DEF Unread
  <2>3. O(I!Without(I!Fail(b, s), {"open", "config", "status"}))
    BY <1>2, <1>6, <1>8, <1>19
  <2> QED BY <1>1, <1>2, <2>1, <2>2, <2>3 DEF I!TakeManager
<1>20. CASE k = "open"
  <2>1. I!Take(b, s, a) = I!TakeOpen(b, s, a)
    BY <1>20 DEF I!Take
  <2>2. Fit(1) /\ (a.how = "absent" => Fit(0))
    BY <1>20, <1>4 DEF Unread, Counted, I!Held
  <2> QED BY <1>1, <1>2, <2>1, <2>2, <1>7 DEF I!TakeOpen
<1>21. CASE k = "ci"
  <2>1. I!Take(b, s, a) = I!TakeCi(b, s, a)
    BY <1>21 DEF I!Take
  <2>2. Fit(0)
    BY <1>21, <1>5 DEF Unread, Counted, I!Held
  <2> QED BY <1>1, <1>2, <2>1, <2>2 DEF I!TakeCi
<1>22. CASE k = "deviceGuard"
  <2>1. I!Take(b, s, a) = I!TakeDeviceGuard(b, s, a)
    BY <1>22 DEF I!Take
  <2>2. Fit(a.n)
    BY <1>22, <1>5 DEF Unread, Counted, I!Held
  <2>3. O(b)
    BY <1>2, <1>22 DEF I!Dispensable
  <2> QED BY <1>1, <1>2, <2>1, <2>2, <2>3 DEF I!TakeDeviceGuard
<1>23. CASE k = "srp"
  <2>1. I!Take(b, s, a) = I!TakeSrp(b, s, a)
    BY <1>23 DEF I!Take
  <2>2. Fit(1) /\ (a.how = "absent" => Fit(0))
    BY <1>23, <1>5 DEF Unread, Counted, I!Held
  <2>3. \A c : O(c) => O(I!Without(c, {"collection"}))
    BY <1>6 DEF I!Dispensable
  <2> QED BY <1>1, <1>2, <2>1, <2>2, <2>3 DEF I!TakeSrp
<1>24. CASE k = "collection"
  <2>1. I!Take(b, s, a) = I!MapAppLockerDword(b, s, a)
    BY <1>24 DEF I!Take
  <2>2. Fit(a.n) /\ (a.how = "absent" => Fit(0))
    BY <1>24, <1>5 DEF Unread, Counted, I!Held
  <2> QED BY <1>1, <1>2, <2>1, <2>2 DEF I!MapAppLockerDword
<1>25. CASE k = "appIdSvc"
  <2>1. I!Take(b, s, a) = I!TakeAppIdSvc(b, s, a)
    BY <1>25 DEF I!Take
  <2>2. Fit(1) /\ (a.how = "absent" => Fit(0))
    BY <1>25, <1>5 DEF Unread, Counted, I!Held
  <2> QED BY <1>1, <1>2, <2>1, <2>2 DEF I!TakeAppIdSvc
<1>26. CASE k = "upgrade"
  <2>1. I!Take(b, s, a) = I!TakeUpgrade(b, s, a)
    BY <1>26 DEF I!Take
  <2>2. (a.how = "none" => Fit(0)) /\ (a.how = "read" => Fit(a.n))
    BY <1>26, <1>5 DEF Unread, Counted, I!Held
  <2> QED BY <1>1, <1>2, <2>1, <2>2 DEF I!TakeUpgrade
<1>27. CASE k = "securityCenter"
  <2>1. I!Take(b, s, a) = I!TakeSecurityCenter(b, s, a)
    BY <1>27 DEF I!Take
  <2>2. Fit(a.n) /\ (a.how = "none" => Fit(0))
    BY <1>27, <1>5 DEF Unread, Counted, I!Held
  <2> QED BY <1>1, <1>2, <2>1, <2>2 DEF I!TakeSecurityCenter
<1>28. CASE k = "history"
  <2>1. I!Take(b, s, a) = I!TakeHistory(b, s, a)
    BY <1>28 DEF I!Take
  <2>2. (a.how = "read" => Fit(a.n)) /\ (a.how = "read" /\ a.n = 0 => Fit(0))
    BY <1>28, <1>5 DEF Unread, Counted, I!Held
  <2>3. \A c : O(c) => O(I!Without(c, {"getHotfix"}))
    BY <1>6 DEF I!Dispensable
  <2> QED BY <1>1, <1>2, <2>1, <2>2, <2>3 DEF I!TakeHistory
<1>29. CASE k = "getHotfix"
  <2>1. I!Take(b, s, a) = I!TakeGetHotfix(b, s, a)
    BY <1>29 DEF I!Take
  <2>2. a.how = "read" => Fit(a.n)
    BY <1>29, <1>5 DEF Unread, Counted, I!Held
  <2>3. O(b)
    BY <1>2, <1>29 DEF I!Dispensable
  <2> QED BY <1>1, <1>2, <2>1, <2>2, <2>3 DEF I!TakeGetHotfix
<1>30. CASE k = "class"
  <2>1. I!Take(b, s, a) = I!TakeClass(b, s, a)
    BY <1>30 DEF I!Take
  <2>2. Fit(a.n)
    BY <1>30, <1>5 DEF Unread, Counted, I!Held
  <2>3. O(b)
    BY <1>2, <1>30 DEF I!Dispensable
  <2> QED BY <1>1, <1>2, <2>1, <2>2, <2>3 DEF I!TakeClass
<1>31. CASE k = "backend"
  <2>1. I!Take(b, s, a) = I!TakeBackend(b, s, a)
    BY <1>31 DEF I!Take
  <2>2. Fit(1)
    BY <1>31, <1>5 DEF Unread, Counted, I!Held
  <2>3. \A c : O(c) => O(I!Without(c, {"dns", "tls"}))
    BY <1>6 DEF I!Dispensable
  <2> QED BY <1>1, <1>2, <2>1, <2>2, <2>3 DEF I!TakeBackend
<1>32. CASE k \in {"dns", "tls"}
  <2>1. I!Take(b, s, a) = I!TakeReach(b, s, a)
    BY <1>32 DEF I!Take
  <2>2. \A v : Fit(v)
    BY <1>32, <1>3 DEF Unread
  <2> QED BY <1>1, <1>2, <2>1, <2>2 DEF I!TakeReach
<1> QED BY <1>11, <1>12, <1>13, <1>14, <1>15, <1>16, <1>17, <1>18, <1>19, <1>20, <1>21, <1>22, <1>23, <1>24, <1>25, <1>26, <1>27, <1>28, <1>29, <1>30, <1>31, <1>32 DEF KindsOf, I!Blocks

LEMMA NetApiIs ==
  ASSUME NEW b, DOMAIN b = BlockFields, NEW s
  PROVE  LET c == I!NetApiFailed(b, s) IN
         /\ DOMAIN c = BlockFields /\ c.of = b.of /\ c.rest = b.rest /\ c.seen = b.seen /\ c.errors = b.errors \cup {s}
         /\ DOMAIN c.told = {t \in DOMAIN b.told : t[1] # "page"} /\ \A t \in DOMAIN c.told : c.told[t] = b.told[t]
         /\ c.left \subseteq b.left
         /\ \A i \in b.left : i \notin c.left <=> I!Sources(b.of)[i][1] \in {"aliasName", "page"}
<1> DEFINE f == I!Fail(b, s)
           m == [t \in {u \in DOMAIN f.told : u[1] # "page"} |-> f.told[t]]
           d == [f EXCEPT !.told = m]
           c == I!Without(d, {"aliasName", "page"})
<1>1. /\ DOMAIN f = BlockFields /\ f.of = b.of /\ f.rest = b.rest /\ f.seen = b.seen /\ f.left = b.left /\ f.told = b.told
      /\ f.errors = b.errors \cup {s}
  BY FailIs
<1>2. I!NetApiFailed(b, s) = c
  BY DEF I!NetApiFailed
<1>3. DOMAIN m = {t \in DOMAIN f.told : t[1] # "page"} /\ \A t \in DOMAIN m : m[t] = f.told[t]
  OBVIOUS
<1> HIDE DEF f, m
<1>4. /\ DOMAIN d = BlockFields /\ d.of = f.of /\ d.rest = f.rest /\ d.seen = f.seen /\ d.left = f.left /\ d.told = m
      /\ d.errors = f.errors
  BY <1>1 DEF BlockFields
<1> HIDE DEF d
<1>5. c = [d EXCEPT !.left = {i \in d.left : I!Sources(d.of)[i][1] \notin {"aliasName", "page"}}]
  BY DEF I!Without
<1>6. /\ DOMAIN c = BlockFields /\ c.of = d.of /\ c.rest = d.rest /\ c.seen = d.seen /\ c.told = d.told /\ c.errors = d.errors
      /\ c.left \subseteq d.left
      /\ \A i \in d.left : i \notin c.left <=> I!Sources(d.of)[i][1] \in {"aliasName", "page"}
  <2> HIDE DEF c
  <2> QED BY <1>4, <1>5 DEF BlockFields
<1> HIDE DEF c
<1> QED BY <1>1, <1>2, <1>3, <1>4, <1>6

LEMMA AfterNetApi ==
  ASSUME NEW b, DOMAIN b = BlockFields, NEW s, s \notin DOMAIN b.told, NEW a
  PROVE  Outcome(b, s, a, I!NetApiFailed(b, s))
<1> DEFINE c == I!NetApiFailed(b, s)
<1>1. /\ DOMAIN c = BlockFields /\ c.of = b.of /\ c.rest = b.rest /\ c.seen = b.seen /\ c.errors = b.errors \cup {s}
      /\ DOMAIN c.told = {t \in DOMAIN b.told : t[1] # "page"} /\ \A t \in DOMAIN c.told : c.told[t] = b.told[t]
      /\ c.left \subseteq b.left
      /\ \A i \in b.left : i \notin c.left <=> I!Sources(b.of)[i][1] \in {"aliasName", "page"}
  BY NetApiIs
<1>2. "aliasName" \in I!Dispensable /\ "page" \in I!Dispensable
  BY DEF I!Dispensable
<1> HIDE DEF c
<1>3. \A i \in b.left : i \in c.left \/ I!Sources(b.of)[i][1] \in I!Dispensable
  BY <1>1, <1>2
<1>4. Outcome(b, s, a, c)
  BY <1>1, <1>3 DEF Outcome
<1> QED BY <1>4 DEF c

\* The readers of the members of a group.
LEMMA MemberOutcomes ==
  ASSUME NEW b, DOMAIN b = BlockFields, NEW s, s \notin DOMAIN b.told, NEW a, I!IsAnswer(a),
         s[1] \in KindsOf("localAdmins"),
         s[1] \in {"page", "powershell"} => \A i \in b.left : I!Sources(b.of)[i][1] \in I!Dispensable
  PROVE  Outcome(b, s, a, I!Take(b, s, a))
<1> DEFINE O(c) == Outcome(b, s, a, c)
           k == s[1]
<1> USE DEF I!IsAnswer
<1>1. \A v : k \in Unread => O(I!Tell(b, s, v))
  BY ReadingIs, AfterTell
<1>2. O(I!Fail(b, s)) /\ O(I!NetApiFailed(b, s)) /\ s \in I!Fail(b, s).errors
  BY AfterFail, AfterNetApi
<1>3. k \in {"page", "powershell"} /\ a.how \in {"read", "more"} => O(I!Tell(b, s, a.n))
  <2> SUFFICES ASSUME k \in {"page", "powershell"}, a.how \in {"read", "more"} PROVE O(I!Tell(b, s, a.n))
    OBVIOUS
  <2>1. k \notin Unread \cup {"key", "open", "volume"} /\ a.n = I!Held(a)
    BY DEF Unread, I!Held
  <2>2. Reading(s, a.n, a)
    BY <2>1, ReadingIs
  <2> QED BY <2>2, AfterTell
<1>4. \A c : O(c) /\ k \in {"page", "powershell"} => O(I!Done(c))
  BY AfterDone DEF I!Dispensable
<1>5. k = "alias" => O([I!Fail(b, s) EXCEPT !.left = {}])
  <2> SUFFICES ASSUME k = "alias" PROVE O([I!Fail(b, s) EXCEPT !.left = {}])
    OBVIOUS
  <2> DEFINE f == I!Fail(b, s)
             d == [f EXCEPT !.left = {}]
  <2>1. /\ DOMAIN f = BlockFields /\ f.of = b.of /\ f.rest = b.rest /\ f.seen = b.seen /\ f.left = b.left /\ f.told = b.told
        /\ f.errors = b.errors \cup {s}
    BY FailIs
  <2> HIDE DEF f
  <2>2. /\ DOMAIN d = BlockFields /\ d.of = f.of /\ d.rest = f.rest /\ d.seen = f.seen /\ d.left = {} /\ d.told = f.told
        /\ d.errors = f.errors
    BY <2>1 DEF BlockFields
  <2> HIDE DEF d
  <2>3. O(d)
    BY <2>1, <2>2 DEF Outcome
  <2> QED BY <2>3 DEF d, f
<1> SUFFICES O(I!Take(b, s, a))
  OBVIOUS
<1> HIDE DEF O
<1>11. CASE k = "alias"
  <2>1. I!Take(b, s, a) = I!TakeAlias(b, s, a)
    BY <1>11 DEF I!Take
  <2> QED BY <1>1, <1>5, <1>11, <2>1 DEF I!TakeAlias, Unread
<1>12. CASE k = "machineSid"
  <2>1. I!Take(b, s, a) = I!TakeMachineSid(b, s, a)
    BY <1>12 DEF I!Take
  <2> QED BY <1>1, <1>2, <1>12, <2>1 DEF I!TakeMachineSid, Unread
<1>13. CASE k = "aliasName"
  <2>1. I!Take(b, s, a) = I!TakeAliasName(b, s, a)
    BY <1>13 DEF I!Take
  <2> QED BY <1>1, <1>2, <1>13, <2>1 DEF I!TakeAliasName, Unread
<1>14. CASE k = "page"
  <2>1. I!Take(b, s, a) = I!TakePage(b, s, a)
    BY <1>14 DEF I!Take
  <2> QED BY <1>2, <1>3, <1>4, <1>14, <2>1 DEF I!TakePage
<1>15. CASE k = "powershell"
  <2>1. I!Take(b, s, a) = I!TakePowerShell(b, s, a)
    BY <1>15 DEF I!Take
  <2> QED BY <1>2, <1>3, <1>4, <1>15, <2>1 DEF I!TakePowerShell
<1>16. CASE k = "wmi"
  <2>1. I!Take(b, s, a) = I!TakeWmi(b, s, a)
    BY <1>16 DEF I!Take
  <2> QED BY <1>2, <2>1 DEF I!TakeWmi
<1> QED BY <1>11, <1>12, <1>13, <1>14, <1>15, <1>16 DEF KindsOf

\* A block with the source that is read now no longer left.
Reads(b, i, a) == [b EXCEPT !.left = @ \ {i}, !.seen = I!With(@, I!Sources(b.of)[i], a)]
LEMMA ReadsIs ==
  ASSUME NEW b, DOMAIN b = BlockFields, NEW i, NEW a
  PROVE  LET c == Reads(b, i, a)
             s == I!Sources(b.of)[i] IN
         /\ DOMAIN c = BlockFields /\ c.of = b.of /\ c.rest = b.rest /\ c.told = b.told /\ c.errors = b.errors
         /\ c.left = b.left \ {i} /\ DOMAIN c.seen = DOMAIN b.seen \cup {s} /\ c.seen[s] = a
         /\ \A t \in DOMAIN b.seen : t # s => c.seen[t] = b.seen[t]
BY DEF Reads, I!With, BlockFields

\* The members come from one source: pages are told while the last page is
\* still to come, and nothing is told by PowerShell unless no page is.
LEMMA OneSourceKept ==
  ASSUME NEW b, BlockShape(b), OneSource(b), b.of = "localAdmins", NEW i \in b.left, \A j \in b.left : i <= j, NEW a
  PROVE  OneSource(I!Take(Reads(b, i, a), I!Sources(b.of)[i], a))
<1> DEFINE L == LastPage
           q == I!Sources("localAdmins")
           r == Reads(b, i, a)
           s == q[i]
           c == I!Take(r, s, a)
           PagesTold(x) == \E t \in DOMAIN x.told : t[1] = "page"
           power == <<"powershell", "">>
           W(x) == /\ x.left \cap 4..L # {} => L \in x.left
                   /\ PagesTold(x) => x.left = {} \/ L \in x.left
                   /\ power \in DOMAIN x.told => x.left = {} /\ ~PagesTold(x)
<1>1. /\ DOMAIN r = BlockFields /\ r.of = "localAdmins" /\ r.told = b.told /\ r.left = b.left \ {i}
  BY ReadsIs DEF BlockShape, BlockFields
<1>2. L \in Nat /\ L >= 4 /\ MaxPages \in Nat /\ L = 3 + MaxPages /\ Len(q) = L + 2
  <2>1. Len(q) = MaxPages + 5 /\ MaxPages \in Nat \ {0}
    BY LocalAdminsSources
  <2>2. L = 3 + MaxPages
    BY DEF LastPage
  <2> HIDE DEF L, q
  <2> QED BY <2>1, <2>2
<1>23. /\ q[1] = <<"alias", "">> /\ q[2] = <<"machineSid", "">> /\ q[3] = <<"aliasName", "">>
  BY LocalAdminsSources
<1>3. /\ q[L + 1] = power /\ q[L + 2] = <<"wmi", "">>
  <2>1. L + 1 = MaxPages + 4 /\ L + 2 = MaxPages + 5
    BY <1>2
  <2> QED BY <2>1, LocalAdminsSources
<1>4. \A j \in 4..L : q[j] = <<"page", j - 3>>
  <2> SUFFICES ASSUME NEW j \in 4..L PROVE q[j] = <<"page", j - 3>>
    OBVIOUS
  <2>1. j - 3 \in 1..MaxPages /\ 3 + (j - 3) = j
    BY <1>2
  <2>2. \A p \in 1..MaxPages : q[3 + p] = <<"page", p>>
    BY LocalAdminsSources
  <2> QED BY <2>1, <2>2
<1>5. OneSource(c) <=> (c.of = "localAdmins" => W(c))
  BY DEF OneSource
<1>6. W(b)
  BY DEF OneSource
<1>7. i \in 1..(L + 2) /\ b.left \subseteq 1..(L + 2) /\ \A j \in b.left : j \in Int
  BY <1>2 DEF BlockShape
<1> SUFFICES W(c)
  BY <1>5
<1> HIDE DEF L, q
<1>8. <<"alias", "">>[1] = "alias" /\ <<"machineSid", "">>[1] = "machineSid" /\ <<"aliasName", "">>[1] = "aliasName"
      /\ power[1] = "powershell" /\ <<"wmi", "">>[1] = "wmi"
  OBVIOUS
<1>9. \A p : <<"page", p>>[1] = "page" /\ <<"page", p>>[2] = p
  OBVIOUS
<1>10. power \notin DOMAIN r.told
  BY <1>1, <1>6
<1> HIDE DEF power
\* Nothing but the source itself is told, and nothing more is left.
<1>11. ASSUME NEW x, i < 4, x.left = r.left \/ x.left = {}, s[1] \notin {"page", "powershell"},
              DOMAIN x.told \subseteq DOMAIN r.told \cup {s} PROVE W(x)
  <2>1. s # power
    BY <1>8, <1>11
  <2>2. PagesTold(x) => PagesTold(b)
    BY <1>1, <1>11
  <2>3. power \notin DOMAIN x.told
    BY <1>10, <1>11, <2>1
  <2>4. i \notin 4..L /\ L # i
    BY <1>2, <1>7, <1>11
  <2>5. CASE x.left = {}
    BY <2>3, <2>5
  <2>6. CASE x.left = b.left \ {i}
    BY <1>1, <1>6, <2>2, <2>3, <2>4, <2>6
  <2> QED BY <1>1, <1>11, <2>5, <2>6
\* The pages are given up.
<1>12. ASSUME NEW x, s[1] # "powershell", x.left \cap 4..L = {}, ~PagesTold(x), DOMAIN x.told \subseteq DOMAIN r.told \cup {s} PROVE W(x)
  BY <1>8, <1>10, <1>12
\* After the pages.
<1>13. L < i => ~PagesTold(b) /\ r.left \cap 4..L = {}
  <2> SUFFICES ASSUME L < i PROVE ~PagesTold(b) /\ r.left \cap 4..L = {}
    OBVIOUS
  <2>1. \A j \in b.left : j > L
    BY <1>2, <1>7
  <2>2. L \notin b.left /\ b.left # {}
    BY <1>2, <2>1
  <2>3. r.left \cap 4..L = {}
    BY <1>1, <1>2, <2>1
  <2> QED BY <1>6, <2>2, <2>3
<1>14. CASE i = 1
  <2>1. s = <<"alias", "">> /\ s[1] = "alias"
    BY <1>23, <1>8, <1>14, Zenon
  <2>2. c = IF a.how = "read" THEN I!Tell(r, s, 0) ELSE [I!Fail(r, s) EXCEPT !.left = {}]
    BY <2>1 DEF I!Take, I!TakeAlias
  <2> DEFINE f == I!Fail(r, s)
             e == [f EXCEPT !.left = {}]
  <2>3. DOMAIN f = BlockFields /\ f.told = r.told
    BY <1>1, FailIs
  <2> HIDE DEF f
  <2>4. e.left = {} /\ e.told = r.told
    BY <2>3 DEF BlockFields
  <2>5. I!Tell(r, s, 0).left = r.left /\ DOMAIN I!Tell(r, s, 0).told = DOMAIN r.told \cup {s}
    BY <1>1, TellIs
  <2>6. (c.left = r.left \/ c.left = {}) /\ DOMAIN c.told \subseteq DOMAIN r.told \cup {s}
    <3> HIDE DEF c, e
    <3> c = IF a.how = "read" THEN I!Tell(r, s, 0) ELSE e
      BY <2>2 DEF e, f
    <3> QED BY <2>4, <2>5
  <2>7. i < 4 /\ s[1] \notin {"page", "powershell"}
    <3>1. s[1] \in {"alias", "machineSid"}
      BY <2>1, Zenon
    <3> QED BY <1>14, <3>1
  <2> HIDE DEF c, r, s
  <2> QED BY <1>11, <2>1, <2>6, <2>7
<1>15. CASE i = 2
  <2>1. s = <<"machineSid", "">> /\ s[1] = "machineSid"
    BY <1>23, <1>8, <1>15, Zenon
  <2>2. c = IF a.how = "read" THEN I!Tell(r, s, 0) ELSE I!Fail(r, s)
    BY <2>1 DEF I!Take, I!TakeMachineSid
  <2>3. I!Fail(r, s).left = r.left /\ I!Fail(r, s).told = r.told
    BY <1>1, FailIs
  <2>4. I!Tell(r, s, 0).left = r.left /\ DOMAIN I!Tell(r, s, 0).told = DOMAIN r.told \cup {s}
    BY <1>1, TellIs
  <2> HIDE DEF c
  <2>5. c.left = r.left /\ DOMAIN c.told \subseteq DOMAIN r.told \cup {s}
    BY <2>2, <2>3, <2>4
  <2>7. i < 4 /\ s[1] \notin {"page", "powershell"}
    <3>1. s[1] \in {"alias", "machineSid"}
      BY <2>1, Zenon
    <3> QED BY <1>15, <3>1
  <2> HIDE DEF c, r, s
  <2> QED BY <1>11, <2>1, <2>5, <2>7
<1>20. I!NetApiFailed(r, s).left \cap 4..L = {} /\ ~PagesTold(I!NetApiFailed(r, s))
       /\ DOMAIN I!NetApiFailed(r, s).told \subseteq DOMAIN r.told \cup {s}
  <2> DEFINE n == I!NetApiFailed(r, s)
  <2>1. /\ DOMAIN n.told = {t \in DOMAIN r.told : t[1] # "page"}
        /\ n.left \subseteq r.left
        /\ \A j \in r.left : j \notin n.left <=> q[j][1] \in {"aliasName", "page"}
    BY <1>1, NetApiIs DEF q
  <2> HIDE DEF n
  <2>2. \A j \in 4..L : q[j][1] = "page"
    BY <1>4, <1>9
  <2>3. n.left \cap 4..L = {} /\ ~PagesTold(n) /\ DOMAIN n.told \subseteq DOMAIN r.told \cup {s}
    BY <2>1, <2>2
  <2> QED BY <2>3 DEF n
<1>16. CASE i = 3
  <2>1. s = <<"aliasName", "">> /\ s[1] = "aliasName"
    BY <1>23, <1>8, <1>16, Zenon
  <2>2. c = IF a.how = "read" THEN I!Tell(r, s, 0) ELSE I!NetApiFailed(r, s)
    BY <2>1 DEF I!Take, I!TakeAliasName
  <2>3. I!Tell(r, s, 0).left = r.left /\ DOMAIN I!Tell(r, s, 0).told = DOMAIN r.told \cup {s}
    BY <1>1, TellIs
  <2>4. CASE a.how = "read"
    <3> HIDE DEF c
    <3>1. c.left = r.left /\ DOMAIN c.told \subseteq DOMAIN r.told \cup {s}
      BY <2>2, <2>3, <2>4
    <3>2. i < 4 /\ s[1] \notin {"page", "powershell"}
      <4>1. s[1] = "aliasName"
        BY <2>1, Zenon
      <4> QED BY <1>16, <4>1
    <3> HIDE DEF r, s
    <3> QED BY <1>11, <3>1, <3>2
  <2>5. CASE a.how # "read"
    <3> HIDE DEF c
    <3>1. c = I!NetApiFailed(r, s)
      BY <2>2, <2>5
    <3> QED BY <1>12, <1>20, <2>1, <3>1
  <2> QED BY <2>4, <2>5
<1>17. CASE i \in 4..L
  <2>1. s = <<"page", i - 3>> /\ s[1] = "page"
    BY <1>4, <1>9, <1>17
  <2> DEFINE t == I!Tell(r, s, a.n)
             d == I!Done(t)
  <2>2. c = CASE a.how = "read" -> d
              [] a.how = "more" /\ a.n > 0 /\ s # <<"page", MaxPages>> -> t
              [] OTHER -> I!NetApiFailed(r, s)
    BY <2>1 DEF I!Take, I!TakePage
  <2>3. DOMAIN t = BlockFields /\ t.left = r.left /\ DOMAIN t.told = DOMAIN r.told \cup {s}
    BY <1>1, TellIs
  <2> HIDE DEF t
  <2>4. d.left = {} /\ d.told = t.told
    BY <2>3, DoneIs
  <2> HIDE DEF c, d
  <2>5. s # power
    BY <1>8, <2>1
  <2>6. W(d)
    BY <1>10, <2>3, <2>4, <2>5
  <2>7. s # <<"page", MaxPages>> => W(t)
    <3> SUFFICES ASSUME s # <<"page", MaxPages>> PROVE W(t)
      OBVIOUS
    <3>1. i # L
      BY <1>2, <2>1
    <3>2. L \in b.left
      BY <1>6, <1>17
    <3>3. L \in t.left
      BY <1>1, <2>3, <3>1, <3>2
    <3>4. power \notin DOMAIN t.told
      BY <1>10, <2>3, <2>5
    <3> QED BY <3>3, <3>4
  <2>8. W(I!NetApiFailed(r, s))
    BY <1>12, <1>20, <2>1
  <2> QED BY <2>2, <2>6, <2>7, <2>8
<1>21. L < i => W(I!Fail(r, s))
  <2> SUFFICES ASSUME L < i PROVE W(I!Fail(r, s))
    OBVIOUS
  <2> DEFINE f == I!Fail(r, s)
  <2>1. f.left = r.left /\ f.told = r.told
    BY <1>1, FailIs
  <2> HIDE DEF f
  <2>2. W(f)
    BY <1>1, <1>10, <1>13, <2>1
  <2> QED BY <2>2 DEF f
<1>18. CASE i = L + 1
  <2>1. s = power /\ s[1] = "powershell"
    BY <1>3, <1>8, <1>18, Zenon
  <2>6. L < i
    BY <1>2, <1>18
  <2> DEFINE t == I!Tell(r, s, a.n)
             d == I!Done(t)
  <2>2. c = IF a.how = "read" THEN d ELSE I!Fail(r, s)
    BY <2>1 DEF I!Take, I!TakePowerShell
  <2>3. DOMAIN t = BlockFields /\ t.left = r.left /\ DOMAIN t.told = DOMAIN r.told \cup {s}
    BY <1>1, TellIs
  <2> HIDE DEF t
  <2>4. d.left = {} /\ d.told = t.told
    BY <2>3, DoneIs
  <2> HIDE DEF c, d
  <2>5. W(d)
    BY <1>1, <1>13, <2>1, <2>3, <2>4, <2>6
  <2> QED BY <1>21, <2>2, <2>5, <2>6
<1>19. CASE i = L + 2
  <2>1. s = <<"wmi", "">> /\ s[1] = "wmi"
    BY <1>3, <1>8, <1>19, Zenon
  <2>6. L < i
    BY <1>2, <1>19
  <2>2. c = I!Fail(r, s)
    BY <2>1 DEF I!Take, I!TakeWmi
  <2> HIDE DEF c
  <2> QED BY <1>21, <2>2, <2>6
<1>22. i \in {1, 2, 3} \/ i \in 4..L \/ i = L + 1 \/ i = L + 2
  BY <1>2, <1>7
<1> QED BY <1>14, <1>15, <1>16, <1>17, <1>18, <1>19, <1>22

LEMMA AppControlSources ==
  \A i \in 1..Len(I!Sources("appControl")) :
    \/ I!Sources("appControl")[i][1] \in I!Dispensable
    \/ I!Sources("appControl")[i] \in {<<"ci", "Policy">>, <<"ci", "Config">>, <<"srp", "">>}
<1> DEFINE q == I!Sources("appControl")
           x == <<"ci", "Policy">>
           y == <<"ci", "Config">>
           z == <<"srp", "">>
<1>1. Len(q) = 12 /\ q[1] = x /\ q[2] = y /\ q[6] = z
  BY DEF I!Sources
<1>2. /\ q[3][1] = "deviceGuard" /\ q[4][1] = "cip" /\ q[5][1] = "sipolicy" /\ q[7][1] = "collection" /\ q[8][1] = "collection"
      /\ q[9][1] = "collection" /\ q[10][1] = "collection" /\ q[11][1] = "collection" /\ q[12][1] = "appIdSvc"
  BY DEF I!Sources
<1> HIDE DEF q, x, y, z
<1>3. \A i \in 1..12 : i \in {1, 2, 6} \/ i \in {3, 4, 5} \/ i \in {7, 8, 9, 10, 11, 12}
  OBVIOUS
<1>4. \A i \in {3, 4, 5} : q[i][1] \in I!Dispensable
  BY <1>2 DEF I!Dispensable
<1>5. \A i \in {7, 8, 9, 10, 11, 12} : q[i][1] \in I!Dispensable
  BY <1>2 DEF I!Dispensable
<1>6. \A i \in 1..Len(q) : q[i][1] \in I!Dispensable \/ q[i] \in {x, y, z}
  BY <1>1, <1>3, <1>4, <1>5
<1> QED BY <1>6 DEF q, x, y, z

LEMMA KindsApart ==
  ASSUME NEW f \in I!Blocks
  PROVE  /\ KindsOf(f) \cap {"manager", "alias"} # {} => f # "appControl"
         /\ I!Refusals \subseteq I!Dispensable /\ I!Refusals \cap {"manager", "alias"} = {}
BY DEF KindsOf, I!Refusals, I!Dispensable

\* A critical error stays one, and so does that of a source that is missed.
LEMMA LastingStays ==
  ASSUME NEW b, NEW c, c.of = b.of, \A e \in b.errors : e \in c.errors \/ e[1] \in I!Refusals, Lasting(b)
  PROVE  Lasting(c)
BY DEF Lasting, I!Critical

LEMMA MissedIsLasting ==
  ASSUME NEW b, b.of \in I!Blocks, NEW i \in 1..Len(I!Sources(b.of)), I!Sources(b.of)[i] \in b.errors,
         \/ I!Sources(b.of)[i][1] \notin I!Dispensable
         \/ I!Sources(b.of)[i][1] \in {"manager", "alias"}
  PROVE  Lasting(b)
<1> DEFINE s == I!Sources(b.of)[i]
<1>1. s[1] \in KindsOf(b.of)
  BY SourcesAre DEF IsList
<1>2. s[1] \notin I!Refusals
  BY KindsApart
<1>3. b.of = "appControl" => s \in {<<"ci", "Policy">>, <<"ci", "Config">>, <<"srp", "">>}
  BY <1>1, KindsApart, AppControlSources
<1> HIDE DEF s
<1>4. s \in b.errors
  BY DEF s
<1>5. s \in I!Critical(b)
  BY <1>3, <1>4 DEF I!Critical
<1> QED BY <1>2, <1>5 DEF Lasting

\* After the names of the group, all that follows is another way to them.
LEMMA MembersAreDispensable ==
  LET q == I!Sources("localAdmins") IN
  \A i, j \in 1..Len(q) : q[i][1] \in {"page", "powershell"} /\ i <= j => q[j][1] \in I!Dispensable
<1> DEFINE q == I!Sources("localAdmins")
           M == MaxPages
<1>1. Len(q) = M + 5 /\ M \in Nat
  BY LocalAdminsSources
<1>2. q[1] = <<"alias", "">> /\ q[2] = <<"machineSid", "">> /\ q[3] = <<"aliasName", "">>
  BY LocalAdminsSources
<1>3. q[M + 4] = <<"powershell", "">> /\ q[M + 5] = <<"wmi", "">>
  BY LocalAdminsSources
<1>4. \A p \in 1..M : q[3 + p] = <<"page", p>>
  BY LocalAdminsSources
<1> HIDE DEF q, M
<1>5. <<"alias", "">>[1] = "alias" /\ <<"machineSid", "">>[1] = "machineSid" /\ <<"aliasName", "">>[1] = "aliasName"
      /\ <<"powershell", "">>[1] = "powershell" /\ <<"wmi", "">>[1] = "wmi" /\ \A p : <<"page", p>>[1] = "page"
  OBVIOUS
<1>6. q[1][1] = "alias" /\ q[2][1] = "machineSid" /\ q[3][1] = "aliasName"
  BY <1>2, <1>5, Zenon
<1>7. q[M + 4][1] = "powershell" /\ q[M + 5][1] = "wmi"
  BY <1>3, <1>5, Zenon
<1>8. \A p \in 1..M : q[3 + p][1] = "page"
  BY <1>4, <1>5, Zenon
<1> SUFFICES ASSUME NEW i \in 1..Len(q), NEW j \in 1..Len(q), q[i][1] \in {"page", "powershell"}, i <= j
             PROVE  q[j][1] \in I!Dispensable
  BY DEF q
<1>9. i \notin {1, 2, 3}
  BY <1>6
<1>10. j \in 4..(M + 3) \/ j = M + 4 \/ j = M + 5
  BY <1>1, <1>9
<1>11. j \in 4..(M + 3) => q[j][1] = "page"
  <2> SUFFICES ASSUME j \in 4..(M + 3) PROVE q[j][1] = "page"
    OBVIOUS
  <2>1. j - 3 \in 1..M /\ 3 + (j - 3) = j
    BY <1>1
  <2> QED BY <1>8, <2>1
<1>12. q[j][1] \in {"page", "powershell", "wmi"}
  BY <1>7, <1>10, <1>11
<1> QED BY <1>12 DEF I!Dispensable

\* What is known of a block while it is collected.
BlockGood(b) == BlockShape(b) /\ ToldIsRead(b) /\ Covered(b) /\ OneSource(b)

LEMMA ReadHolds ==
  ASSUME NEW b, BlockGood(b), NEW i \in b.left, \A j \in b.left : i <= j, NEW a, I!IsAnswer(a)
  PROVE  BlockGood(I!Take(Reads(b, i, a), I!Sources(b.of)[i], a))
<1> DEFINE q == I!Sources(b.of)
           r == Reads(b, i, a)
           s == q[i]
           c == I!Take(r, s, a)
<1>1. DOMAIN b = BlockFields /\ b.of \in I!Blocks /\ b.left \subseteq 1..Len(q) /\ b.rest \in Seq(I!Blocks)
  BY DEF BlockGood, BlockShape, BlockFields
<1>2. /\ DOMAIN r = BlockFields /\ r.of = b.of /\ r.rest = b.rest /\ r.told = b.told /\ r.errors = b.errors
      /\ r.left = b.left \ {i} /\ DOMAIN r.seen = DOMAIN b.seen \cup {s} /\ r.seen[s] = a
      /\ \A t \in DOMAIN b.seen : t # s => r.seen[t] = b.seen[t]
  BY <1>1, ReadsIs
<1>3. IsList(q, KindsOf(b.of)) /\ i \in 1..Len(q)
  BY <1>1, SourcesAre
<1>4. /\ s[1] \in KindsOf(b.of) /\ Len(q) \in Nat
      /\ \A j \in 1..Len(q) : q[j] = s => j = i
  BY <1>3 DEF IsList
<1>5. s \notin DOMAIN r.told
  BY <1>2, <1>4 DEF BlockGood, ToldIsRead
<1>6. Outcome(r, s, a, c)
  <2>1. CASE b.of # "localAdmins"
    BY <1>1, <1>2, <1>4, <1>5, <2>1, MostOutcomes
  <2>2. CASE b.of = "localAdmins"
    <3>1. s[1] \in {"page", "powershell"} => \A j \in r.left : q[j][1] \in I!Dispensable
      BY <1>1, <1>2, <1>3, <2>2, MembersAreDispensable
    <3> QED BY <1>2, <1>4, <1>5, <2>2, <3>1, MemberOutcomes
  <2> QED BY <2>1, <2>2
<1>7. OneSource(c)
  <2>1. CASE b.of = "localAdmins"
    BY <2>1, OneSourceKept DEF BlockGood
  <2>2. CASE b.of # "localAdmins"
    BY <1>2, <1>6, <2>2 DEF Outcome, OneSource
  <2> QED BY <2>1, <2>2
<1> HIDE DEF c, r
<1>8. /\ DOMAIN c = BlockFields /\ c.of = b.of /\ c.rest = b.rest /\ c.seen = r.seen /\ c.left \subseteq b.left \ {i}
  BY <1>2, <1>6 DEF Outcome
<1>9. BlockShape(c)
  BY <1>1, <1>8 DEF BlockShape, BlockFields
<1>10. ToldIsRead(c)
  <2> SUFFICES ASSUME NEW t \in DOMAIN c.told
               PROVE  /\ t \in DOMAIN c.seen /\ Reading(t, c.told[t], c.seen[t])
                      /\ \E j \in (1..Len(q)) \ c.left : t = q[j]
    BY <1>8 DEF ToldIsRead
  <2>1. CASE t = s /\ Reading(s, c.told[s], a)
    BY <1>2, <1>3, <1>8, <2>1
  <2>2. CASE t # s /\ t \in DOMAIN b.told /\ c.told[t] = b.told[t]
    <3>1. /\ t \in DOMAIN b.seen /\ Reading(t, b.told[t], b.seen[t])
          /\ \E j \in (1..Len(q)) \ b.left : t = q[j]
      BY <2>2 DEF BlockGood, ToldIsRead
    <3> QED BY <1>2, <1>8, <2>2, <3>1
  <2> QED BY <1>2, <1>6, <2>1, <2>2 DEF Outcome
<1>11. Covered(c)
  <2> SUFFICES ASSUME NEW j \in 1..Len(q), q[j][1] \notin I!Dispensable, q[j] \notin DOMAIN c.told, j \notin c.left
               PROVE  Lasting(c)
    BY <1>8 DEF Covered
  <2>1. CASE Lasting(b)
    <3>1. \A e \in b.errors : e \in c.errors \/ e[1] \in I!Refusals
      BY <1>2, <1>6 DEF Outcome
    <3> QED BY <1>8, <2>1, <3>1, LastingStays
  <2>2. CASE q[j] \in DOMAIN b.told
    <3>1. q[j] \in DOMAIN c.told \/ q[j][1] = "page"
      BY <1>2, <1>6, <2>2 DEF Outcome
    <3> QED BY <3>1 DEF I!Dispensable
  <2>3. CASE j = i
    <3>1. s \in c.errors
      BY <1>6, <2>3 DEF Outcome
    <3> QED BY <1>1, <1>3, <1>8, <2>3, <3>1, MissedIsLasting
  <2>4. CASE j \in b.left /\ j # i
    <3>1. s \in c.errors /\ s[1] \in {"manager", "alias"}
      BY <1>2, <1>6, <2>4 DEF Outcome
    <3> QED BY <1>1, <1>3, <1>8, <3>1, MissedIsLasting
  <2> QED BY <2>1, <2>2, <2>3, <2>4 DEF BlockGood, Covered
<1> QED BY <1>7, <1>9, <1>10, <1>11 DEF BlockGood, c, r

LEMMA PowerShellIs ==
  LET q == I!Sources("localAdmins") IN
  \A i \in 1..Len(q) : q[i][1] = "powershell" => q[i] = <<"powershell", "">>
<1> DEFINE q == I!Sources("localAdmins")
           M == MaxPages
           L == M + 4
<1>1. Len(q) = M + 5 /\ M \in Nat
  BY LocalAdminsSources
<1>2. q[1] = <<"alias", "">> /\ q[2] = <<"machineSid", "">> /\ q[3] = <<"aliasName", "">>
  BY LocalAdminsSources
<1>3. q[L] = <<"powershell", "">> /\ q[M + 5] = <<"wmi", "">>
  BY LocalAdminsSources
<1>4. \A p \in 1..M : q[3 + p] = <<"page", p>>
  BY LocalAdminsSources
<1> HIDE DEF q, M
<1>5. <<"alias", "">>[1] = "alias" /\ <<"machineSid", "">>[1] = "machineSid" /\ <<"aliasName", "">>[1] = "aliasName"
      /\ <<"wmi", "">>[1] = "wmi" /\ \A p : <<"page", p>>[1] = "page"
  OBVIOUS
<1>6. q[1][1] = "alias" /\ q[2][1] = "machineSid" /\ q[3][1] = "aliasName"
  BY <1>2, <1>5, Zenon
<1>7. q[M + 5][1] = "wmi"
  BY <1>3, <1>5, Zenon
<1>8. \A p \in 1..M : q[3 + p][1] = "page"
  BY <1>4, <1>5, Zenon
<1> SUFFICES ASSUME NEW i \in 1..Len(q), q[i][1] = "powershell" PROVE i = L
  BY <1>3, Zenon DEF q
<1>9. i \notin {1, 2, 3} /\ i # M + 5
  BY <1>6, <1>7
<1>10. i \notin 4..(M + 3)
  <2> SUFFICES ASSUME i \in 4..(M + 3) PROVE FALSE
    OBVIOUS
  <2>1. i - 3 \in 1..M /\ 3 + (i - 3) = i
    BY <1>1
  <2> QED BY <1>8, <2>1
<1> QED BY <1>1, <1>9, <1>10

LEMMA FreshIsGood ==
  ASSUME NEW asked \in Seq(I!Blocks)
  PROVE  I!Fresh(asked) = I!NoBlock \/ BlockGood(I!Fresh(asked))
<1>1. CASE asked = <<>>
  BY <1>1 DEF I!Fresh
<1>2. CASE asked # <<>>
  <2> DEFINE b == I!Fresh(asked)
             q == I!Sources(b.of)
  <2>1. Head(asked) \in I!Blocks /\ Tail(asked) \in Seq(I!Blocks)
    BY <1>2
  <2>2. b = [of |-> Head(asked), rest |-> Tail(asked), left |-> 1..Len(I!Sources(Head(asked))), told |-> <<>>, seen |-> <<>>, errors |-> {}]
    BY <1>2 DEF I!Fresh
  <2>3. DOMAIN <<>> = {}
    OBVIOUS
  <2> DEFINE e == <<>>
  <2>4. /\ DOMAIN b = BlockFields /\ b.of = Head(asked) /\ b.rest = Tail(asked) /\ b.left = 1..Len(I!Sources(Head(asked)))
        /\ b.told = e
    <3> HIDE DEF e
    <3>1. b = [of |-> Head(asked), rest |-> Tail(asked), left |-> 1..Len(I!Sources(Head(asked))), told |-> e, seen |-> e, errors |-> {}]
      BY <2>2 DEF e
    <3> HIDE DEF b
    <3> QED BY <3>1 DEF BlockFields
  <2>5. DOMAIN b.told = {}
    BY <2>3, <2>4
  <2> HIDE DEF b, e
  <2>6. BlockShape(b)
    BY <2>1, <2>4 DEF BlockShape, BlockFields
  <2>7. ToldIsRead(b) /\ Covered(b)
    BY <2>4, <2>5 DEF ToldIsRead, Covered
  <2>8. OneSource(b)
    <3>1. b.of = "localAdmins" => LastPage \in b.left
        <4>1. Len(I!Sources("localAdmins")) = MaxPages + 5 /\ MaxPages \in Nat \ {0}
        BY LocalAdminsSources
      <4>2. 3 + MaxPages \in 1..(MaxPages + 5)
        BY <4>1
      <4> QED BY <2>4, <4>1, <4>2 DEF LastPage
    <3> QED BY <2>5, <3>1 DEF OneSource
  <2> QED BY <2>6, <2>7, <2>8 DEF BlockGood, b
<1> QED BY <1>1, <1>2

LEMMA FinalizeIs ==
  ASSUME NEW b, DOMAIN b = BlockFields
  PROVE  LET c == I!Finalize(b) IN
         c.of = b.of /\ c.rest = b.rest /\ c.told = b.told /\ c.seen = b.seen /\ b.errors \subseteq c.errors
<1> DEFINE x == IF I!NoEvidence(b) THEN {<<"evidence", "">>} ELSE {}
           y == IF b.of = "startup" /\ I!Overflows(b) # {} THEN {<<"cap", "">>} ELSE {}
<1>1. I!Finalize(b) = [b EXCEPT !.errors = @ \cup x \cup y]
  BY DEF I!Finalize
<1> HIDE DEF x, y
<1> QED BY <1>1 DEF BlockFields

\* A list that is not cut is the sum of what its source held.
LEMMA TotalIsWhole ==
  ASSUME NEW b, BlockGood(b), NEW l \in I!Lists(b.of)
  PROVE  I!Total(b, l) = I!SumOf([s \in {t \in DOMAIN b.told : t[1] \in l} |-> I!Held(b.seen[s])])
<1>1. l \subseteq Counted
  BY DEF I!Lists, Counted
<1> DEFINE T == {t \in DOMAIN b.told : t[1] \in l}
<1>2. \A s \in T : b.told[s] = I!Held(b.seen[s])
  BY <1>1 DEF BlockGood, ToldIsRead, Reading
<1> HIDE DEF T
<1>3. [s \in T |-> b.told[s]] = [s \in T |-> I!Held(b.seen[s])]
  BY <1>2
<1> QED BY <1>3 DEF I!Total, T

LEMMA ConcludeHonest ==
  ASSUME BlockGood(block), I!Conclude
  PROVE  I!CleanIsRead' /\ I!CountsAreWhole'
<1> DEFINE b == block
           f == I!Finalize(block)
           q == I!Sources(b.of)
           t == b.told
           e == b.seen
<1>1. DOMAIN b = BlockFields /\ b.of \in I!Blocks /\ b.left = {}
  BY DEF BlockGood, BlockShape, BlockFields, I!Conclude
<1>2. f.of = b.of /\ f.rest = b.rest /\ f.told = t /\ f.seen = e /\ b.errors \subseteq f.errors
  BY <1>1, FinalizeIs
<1>3. sheet' = [done |-> TRUE, of |-> f.of, told |-> f.told, seen |-> f.seen, errors |-> f.errors,
                complete |-> I!ProbeComplete(f), shown |-> I!Shown(f), cut |-> I!Overflows(f) # {}]
  BY DEF I!Conclude
<1> HIDE DEF f
<1>4. /\ sheet'.of = b.of /\ sheet'.told = t /\ sheet'.seen = e /\ sheet'.complete = I!ProbeComplete(f)
      /\ sheet'.shown = I!Shown(f) /\ sheet'.cut = (I!Overflows(f) # {})
  BY <1>2, <1>3
<1>5. \A s \in DOMAIN t : Reading(s, t[s], e[s]) /\ \E i \in 1..Len(q) : s = q[i]
  BY DEF BlockGood, ToldIsRead
<1>6. ASSUME I!ProbeComplete(f), NEW i \in 1..Len(q), q[i][1] \notin I!Dispensable PROVE q[i] \in DOMAIN t
  <2>1. I!Critical(f) = {}
    BY <1>6 DEF I!ProbeComplete
  <2>2. I!Critical(b) \subseteq I!Critical(f)
    BY <1>2 DEF I!Critical
  <2>3. ~Lasting(b)
    BY <2>1, <2>2 DEF Lasting
  <2> QED BY <1>1, <1>6, <2>3 DEF BlockGood, Covered
<1>7. ASSUME I!WdacOff(sheet'), NEW s \in {<<"cip", "">>, <<"sipolicy", "">>} PROVE e[s].how = "absent" \/ e[s].n = 0
  <2>1. s \in DOMAIN t /\ t[s] = 0
    BY <1>4, <1>7 DEF I!WdacOff
  <2> QED BY <1>5, <1>7, <2>1 DEF Reading
<1>8. I!CleanIsRead'
  <2>1. \A s \in DOMAIN t : t[s] = 0 => I!Innocent(s, e[s])
    BY <1>5 DEF Reading
  <2> QED BY <1>4, <1>6, <1>7, <2>1 DEF I!CleanIsRead
<1>9. ASSUME I!Overflows(f) = {}, NEW l \in I!Lists(b.of)
      PROVE  I!Shown(f)[l] = I!SumOf([s \in {u \in DOMAIN t : u[1] \in l} |-> I!Held(e[s])])
  <2>1. I!Total(f, l) = I!Total(b, l)
    BY <1>2 DEF I!Total
  <2>2. ~(I!Total(f, l) > Cap)
    BY <1>2, <1>9 DEF I!Overflows
  <2>3. I!Shown(f)[l] = IF I!Total(f, l) > Cap THEN Cap ELSE I!Total(f, l)
    BY <1>2 DEF I!Shown
  <2>4. I!Total(b, l) = I!SumOf([s \in {u \in DOMAIN t : u[1] \in l} |-> I!Held(e[s])])
    BY TotalIsWhole
  <2> QED BY <2>1, <2>2, <2>3, <2>4
<1>10. {s[1] : s \in DOMAIN t} \cap {"page", "powershell"} # {"page", "powershell"}
  <2> SUFFICES ASSUME NEW u \in DOMAIN t, NEW v \in DOMAIN t, u[1] = "page", v[1] = "powershell" PROVE FALSE
    OBVIOUS
  <2>1. PICK i \in 1..Len(q) : u = q[i]
    BY <1>5
  <2>2. PICK j \in 1..Len(q) : v = q[j]
    BY <1>5
  <2>3. "page" \in KindsOf(b.of)
    BY <1>1, <2>1, SourcesAre DEF IsList
  <2>4. b.of = "localAdmins"
    BY <1>1, <2>3 DEF KindsOf, I!Blocks
  <2>5. v = <<"powershell", "">>
    BY <2>2, <2>4, PowerShellIs
  <2> QED BY <2>4, <2>5 DEF BlockGood, OneSource
<1>11. I!CountsAreWhole'
  <2> SUFFICES ASSUME sheet'.done, ~sheet'.cut
               PROVE  /\ \A l \in I!Lists(sheet'.of) :
                           sheet'.shown[l] = I!SumOf([s \in {u \in DOMAIN sheet'.told : u[1] \in l} |-> I!Held(sheet'.seen[s])])
                      /\ {s[1] : s \in DOMAIN sheet'.told} \cap {"page", "powershell"} # {"page", "powershell"}
    BY DEF I!CountsAreWhole
  <2>1. I!Overflows(f) = {}
    BY <1>4
  <2>2. \A l \in I!Lists(b.of) : I!Shown(f)[l] = I!SumOf([s \in {u \in DOMAIN t : u[1] \in l} |-> I!Held(e[s])])
    BY <1>9, <2>1
  <2> QED BY <1>4, <1>10, <2>2
<1> QED BY <1>8, <1>11
-----------------------------------------------------------------------------
\* What holds of the collector between its steps.
IInv ==
  /\ \A s \in DOMAIN machine : I!IsAnswer(machine[s])
  /\ block = I!NoBlock \/ BlockGood(block)
  /\ InventoryHonest

LEMMA IInvBegins == Init => IInv
<1> SUFFICES ASSUME Init PROVE IInv
  OBVIOUS
<1>1. I!Init
  BY CollectorsBegin
<1>2. \A s \in DOMAIN machine : I!IsAnswer(machine[s])
  BY <1>1, CommandsAssumption DEF I!Init, I!InventoryAssumption
<1>3. InventoryHonest
  BY <1>1 DEF I!Init, I!NoSheet, InventoryHonest, I!CleanIsRead, I!CountsAreWhole
<1> QED BY <1>1, <1>2, <1>3 DEF I!Init, IInv

LEMMA SaysAnswer ==
  ASSUME IInv, NEW s
  PROVE  I!IsAnswer(I!Says(s))
BY DEF IInv, I!Says, I!IsAnswer

LEMMA NoBlockIs == I!NoBlock.of = "none" /\ "none" \notin I!Timed /\ I!Timed \subseteq I!Blocks \ {"appControl", "localAdmins"}
BY DEF I!NoBlock, I!Timed, I!Blocks

LEMMA RunOutHolds ==
  ASSUME BlockGood(block), I!RunOut
  PROVE  BlockGood(block')
<1> DEFINE b == block
           e == <<>>
           c == block'
           o == <<"late", "">>
<1>1. b.of \in I!Blocks \ {"appControl", "localAdmins"} /\ DOMAIN b = BlockFields /\ b.rest \in Seq(I!Blocks)
  BY NoBlockIs DEF I!RunOut, BlockGood, BlockShape, BlockFields
<1>2. c = [b EXCEPT !.left = {}, !.told = e, !.errors = {o}]
  BY DEF I!RunOut, I!OutOfTime
<1>3. DOMAIN e = {}
  OBVIOUS
<1>4. o[1] = "late"
  OBVIOUS
<1> HIDE DEF b, c, e, o
<1>5. /\ DOMAIN c = BlockFields /\ c.of = b.of /\ c.rest = b.rest /\ c.left = {} /\ c.told = e /\ c.errors = {o}
  BY <1>1, <1>2 DEF BlockFields
<1>6. DOMAIN c.told = {}
  BY <1>3, <1>5
<1>7. Lasting(c)
  BY <1>1, <1>4, <1>5 DEF Lasting, I!Critical, I!Refusals
<1>8. BlockShape(c) /\ OneSource(c)
  BY <1>1, <1>5 DEF BlockShape, OneSource, BlockFields
<1>9. ToldIsRead(c) /\ Covered(c)
  BY <1>6, <1>7 DEF ToldIsRead, Covered
<1>10. BlockGood(c)
  BY <1>8, <1>9 DEF BlockGood
<1> QED BY <1>10 DEF c

LEMMA IInvHolds == IInv /\ [Next]_commands => IInv'
<1> SUFFICES ASSUME IInv, [Next]_commands PROVE IInv'
  OBVIOUS
<1> DEFINE Kept == block' = I!NoBlock \/ BlockGood(block')
<1>1. [I!Next]_(I!inventory)
  BY CollectorsMove
<1>2. (block = I!NoBlock \/ BlockGood(block)) /\ \A s \in DOMAIN machine : I!IsAnswer(machine[s])
  BY DEF IInv
<1>3. UNCHANGED machine => \A s \in DOMAIN machine' : I!IsAnswer(machine'[s])
  BY <1>2
<1>4. UNCHANGED sheet => InventoryHonest'
  BY DEF IInv, InventoryHonest, I!CleanIsRead, I!CountsAreWhole
<1>5. UNCHANGED block => Kept
  BY <1>2
<1>6. IInv' <=> (\A s \in DOMAIN machine' : I!IsAnswer(machine'[s])) /\ Kept /\ InventoryHonest'
  BY DEF IInv
<1> HIDE DEF Kept
<1>7. CASE UNCHANGED I!inventory
  BY <1>3, <1>4, <1>5, <1>6, <1>7 DEF I!inventory
<1>8. CASE I!Read
  <2>1. UNCHANGED <<machine, sheet>> /\ block # I!NoBlock
    BY <1>8 DEF I!Read
  <2>2. PICK i \in block.left :
          /\ \A j \in block.left : i <= j
          /\ block' = I!Take([block EXCEPT !.left = @ \ {i}, !.seen = I!With(@, I!Sources(block.of)[i], I!Says(I!Sources(block.of)[i]))],
                             I!Sources(block.of)[i], I!Says(I!Sources(block.of)[i]))
    BY <1>8 DEF I!Read
  <2> DEFINE a == I!Says(I!Sources(block.of)[i])
  <2>3. block' = I!Take(Reads(block, i, a), I!Sources(block.of)[i], a)
    BY <2>2 DEF Reads
  <2>4. I!IsAnswer(a)
    BY SaysAnswer
  <2> HIDE DEF a
  <2>5. BlockGood(block')
    BY <1>2, <2>1, <2>2, <2>3, <2>4, ReadHolds
  <2> QED BY <1>3, <1>4, <1>6, <2>1, <2>5 DEF Kept
<1>9. CASE I!Conclude
  <2>1. UNCHANGED machine /\ block # I!NoBlock /\ BlockGood(block)
    BY <1>2, <1>9 DEF I!Conclude
  <2>2. InventoryHonest'
    BY <1>9, <2>1, ConcludeHonest DEF InventoryHonest
  <2>3. block.rest \in Seq(I!Blocks) /\ I!Finalize(block).rest = block.rest
    BY <2>1, FinalizeIs DEF BlockGood, BlockShape, BlockFields
  <2>4. block' = I!Fresh(block.rest)
    BY <1>9, <2>3 DEF I!Conclude
  <2>5. Kept
    BY <2>3, <2>4, FreshIsGood DEF Kept
  <2> QED BY <1>3, <1>6, <2>1, <2>2, <2>5
<1>10. CASE I!RunOut
  <2>1. UNCHANGED <<machine, sheet>> /\ block.of \in I!Timed
    BY <1>10 DEF I!RunOut
  <2>2. BlockGood(block')
    BY <1>2, <1>10, <2>1, NoBlockIs, RunOutHolds
  <2> QED BY <1>3, <1>4, <1>6, <2>1, <2>2 DEF Kept
<1>11. CASE I!Turn
  <2>1. UNCHANGED <<block, sheet>>
    BY <1>11 DEF I!Turn
  <2>2. PICK t \in Turns : machine' = I!With(machine, t.source, t.answer)
    BY <1>11 DEF I!Turn
  <2>3. I!IsAnswer(t.answer)
    BY CommandsAssumption DEF I!InventoryAssumption
  <2>4. \A s \in DOMAIN machine' : I!IsAnswer(machine'[s])
    BY <1>2, <2>2, <2>3 DEF I!With
  <2> QED BY <1>4, <1>5, <1>6, <2>1, <2>4
<1>12. CASE I!Abandon
  BY <1>3, <1>4, <1>6, <1>12 DEF I!Abandon, Kept
<1>13. ASSUME NEW asked \in Asked, I!Begin(asked) PROVE IInv'
  <2>1. UNCHANGED <<machine, sheet>> /\ block' = I!Fresh(asked)
    BY <1>13 DEF I!Begin
  <2>2. asked \in Seq(I!Blocks)
    BY CommandsAssumption DEF I!InventoryAssumption
  <2>3. Kept
    BY <2>1, <2>2, FreshIsGood DEF Kept
  <2> QED BY <1>3, <1>4, <1>6, <2>1, <2>3
<1> QED BY <1>1, <1>7, <1>8, <1>9, <1>10, <1>11, <1>12, <1>13 DEF I!Next, I!Agent

(* COLLECT_INVENTORY (internal/inventory): whatever a host answers, refuses  *)
(* or changes between two readings, and wherever time runs out, a block that *)
(* says "absent" or "zero" was told so by the source it names, one that      *)
(* calls itself complete has read every source its verdict rests on, and a   *)
(* list that is not cut holds what its one source returned, each item once,  *)
(* for every host, every number of pages, services and drives.               *)
THEOREM InventoriesHonest == Spec => []InventoryHonest
<1>1. IInv => InventoryHonest
  BY DEF IInv
<1> QED BY <1>1, IInvBegins, IInvHolds, PTL DEF Spec
=============================================================================
