--------------------------- MODULE BackupManifest ---------------------------
(* internal/dataprotection: COLLECT_BACKUP_DRYRUN walks the managed roots of *)
(* a host and lists, or only counts, what a backup would take, while a user  *)
(* moves, links and deletes files under the walk.                            *)
EXTENDS Integers, Sequences, SequencesExt, FiniteSets

CONSTANTS Roots,        \* lists of roots a request may name: [ref, class, ads, path]
          Trees,        \* file systems to start from: path -> node
          Edits,        \* [path, node]: what the user may do to a path
          RedNames,     \* names denied wherever they are
          RedSegments,  \* directories nothing is listed under
          Archives,     \* names of archives and disk images
          Siblings,     \* <<a, b>>: the text of name b starts with that of a
          MaxDepth,
          MaxScans, MaxEdits  \* bounds

\* Windows follows that many links in one path; no path is named like that.
MaxLinks == 63
Nowhere == <<"">>

\* What there is lies in a directory.
TreeSound(t) ==
  /\ DOMAIN t \subseteq Seq(STRING) \ {Nowhere}
  /\ \A p \in DOMAIN t : t[p].kind # "none" /\ p # <<>> => Front(p) \in DOMAIN t /\ t[Front(p)].kind = "dir"
BackupAssumption ==
  /\ {MaxDepth, MaxScans, MaxEdits} \subseteq Nat
  /\ \A t \in Trees : TreeSound(t)
  /\ \A roots \in Roots : roots \in Seq(Range(roots)) /\ \A r \in Range(roots) : r.path \in Seq(STRING) \ {<<>>}

VARIABLES tree,      \* path -> [kind], a link with its target
          scan,      \* the walk under way, with the manifest it builds
          manifest,  \* the last manifest
          nScans, nEdits

backup == <<tree, scan, manifest, nScans, nEdits>>
-----------------------------------------------------------------------------
Kind(p) == IF p \in DOMAIN tree THEN tree[p].kind ELSE "none"
\* What the system makes of a path: the target takes the place of the first
\* link on the way until none is left; after too many it gives up.
IsStraight(p) == \A k \in 1..Len(p) : Kind(SubSeq(p, 1, k)) # "link"
Follow(p) ==
  LET k == CHOOSE i \in 1..Len(p) : Kind(SubSeq(p, 1, i)) = "link" /\ IsStraight(SubSeq(p, 1, i - 1))
  IN  tree[SubSeq(p, 1, k)].to \o SubSeq(p, k + 1, Len(p))
Followed[n \in 0..MaxLinks, p \in Seq(STRING)] ==
  IF n = 0 \/ IsStraight(p) THEN p ELSE Followed[n - 1, Follow(p)]
RealPath(p) ==
  IF IsStraight(p) THEN p
  ELSE LET real == Followed[MaxLinks, p] IN IF IsStraight(real) THEN real ELSE Nowhere
\* The same, but for a link at the end; and the name at the end.
OwnPath(p) == IF p = <<>> THEN p ELSE Append(RealPath(Front(p)), Last(p))
Base(p) == IF p = <<>> THEN "" ELSE Last(p)
NamesIn(d) == {Last(p) : p \in {q \in DOMAIN tree : q # <<>> /\ Front(q) = d /\ Kind(q) # "none"}}

\* Containment compares whole segments; by text, \data would hold \data2.
WithinByText(p, root) ==
  /\ Len(p) >= Len(root) /\ Front(root) = SubSeq(p, 1, Len(root) - 1)
  /\ p[Len(root)] = Last(root) \/ <<Last(root), p[Len(root)]>> \in Siblings
WithinRoot(p, root) == IsPrefix(root, p)

\* The first rule that matches gives the class; an archive counts as a
\* container besides.
DeniedByName(name) == name \in RedNames
DeniedBySegment(p) == \E i \in 1..Len(p) : p[i] \in RedSegments
IsArchive(name) == name \in Archives
ClassifyDenied(p, name) == DeniedByName(name) \/ DeniedBySegment(p) \/ IsArchive(name)

PathClasses == {"managed/onedrive-business", "managed/sharepoint", "managed/unc-corp", "managed/it-folder", "mdm-gpo-root"}
ValidRootRef(ref) == ref = "managed_root:id"
RootSound(r) == ValidRootRef(r.ref) /\ r.class \in PathClasses
-----------------------------------------------------------------------------
NoScan == [pc |-> "idle"]
NoManifest == [done |-> FALSE]
Init ==
  /\ tree \in Trees /\ scan = NoScan /\ manifest = NoManifest /\ nScans = 0 /\ nEdits = 0

Quiet == UNCHANGED <<tree, manifest, nScans, nEdits>>
\* No root at all is refused before anything is read.
Begin(roots) ==
  /\ scan.pc = "idle" /\ nScans < MaxScans /\ nScans' = nScans + 1 /\ UNCHANGED <<tree, nEdits>>
  /\ IF roots = <<>> THEN manifest' = NoManifest /\ scan' = NoScan
     ELSE /\ scan' = [pc |-> "root", left |-> roots, root |-> <<>>, stack |-> <<>>, path |-> <<>>, canon |-> <<>>, reparse |-> FALSE,
                      entries |-> {}, denied |-> 0, containers |-> 0, unresolved |-> 0, of |-> roots, since |-> nEdits, looked |-> nEdits]
          /\ UNCHANGED manifest

\* What comes next after an item: the rest of its directory, or the next root.
Resume(s) == [s EXCEPT !.pc = IF s.stack = <<>> THEN "root" ELSE "next"]
Unresolved == scan' = Resume([scan EXCEPT !.unresolved = @ + 1]) /\ Quiet
Denied(name) ==
  scan' = Resume([scan EXCEPT !.denied = @ + 1, !.containers = @ + (IF IsArchive(name) THEN 1 ELSE 0)]) /\ Quiet
Descend(dir) ==
  scan' = [scan EXCEPT !.pc = "list", !.stack = Append(@, [dir |-> dir, left |-> {}]), !.root = IF scan.stack = <<>> THEN dir ELSE @] /\ Quiet

\* A root whose reference or class is not in the contract is counted, no more.
NextRoot ==
  /\ scan.pc = "root" /\ scan.left # <<>>
  /\ LET r == Head(scan.left) IN
     scan' = IF RootSound(r) /\ ~r.ads
             THEN [scan EXCEPT !.left = Tail(@), !.pc = "attributes", !.path = r.path]
             ELSE [scan EXCEPT !.left = Tail(@), !.unresolved = @ + 1]
  /\ Quiet
Complete ==
  /\ scan.pc = "root" /\ scan.left = <<>> /\ scan' = NoScan /\ UNCHANGED <<tree, nScans, nEdits>>
  /\ manifest' = [done |-> TRUE, of |-> scan.of, entries |-> scan.entries, denied |-> scan.denied,
                  unresolved |-> scan.unresolved, undisturbed |-> scan.since = nEdits]

\* A directory too deep, or one that cannot be read, is counted.
TooDeep == Len(scan.stack) - 1 > MaxDepth
CountUnresolved(s) == [s EXCEPT !.unresolved = @ + 1]
Pop(s) == [s EXCEPT !.stack = Front(@)]
List ==
  /\ scan.pc = "list" /\ Quiet
  /\ LET dir == Last(scan.stack).dir
         counted == Resume(Pop(CountUnresolved(scan)))
     IN  IF TooDeep THEN scan' = counted
         ELSE \/ scan' = counted
              \/ /\ Kind(RealPath(dir)) = "dir"
                 /\ scan' = [scan EXCEPT !.pc = "next", !.stack[Len(scan.stack)].left = NamesIn(RealPath(dir))]
NextName ==
  /\ scan.pc = "next" /\ Quiet
  /\ LET top == Last(scan.stack) IN
     IF top.left = {} THEN scan' = Resume(Pop(scan))
     ELSE LET name == CHOOSE n \in top.left : TRUE IN
          scan' = [scan EXCEPT !.stack[Len(scan.stack)].left = @ \ {name}, !.path = Append(top.dir, name), !.pc = "attributes"]

\* Canonicalize reads the attributes of the path, and then opens it by name.
Attributes ==
  /\ scan.pc = "attributes" /\ Quiet
  /\ scan' = [scan EXCEPT !.pc = "open", !.reparse = Kind(OwnPath(scan.path)) = "link"]
Open ==
  /\ scan.pc = "open"
  /\ LET canon == RealPath(scan.path)
         isRoot == scan.stack = <<>>
     IN  \/ Unresolved
         \/ /\ Kind(canon) # "none"
            /\ IF IF isRoot THEN scan.reparse ELSE ~WithinRoot(canon, scan.root) THEN Unresolved
               ELSE scan' = [scan EXCEPT !.pc = "judge", !.canon = canon, !.looked = nEdits] /\ Quiet
\* The file is looked at by name once more, and classified by the canonical
\* path and the name it was found under.
Judge ==
  /\ scan.pc = "judge"
  /\ LET canon == scan.canon
         name == Base(IF scan.stack = <<>> THEN canon ELSE scan.path)
         read == OwnPath(canon)
     IN  IF scan.stack = <<>> THEN (IF ClassifyDenied(canon, name) THEN Denied(name) ELSE Descend(canon))
         ELSE \/ Unresolved
              \/ /\ Kind(read) # "none"
                 /\ IF ClassifyDenied(canon, name) THEN Denied(name)
                    ELSE IF Kind(read) = "dir" THEN (IF scan.reparse THEN Unresolved ELSE Descend(canon))
                    ELSE /\ Quiet
                         /\ scan' = Resume([scan EXCEPT !.entries = @ \cup
                              {[root |-> scan.root, canon |-> canon, read |-> read, still |-> scan.looked = nEdits]}])

Walk == NextRoot \/ Complete \/ List \/ NextName \/ Attributes \/ Open \/ Judge
-----------------------------------------------------------------------------
\* The user of the host, at any moment. The service may be stopped as well.
Edit ==
  /\ nEdits < MaxEdits /\ nEdits' = nEdits + 1 /\ UNCHANGED <<scan, manifest, nScans>>
  /\ \E e \in Edits : tree[e.path] # e.node /\ tree' = [tree EXCEPT ![e.path] = e.node]
Abandon == scan.pc # "idle" /\ scan' = NoScan /\ UNCHANGED <<tree, manifest, nScans, nEdits>>

Next == Walk \/ Edit \/ Abandon \/ \E roots \in Roots : Begin(roots)
Spec == Init /\ [][Next]_backup
-----------------------------------------------------------------------------
Listed == IF manifest.done THEN manifest.entries ELSE {}
(* What an entry describes was read inside its managed root, outside of every *)
(* denied directory, however the tree was linked and moved before: but for a  *)
(* change that falls between the opening of that very file and its reading.   *)
EntriesInside ==
  \A e \in Listed : e.still => IsPrefix(e.root, e.read) /\ ~DeniedBySegment(e.read)

\* The files below a root that no denied directory holds and no rule denies.
Eligible(r) ==
  {p \in DOMAIN tree : /\ Kind(p) = "file" /\ IsStrictPrefix(r.path, p)
                       /\ ~DeniedBySegment(p) /\ ~DeniedByName(Last(p))
                       /\ \A i \in Len(r.path)..Len(p) : i > 0 => ~DeniedByName(p[i]) /\ ~IsArchive(p[i])}
(* A manifest that counts nothing as unresolved has listed every eligible     *)
(* file of its roots, at any depth, if nobody changed the tree meanwhile.     *)
NothingSkipped ==
  (manifest.done /\ manifest.unresolved = 0 /\ manifest.undisturbed /\ nEdits = 0) =>
    \A i \in 1..Len(manifest.of) :
      LET r == manifest.of[i]
      IN  ~ClassifyDenied(r.path, Last(r.path)) => Eligible(r) \subseteq {e.read : e \in manifest.entries}
=============================================================================
