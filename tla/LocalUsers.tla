----------------------------- MODULE LocalUsers -----------------------------
(* internal/users: LOCK_USER_LOGIN, UNLOCK_USER_LOGIN and                    *)
(* CHANGE_LOCAL_PASSWORD on the local accounts of a host whose administrator *)
(* changes accounts and groups between any two calls of the agent.           *)
EXTENDS Integers, FiniteSets

CONSTANTS Mutations,    \* the mutations the backend asks for
          InitialSam,   \* the accounts at the start: name -> account
          Groups,       \* the local groups
          InitialGroups,\* their members at the start: group -> set of principals
          MaxDepth,     \* maxAdminExpansionDepth
          MaxGroups,    \* maxAdminExpansionGroups
          MaxMutations, MaxChanges  \* bounds

VARIABLES sam,      \* name -> [sid, disabled, lockout, password], or no account
          groups,   \* group -> members: SIDs of users, groups, and others
          mutation, \* the mutation under way
          outcome,  \* of the last one
          nMutations, nChanges

users == <<sam, groups, mutation, outcome, nMutations, nChanges>>
-----------------------------------------------------------------------------
Names == DOMAIN InitialSam
NoAccount == [sid |-> "none"]
IsAccount(a) == DOMAIN a = {"sid", "disabled", "lockout", "password"} /\ a.sid # "none"
Exists(n) == n \in Names /\ sam[n].sid # "none"
LocalSids == {InitialSam[n].sid : n \in Names} \ {"none"}

UsersAssumption ==
  /\ MaxDepth \in Nat /\ MaxGroups \in Nat /\ MaxMutations \in Nat /\ MaxChanges \in Nat
  /\ "Administrators" \in Groups /\ IsFiniteSet(Groups)
  /\ \A n \in Names : InitialSam[n] = NoAccount \/ IsAccount(InitialSam[n])

\* Names refused whatever the host: built-in accounts, and SIDs as text.
ReservedNames == {"Administrator", "Guest", "S-1-5-21-500"}
ReservedRids == {"500", "501", "502", "503", "504"}
GuardReservedUsername(name) == name # "" /\ name \notin ReservedNames
GuardProtectedRID(sid) == sid \notin ReservedRids

HasSecret(o) == o.secret # "none"
PayloadSound(o) ==
  /\ GuardReservedUsername(o.name)
  /\ IF o.action = "PASSWORD" THEN o.secret \notin {"none", "blank"} ELSE ~HasSecret(o)
PasswordFits(o) == o.secret = "fits"

\* The groups at most d memberships away from Administrators. A member that
\* is no local group, or resolves to nothing, is passed over.
Within[d \in Nat] ==
  IF d = 0 THEN {"Administrators"}
  ELSE Within[d - 1] \cup {g \in Groups : \E h \in Within[d - 1] : g \in groups[h]}
Reached == Within[MaxDepth]
Beyond == {g \in Groups \ Reached : \E h \in Reached : g \in groups[h]} # {}
\* The members of the group itself, and no nested one.
DirectAdmins == {s \in LocalSids : s \in groups["Administrators"]}
AdminUsers == {s \in LocalSids : \E g \in Reached : s \in groups[g]}
ExpansionReadable == ~Beyond /\ Cardinality(Reached) <= MaxGroups

\* The one refusal that protects the host: its last enabled local administrator.
LockoutRefused(f) == f.enabled /\ f.admin /\ f.others <= 0
-----------------------------------------------------------------------------
NoMutation == [pc |-> "idle"]
Init ==
  /\ sam = InitialSam /\ groups = InitialGroups
  /\ mutation = NoMutation /\ outcome = "none" /\ nMutations = 0 /\ nChanges = 0

Finish(status) == outcome' = status /\ mutation' = NoMutation
Quiet == UNCHANGED <<sam, groups, nMutations, nChanges>>
Fail == Finish("FAILED") /\ Quiet
Step(pc) == mutation' = [mutation EXCEPT !.pc = pc] /\ UNCHANGED outcome /\ Quiet

Begin(o) ==
  /\ mutation.pc = "idle" /\ nMutations < MaxMutations /\ nMutations' = nMutations + 1
  /\ mutation' = [pc |-> IF PayloadSound(o) THEN "resolve" ELSE "refuse", of |-> o, sid |-> "none",
               facts |-> [enabled |-> FALSE, admin |-> FALSE, others |-> 0], flags |-> NoAccount, since |-> nChanges]
  /\ UNCHANGED <<sam, groups, outcome, nChanges>>
Refuse == mutation.pc = "refuse" /\ Fail

\* The name must be that of a local account, and its SID no built-in one.
AfterResolve(o) == CASE o.action = "LOCK" -> "targetFlags" [] o.action = "UNLOCK" -> "flags" [] OTHER -> "password"
Resolve ==
  /\ mutation.pc = "resolve"
  /\ \/ Fail
     \/ /\ Exists(mutation.of.name) /\ GuardProtectedRID(sam[mutation.of.name].sid)
        /\ mutation' = [mutation EXCEPT !.pc = AfterResolve(mutation.of), !.sid = sam[mutation.of.name].sid]
        /\ UNCHANGED outcome /\ Quiet

\* The facts of the guard are read one after the other; what cannot be read
\* refuses the mutation, but for an account of the list that cannot be resolved,
\* which is not counted.
TargetFlags ==
  /\ mutation.pc = "targetFlags"
  /\ \/ Fail
     \/ /\ Exists(mutation.of.name)
        /\ mutation' = [mutation EXCEPT !.pc = "admins", !.facts.enabled = ~sam[mutation.of.name].disabled]
        /\ UNCHANGED outcome /\ Quiet
\* An administrator counts with the set read here; the accounts are listed next.
Admins ==
  /\ mutation.pc = "admins"
  /\ \/ Fail
     \/ /\ ExpansionReadable
        /\ mutation' = [mutation EXCEPT !.pc = "list", !.flags = [sid |-> "set", admins |-> AdminUsers],
                                  !.facts.admin = mutation.sid \in AdminUsers]
        /\ UNCHANGED outcome /\ Quiet
OthersEnabled(admins) ==
  {n \in Names : n # mutation.of.name /\ Exists(n) /\ ~sam[n].disabled /\ sam[n].sid \in admins}
List ==
  /\ mutation.pc = "list"
  /\ \/ Fail
     \/ \E counted \in SUBSET OthersEnabled(mutation.flags.admins) :
          LET f == [mutation.facts EXCEPT !.others = Cardinality(counted)]
          IN  IF LockoutRefused(f) THEN Fail
              ELSE mutation' = [mutation EXCEPT !.pc = "flags", !.facts = f, !.flags = NoAccount] /\ UNCHANGED outcome /\ Quiet

\* All flags are read, and written back with one changed. By name, again.
ReadFlags ==
  /\ mutation.pc = "flags"
  /\ \/ Fail
     \/ /\ Exists(mutation.of.name)
        /\ mutation' = [mutation EXCEPT !.pc = "write", !.flags = sam[mutation.of.name]]
        /\ UNCHANGED outcome /\ Quiet
NewFlags(flags, lock) == IF lock THEN [flags EXCEPT !.disabled = TRUE] ELSE [flags EXCEPT !.disabled = FALSE, !.lockout = FALSE]
SetUserInfo(n, account) == sam' = [sam EXCEPT ![n] = account]
WriteFlags ==
  LET f == NewFlags(mutation.flags, mutation.of.action = "LOCK")
      n == mutation.of.name
  IN  /\ mutation.pc = "write"
      /\ \/ Fail
         \/ /\ Exists(n) /\ SetUserInfo(n, [sam[n] EXCEPT !.disabled = f.disabled, !.lockout = f.lockout])
            /\ Finish("SUCCEEDED") /\ UNCHANGED <<groups, nMutations, nChanges>>

SetPassword ==
  /\ mutation.pc = "password"
  /\ \/ Fail
     \/ /\ PasswordFits(mutation.of) /\ Exists(mutation.of.name)
        /\ SetUserInfo(mutation.of.name, [sam[mutation.of.name] EXCEPT !.password = "new"])
        /\ Finish("SUCCEEDED") /\ UNCHANGED <<groups, nMutations, nChanges>>

Agent == Refuse \/ Resolve \/ TargetFlags \/ Admins \/ List \/ ReadFlags \/ WriteFlags \/ SetPassword
-----------------------------------------------------------------------------
\* The administrator of the host: enables and disables accounts, deletes and
\* renames them, and moves members between groups.
Change ==
  /\ nChanges < MaxChanges /\ nChanges' = nChanges + 1 /\ UNCHANGED <<mutation, outcome, nMutations>>
  /\ \/ \E n \in Names : Exists(n) /\ UNCHANGED groups /\
          sam' \in {[sam EXCEPT ![n].disabled = ~@], [sam EXCEPT ![n].lockout = ~@], [sam EXCEPT ![n] = NoAccount]}
     \/ \E n, k \in Names : n # k /\ sam' = [sam EXCEPT ![n] = sam[k], ![k] = sam[n]] /\ UNCHANGED groups
     \/ \E g \in Groups, s \in LocalSids :
          groups' \in {[groups EXCEPT ![g] = @ \cup {s}], [groups EXCEPT ![g] = @ \ {s}]} /\ UNCHANGED sam

Next == Agent \/ Change \/ \E o \in Mutations : Begin(o)
Spec == Init /\ [][Next]_users
-----------------------------------------------------------------------------
Undisturbed == mutation.pc # "idle" /\ mutation.since = nChanges
\* The administrators through any chain of groups.
Closed(S) == "Administrators" \in S /\ \A g \in S : groups[g] \cap Groups \subseteq S
TrueAdmins ==
  LET up == CHOOSE S \in SUBSET Groups : Closed(S) /\ \A R \in SUBSET S : Closed(R) => R = S
  IN  {s \in LocalSids : \E g \in up : s \in groups[g]}
EnabledAdmins(accounts) == {n \in Names : accounts[n].sid \in TrueAdmins /\ ~accounts[n].disabled}

(* The agent never leaves a host without an enabled local administrator: not *)
(* by the mutation at hand, nor by a series of them, through any nesting of  *)
(* groups, unless the administrator of the host changes it meanwhile.        *)
AdminRemains ==
  [][Agent /\ Undisturbed /\ EnabledAdmins(sam) # {} => EnabledAdmins(sam') # {}]_users

(* No mutation changes an account with a built-in SID, renamed or not, unless*)
(* the names are moved after the agent resolved one.                         *)
BuiltInsUntouched ==
  [][Agent /\ Undisturbed => \A n \in Names : sam[n].sid \in ReservedRids => sam'[n] = sam[n]]_users
=============================================================================
