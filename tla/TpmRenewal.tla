----------------------------- MODULE TpmRenewal -----------------------------
(* RENEW_TPM_CERTIFICATE: internal/commands/tpm_renewal*.go starts the agent *)
(* once more as a child, which enrolls with the keys of the TPM              *)
(* (internal/tpmenroll, cmd/endpoint-agent/tpm_autoenroll*.go), writes the   *)
(* certificate it is issued, and exits; the parent then judges the file.     *)
EXTENDS Integers, FiniteSets

CONSTANTS Renewals,    \* [fields, id, reason, token, bound, life]: payloads
          OldFiles,    \* the certificate files there may be before
          MaxAttempts, \* of the nonce
          MaxRenewals

RenewalAssumption == MaxAttempts \in Nat \ {0} /\ MaxRenewals \in Nat

VARIABLES file,     \* the certificate on disk: [state, id, current]
          issued,   \* [id, token, current]: what the backend has issued
          child,    \* the enrollment under way
          renewed,  \* the last result: [status, reason, token]
          nRenewals

renewals == <<file, issued, child, renewed, nRenewals>>
-----------------------------------------------------------------------------
Absent == [state |-> "absent"]
NoChild == [pc |-> "none"]
NoResult == [status |-> "none"]

\* The one secret is bound to this command, and lives no longer than an hour.
PayloadError(r) ==
  IF r.fields # "known" \/ r.id # "uuid" \/ r.reason = "" THEN "INVALID_PAYLOAD"
  ELSE IF r.token = "malformed" THEN "INVALID_SECRET"
  ELSE IF ~r.bound \/ r.life # "within the hour" THEN "INVALID_PAYLOAD"
  ELSE ""

Init ==
  /\ file \in OldFiles /\ issued = {} /\ child = NoChild /\ renewed = NoResult /\ nRenewals = 0

\* The child finds the token in its environment; `keys` are the ones it has
\* loaded into the TPM, `found` is the file as it was before.
Begin(r) ==
  /\ nRenewals < MaxRenewals /\ nRenewals' = nRenewals + 1 /\ child = NoChild
  /\ UNCHANGED <<file, issued>>
  /\ IF PayloadError(r) # ""
     THEN child' = NoChild /\ renewed' = [status |-> "failed", reason |-> PayloadError(r)]
     ELSE /\ child' = [pc |-> "tbs", token |-> r.token, keys |-> {}, tries |-> 0, got |-> 0, found |-> file, reason |-> ""]
          /\ renewed' = NoResult
-----------------------------------------------------------------------------
(* The child. Whatever fails ends it, and what it has opened is closed.      *)
Still == UNCHANGED <<file, issued, renewed, nRenewals>>
To(pc) == [child EXCEPT !.pc = pc]

\* Close flushes every key that was created, also when the next one failed.
KeysFlushed(keys) == {}
Exit(reason) == [child EXCEPT !.pc = "exited", !.keys = KeysFlushed(@), !.reason = reason]

\* The device is opened, then the keys are created one after the other; the
\* parent reads every failure of these as one to open the device, since that
\* is what the child says first.
Keys == {"tbs", "endorsement", "attestation", "device"}
After(key) ==
  CASE key = "tbs" -> "endorsement" [] key = "endorsement" -> "attestation"
    [] key = "attestation" -> "device" [] key = "device" -> "nonce"
OpenDevice ==
  /\ child.pc \in Keys /\ Still
  /\ child' \in {[To(After(child.pc)) EXCEPT !.keys = @ \cup ({child.pc} \ {"tbs"})], Exit("TPM_OPEN_FAILED")}

\* Only what may pass is tried again: the network, 408, 429 and 5xx.
IsTransient(status) == status \in {"network", "408", "429", "5xx"}
NonceError(status) ==
  CASE status = "403" -> "NONCE_DENIED" [] status = "429" -> "RATE_LIMITED"
    [] status = "network" -> "NETWORK_FAILED" [] OTHER -> "PROCESS_FAILED"
PostNonce ==
  /\ child.pc = "nonce" /\ Still
  /\ \/ child' \in {To("prove"), Exit("PROCESS_FAILED")}
     \/ \E status \in {"network", "408", "429", "5xx", "403"} :
          child' = IF IsTransient(status) /\ child.tries + 1 < MaxAttempts
                   THEN [child EXCEPT !.tries = @ + 1] ELSE Exit(NonceError(status))

\* The challenge is decoded and answered: credential, quote, key, request.
Prove == child.pc = "prove" /\ Still /\ child' \in {To("attest"), Exit("PROCESS_FAILED")}

\* The evidence is sent once, for its nonce is spent by that. The backend may
\* have issued a certificate whose answer is lost.
PostAttest ==
  /\ child.pc = "attest" /\ UNCHANGED <<file, renewed, nRenewals>>
  /\ \E answer \in {"issued", "lost", "empty", "refused"}, current \in BOOLEAN :
       LET id == Cardinality(issued) + 1 IN
       /\ issued' = IF answer \in {"issued", "lost"}
                    THEN issued \cup {[id |-> id, token |-> child.token, current |-> current]} ELSE issued
       /\ child' = IF answer = "issued" THEN [To("open") EXCEPT !.got = id]
                   ELSE Exit(IF answer = "lost" THEN "NETWORK_FAILED" ELSE "PROCESS_FAILED")

\* The file is truncated when it is opened, then written in place.
OpenFile ==
  /\ child.pc = "open" /\ UNCHANGED <<issued, renewed, nRenewals>>
  /\ \/ file' = [state |-> "torn"] /\ child' = To("write")
     \/ UNCHANGED file /\ child' = Exit("CERT_PERSIST_FAILED")
Certificate(id) == CHOOSE c \in issued : c.id = id
WriteFile ==
  /\ child.pc = "write" /\ UNCHANGED <<issued, renewed, nRenewals>>
  /\ \/ /\ child' = Exit("")
        /\ file' = [state |-> "whole", id |-> child.got, current |-> Certificate(child.got).current]
     \/ UNCHANGED file /\ child' = Exit("CERT_PERSIST_FAILED")
-----------------------------------------------------------------------------
(* The parent waits for the child and reads the file it should have left.    *)
Finish(status, reason) ==
  /\ child' = NoChild /\ UNCHANGED <<file, issued, nRenewals>>
  /\ renewed' = [status |-> status, reason |-> reason, token |-> child.token]

\* A parent that would go by the file alone.
ChildFailedNever(c) == FALSE
ChildFailed(c) == c.reason # ""
Classify == child.pc = "exited" /\ ChildFailed(child) /\ Finish("failed", child.reason)
Judge ==
  /\ child.pc = "exited" /\ ~ChildFailed(child)
  /\ IF file.state = "absent" THEN Finish("failed", "CERTIFICATE_MISSING")
     ELSE IF file.state = "torn" THEN Finish("failed", "CERTIFICATE_INVALID")
     ELSE IF ~file.current THEN Finish("failed", "CERTIFICATE_NOT_CURRENT")
     ELSE Finish("renewed", "")

Agent == OpenDevice \/ PostNonce \/ Prove \/ PostAttest \/ OpenFile \/ WriteFile \/ Classify \/ Judge
\* The service stops: the child is killed where it is, and its keys go with
\* it. A child that had failed by then counts as killed.
Expire == child # NoChild /\ (child.pc = "exited" => ChildFailed(child)) /\ Finish("failed", "TIMEOUT")

Next == (\E r \in Renewals : Begin(r)) \/ Agent \/ Expire
Spec == Init /\ [][Next]_renewals /\ WF_renewals(Agent)
-----------------------------------------------------------------------------
(* A renewal reported as done has left a certificate on disk that is whole,  *)
(* current, and the one issued for its own token: never an older one that    *)
(* was still there when the child failed.                                    *)
RenewalTruth ==
  child = NoChild /\ renewed.status = "renewed" =>
    file.state = "whole" /\ file.current /\ \E c \in issued : c.id = file.id /\ c.token = renewed.token

(* A child that fails leaves nothing behind: no key in the TPM, and the      *)
(* certificate that was there, unless it failed to write the new one.        *)
FailureLeavesNothing ==
  child.pc = "exited" =>
    child.keys = {} /\ (child.reason \notin {"", "CERT_PERSIST_FAILED"} => file = child.found)
=============================================================================
