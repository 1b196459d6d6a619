------------------------ MODULE PromotionCoordinator ------------------------
(***************************************************************************)
(* internal/promotion over the desired-state store: an update is proposed  *)
(* against the state its proposer read, classified, possibly approved by a *)
(* human, and promoted through the store's compare-and-swap, while other   *)
(* proposers and the HTTP surface, which holds the same *Store, write too. *)
(*                                                                         *)
(* The proposers are outside src/: a Promoter classifies what it promotes; *)
(* an Unclassified caller passes the zero value of Classification.         *)
(***************************************************************************)
EXTENDS DesiredStateStore

CONSTANTS
    Promoters,      \* callers that run ClassifyUpdate first
    Unclassified,   \* callers of Promote with a zero Classification
    ApiClients,     \* PUTs served by internal/api on the same store
    Proposals,      \* the facts of the updates that can be proposed
    MaxAttempts     \* bound: proposals one promoter makes

ASSUME CallerAssumption ==
    /\ Callers = Promoters \cup Unclassified \cup ApiClients
    /\ Promoters \cap (Unclassified \cup ApiClients) = {}
ASSUME AttemptAssumption == MaxAttempts \in Nat
\* A caller can name every revision the store can hold.
ASSUME RevisionsNamed == 0..MaxRevision \subseteq Revisions

VARIABLES
    work,      \* each promoter's update: what it rests on, its verdict, its result
    results    \* the outcome of the single calls of the other writers

vars == <<records, log, work, results>>

(***************************************************************************)
(* UpdateProposal: the facts that decide the classification.  rebases is   *)
(* the outcome of RebaseJSONPatch on the state the proposer read.          *)
(***************************************************************************)
UpdateProposal ==
    [rawSecretPresent : BOOLEAN, securityAuthorityChanged : BOOLEAN,
     skillDigestsUnchanged : BOOLEAN, trustPolicyUnchanged : BOOLEAN,
     consumerPolicyVerdictOK : BOOLEAN, rebases : BOOLEAN]
ASSUME ProposalAssumption == Proposals \subseteq UpdateProposal

Dispositions == {"auto-progress", "approval-required", ""}

\* Mutant: the trust policy is not looked at.
ClassifyUpdateAnyTrust(u) ==
    IF \/ u.rawSecretPresent \/ u.securityAuthorityChanged
       \/ ~u.skillDigestsUnchanged
       \/ ~u.consumerPolicyVerdictOK \/ ~u.rebases
    THEN "approval-required" ELSE "auto-progress"

ClassifyUpdate(u) ==
    IF \/ u.rawSecretPresent \/ u.securityAuthorityChanged
       \/ ~u.skillDigestsUnchanged \/ ~u.trustPolicyUnchanged
       \/ ~u.consumerPolicyVerdictOK \/ ~u.rebases
    THEN "approval-required" ELSE "auto-progress"

currentPrecondition(k) ==
    IF Exists(k) THEN Match(records[k].revision, records[k].digest) ELSE Absent

NoWork == [step |-> "idle", attempt |-> 0]
Steps == {"classified", "promoted", "stale", "stopped", "failed"}
Work == {NoWork} \cup
    [step : Steps, attempt : 1..MaxAttempts, key : Keys, proposal : Proposals,
     disposition : Dispositions, approved : BOOLEAN, payload : Payloads,
     precondition : Precondition, versions : Nat]

----------------------------------------------------------------------------
Init ==
    /\ StoreInit
    /\ work = [p \in Promoters |-> NoWork]
    /\ results = [x \in Unclassified \cup ApiClients |-> "none"]

\* Coordinator.Read, then ClassifyUpdate of a proposal made for what was read.
\* An approval given to an earlier proposal says nothing of this one.
Propose(p, k) ==
    /\ work[p].step \in {"idle", "stale", "stopped"}
    /\ work[p].attempt < MaxAttempts
    /\ \E u \in Proposals, v \in Payloads :
          work' = [work EXCEPT ![p] =
                     [step |-> "classified", attempt |-> @.attempt + 1, key |-> k,
                      proposal |-> u, disposition |-> ClassifyUpdate(u),
                      approved |-> FALSE, payload |-> v,
                      precondition |-> currentPrecondition(k),
                      versions |-> Len(log[k])]]
    /\ UNCHANGED <<records, log, results>>

\* A human approves the exact content in front of them.
Approve(p) ==
    /\ work[p].step = "classified"
    /\ work[p].disposition = "approval-required"
    /\ ~work[p].approved
    /\ work' = [work EXCEPT ![p].approved = TRUE]
    /\ UNCHANGED <<records, log, results>>

\* Mutant: approval is asked for only when a target is first created.
refusesOnlyCreation(disposition, approved, p) ==
    disposition = "approval-required" /\ ~approved /\ p = Absent

\* The one check Promote makes of its own.
refuses(disposition, approved, p) == disposition = "approval-required" /\ ~approved

Promote(p) ==
    /\ work[p].step = "classified"
    /\ LET w == work[p]
           outcome == Outcome(w.key, w.precondition, w.payload)
       IN IF refuses(w.disposition, w.approved, w.precondition)
          THEN /\ work' = [work EXCEPT ![p].step = "stopped"]
               /\ UNCHANGED storeVars
          ELSE /\ CompareAndSwap(p, w.key, w.precondition, w.payload)
               /\ work' = [work EXCEPT ![p].step =
                             CASE outcome = "ok" -> "promoted"
                               [] outcome = "precondition_failed" -> "stale"
                               [] OTHER -> "failed"]
    /\ UNCHANGED results

\* Promote with Classification{}, whose Disposition is the empty string, and with any
\* precondition at all: a guess, a stale one or one the store finds invalid.
PromoteUnclassified(x, k) ==
    /\ results[x] = "none"
    /\ \E p \in Precondition, v \in Payloads :
          /\ ~refuses("", FALSE, p)
          /\ results' = [results EXCEPT ![x] = Outcome(k, p, v)]
          /\ CompareAndSwap(x, k, p, v)
    /\ UNCHANGED work

\* A PUT with the right ETag, served by DesiredStateHandler.put.
ApiPut(x, k) ==
    /\ results[x] = "none"
    /\ \E v \in Payloads :
          /\ results' = [results EXCEPT ![x] = Outcome(k, currentPrecondition(k), v)]
          /\ CompareAndSwap(x, k, currentPrecondition(k), v)
    /\ UNCHANGED work

Next ==
    \/ \E p \in Promoters, k \in Keys : Propose(p, k)
    \/ \E p \in Promoters : Approve(p) \/ Promote(p)
    \/ \E x \in Unclassified, k \in Keys : PromoteUnclassified(x, k)
    \/ \E x \in ApiClients, k \in Keys : ApiPut(x, k)

Spec == Init /\ [][Next]_vars

----------------------------------------------------------------------------
writtenBy(p) == {i \in 1..Len(log[work[p].key]) : log[work[p].key][i].caller = p}

\* Only an update with every compatibility fact in its favour advances without a human
\* (the acceptance criterion quoted at ClassifyUpdate), however often it was proposed
\* again after losing a race: whatever a promoter wrote was compatible or approved.
OnlyCompatibleOrApproved ==
    \A p \in Promoters : work[p].step # "idle" /\ writtenBy(p) # {} =>
        LET u == work[p].proposal
        IN \/ work[p].approved
           \/ /\ u.skillDigestsUnchanged /\ u.trustPolicyUnchanged
              /\ u.consumerPolicyVerdictOK /\ u.rebases
              /\ ~u.rawSecretPresent /\ ~u.securityAuthorityChanged

\* A verdict is about the state it was reached on: if a write came in between, the
\* promotion fails.  What a promoter wrote replaced the version its classification
\* (and its approval) was made for, and nothing else.
VerdictStillApplies ==
    \A p \in Promoters : work[p].step # "idle" =>
        /\ writtenBy(p) \subseteq {work[p].versions + 1}
        /\ writtenBy(p) # {} <=> work[p].step = "promoted"
=============================================================================
