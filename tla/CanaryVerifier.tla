--------------------------- MODULE CanaryVerifier ---------------------------
(***************************************************************************)
(* internal/canary: the evidence a rollout is promoted on.  A plan is a    *)
(* challenge to the host, which reports two phases, and to the consumer's  *)
(* capability verifier, which reports a login and the authorization of two *)
(* probes, each with a proof of its own.  VerifyPromotion judges three     *)
(* such documents against the facts its caller read when it called.        *)
(*                                                                         *)
(* The actors are outside src/; here they report what happened, late, more *)
(* than once, for plans that were replaced in the meantime, and in each    *)
(* other's name.  A digest is what it is the digest of.  Facts stands for  *)
(* the authority, policy, grants and workload identity in force together.  *)
(***************************************************************************)
EXTENDS Naturals, FiniteSets, Sequences

CONSTANTS
    Plans,         \* nonces of the plans that can be published
    Facts,         \* what can be in force
    Signers,       \* who signs: an identity and the trust policy it signs under
    Expectations,  \* the signers that may be expected at first
    Certified,     \* plans whose non-applicability was independently certified
    MaxWindow,     \* maxValidityWindow
    MaxTime,       \* bound: the last instant
    MaxDispatches, \* bound: dispatches of the capability check
    MaxDocuments,  \* bound: documents and proofs that are signed
    MaxSlips,      \* bound: things wrong with plans, documents and what is in force
    None

ASSUME WindowAssumption == MaxWindow \in Nat

VARIABLES
    now,
    facts,         \* what is in force
    signers,       \* who is expected to sign, per role
    plan,          \* the plan published last, or None
    published,     \* the plans published so far
    dispatch,      \* the dispatch of the capability check in force
    documents,     \* the evidence that was signed |-> the record of its authentication
    proofs,        \* the authorization decisions that were made |-> that record
    slips,
    verification   \* the call of VerifyPromotion

world == <<now, facts, signers, plan, published, dispatch, documents, proofs, slips>>
canaryVars == <<world, verification>>

Phases == {"candidate_ready", "active_readback"}
EvidenceKinds == Phases \cup {"capability"}
Wanted == [permitted |-> "permitted", sentinel |-> "policy_denied"]
Roles == {"host_reconciler", "consumer_capability_verifier", "authorization_decision"}
Actor(kind) == IF kind \in Phases THEN "host_reconciler" ELSE "consumer_capability_verifier"

NoCall == [step |-> "none", inputs |-> None, seen |-> {}, evidence |-> None]

CanaryInit ==
    /\ now = 0 /\ facts \in Facts /\ signers \in Expectations
    /\ plan = None /\ published = {} /\ dispatch = 1
    /\ documents = << >> /\ proofs = << >> /\ slips = 0
    /\ verification = NoCall

----------------------------------------------------------------------------
\* Things are wrong with a plan, a document or what is in force, MaxSlips in all.
Count(faults) == Cardinality({i \in DOMAIN faults : faults[i]})
Tolerable(faults) == slips + Count(faults) <= MaxSlips
Slip(faults) == Tolerable(faults) /\ slips' = slips + Count(faults)

\* A document is signed by `by` in the name of `claim`.  What is known of the signature is
\* the record of its authentication, a later one instead of an earlier one.
Amiss(role, hand) == <<hand.claim # signers[role], hand.by # hand.claim, ~hand.complete>>
Hands(role) ==
    IF slips < MaxSlips THEN [claim : Signers, by : Signers, complete : BOOLEAN]
    ELSE {[claim |-> s, by |-> s, complete |-> TRUE] : s \in {signers[role]} \ {None}}
Sign(records, d, hand) ==
    [x \in DOMAIN records \cup {d} |->
        IF x = d THEN [signer |-> hand.by, complete |-> hand.complete] ELSE records[x]]

Room == Cardinality(DOMAIN documents) + Cardinality(DOMAIN proofs) < MaxDocuments

\* A document for a plan is valid from now until the plan ends, or else for one instant
\* or beyond the plan.
Window(p, expires) == [plan |-> p.nonce, issued |-> now, expires |-> expires]
Expiries(p) == {p.expires, now + 1, p.expires + 1}

\* There is a plan, and it is for what is in force.
Matching == IF plan = None THEN FALSE ELSE plan.facts = facts

Tick ==
    /\ now < MaxTime /\ now' = now + 1
    /\ UNCHANGED <<facts, signers, plan, published, dispatch, documents, proofs, slips>>

ChangeFacts ==
    /\ facts' \in Facts \ {facts}
    /\ Slip(<<Matching>>)
    /\ UNCHANGED <<now, signers, plan, published, dispatch, documents, proofs>>

\* Another signer, or none, is expected in a role.
ChangeSigner(role) ==
    /\ Slip(<<TRUE>>)
    /\ \E s \in (Signers \cup {None}) \ {signers[role]} : signers' = [signers EXCEPT ![role] = s]
    /\ UNCHANGED <<now, facts, plan, published, dispatch, documents, proofs>>

policiesOf(expected) ==
    [role \in Roles |-> IF expected[role] = None THEN None ELSE expected[role].policy]

\* One role may have another policy than the one in force.
PoliciesNear ==
    {[policiesOf(signers) EXCEPT ![role] = policy] :
        role \in Roles, policy \in {s.policy : s \in Signers}}

\* The Coordinator publishes a plan for what is in force, naming a policy for each role.
PublishPlan(n, mode, long, policies) ==
    /\ Slip(<<long, Matching, policies # policiesOf(signers)>>)
    /\ \A p \in published : p.nonce # n
    /\ plan' = [nonce |-> n, mode |-> mode, facts |-> facts, policies |-> policies, issued |-> now,
                expires |-> now + MaxWindow + (IF long THEN 1 ELSE 0)]
    /\ published' = published \cup {plan'}
    /\ UNCHANGED <<now, facts, signers, dispatch, documents, proofs>>

\* The check is dispatched again; an answer to the first dispatch may still come.
Dispatch ==
    /\ dispatch < MaxDispatches /\ dispatch' = dispatch + 1
    /\ Slip(<<TRUE>>)
    /\ UNCHANGED <<now, facts, signers, plan, published, documents, proofs>>

ReportPhase(p, phase, passed, expires, hand) ==
    /\ Slip(<<expires # p.expires, ~passed>> \o Amiss(Actor(phase), hand))
    /\ documents' = Sign(documents, [window |-> Window(p, expires), facts |-> p.facts, kind |-> phase,
                                     passed |-> passed, claim |-> hand.claim], hand)
    /\ UNCHANGED <<now, facts, signers, plan, published, dispatch, proofs>>

\* The consumer's authorization decides a probe of a plan's under what is in force.
Decide(p, capability, class, code, expires, hand) ==
    /\ Slip(<<expires # p.expires, class # Wanted[capability], code # "expected">>
            \o Amiss("authorization_decision", hand))
    /\ proofs' = Sign(proofs, [window |-> Window(p, expires), facts |-> facts, capability |-> capability,
                               class |-> class, code |-> code, claim |-> hand.claim], hand)
    /\ UNCHANGED <<now, facts, signers, plan, published, dispatch, documents>>

\* The capability verifier reports the answers it has to its probes, or none: what it says
\* they are, and the proof it cites, which may be of something else or say something else.
Answers == {"permitted", "policy_denied"}
Codes == {"expected", "other"}
Unwanted(c, citation) ==
    IF citation = None THEN TRUE
    ELSE citation.class # Wanted[c] \/ citation.code # "expected" \/ citation.proof.capability # c
Citations(c, mode) ==
    IF mode # "required" THEN {None}
    ELSE {citation \in {None} \cup [class : Answers, code : Codes, proof : DOMAIN proofs] :
            Tolerable(<<Unwanted(c, citation)>>)}

ReportCapability(p, d, passed, cited, hand) ==
    /\ LET unwanted(c) == p.mode = "required" /\ Unwanted(c, cited[c])
       IN Slip(<<~passed, unwanted("permitted"), unwanted("sentinel")>>
               \o Amiss("consumer_capability_verifier", hand))
    /\ documents' = Sign(documents, [window |-> Window(p, p.expires), facts |-> p.facts,
                                     kind |-> "capability", passed |-> passed, claim |-> hand.claim,
                                     mode |-> p.mode, dispatch |-> d, cited |-> cited], hand)
    /\ UNCHANGED <<now, facts, signers, plan, published, dispatch, proofs>>

----------------------------------------------------------------------------
activeWindow(w, at) ==
    w.expires > w.issued /\ w.expires - w.issued <= MaxWindow /\ at >= w.issued /\ at < w.expires

inputs == verification.inputs

\* A signer is expected in every role, under the policy the plan names for it.
validatePlanSignerPolicies(p, expected) ==
    \A role \in Roles : expected[role] # None /\ expected[role].policy = p.policies[role]

\* Every binding of a plan follows from its nonce, except the facts.
bindEvidence(p, e) == e.window.plan = p.nonce /\ e.facts = p.facts

\* The document claims the expected signer, under the policy the plan names.
verifyEvidenceSigner(p, e, expected) ==
    /\ e.claim = expected[Actor(e.kind)]
    /\ e.claim.policy = p.policies[Actor(e.kind)]

\* Mutant: that the claim is right is not compared with who signed.
verifyAuthenticatedClaim(records, d, expected) ==
    /\ d \in DOMAIN records
    /\ records[d].complete
    /\ d.claim = expected

\* Whoever signed is who was expected and whom the document claims.
verifyAuthenticatedRecord(records, d, expected) ==
    /\ d \in DOMAIN records
    /\ records[d].complete
    /\ records[d].signer = expected /\ records[d].signer = d.claim

goTo(step) == verification' = [verification EXCEPT !.step = step]

\* VerifyPromotion is called with three documents and with what is current: the plan, the
\* facts, the dispatch, the time, who is expected to sign, and the records of who did.
VerifyPromotion ==
    /\ verification.step = "none" /\ plan # None /\ Cardinality(DOMAIN documents) >= 3
    /\ plan.facts = facts
    /\ activeWindow(plan, now)
    /\ validatePlanSignerPolicies(plan, signers)
    /\ verification' = [step |-> "evidence", seen |-> {}, evidence |-> None,
                        inputs |-> [plan |-> plan, facts |-> facts, dispatch |-> dispatch, now |-> now,
                                    signers |-> signers, documents |-> documents, proofs |-> proofs]]
    /\ UNCHANGED world

\* What is presented may also differ from what was signed.
Presented ==
    LET signed == DOMAIN inputs.documents
    IN signed \cup {[d EXCEPT !.passed = TRUE] : d \in signed}
              \cup {[d EXCEPT !.claim = inputs.signers[Actor(d.kind)]] : d \in signed}

evidenceAccepted(e) ==
    /\ verification.step = "evidence"
    /\ e.kind \notin verification.seen
    /\ bindEvidence(inputs.plan, e)
    /\ verifyEvidenceSigner(inputs.plan, e, inputs.signers)
    /\ activeWindow(e.window, inputs.now)
    /\ e.window.issued >= inputs.plan.issued /\ e.window.expires <= inputs.plan.expires
    /\ verifyAuthenticatedRecord(inputs.documents, e, inputs.signers[Actor(e.kind)])
verifyHostResults(e) ==
    /\ e.kind \in Phases
    /\ evidenceAccepted(e) /\ e.passed
    /\ verification' = [verification EXCEPT !.seen = @ \cup {e.kind}]
    /\ UNCHANGED world

verifyCapabilityResults(e) ==
    /\ e.kind = "capability"
    /\ evidenceAccepted(e) /\ e.passed
    /\ e.dispatch = inputs.dispatch /\ e.mode = inputs.plan.mode
    /\ e.mode = "certified_not_applicable" => inputs.plan.nonce \in Certified
    /\ verification' = [verification EXCEPT !.seen = @ \cup {e.kind}, !.evidence = e,
                            !.step = IF e.mode = "required" THEN "permitted" ELSE "evidence"]
    /\ UNCHANGED world

\* One proof is resolved by the digest the evidence gives; another one, or none, is refused.
\* The decision in it is the one the evidence claims.
verifyDecision(capability, next) ==
    LET claimed == verification.evidence.cited[capability]
        proof == claimed.proof
        signer == inputs.signers["authorization_decision"]
    IN /\ verification.step = capability
       /\ claimed # None
       /\ claimed.class = Wanted[capability]
       /\ capability = "sentinel" => claimed.code = "expected"
       /\ verifyAuthenticatedRecord(inputs.proofs, proof, signer)
       /\ proof.window.plan = inputs.plan.nonce /\ proof.facts = inputs.plan.facts
       /\ proof.capability = capability
       /\ proof.claim = signer
       /\ proof.claim.policy = inputs.plan.policies["authorization_decision"]
       /\ activeWindow(proof.window, inputs.now)
       /\ proof.window.issued >= inputs.plan.issued
       /\ proof.window.expires <= verification.evidence.window.expires
       /\ proof.class = claimed.class /\ proof.code = claimed.code
       /\ goTo(next)
       /\ UNCHANGED world

Accept ==
    /\ verification.step = "evidence" /\ verification.seen = EvidenceKinds
    /\ goTo("verified")
    /\ UNCHANGED world

Refuse ==
    /\ verification.step \notin {"none", "verified", "refused"}
    /\ verification' = [NoCall EXCEPT !.step = "refused"]
    /\ UNCHANGED world

\* The actors report on a plan, the one in force or an earlier one.
Report(p) ==
    \/ \E phase \in Phases, hand \in Hands("host_reconciler"), passed \in BOOLEAN, expires \in Expiries(p) :
          ReportPhase(p, phase, passed, expires, hand)
    \/ \E c \in DOMAIN Wanted, hand \in Hands("authorization_decision"), class \in Answers,
          code \in Codes, expires \in Expiries(p) :
          Decide(p, c, class, code, expires, hand)
    \/ \E hand \in Hands("consumer_capability_verifier"), passed \in BOOLEAN, d \in 1..dispatch,
          x \in Citations("permitted", p.mode), y \in Citations("sentinel", p.mode) :
          ReportCapability(p, d, passed, [permitted |-> x, sentinel |-> y], hand)

\* What happens after the call is invisible to it, which has only its inputs.
Actors ==
    /\ verification.step = "none"
    /\ \/ Tick \/ ChangeFacts \/ Dispatch
       \/ \E role \in Roles : ChangeSigner(role)
       \/ \E n \in Plans, m \in {"required", "certified_not_applicable"}, long \in BOOLEAN,
             policies \in PoliciesNear :
             PublishPlan(n, m, long, policies)
       \/ Room /\ \E p \in published : Report(p)
    /\ UNCHANGED verification

CanaryNext ==
    \/ Actors \/ VerifyPromotion
    \/ \E e \in IF verification.step = "evidence" THEN Presented ELSE {} :
          verifyHostResults(e) \/ verifyCapabilityResults(e)
    \/ verifyDecision("permitted", "sentinel") \/ verifyDecision("sentinel", "evidence")
    \/ Accept \/ Refuse

CanarySpec == CanaryInit /\ [][CanaryNext]_canaryVars

----------------------------------------------------------------------------
\* "The Coordinator promotes only when both fresh evidence sets match the current
\* candidate, desired revision, authority digests, nonce, target, slot, and policy"
\* (docs/architecture/consumer-integration-contract.md:225-226): when a verification passes,
\* then since its plan was published and within the validity window of when it was called,
\* for this plan and under the facts it was called with, the host found both phases passed
\* and the consumer, asked by this dispatch, allowed the one probe and denied the other by
\* policy - whatever was reported for other plans, dispatches and facts, late, edited or
\* misquoted.  Each of these was signed by the very signer expected in that role, under the
\* policy the plan names for it, whoever else signed the same thing in its name.  Only a
\* certified plan goes without the probes.
Happened(w) ==
    /\ w.plan = inputs.plan.nonce
    /\ w.issued \in inputs.plan.issued..inputs.now
    /\ inputs.now < w.expires /\ inputs.now - w.issued < MaxWindow
SignedAs(role, record) ==
    /\ record.complete /\ record.signer = inputs.signers[role]
    /\ record.signer.policy = inputs.plan.policies[role]
PromotionIsProven ==
    verification.step = "verified" =>
        /\ \A phase \in Phases : \E d \in DOMAIN documents :
              /\ d.kind = phase /\ d.passed /\ Happened(d.window)
              /\ SignedAs("host_reconciler", documents[d])
        /\ \E d \in DOMAIN documents :
              /\ d.kind = "capability" /\ d.passed /\ d.dispatch = inputs.dispatch /\ Happened(d.window)
              /\ SignedAs("consumer_capability_verifier", documents[d])
        /\ \/ inputs.plan.nonce \in Certified /\ inputs.plan.mode = "certified_not_applicable"
           \/ \A c \in DOMAIN Wanted : \E d \in DOMAIN proofs :
                 /\ d.capability = c /\ d.class = Wanted[c] /\ (c = "sentinel" => d.code = "expected")
                 /\ d.facts = inputs.facts /\ Happened(d.window)
                 /\ SignedAs("authorization_decision", proofs[d])
=============================================================================
