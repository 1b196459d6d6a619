----------------------------- MODULE StatusHead -----------------------------
(***************************************************************************)
(* One subject's release status: an authority that logs statuses and       *)
(* answers requests for its current head                                   *)
(* (scripts/contracts/status_head_authority.py), and a consumer that       *)
(* validates an answer against the last head it accepted                   *)
(* (validate_status_head_binding in test_renderer_digests.py).  The log    *)
(* itself, its restoration from a backup that misses the latest statuses,  *)
(* the network, and the consumer's persisted state are outside src/.       *)
(*                                                                         *)
(* Statuses take effect when they are logged.  Descriptors, signatures and *)
(* trust policies are valid.  A checkpoint's sequence is its treeSize: the *)
(* authority and the consumer both check it, and one field stands for both. *)
(***************************************************************************)
EXTENDS StatusMerkle, FiniteSets, SequencesExt

CONSTANTS
    Current,       \* the status "current"
    Operations,    \* the consumer's operations, each with a nonce of its own
    None,          \* no prior state; no proof
    Freshness,     \* expiresAt - verifiedAt
    MaxSize,       \* bound: statuses in the log
    MaxEpoch,      \* bound: the authority's epochs
    MaxTime        \* bound: the clock

ASSUME StatusAssumption == Current \in Statuses
ASSUME BoundAssumption ==
    /\ Freshness \in Nat \ {0} /\ MaxSize \in Nat /\ MaxEpoch \in Nat
    /\ MaxTime \in Nat

VARIABLES
    log,        \* the authority's log
    now,        \* the clock
    priors,     \* per operation sent, the prior state it sent with its nonce
    answers,    \* the network: a checkpoint per operation, delivered late, often or never
    done,       \* the operations that accepted a checkpoint
    accepted,   \* the consumer's persisted state: the last head it accepted
    views       \* ghost: the logs behind the heads accepted, in order

authorityVars == <<log, now>>
consumerVars == <<priors, done, accepted, views>>
vars == <<log, now, priors, answers, done, accepted, views>>

----------------------------------------------------------------------------
(***************************************************************************)
(* A log is a sequence of statuses with the epoch each was logged in,      *)
(* which never goes back; the i-th status has sequence i.                  *)
(***************************************************************************)
Entry == [epoch : 1..MaxEpoch, status : Statuses]
Logs == {l \in UNION {[1..n -> Entry] : n \in 0..MaxSize} :
            \A i, j \in 1..Len(l) : i <= j => l[i].epoch <= l[j].epoch}

\* The status object that a descriptor names.
status(l, i) == [sequence |-> i, status |-> l[i].status]

log_leaves(l) ==
    [i \in 1..Len(l) |-> status_leaf_digest(i, l[i].epoch, status(l, i))]
logRootDigest(l) == merkle_root[log_leaves(l)]
headLeafDigest(l) == log_leaves(l)[Len(l)]

----------------------------------------------------------------------------
Init ==
    /\ log = << >> /\ now = 0
    /\ priors = [q \in {} |-> None] /\ answers = {} /\ done = {}
    /\ accepted = None /\ views = << >>

\* A status is logged, in this epoch or a later one.
LogStatus ==
    /\ Len(log) < MaxSize
    /\ \E e \in Entry :
          /\ log # << >> => log[Len(log)].epoch <= e.epoch
          /\ log' = Append(log, e)
    /\ UNCHANGED <<now, answers, consumerVars>>

\* The log is restored from a backup without its latest statuses, and forks from there.
Restore ==
    /\ \E n \in 0..(Len(log) - 1) : log' = SubSeq(log, 1, n)
    /\ UNCHANGED <<now, answers, consumerVars>>

Tick ==
    /\ now < MaxTime
    /\ now' = now + 1
    /\ UNCHANGED <<log, answers, consumerVars>>

\* An operation sends its nonce and what the consumer accepted last.
Request(q) ==
    /\ q \notin DOMAIN priors
    /\ priors' = [x \in DOMAIN priors \cup {q} |-> IF x = q THEN accepted ELSE priors[x]]
    /\ UNCHANGED <<authorityVars, answers, done, accepted, views>>

----------------------------------------------------------------------------
(***************************************************************************)
(* The authority: StatusHeadAuthorityBuilder.refresh.                      *)
(***************************************************************************)
endpoint(x) == [treeSize |-> x.treeSize, epoch |-> x.epoch, head |-> x.head,
                logRootDigest |-> x.logRootDigest]

unchanged(c, prior) ==
    endpoint(c) = endpoint(prior) /\ c.headLeafDigest = prior.headLeafDigest

advances(c, prior) == c.treeSize > prior.treeSize /\ c.epoch >= prior.epoch

\* The checkpoint for the log l, without its proof of consistency.
headOf(q, l) ==
    [requestNonce |-> q, treeSize |-> Len(l), epoch |-> l[Len(l)].epoch,
     head |-> status(l, Len(l)), headLeafDigest |-> headLeafDigest(l),
     logRootDigest |-> logRootDigest(l),
     headInclusionProof |-> inclusion_proof[log_leaves(l)][Len(l) - 1]]

\* Mutant: the log itself is proved, from its first status on.
consistencyProofFromStart(c, l, prior) ==
    IF prior = None \/ unchanged(c, prior) THEN None
    ELSE [from |-> endpoint(prior), to |-> endpoint(c),
          auditPath |-> consistency_proof(log_leaves(l), 1)]

consistencyProof(c, l, prior) ==
    IF prior = None \/ unchanged(c, prior) THEN None
    ELSE [from |-> endpoint(prior), to |-> endpoint(c),
          auditPath |-> consistency_proof(log_leaves(l), prior.treeSize)]

ASSUME NoneAssumption ==
    \A q, r \in Operations, l, m \in Logs \ {<< >>} :
        LET c == headOf(q, l)
            prior == headOf(r, m)
        IN c # None /\ (Len(m) < Len(l) => consistencyProof(c, l, prior) # None)

\* With two ghosts that the consumer does not read: the log, and who had asked by then.
checkpoint(q, l, prior, time, asked) ==
    [base |-> headOf(q, l), clientPriorState |-> prior, verifiedAt |-> time,
     consistencyProof |-> consistencyProof(headOf(q, l), l, prior),
     log |-> l, asked |-> asked]

\* The authority refuses a consumer that is ahead of it, or on another log of its size.
canRefresh(q, l, prior) ==
    /\ l # << >>
    /\ prior # None =>
          unchanged(headOf(q, l), prior) \/ advances(headOf(q, l), prior)

\* A request arrives, for the first time or again; an earlier answer to it is lost.
Refresh(q) ==
    /\ q \in DOMAIN priors \ done
    /\ canRefresh(q, log, priors[q])
    /\ answers' = {c \in answers : c.base.requestNonce # q}
                     \cup {checkpoint(q, log, priors[q], now, DOMAIN priors)}
    /\ UNCHANGED <<authorityVars, consumerVars>>

----------------------------------------------------------------------------
(***************************************************************************)
(* The consumer: validate_status_head_binding, with the state it persists  *)
(* as expected_client_prior_state.                                         *)
(***************************************************************************)
\* Mutant: the nonce is not compared.
validate_status_head_use_any(c, q) ==
    c.verifiedAt <= now /\ now < c.verifiedAt + Freshness

validate_status_head_use(c, q) ==
    /\ c.base.requestNonce = q
    /\ c.verifiedAt <= now /\ now < c.verifiedAt + Freshness

validate_status_head_inclusion(h) ==
    /\ h.headLeafDigest = status_leaf_digest(h.treeSize, h.epoch, h.head)
    /\ verify_inclusion(h.headLeafDigest, h.treeSize - 1, h.treeSize,
                        h.headInclusionProof, h.logRootDigest)

\* Mutant: a longer log is taken for a continuation, without its proof.
validate_status_consistency_proof_unread(proof, c, prior) ==
    proof # None /\ proof.from = endpoint(prior) /\ proof.to = endpoint(c)

validate_status_consistency_proof(proof, c, prior) ==
    /\ proof # None
    /\ proof.from = endpoint(prior) /\ proof.to = endpoint(c)
    /\ verify_consistency(prior.treeSize, c.treeSize, prior.logRootDigest,
                          c.logRootDigest, proof.auditPath)

validate_status_head_high_water(proof, c, prior) ==
    IF c.treeSize = prior.treeSize
    THEN proof = None /\ unchanged(c, prior)
    ELSE /\ advances(c, prior)
         /\ validate_status_consistency_proof(proof, c, prior)

\* Everything but the proofs: the answer to this operation, in time, for what the
\* consumer knows, and a status that is current.
usable(c, q) ==
    /\ validate_status_head_use(c, q)
    /\ c.clientPriorState = accepted
    /\ c.base.head.status = Current

proofsValid(c) ==
    LET prior == c.clientPriorState
    IN /\ c.base.head.sequence = c.base.treeSize
       /\ validate_status_head_inclusion(c.base)
       /\ IF prior = None THEN c.consistencyProof = None
          ELSE /\ validate_status_head_inclusion(prior)
               /\ validate_status_head_high_water(c.consistencyProof, c.base, prior)

\* The checkpoint passes for operation q, which persists it as the next prior state.
Accept(q) ==
    /\ q \in DOMAIN priors \ done
    /\ \E c \in answers :
          /\ usable(c, q) /\ proofsValid(c)
          /\ accepted' = c.base
          /\ views' = Append(views, c.log)
    /\ done' = done \cup {q}
    /\ UNCHANGED <<authorityVars, priors, answers>>

Next ==
    \/ LogStatus \/ Restore \/ Tick
    \/ \E q \in Operations : Request(q) \/ Refresh(q) \/ Accept(q)

Spec == Init /\ [][Next]_vars

----------------------------------------------------------------------------
\* The shape of the state; what the consumer holds and what is in the network are
\* checkpoints of logs an authority could have had.
TypeOK ==
    /\ log \in Logs /\ now \in 0..MaxTime
    /\ DOMAIN priors \subseteq Operations /\ done \subseteq DOMAIN priors
    /\ views \in Seq(Logs \ {<< >>})
    /\ IF views = << >> THEN accepted = None
       ELSE \E q \in done : accepted = headOf(q, Last(views))
    /\ \A x \in DOMAIN priors :
          priors[x] = None
              \/ \E q \in done, i \in 1..Len(views) : priors[x] = headOf(q, views[i])
    /\ \A c \in answers :
          /\ c.base.requestNonce \in c.asked
          /\ c.asked \subseteq DOMAIN priors
          /\ c.log \in Logs \ {<< >>}
          /\ c = checkpoint(c.base.requestNonce, c.log, priors[c.base.requestNonce],
                            c.verifiedAt, c.asked)
          /\ c.verifiedAt \in 0..now

\* The heads a consumer accepts are heads of one growing log (release-qualification-v1.md,
\* "Fresh authenticated status heads"), whatever the authority restored and logged anew in
\* between, and in whatever order the answers arrive: it never goes back, and never
\* changes over to a fork.
ViewOnlyGrows ==
    \A i, j \in 1..Len(views) : i <= j => IsPrefix(views[i], views[j])

\* The alarm is right: of two logs, the authority answers for every continuation of the
\* consumer's, and the proofs of an answer fail exactly when it is for another log.
OnlyForksAreRefused ==
    LET continues(l) == accepted = None \/ IsPrefix(Last(views), l)
    IN /\ \A q \in DOMAIN priors : priors[q] = accepted /\ log # << >> /\ continues(log)
              => canRefresh(q, log, accepted)
       /\ \A c \in answers : c.clientPriorState = accepted
              => (proofsValid(c) <=> continues(c.log))

usesFreshly ==
    \A q \in done' \ done : \E c \in answers :
        accepted' = c.base /\ q \in c.asked /\ now - c.verifiedAt < Freshness

\* A head accepted for an operation was read from the log after the operation asked for
\* it, and less than Freshness ago: a status withdrawn before then is never used, however
\* late or often an answer is delivered, and whatever other operations were answered.
FreshAtUse ==
    [][usesFreshly]_vars
=============================================================================
