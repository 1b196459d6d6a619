------------------------- MODULE BundleVerification -------------------------
(***************************************************************************)
(* Verifications of a contract bundle against its signed release:          *)
(* scripts/contracts/verify_bundle.py, run while the release is prepared   *)
(* again (scripts/contracts/create_signing_request.py and                  *)
(* create_test_release_evidence.py) in the files it reads one at a time.   *)
(*                                                                         *)
(* An archive is its manifest and whether its members are those the        *)
(* manifest lists.  What a verifier is told independently is its mode, the *)
(* request id and nonce it expects, its replay ledger and the trust        *)
(* policy; times, repository, signer and builder are the expected ones.    *)
(* Appending to a ledger is one step here, and coming back from it         *)
(* another; ReplayLedger has the steps the append is made of.              *)
(***************************************************************************)
EXTENDS ReleaseEvidence, Integers

CONSTANTS
    Verifiers,    \* verifications, one each
    Keys,         \* the request ids with their nonces that are used
    Ledgers,      \* files used as replay ledgers
    Archives,     \* archives that are staged
    Evaluations,  \* evaluations that are published
    Revoked,      \* manifests the trust policy revokes
    MaxChanges    \* bound: changes to the release after the first

Modes == {"test", "external", "unsigned"}

\* Who signs: the signer the policy names, by Sigstore, or anyone with a key of
\* the moment, in a test envelope that holds the key.
Signatories == {"signer", "ephemeral"}

ASSUME NoneAssumption == None \notin Verifiers /\ None \notin Evaluations /\ None \notin Modes

VARIABLES
    archive,    \* the bundle file
    tree,       \* the evaluation whose files are in the evidence directory, or None
    request,    \* the signing request file
    signature,  \* the signature file: the request it is over, and whose it is
    signed,     \* the signatures that were made
    changes,    \* changes to the release so far
    step,       \* per verifier: what it does next
    call,       \* per verifier: its mode, its key and what it has read
    ledger,     \* per replay ledger: the entries in the file
    recorded,   \* the entries that were appended, and by whom
    input,      \* the verifier that wrote the verification input, or None
    output      \* the verifier that wrote the Cosign output, or None

release == <<archive, tree, request, signature, signed, changes>>
ledgers == <<ledger, recorded>>
vars == <<release, step, call, ledgers, input, output>>

create_signing_request(a, e, k) ==
    [digest |-> a.manifest, certification |-> attestation(e), key |-> k]

begun(mode, key, a) ==
    [mode |-> mode, key |-> key, archive |-> a, certification |-> None, request |-> None,
     attestation |-> None, docs |-> << >>]

\* The request of a release, its archive and its evidence may each be about to
\* be replaced, or replaced already; and no verification yet.
Init ==
    /\ archive \in Archives
    /\ tree \in Evaluations \cup {None}
    /\ \E e \in Evaluations, k \in Keys : request = create_signing_request(e.archive, e, k)
    /\ \E by \in Signatories : signature = [over |-> request, by |-> by]
    /\ signed = {signature}
    /\ changes = 0
    /\ step = [v \in Verifiers |-> "start"]
    /\ call = [v \in Verifiers |-> begun(None, None, None)]
    /\ ledger = [l \in Ledgers |-> {}] /\ recorded = {}
    /\ input = None /\ output = None

Change == changes < MaxChanges /\ changes' = changes + 1 /\ UNCHANGED <<step, call, ledgers, input, output>>

Stage(a) == Change /\ archive' = a /\ UNCHANGED <<tree, request, signature, signed>>

\* A tree is built aside and moved into place after the old one is removed.
RemoveTree ==
    /\ Change /\ tree # None
    /\ tree' = None
    /\ UNCHANGED <<archive, request, signature, signed>>

PublishTree(e) ==
    /\ Change /\ tree = None
    /\ tree' = e
    /\ UNCHANGED <<archive, request, signature, signed>>

\* The manifest and the certification are given as two files.
CreateRequest(k) ==
    /\ Change /\ tree # None
    /\ request' = create_signing_request(archive, tree, k)
    /\ UNCHANGED <<archive, tree, signature, signed>>

Sign(by) ==
    /\ Change
    /\ signature' = [over |-> request, by |-> by]
    /\ signed' = signed \cup {signature'}
    /\ UNCHANGED <<archive, tree, request>>

\* The ledger is moved away, and its path is free for a new one.
Rotate(l) ==
    /\ ledger[l] # {}
    /\ ledger' = [ledger EXCEPT ![l] = {}]
    /\ UNCHANGED <<release, step, call, recorded, input, output>>

from(v, this, next) ==
    /\ step[v] = this
    /\ step' = [step EXCEPT ![v] = next]
    /\ UNCHANGED release

\* The archive is read once, and everything about it is taken from that copy.
\* An unsigned verification expects no key.
ReadArchive(v, mode, key) ==
    /\ from(v, "start", IF mode = "unsigned" THEN "interpret" ELSE "certify")
    /\ call' = [call EXCEPT ![v] = begun(mode, IF mode = "unsigned" THEN None ELSE key, archive)]
    /\ UNCHANGED <<ledgers, input, output>>

ReadCertification(v) ==
    /\ from(v, "certify", "request")
    /\ tree # None
    /\ call' = [call EXCEPT ![v].certification = attestation(tree)]
    /\ UNCHANGED <<ledgers, input, output>>

validate_signing_request_bindings(v, r) ==
    /\ r.digest = call[v].archive.manifest
    /\ r.certification = call[v].certification
    /\ r.key = call[v].key

LoadRequest(v) ==
    /\ from(v, "request", "attestation")
    /\ validate_signing_request_bindings(v, request)
    /\ call' = [call EXCEPT ![v].request = request]
    /\ UNCHANGED <<ledgers, input, output>>

\* The attestation is read a second time, after the directory was found closed.
ReadAttestation(v) ==
    /\ from(v, "attestation", "documents")
    /\ tree # None /\ attestation(tree).subject = call[v].archive
    /\ call' = [call EXCEPT ![v].attestation = attestation(tree)]
    /\ UNCHANGED <<ledgers, input, output>>

ReadDocument(v) == \E id \in required :
    /\ from(v, "documents", "documents")
    /\ DOMAIN call[v].docs # required
    /\ id = EvidenceIds[Cardinality(DOMAIN call[v].docs) + 1]
    /\ tree # None /\ document(tree, id) = call[v].attestation.checks[id]
    /\ call' = [call EXCEPT ![v].docs = [d \in DOMAIN @ \cup {id} |->
                                            IF d = id THEN document(tree, id) ELSE @[d]]]
    /\ UNCHANGED <<ledgers, input, output>>

preflight_trust_policy(v) ==
    /\ call[v].request.certification = call[v].attestation
    /\ call[v].request.digest \notin Revoked

\* The source reports are read last; then everything read so far is compared.
ReadSources(v) ==
    /\ from(v, "documents", "signature")
    /\ tree # None
    /\ validate_release_evidence(call[v].docs, call[v].archive, call[v].attestation.at, tree.source)
    /\ preflight_trust_policy(v)
    /\ UNCHANGED <<call, ledgers, input, output>>

\* A test envelope is verified with the key it holds, whoever's that is.
verify_ephemeral_signature(r, s) == s.by = "ephemeral" /\ s.over = r

verify_sigstore_signature(r, s) == s.by = "signer" /\ s.over = r

\* Mutant: the request file is read again.
verify_signature_of_file(v) ==
    IF call[v].mode = "external" THEN verify_sigstore_signature(request, signature)
                                 ELSE verify_ephemeral_signature(request, signature)

verify_signature(v) ==
    IF call[v].mode = "external" THEN verify_sigstore_signature(call[v].request, signature)
                                 ELSE verify_ephemeral_signature(call[v].request, signature)

CheckSignature(v) ==
    /\ from(v, "signature", "interpret")
    /\ verify_signature(v)
    /\ call[v].mode = "external" => input = None /\ output = None
    /\ UNCHANGED <<call, ledgers, input, output>>

\* Mutant: the outputs come first, and a replay is found out when they are there.
following_outputs_first(mode) ==
    [interpret |-> CASE mode = "unsigned" -> "passed" [] mode = "test" -> "consume" [] OTHER -> "input",
     input |-> "output", output |-> "consume", consume |-> "recorded", recorded |-> "passed"]

\* The order of what a verification does to anything others see.
following(mode) ==
    [interpret |-> IF mode = "unsigned" THEN "passed" ELSE "consume",
     consume |-> "recorded", recorded |-> IF mode = "external" THEN "input" ELSE "passed",
     input |-> "output", output |-> "passed"]

then(v, this) == from(v, this, following(call[v].mode)[this])

\* Only now are the bundle's own schemas used, and its members compared with
\* its manifest.  Then the request and the policy are validated in full.
verify_inventory(v) == call[v].archive.intact

Interpret(v) ==
    /\ then(v, "interpret")
    /\ verify_inventory(v)
    /\ call[v].mode # "unsigned" =>
        validate_signing_request_bindings(v, call[v].request) /\ preflight_trust_policy(v)
    /\ UNCHANGED <<call, ledgers, input, output>>

replay_ledger_entry(v) == [key |-> call[v].key, request |-> call[v].request]

repeated(e, previous) ==
    \/ e.key.id = previous.key.id
    \/ e.key.nonce = previous.key.nonce
    \/ e.request = previous.request

consume_replay_ledger(v, l) ==
    /\ \A previous \in ledger[l] : ~ repeated(replay_ledger_entry(v), previous)
    /\ ledger' = [ledger EXCEPT ![l] = @ \cup {replay_ledger_entry(v)}]
    /\ recorded' = recorded \cup {[by |-> v, entry |-> replay_ledger_entry(v)]}

\* The line is in the file; what comes after it may still fail.
Consume(v, l) ==
    /\ then(v, "consume")
    /\ consume_replay_ledger(v, l)
    /\ UNCHANGED <<call, input, output>>

Consumed(v) == then(v, "recorded") /\ UNCHANGED <<call, ledgers, input, output>>

\* Mutant: the output is replaced.
WriteInputOver(v) ==
    /\ then(v, "input")
    /\ input' = v
    /\ UNCHANGED <<call, ledgers, output>>

\* Both outputs are created only where nothing is.
WriteInput(v) ==
    /\ then(v, "input")
    /\ input = None /\ input' = v
    /\ UNCHANGED <<call, ledgers, output>>

WriteOutput(v) ==
    /\ then(v, "output")
    /\ output = None /\ output' = v
    /\ UNCHANGED <<call, ledgers, input>>

\* A file that is missing or is not what it must be, or an input or output
\* error: what was read is forgotten.
Refuse(v) ==
    /\ step[v] \notin {"passed", "refused"}
    /\ from(v, step[v], "refused")
    /\ call' = [call EXCEPT ![v] = begun(None, None, None)]
    /\ UNCHANGED <<ledgers, input, output>>

Verify(v) ==
    \/ (\E mode \in Modes, key \in Keys : ReadArchive(v, mode, key))
    \/ ReadCertification(v) \/ LoadRequest(v)
    \/ ReadAttestation(v) \/ ReadDocument(v) \/ ReadSources(v)
    \/ CheckSignature(v) \/ Interpret(v)
    \/ (\E l \in Ledgers : Consume(v, l)) \/ Consumed(v)
    \/ WriteInput(v) \/ WriteOutput(v) \/ Refuse(v)

Next ==
    \/ \E a \in Archives : Stage(a)
    \/ RemoveTree
    \/ \E e \in Evaluations : PublishTree(e)
    \/ \E k \in Keys : CreateRequest(k)
    \/ \E by \in Signatories : Sign(by)
    \/ \E l \in Ledgers : Rotate(l)
    \/ \E v \in Verifiers : Verify(v)

Spec == Init /\ [][Next]_vars

authenticated(v) ==
    /\ call[v].mode # "unsigned"
    /\ step[v] \in {"interpret", "consume", "recorded", "input", "output", "passed"}

(***************************************************************************)
(* From the moment a verification uses anything the bundle says, a request *)
(* has been signed with the id and nonce this verifier expects, for this   *)
(* manifest, which the policy does not revoke, and for the certification   *)
(* it read - however the files changed between its reads; and when it      *)
(* passes, the members it has are the manifest's.  An external             *)
(* verification has the signer's own signature.  A test one has no more    *)
(* than somebody's.                                                        *)
(***************************************************************************)
VouchedIsSigned ==
    \A v \in Verifiers :
        /\ authenticated(v) =>
            \E s \in signed :
                /\ s.by = IF call[v].mode = "external" THEN "signer" ELSE "ephemeral"
                /\ s.over.key = call[v].key
                /\ s.over.digest = call[v].archive.manifest /\ s.over.digest \notin Revoked
                /\ s.over.certification = call[v].attestation
        /\ step[v] = "passed" => call[v].archive.intact

(***************************************************************************)
(* The evidence a verification passes with is one evaluation of its        *)
(* archive: the signed certification lists every document, each is about   *)
(* that archive, and the scans and the license report are of the bill of   *)
(* materials beside them.                                                  *)
(***************************************************************************)
EvidenceIsOfTheBundle ==
    \A v \in Verifiers : authenticated(v) =>
        /\ call[v].attestation.subject = call[v].archive
        /\ call[v].docs = call[v].attestation.checks
        /\ \A id \in required :
            /\ call[v].docs[id].subject = call[v].archive
            /\ id \in OfTheSbom => call[v].docs["sbom"] \in call[v].docs[id].cites

(***************************************************************************)
(* Whatever an external verification leaves behind, it has paid for: where *)
(* an output of a verification is found, whether it passed, goes on or     *)
(* failed in between, its entry was appended to its ledger and is of a     *)
(* request the signer signed.  A verification that is refused as a replay  *)
(* has left no output.  And what a failure between the two leaves is the   *)
(* verification input alone: a Cosign output is never found without the    *)
(* input of its own verification.                                          *)
(***************************************************************************)
OutputsAreSpent ==
    /\ \A v \in {input, output} \ {None} :
        \E e \in recorded : e.by = v /\ [over |-> e.entry.request, by |-> "signer"] \in signed
    /\ output # None => input = output

(***************************************************************************)
(* The two outputs an external verification leaves are both its own.       *)
(***************************************************************************)
OutputsAreOneVerification ==
    \A v \in Verifiers :
        step[v] = "passed" /\ call[v].mode = "external" => input = v /\ output = v
=============================================================================
