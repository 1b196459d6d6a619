----------------------- MODULE BundleVerification_proofs -----------------------
(***************************************************************************)
(* Proofs about BundleVerification, for every set of verifiers, keys,      *)
(* ledgers, archives and evaluations and any number of changes to the      *)
(* release.                                                                *)
(*                                                                         *)
(* IInv says what a verifier knows at each of its steps, about its own     *)
(* copies only: nothing it says mentions the files, so that a change to    *)
(* them disturbs only that a signature file is over a signed request.      *)
(***************************************************************************)
EXTENDS BundleVerification, TLAPS

Steps == {"start", "certify", "request", "attestation", "documents", "signature", "interpret",
          "consume", "recorded", "input", "output", "passed", "refused"}
Attested == {"documents", "signature", "interpret", "consume", "recorded", "input", "output", "passed"}
Compared == Attested \ {"documents"}
Authentic == Compared \ {"signature"}
Taken == {"recorded", "input", "output", "passed"}

\* The record has the fields of a call and no other.
Record(c) ==
    \E mode, key, subject, certification, asked, attested, docs :
        c = [mode |-> mode, key |-> key, archive |-> subject, certification |-> certification,
             request |-> asked, attestation |-> attested, docs |-> docs]

\* The documents read are the ones the attestation lists.
DocsListed(c) ==
    /\ c.docs = [id \in DOMAIN c.docs |-> c.docs[id]]
    /\ \A id \in DOMAIN c.docs : id \in required /\ c.docs[id] = c.attestation.checks[id]

Bound(c) ==
    /\ c.request.digest = c.archive.manifest
    /\ c.request.certification = c.certification
    /\ c.request.key = c.key

OfTheArchive(c) ==
    /\ c.attestation.subject = c.archive
    /\ c.attestation.checks = [id \in required |-> c.attestation.checks[id]]
    /\ DocsListed(c)

Judged(c) ==
    /\ c.request.certification = c.attestation
    /\ c.request.digest \notin Revoked
    /\ \E at, source : validate_release_evidence(c.docs, c.archive, at, source)

\* What a verifier at a step knows.
Known(s, c) ==
    /\ s \in {"certify", "request", "attestation", "documents", "signature"} => c.mode # "unsigned"
    /\ s \in {"start", "certify", "request", "attestation"} => c.docs = << >>
    /\ s \in {"attestation"} \cup Attested /\ c.mode # "unsigned" => Bound(c)
    /\ s \in Attested /\ c.mode # "unsigned" => OfTheArchive(c)
    /\ s \in Compared /\ c.mode # "unsigned" => Judged(c)
    /\ s \in {"consume", "recorded", "input", "output", "passed"} => c.archive.intact
    /\ s \in {"consume", "recorded"} => c.mode # "unsigned"
    /\ s \in {"input", "output"} => c.mode = "external"

\* A signature of a mode's kind over a request.
vouch(mode, r) == [over |-> r, by |-> IF mode = "external" THEN "signer" ELSE "ephemeral"]

\* Someone's entry for a request was appended to a ledger.
Spent(v, r) == \E e \in recorded : e.by = v /\ e.entry.request = r

\* What the shared state holds for a verifier.
Held(v) ==
    /\ step[v] \in Authentic /\ call[v].mode # "unsigned" =>
            vouch(call[v].mode, call[v].request) \in signed
    /\ step[v] \in Taken /\ call[v].mode # "unsigned" => Spent(v, call[v].request)
    /\ step[v] \in {"output", "passed"} /\ call[v].mode = "external" => input = v
    /\ step[v] = "passed" /\ call[v].mode = "external" => output = v

Shape ==
    /\ step \in [Verifiers -> Steps]
    /\ call = [v \in Verifiers |-> call[v]]
    /\ \A v \in Verifiers : Record(call[v])
    /\ signature = [over |-> signature.over, by |-> signature.by]

IInv ==
    /\ Shape
    /\ signature \in signed
    /\ \A v \in Verifiers : Known(step[v], call[v])
    /\ \A v \in Verifiers : Held(v)
    /\ OutputsAreSpent

THEOREM Initially == Init => IInv
<1> SUFFICES ASSUME Init PROVE IInv
  OBVIOUS
<1>1. \A v \in Verifiers : step[v] = "start" /\ call[v] = begun(None, None, None)
  BY DEF Init
<1>2. Shape
  BY <1>1 DEF Init, Shape, Record, begun, Steps
<1>3. signature \in signed
  BY DEF Init
<1>4. \A v \in Verifiers : Known(step[v], call[v]) /\ Held(v)
  BY <1>1 DEF Known, Held, begun, Attested, Compared, Authentic, Taken
<1>5. OutputsAreSpent
  BY DEF Init, OutputsAreSpent
<1> QED
  BY <1>2, <1>3, <1>4, <1>5 DEF IInv

\* A change to the files of the release, or a ledger moved away.
LEMMA ReleaseChanges ==
    ASSUME IInv, signature' \in signed', signed \subseteq signed',
           signature' = [over |-> signature'.over, by |-> signature'.by],
           UNCHANGED <<step, call, recorded, input, output>>
    PROVE  IInv'
<1>1. Shape'
  BY DEF IInv, Shape, Record
<1>2. \A v \in Verifiers : Known(step'[v], call'[v])
  BY DEF IInv
<1>3. \A v \in Verifiers : Held(v)'
  BY DEF IInv, Held, Spent
<1>4. OutputsAreSpent'
  <2>1. OutputsAreSpent /\ recorded' = recorded /\ input' = input /\ output' = output
    BY DEF IInv
  <2>2. ASSUME NEW v \in {input, output} \ {None}
        PROVE  \E e \in recorded : e.by = v /\ [over |-> e.entry.request, by |-> "signer"] \in signed'
    <3>1. PICK e \in recorded : e.by = v /\ [over |-> e.entry.request, by |-> "signer"] \in signed
      BY <2>1 DEF OutputsAreSpent
    <3> QED
      BY <3>1
  <2> QED
    BY <2>1, <2>2 DEF OutputsAreSpent
<1> QED
  BY <1>1, <1>2, <1>3, <1>4 DEF IInv

\* A verifier's step changes what it knows; the others keep what they know.
LEMMA OneMoves ==
    ASSUME IInv, NEW v \in Verifiers, NEW s \in Steps, NEW c, Record(c), Known(s, c),
           step' = [step EXCEPT ![v] = s], call' = [call EXCEPT ![v] = c],
           UNCHANGED release, \A w \in Verifiers : Held(w)', OutputsAreSpent'
    PROVE  IInv'
<1>1. \A w \in Verifiers : /\ step'[w] = IF w = v THEN s ELSE step[w]
                           /\ call'[w] = IF w = v THEN c ELSE call[w]
  BY DEF IInv, Shape
<1>2. Shape'
  BY <1>1 DEF IInv, Shape, release
<1>3. \A w \in Verifiers : Known(step'[w], call'[w])
  BY <1>1 DEF IInv
<1> QED
  BY <1>2, <1>3 DEF IInv, release

\* A step that leaves the ledgers and the outputs alone.
LEMMA OneLearns ==
    ASSUME IInv, NEW v \in Verifiers, NEW s \in Steps, NEW c, Record(c), Known(s, c),
           step' = [step EXCEPT ![v] = s], call' = [call EXCEPT ![v] = c],
           UNCHANGED <<release, ledgers, input, output>>,
           s \in Authentic /\ c.mode # "unsigned" => vouch(c.mode, c.request) \in signed,
           s \notin Taken \/ c.mode = "unsigned"
    PROVE  IInv'
<1>1. \A w \in Verifiers : /\ step'[w] = IF w = v THEN s ELSE step[w]
                           /\ call'[w] = IF w = v THEN c ELSE call[w]
  BY DEF IInv, Shape
<1>2. \A w \in Verifiers : Held(w)'
  <2> SUFFICES ASSUME NEW w \in Verifiers PROVE Held(w)'
    OBVIOUS
  <2>1. CASE w = v
    BY <1>1, <2>1 DEF Held, Taken, release
  <2>2. CASE w # v
    BY <1>1, <2>2 DEF IInv, Held, Spent, release, ledgers
  <2> QED
    BY <2>1, <2>2
<1>3. OutputsAreSpent'
  BY DEF IInv, OutputsAreSpent, release, ledgers
<1> QED
  BY <1>2, <1>3, OneMoves

\* What a step that reads one more thing changes in its record.
LEMMA SetCertification ==
    ASSUME NEW c, Record(c), NEW e, NEW d, d = [c EXCEPT !.certification = e]
    PROVE  Record(d) /\ d.mode = c.mode /\ d.key = c.key /\ d.archive = c.archive /\ d.certification = e
            /\ d.request = c.request /\ d.attestation = c.attestation /\ d.docs = c.docs
<1>1. d = [mode |-> c.mode, key |-> c.key, archive |-> c.archive, certification |-> e,
               request |-> c.request, attestation |-> c.attestation, docs |-> c.docs]
  <2> PICK mode, key, subject, certification, asked, attested, docs :
          c = [mode |-> mode, key |-> key, archive |-> subject, certification |-> certification,
               request |-> asked, attestation |-> attested, docs |-> docs]
    BY DEF Record
  <2> QED
    OBVIOUS
<1> QED
  BY <1>1 DEF Record

LEMMA SetRequest ==
    ASSUME NEW c, Record(c), NEW e, NEW d, d = [c EXCEPT !.request = e]
    PROVE  Record(d) /\ d.mode = c.mode /\ d.key = c.key /\ d.archive = c.archive /\ d.certification = c.certification
            /\ d.request = e /\ d.attestation = c.attestation /\ d.docs = c.docs
<1>1. d = [mode |-> c.mode, key |-> c.key, archive |-> c.archive, certification |-> c.certification,
               request |-> e, attestation |-> c.attestation, docs |-> c.docs]
  <2> PICK mode, key, subject, certification, asked, attested, docs :
          c = [mode |-> mode, key |-> key, archive |-> subject, certification |-> certification,
               request |-> asked, attestation |-> attested, docs |-> docs]
    BY DEF Record
  <2> QED
    OBVIOUS
<1> QED
  BY <1>1 DEF Record

LEMMA SetAttestation ==
    ASSUME NEW c, Record(c), NEW e, NEW d, d = [c EXCEPT !.attestation = e]
    PROVE  Record(d) /\ d.mode = c.mode /\ d.key = c.key /\ d.archive = c.archive /\ d.certification = c.certification
            /\ d.request = c.request /\ d.attestation = e /\ d.docs = c.docs
<1>1. d = [mode |-> c.mode, key |-> c.key, archive |-> c.archive, certification |-> c.certification,
               request |-> c.request, attestation |-> e, docs |-> c.docs]
  <2> PICK mode, key, subject, certification, asked, attested, docs :
          c = [mode |-> mode, key |-> key, archive |-> subject, certification |-> certification,
               request |-> asked, attestation |-> attested, docs |-> docs]
    BY DEF Record
  <2> QED
    OBVIOUS
<1> QED
  BY <1>1 DEF Record

LEMMA SetDocs ==
    ASSUME NEW c, Record(c), NEW e, NEW d, d = [c EXCEPT !.docs = e]
    PROVE  Record(d) /\ d.mode = c.mode /\ d.key = c.key /\ d.archive = c.archive /\ d.certification = c.certification
            /\ d.request = c.request /\ d.attestation = c.attestation /\ d.docs = e
<1>1. d = [mode |-> c.mode, key |-> c.key, archive |-> c.archive, certification |-> c.certification,
               request |-> c.request, attestation |-> c.attestation, docs |-> e]
  <2> PICK mode, key, subject, certification, asked, attested, docs :
          c = [mode |-> mode, key |-> key, archive |-> subject, certification |-> certification,
               request |-> asked, attestation |-> attested, docs |-> docs]
    BY DEF Record
  <2> QED
    OBVIOUS
<1> QED
  BY <1>1 DEF Record

LEMMA Reading ==
    ASSUME IInv, NEW v \in Verifiers,
           \/ \E mode \in Modes, key \in Keys : ReadArchive(v, mode, key)
           \/ ReadCertification(v) \/ LoadRequest(v) \/ ReadAttestation(v)
    PROVE  IInv'
<1>0. Known(step[v], call[v]) /\ Record(call[v])
  BY DEF IInv, Shape
<1>1. CASE \E mode \in Modes, key \in Keys : ReadArchive(v, mode, key)
  <2>1. PICK mode \in Modes, key \in Keys : ReadArchive(v, mode, key)
    BY <1>1
  <2> DEFINE s == IF mode = "unsigned" THEN "interpret" ELSE "certify"
             c == begun(mode, IF mode = "unsigned" THEN None ELSE key, archive)
  <2>2. Record(c)
    BY DEF Record, begun
  <2>3. Known(s, c) /\ s \in Steps /\ (s \in Authentic => c.mode = "unsigned") /\ s \notin Taken
    BY <1>0, <2>1 DEF Known, Steps, Attested, Compared, Authentic, Taken, begun, Modes
  <2> QED
    BY <2>1, <2>2, <2>3, OneLearns DEF ReadArchive, from
<1>2. CASE ReadCertification(v)
  <2> DEFINE c == [call[v] EXCEPT !.certification = attestation(tree)]
  <2>1. Record(c) /\ c.mode = call[v].mode /\ c.key = call[v].key /\ c.docs = call[v].docs
    BY <1>0, SetCertification
  <2>2. Known("request", c)
    BY <1>0, <1>2, <2>1 DEF Known, ReadCertification, from, Attested, Compared
  <2>3. call' = [call EXCEPT ![v] = c]
    BY <1>2 DEF ReadCertification
  <2> QED
    BY <1>2, <2>1, <2>2, <2>3, OneLearns
       DEF ReadCertification, from, Steps, Authentic, Attested, Compared, Taken
<1>3. CASE LoadRequest(v)
  <2> DEFINE c == [call[v] EXCEPT !.request = request]
  <2>1. /\ Record(c) /\ c.mode = call[v].mode /\ c.key = call[v].key /\ c.docs = call[v].docs
        /\ c.archive = call[v].archive /\ c.certification = call[v].certification
        /\ c.request = request
    BY <1>0, SetRequest
  <2>2. Known("attestation", c)
    BY <1>0, <1>3, <2>1
       DEF Known, LoadRequest, validate_signing_request_bindings, from, Bound, Attested, Compared
  <2>3. call' = [call EXCEPT ![v] = c]
    BY <1>3 DEF LoadRequest
  <2> QED
    BY <1>3, <2>1, <2>2, <2>3, OneLearns
       DEF LoadRequest, from, Steps, Authentic, Attested, Compared, Taken
<1>4. CASE ReadAttestation(v)
  <2> DEFINE c == [call[v] EXCEPT !.attestation = attestation(tree)]
  <2>1. /\ Record(c) /\ c.mode = call[v].mode /\ c.key = call[v].key /\ c.docs = call[v].docs
        /\ c.archive = call[v].archive /\ c.certification = call[v].certification
        /\ c.request = call[v].request /\ c.attestation = attestation(tree)
    BY <1>0, SetAttestation
  <2>2. call[v].docs = << >> /\ Bound(c) /\ c.mode # "unsigned"
    BY <1>0, <1>4, <2>1 DEF Known, ReadAttestation, from, Bound
  <2>3. OfTheArchive(c)
    BY <1>4, <2>1, <2>2 DEF ReadAttestation, OfTheArchive, DocsListed, attestation
  <2>4. Known("documents", c)
    BY <2>2, <2>3 DEF Known, Attested, Compared
  <2>5. call' = [call EXCEPT ![v] = c]
    BY <1>4 DEF ReadAttestation
  <2> QED
    BY <1>4, <2>1, <2>4, <2>5, OneLearns
       DEF ReadAttestation, from, Steps, Authentic, Attested, Compared, Taken
<1> QED
  BY <1>1, <1>2, <1>3, <1>4

LEMMA ReadingDocuments ==
    ASSUME IInv, NEW v \in Verifiers, ReadDocument(v)
    PROVE  IInv'
<1>0. Known(step[v], call[v]) /\ Record(call[v])
  BY DEF IInv, Shape
<1>1. PICK id \in required :
        /\ from(v, "documents", "documents")
        /\ document(tree, id) = call[v].attestation.checks[id]
        /\ call' = [call EXCEPT ![v].docs = [d \in DOMAIN @ \cup {id} |->
                                                IF d = id THEN document(tree, id) ELSE @[d]]]
        /\ UNCHANGED <<ledgers, input, output>>
  BY DEF ReadDocument
<1> DEFINE more == [d \in DOMAIN call[v].docs \cup {id} |->
                        IF d = id THEN document(tree, id) ELSE call[v].docs[d]]
           c == [call[v] EXCEPT !.docs = more]
<1>2. /\ Record(c) /\ c.mode = call[v].mode /\ c.key = call[v].key /\ c.archive = call[v].archive
      /\ c.certification = call[v].certification /\ c.request = call[v].request
      /\ c.attestation = call[v].attestation /\ c.docs = more
  BY <1>0, SetDocs
<1>3. c.mode # "unsigned" /\ Bound(c) /\ OfTheArchive(call[v])
  BY <1>0, <1>1, <1>2 DEF Known, from, Bound, Attested
<1>4. DocsListed(c)
  <2>1. DOMAIN more = DOMAIN call[v].docs \cup {id} /\ more = [d \in DOMAIN more |-> more[d]]
    OBVIOUS
  <2>2. \A d \in DOMAIN call[v].docs : d \in required /\ call[v].docs[d] = call[v].attestation.checks[d]
    BY <1>3 DEF OfTheArchive, DocsListed
  <2>3. \A d \in DOMAIN more : d \in required /\ more[d] = call[v].attestation.checks[d]
    BY <1>1, <2>1, <2>2
  <2> HIDE DEF c, more
  <2> QED
    BY <1>2, <2>1, <2>3 DEF DocsListed
<1>5. OfTheArchive(c)
  BY <1>2, <1>3, <1>4 DEF OfTheArchive
<1>6. Known("documents", c)
  BY <1>3, <1>5 DEF Known, Compared
<1>7. call' = [call EXCEPT ![v] = c]
  BY <1>1
<1>8. step' = [step EXCEPT ![v] = "documents"] /\ UNCHANGED release
  BY <1>1 DEF from
<1>9. "documents" \in Steps /\ "documents" \notin Authentic /\ "documents" \notin Taken
  BY DEF Steps, Authentic, Compared, Attested, Taken
<1> HIDE DEF c
<1> QED
  BY <1>1, <1>2, <1>6, <1>7, <1>8, <1>9, OneLearns

\* A step that keeps what the verifier has read.
LEMMA Same ==
    ASSUME IInv, NEW v \in Verifiers, UNCHANGED call
    PROVE  call' = [call EXCEPT ![v] = call[v]] /\ Record(call[v])
  BY DEF IInv, Shape

LEMMA Comparing ==
    ASSUME IInv, NEW v \in Verifiers, ReadSources(v) \/ CheckSignature(v) \/ Interpret(v)
    PROVE  IInv'
<1>0. Known(step[v], call[v]) /\ Held(v) /\ step[v] \in Steps
  BY DEF IInv, Shape
<1>1. UNCHANGED <<release, call, ledgers, input, output>>
  BY DEF ReadSources, CheckSignature, Interpret, then, from
<1>2. call' = [call EXCEPT ![v] = call[v]] /\ Record(call[v])
  BY <1>1, Same
<1>3. CASE ReadSources(v)
  <2>1. /\ step[v] = "documents" /\ step' = [step EXCEPT ![v] = "signature"]
        /\ Judged(call[v])
    BY <1>3 DEF ReadSources, from, Judged, preflight_trust_policy
  <2>2. Known("signature", call[v])
    BY <1>0, <2>1 DEF Known, Compared, Attested
  <2> QED
    BY <1>1, <1>2, <2>1, <2>2, OneLearns DEF Steps, Authentic, Compared, Attested, Taken
<1>4. CASE CheckSignature(v)
  <2>1. /\ step[v] = "signature" /\ step' = [step EXCEPT ![v] = "interpret"]
        /\ verify_signature(v)
    BY <1>4 DEF CheckSignature, from
  <2>3. vouch(call[v].mode, call[v].request) \in signed
    <3>1. signature.over = call[v].request
          /\ signature.by = IF call[v].mode = "external" THEN "signer" ELSE "ephemeral"
      BY <2>1, <1>0 DEF verify_signature, verify_ephemeral_signature, verify_sigstore_signature
    <3> QED
      BY <3>1 DEF IInv, Shape, vouch
  <2>2. Known("interpret", call[v])
    BY <1>0, <2>1 DEF Known, Compared, Attested
  <2> QED
    BY <1>1, <1>2, <2>1, <2>2, <2>3, OneLearns DEF Steps, Authentic, Compared, Attested, Taken
<1>5. CASE Interpret(v)
  <2> DEFINE s == IF call[v].mode = "unsigned" THEN "passed" ELSE "consume"
  <2>1. /\ step[v] = "interpret" /\ step' = [step EXCEPT ![v] = s] /\ call[v].archive.intact
    BY <1>5 DEF Interpret, then, following, from, verify_inventory
  <2>2. Known(s, call[v]) /\ s \in Steps
    BY <1>0, <2>1 DEF Known, Compared, Attested, Steps
  <2>3. call[v].mode # "unsigned" => vouch(call[v].mode, call[v].request) \in signed
    BY <1>0, <2>1 DEF Held, Authentic, Compared, Attested
  <2>4. s \notin Taken \/ call[v].mode = "unsigned"
    BY DEF Taken
  <2> QED
    BY <1>1, <1>2, <2>1, <2>2, <2>3, <2>4, OneLearns
<1> QED
  BY <1>3, <1>4, <1>5

\* What others hold is not disturbed by a step that finds the place free.
LEMMA OthersHold ==
    ASSUME IInv, NEW v \in Verifiers, NEW s \in Steps, step' = [step EXCEPT ![v] = s],
           UNCHANGED <<release, call>>, recorded \subseteq recorded',
           input = None \/ input' = input, output = None \/ output' = output
    PROVE  \A w \in Verifiers \ {v} : Held(w)'
<1> SUFFICES ASSUME NEW w \in Verifiers \ {v} PROVE Held(w)'
  OBVIOUS
<1>1. step'[w] = step[w] /\ Held(w)
  BY DEF IInv, Shape
<1>2. None # w
  BY NoneAssumption
<1> QED
  BY <1>1, <1>2 DEF Held, Spent, release

LEMMA Taking ==
    ASSUME IInv, NEW v \in Verifiers,
           (\E l \in Ledgers : Consume(v, l)) \/ Consumed(v) \/ WriteInput(v) \/ WriteOutput(v)
    PROVE  IInv'
<1>0. Known(step[v], call[v]) /\ Held(v) /\ step[v] \in Steps
  BY DEF IInv, Shape
<1>1. UNCHANGED <<release, call>>
  BY DEF Consume, Consumed, WriteInput, WriteOutput, then, from
<1>2. call' = [call EXCEPT ![v] = call[v]] /\ Record(call[v])
  BY <1>1, Same
<1> DEFINE signed_for == vouch(call[v].mode, call[v].request) \in signed
<1>a. \A s \in Steps : step' = [step EXCEPT ![v] = s] => step'[v] = s
  BY DEF IInv, Shape
<1>3. CASE \E l \in Ledgers : Consume(v, l)
  <2>1. PICK l \in Ledgers : Consume(v, l)
    BY <1>3
  <2>2. /\ step[v] = "consume" /\ step' = [step EXCEPT ![v] = "recorded"]
        /\ recorded' = recorded \cup {[by |-> v, entry |-> replay_ledger_entry(v)]}
        /\ UNCHANGED <<input, output>>
    BY <2>1 DEF Consume, then, following, from, consume_replay_ledger
  <2>3. Known("recorded", call[v]) /\ "recorded" \in Steps
    BY <1>0, <2>2 DEF Known, Compared, Attested, Steps
  <2>4. \A w \in Verifiers \ {v} : Held(w)'
    BY <1>1, <2>2, <2>3, OthersHold
  <2>5. Held(v)'
    <3>1. Spent(v, call[v].request)'
      <4> DEFINE e == [by |-> v, entry |-> replay_ledger_entry(v)]
      <4>1. e \in recorded' /\ e.by = v /\ e.entry.request = call[v].request
        BY <2>2 DEF replay_ledger_entry
      <4> QED
        BY <4>1, <1>1 DEF Spent
    <3>2. signed_for
      BY <1>0, <2>2 DEF Held, Known, Authentic, Compared, Attested
    <3>3. step'[v] = "recorded"
      BY <1>a, <2>2, <2>3
    <3> QED
      BY <1>1, <3>1, <3>2, <3>3 DEF Held, release
  <2>6. OutputsAreSpent'
    BY <1>1, <2>2 DEF IInv, OutputsAreSpent, release
  <2> QED
    BY <1>1, <1>2, <2>2, <2>3, <2>4, <2>5, <2>6, OneMoves
<1>4. CASE Consumed(v)
  <2> DEFINE s == IF call[v].mode = "external" THEN "input" ELSE "passed"
  <2>1. /\ step[v] = "recorded" /\ step' = [step EXCEPT ![v] = s]
        /\ UNCHANGED <<ledgers, input, output>>
    BY <1>4 DEF Consumed, then, following, from
  <2>2. Known(s, call[v]) /\ s \in Steps /\ call[v].mode # "unsigned"
    BY <1>0, <2>1 DEF Known, Compared, Attested, Steps
  <2>3. \A w \in Verifiers \ {v} : Held(w)'
    BY <1>1, <2>1, <2>2, OthersHold DEF ledgers
  <2>4. Held(v)'
    <3>1. signed_for /\ Spent(v, call[v].request)
      BY <1>0, <2>1, <2>2 DEF Held, Authentic, Compared, Attested, Taken
    <3>2. step'[v] = s /\ (s = "passed" => call[v].mode # "external") /\ s # "output"
      BY <1>a, <2>1, <2>2
    <3> QED
      BY <1>1, <2>1, <3>1, <3>2 DEF Held, Spent, release, ledgers
  <2>5. OutputsAreSpent'
    BY <1>1, <2>1 DEF IInv, OutputsAreSpent, release, ledgers
  <2> QED
    BY <1>1, <1>2, <2>1, <2>2, <2>3, <2>4, <2>5, OneMoves
<1>5. CASE WriteInput(v)
  <2>1. /\ step[v] = "input" /\ step' = [step EXCEPT ![v] = "output"]
        /\ input = None /\ input' = v /\ UNCHANGED <<ledgers, output>>
    BY <1>5 DEF WriteInput, then, following, from
  <2>2. /\ Known("output", call[v]) /\ "output" \in Steps
        /\ call[v].mode = "external" /\ call[v].mode # "unsigned"
    BY <1>0, <2>1 DEF Known, Compared, Attested, Steps
  <2>3. signed_for /\ Spent(v, call[v].request)
    BY <1>0, <2>1, <2>2 DEF Held, Authentic, Compared, Attested, Taken
  <2>4. \A w \in Verifiers \ {v} : Held(w)'
    BY <1>1, <2>1, <2>2, OthersHold DEF ledgers
  <2>5. Held(v)'
    <3>1. step'[v] = "output"
      BY <1>a, <2>1, <2>2
    <3> QED
      BY <1>1, <2>1, <2>3, <3>1 DEF Held, Spent, release, ledgers
  <2>6. OutputsAreSpent'
    <3>1. output = None
      BY <2>1 DEF IInv, OutputsAreSpent
    <3>2. \E e \in recorded : e.by = v /\ [over |-> e.entry.request, by |-> "signer"] \in signed
      BY <2>2, <2>3 DEF Spent, vouch
    <3> QED
      BY <1>1, <2>1, <3>1, <3>2 DEF OutputsAreSpent, release, ledgers
  <2> QED
    BY <1>1, <1>2, <2>1, <2>2, <2>4, <2>5, <2>6, OneMoves
<1>6. CASE WriteOutput(v)
  <2>1. /\ step[v] = "output" /\ step' = [step EXCEPT ![v] = "passed"]
        /\ output = None /\ output' = v /\ UNCHANGED <<ledgers, input>>
    BY <1>6 DEF WriteOutput, then, following, from
  <2>2. /\ Known("passed", call[v]) /\ "passed" \in Steps
        /\ call[v].mode = "external" /\ call[v].mode # "unsigned"
    BY <1>0, <2>1 DEF Known, Compared, Attested, Steps
  <2>3. signed_for /\ Spent(v, call[v].request) /\ input = v
    BY <1>0, <2>1, <2>2 DEF Held, Authentic, Compared, Attested, Taken
  <2>4. \A w \in Verifiers \ {v} : Held(w)'
    BY <1>1, <2>1, <2>2, OthersHold DEF ledgers
  <2>5. Held(v)'
    <3>1. step'[v] = "passed"
      BY <1>a, <2>1, <2>2
    <3> QED
      BY <1>1, <2>1, <2>3, <3>1 DEF Held, Spent, release, ledgers
  <2>6. OutputsAreSpent'
    BY <1>1, <2>1, <2>3 DEF IInv, OutputsAreSpent, release, ledgers
  <2> QED
    BY <1>1, <1>2, <2>1, <2>2, <2>4, <2>5, <2>6, OneMoves
<1> QED
  BY <1>3, <1>4, <1>5, <1>6

LEMMA Refusing ==
    ASSUME IInv, NEW v \in Verifiers, Refuse(v)
    PROVE  IInv'
<1> DEFINE c == begun(None, None, None)
<1>1. /\ step' = [step EXCEPT ![v] = "refused"] /\ call' = [call EXCEPT ![v] = c]
      /\ UNCHANGED <<release, ledgers, input, output>>
  BY DEF Refuse, from
<1>2. Record(c)
  BY DEF Record, begun
<1>3. Known("refused", c)
  BY DEF Known, Attested, Compared
<1> QED
  BY <1>1, <1>2, <1>3, OneLearns DEF Steps, Authentic, Compared, Attested, Taken

\* IInv is inductive.
THEOREM Preserved == IInv /\ [Next]_vars => IInv'
<1> SUFFICES ASSUME IInv, [Next]_vars PROVE IInv'
  OBVIOUS
<1>0. signature = [over |-> signature.over, by |-> signature.by] /\ signature \in signed
  BY DEF IInv, Shape
<1>1. CASE \E a \in Archives : Stage(a)
  BY <1>0, <1>1, ReleaseChanges DEF Stage, Change, ledgers
<1>2. CASE RemoveTree
  BY <1>0, <1>2, ReleaseChanges DEF RemoveTree, Change, ledgers
<1>3. CASE \E e \in Evaluations : PublishTree(e)
  BY <1>0, <1>3, ReleaseChanges DEF PublishTree, Change, ledgers
<1>4. CASE \E k \in Keys : CreateRequest(k)
  BY <1>0, <1>4, ReleaseChanges DEF CreateRequest, Change, ledgers
<1>5. CASE \E by \in Signatories : Sign(by)
  BY <1>0, <1>5, ReleaseChanges DEF Sign, Change, ledgers
<1>6. CASE \E l \in Ledgers : Rotate(l)
  BY <1>0, <1>6, ReleaseChanges DEF Rotate, release
<1>7. CASE \E v \in Verifiers : Verify(v)
  BY <1>7, Reading, ReadingDocuments, Comparing, Taking, Refusing DEF Verify
<1>8. CASE UNCHANGED vars
  BY <1>0, <1>8, ReleaseChanges DEF vars, release, ledgers
<1> QED
  BY <1>1, <1>2, <1>3, <1>4, <1>5, <1>6, <1>7, <1>8 DEF Next

THEOREM Invariance == Spec => []IInv
  BY Initially, Preserved, PTL DEF Spec

\* What was signed is what the verification used: verify_bundle.py reads every
\* file once, or compares the second reading with the first.
THEOREM SignedBeforeUse == Spec => []VouchedIsSigned
<1>1. IInv => VouchedIsSigned
  <2> SUFFICES ASSUME IInv, NEW v \in Verifiers
               PROVE  /\ authenticated(v) =>
                          \E s \in signed :
                              /\ s.by = IF call[v].mode = "external" THEN "signer" ELSE "ephemeral"
                              /\ s.over.key = call[v].key
                              /\ s.over.digest = call[v].archive.manifest
                              /\ s.over.digest \notin Revoked
                              /\ s.over.certification = call[v].attestation
                      /\ step[v] = "passed" => call[v].archive.intact
    BY DEF VouchedIsSigned
  <2>1. Known(step[v], call[v]) /\ Held(v)
    BY DEF IInv
  <2>2. ASSUME authenticated(v)
        PROVE  \E s \in signed :
                   /\ s.by = IF call[v].mode = "external" THEN "signer" ELSE "ephemeral"
                   /\ s.over.key = call[v].key
                   /\ s.over.digest = call[v].archive.manifest
                   /\ s.over.digest \notin Revoked
                   /\ s.over.certification = call[v].attestation
    <3> DEFINE s == vouch(call[v].mode, call[v].request)
    <3>1. s \in signed /\ Bound(call[v]) /\ Judged(call[v])
      BY <2>1, <2>2 DEF authenticated, Known, Held, Attested, Compared, Authentic
    <3>2. /\ s.over = call[v].request
          /\ s.by = IF call[v].mode = "external" THEN "signer" ELSE "ephemeral"
      BY DEF vouch
    <3> HIDE DEF s
    <3> QED
      BY <3>1, <3>2 DEF Bound, Judged
  <2>3. step[v] = "passed" => call[v].archive.intact
    BY <2>1 DEF Known
  <2> QED
    BY <2>2, <2>3
<1> QED
  BY <1>1, Invariance, PTL

\* The evidence of a verification is the one the signed certification lists,
\* and its parts are about one archive and one bill of materials.
THEOREM EvidenceCoheres == Spec => []EvidenceIsOfTheBundle
<1>1. IInv => EvidenceIsOfTheBundle
  <2> SUFFICES ASSUME IInv, NEW v \in Verifiers, authenticated(v)
               PROVE  /\ call[v].attestation.subject = call[v].archive
                      /\ call[v].docs = call[v].attestation.checks
                      /\ \A id \in required :
                          /\ call[v].docs[id].subject = call[v].archive
                          /\ id \in OfTheSbom => call[v].docs["sbom"] \in call[v].docs[id].cites
    BY DEF EvidenceIsOfTheBundle
  <2>1. OfTheArchive(call[v]) /\ Judged(call[v])
    BY DEF IInv, Known, authenticated, Attested, Compared
  <2>2. PICK at, source : validate_release_evidence(call[v].docs, call[v].archive, at, source)
    BY <2>1 DEF Judged
  <2>3. DOMAIN call[v].docs = required
    BY <2>2 DEF validate_release_evidence
  <2>4. call[v].docs = call[v].attestation.checks
    BY <2>1, <2>3 DEF OfTheArchive, DocsListed
  <2>5. ASSUME NEW id \in required
        PROVE  /\ call[v].docs[id].subject = call[v].archive
               /\ id \in OfTheSbom => call[v].docs["sbom"] \in call[v].docs[id].cites
    <3> DEFINE docs == call[v].docs
               sbom == docs["sbom"]
    <3>1. CASE id \in Plain \cup Sourced
      BY <2>2, <3>1 DEF validate_release_evidence, validate_source, Plain, Sourced, OfTheSbom, Scans
    <3>2. CASE id = "scan_completeness"
      <4>1. docs[id] = build_scan_completeness_report(call[v].archive, at, sbom,
                                                      {docs[s] : s \in Scans \cap required})
        BY <2>2, <3>2 DEF validate_release_evidence, validate_scan_completeness
      <4> QED
        BY <4>1 DEF build_scan_completeness_report, built
    <3>3. CASE id \in Scans \cup {"license"}
      <4>1. docs[id] = build_scan_report(id, call[v].archive, at, sbom)
        BY <2>2, <3>3 DEF validate_release_evidence, validate_scan_report
      <4>2. docs[id].subject = call[v].archive /\ docs[id].cites = {sbom}
        BY <4>1 DEF build_scan_report, built
      <4> QED
        BY <4>2
    <3>4. CASE id \in {"sbom", "provenance"}
      <4>1. docs[id].subject = call[v].archive
        <5>1. CASE id = "sbom"
          <6>1. docs[id] = built("sbom", call[v].archive, at, None, {})
            BY <2>2, <5>1 DEF validate_release_evidence, validate_spdx, build_spdx_document
          <6> QED
            BY <6>1 DEF built
        <5>2. CASE id = "provenance"
          <6>1. docs[id] = built("provenance", call[v].archive, at, None, {})
            BY <2>2, <5>2 DEF validate_release_evidence, validate_provenance
          <6> QED
            BY <6>1 DEF built
        <5> QED
          BY <3>4, <5>1, <5>2
      <4> QED
        BY <3>4, <4>1 DEF OfTheSbom, Scans
    <3> QED
      BY <3>1, <3>2, <3>3, <3>4, EvidenceAssumption DEF Plain, Sourced, Dated, Scans
  <2> QED
    BY <2>1, <2>4, <2>5 DEF OfTheArchive
<1> QED
  BY <1>1, Invariance, PTL

\* Nothing is left behind that is not paid for: the order of main, with every
\* failure there may be between the ledger and the outputs.
THEOREM OutputsFollowTheLedger == Spec => []OutputsAreSpent
  BY Invariance, PTL DEF IInv

\* Outputs of two verifications are never mixed.
THEOREM OutputsAreNotMixed == Spec => []OutputsAreOneVerification
<1>1. IInv => OutputsAreOneVerification
  BY DEF IInv, Held, OutputsAreOneVerification
<1> QED
  BY <1>1, Invariance, PTL
=============================================================================
