---------------------------- MODULE ReleaseGraph ----------------------------
(***************************************************************************)
(* refresh_release_graph of generate_renderer_digest_fixtures.py: the      *)
(* authority graph of a product release, from the trust policies and the   *)
(* contract bundle to the signed qualification decision, and the walk that *)
(* binds every other fixture to it.  Each definition is one block of the   *)
(* function, in the order of the code, as a sequence of statements of      *)
(* FixtureGraph.                                                           *)
(*                                                                         *)
(* A status and a status head exist for the product (document One(kind))   *)
(* and for every renderer release (<<kind, renderer, "">>).                *)
(***************************************************************************)
EXTENDS FixtureGraph

CONSTANT Primary        \* the platform every renderer is first qualified on

Schemas == One("schemas")          \* the managed schemas, as files
Policy == One("policy")            \* the product's trust policies
BundlePolicy == One("bundle-policy")
AuthorityPolicy == One("authority-policy")  \* the consumer-side trust policies
Bundle == One("contract-bundle")
Release == One("product-release")
Distribution == One("product-distribution")
Allowlist == One("allowlist")
Suite == One("suite")
QualificationPolicy == One("qualification-policy")
Decision == One("release-qualification")
Matrix == One("finalization-matrix")
Eligibility == One("eligibility")

Renderer(d) == Of("renderer-release", d)
AllReleases == PerRenderer("renderer-release")
Subjects(kind) == {One(kind)} \cup PerRenderer(kind)
SubjectOf(d) == IF d[2] = "" THEN Release ELSE Renderer(d)

On(D, refs(_)) == [d \in D |-> refs(d)]
Refs(D, refs) == [d \in D |-> refs]

(* A document written out in full by the generator: its schema descriptor, *)
(* and the descriptors it cites, its trust policy among them.              *)
Author(cited) == << Bytes("schema", Refs(DOMAIN cited, {Schemas})),
                    Cite("links", [d \in DOMAIN cited |-> cited[d] \cup {Policy}]) >>
Signed(D) == << Sign(Refs(D, {Schemas, Policy})) >>
Sealed(D) == << Seal(D) >>

(* The policies are rebuilt from the schema of trust policies, and their   *)
(* descriptors captured; a copy of two of them is a fixture.               *)
ProductPolicies ==
  << Bytes("text", Refs({Policy, BundlePolicy}, {One("trust-schema")})),
     Seal({Policy, BundlePolicy}),
     Copy(Refs({One("policy-fixture")}, {Policy})) >>
QualificationAndConsumerPolicies ==
  << Bytes("text", Refs({AuthorityPolicy}, {One("trust-schema")})), Seal({AuthorityPolicy}) >>

(* The pin set lists the captured descriptors; the provider's evidence and *)
(* the vectors that verify it are derived from the pin set.                *)
PinSet ==
  << Bytes("schema", Refs({One("pin-set")}, {Schemas})),
     Cite("links", Refs({One("pin-set")}, {Policy, BundlePolicy})),
     Seal({One("pin-set")}) >>

(* Mutant: the bundle binds the capabilities, which are rewritten later.   *)
ContractBundleOfCapabilities ==
  << Bytes("members", Refs({Bundle},
        {One("trust-schema"), One("openapi"), One("index"), One("inventory"), One("map")}
        \cup PerRenderer("capability"))),
     Cite("links", Refs({Bundle}, {BundlePolicy})), Seal({Bundle}) >>

(* The contract bundle binds files as they are on the disk: the generator  *)
(* has not yet rewritten the inventory and the documentation map.          *)
ContractBundle ==
  << Bytes("members", Refs({Bundle},
        {One("trust-schema"), One("openapi"), One("index"), One("inventory"), One("map")})),
     Cite("links", Refs({Bundle}, {BundlePolicy})), Seal({Bundle}) >>

(* The release embeds the verification of the bundle's keyless signature;  *)
(* the vector that replays the verification is kept for the catalogue.     *)
contract_bundle_keyless_verification ==
  << Bytes("schema", Refs({One("keyless-vector")}, {Schemas})),
     Cite("subject", Refs({One("keyless-vector")}, {Bundle, BundlePolicy})),
     Bytes("verification", Refs({Release}, {One("keyless-vector")})) >>

ProductReleaseOpening ==
  << Cite("bundle", Refs({Release}, {Bundle, BundlePolicy})) >>
  \o contract_bundle_keyless_verification
  \o << Cite("builder", Refs({Release}, {Policy})) >>

CoverageDigests == Cite("coverage", Refs(PerRenderer("capability"), {Policy}))
Capabilities ==
  << Cite("links", Refs(PerRenderer("capability"), {Policy})), CoverageDigests >>

RendererReleases ==
  << Seal(PerRenderer("capability")),
     Cite("links", On(AllReleases, LAMBDA d : {Of("capability", d), Policy})) >>
  \o Signed(AllReleases) \o Sealed(AllReleases)

CompiledAllowlist ==
  << Cite("links", Refs({Allowlist}, AllReleases \cup {Policy})) >>
  \o Signed({Allowlist}) \o Sealed({Allowlist})

ProductDistribution ==
  << Cite("links", Refs({Distribution}, {Allowlist, Bundle, Policy})) >>
  \o Signed({Distribution}) \o Sealed({Distribution})
  \o << Cite("links", Refs({Release}, {Allowlist, Distribution} \cup AllReleases)) >>

QualificationSuite ==
  Author(Refs({Suite}, {Bundle})) \o Sealed({Suite})

QualificationPolicyBlock ==
  Author(Refs({QualificationPolicy}, {Suite})) \o Signed({QualificationPolicy})
  \o Sealed({QualificationPolicy})

(* Mutant: the product release is signed before it is complete.            *)
ProductReleaseSignedFirst ==
  Signed({Release}) \o Sealed({Release})
  \o << Cite("qualification", Refs({Release}, {QualificationPolicy, Suite})) >>

(* The product release is signed only now that it cites the policy and the *)
(* suite it will be qualified under.                                       *)
ProductReleaseClosing ==
  << Cite("qualification", Refs({Release}, {QualificationPolicy, Suite})) >>
  \o Signed({Release}) \o Sealed({Release})

-----------------------------------------------------------------------------
(* Qualification of the executables: first every renderer on the primary   *)
(* platform, then the others from the primary documents.                   *)
On1(kind) == {<<kind, r, Primary>> : r \in {r \in Renderers : Primary \in Platforms(r)}}
OnOthers(kind) == PerPlatform(kind) \ On1(kind)
ForEach(kind, executables) == {Beside(kind, e) : e \in executables}

(* Selection, attempt and attempt authentication.                          *)
Attempts(executables) ==
  LET selection == ForEach("qual-selection", executables)
      attempt == ForEach("qual-attempt", executables)
      authentication == ForEach("qual-attempt-auth", executables)
  IN Author(On(selection, LAMBDA d :
              {Release, Distribution, Allowlist, Of("capability", d), Renderer(d), Bundle, Suite}))
     \o Sealed(selection)
     \o << Bytes("schema", Refs(attempt, {Schemas})),
           Bytes("selection", On(attempt, LAMBDA d : {Beside("qual-selection", d), Suite})),
           Cite("links", Refs(attempt, {Bundle, Suite})) >>
     \o Sealed(attempt)
     \o << Bytes("schema", Refs(authentication, {Schemas})),
           Bytes("attempt", On(authentication, LAMBDA d : {Beside("qual-attempt", d)})) >>
     \o Signed(authentication) \o Sealed(authentication)

PrimaryAttempts == Attempts(On1(""))
OtherAttempts == Attempts(OnOthers(""))

(* The requirements one executable's evidence tree has leaves for.  Those  *)
(* on the product are collected by one executable only, those on a release *)
(* by its primary platform.                                                *)
qualification_specs(d, native) ==
  {<<"leaf", d[2], d[3]>>}
  \cup (IF d[3] = Primary THEN {<<"leaf", d[2], "">>} ELSE {})
  \cup (IF d[3] = Primary /\ d[2] = native THEN {One("leaf")} ELSE {})

(* The tree embeds its leaves, each signed on its own.                     *)
qualification_evidence_tree(executables, native) ==
  LET trees == ForEach("tree", executables)
      leaves == UNION {qualification_specs(d, native) : d \in trees}
      collector(leaf) == CHOOSE d \in trees : leaf \in qualification_specs(d, native)
      subject(leaf) == IF leaf[2] = "" THEN {Release, Distribution, Bundle} ELSE {Renderer(leaf)}
  IN Author(On(leaves, subject))
     \o << Bytes("details", On(leaves, LAMBDA l : {Beside("qual-selection", collector(l))})) >>
     \o Signed(leaves)
     \o << Bytes("leaves", On(trees, LAMBDA d : qualification_specs(d, native))) >>
     \o Author(Refs(trees, {Suite}))
     \o << Bytes("selection", On(trees, LAMBDA d :
                    {Beside("qual-selection", d), Beside("qual-attempt", d)})) >>
     \o Sealed(trees)

Receipts(executables) ==
  LET receipt == ForEach("qual-receipt", executables)
      authentication == ForEach("qual-receipt-auth", executables)
  IN Author(On(receipt, LAMBDA d : {Renderer(d), Bundle, Suite, Beside("tree", d)}))
     \o << Bytes("attempt", On(receipt, LAMBDA d :
             {Beside("qual-selection", d), Beside("qual-attempt", d), Beside("qual-attempt-auth", d)})) >>
     \o Sealed(receipt)
     \o << Bytes("schema", Refs(authentication, {Schemas})),
           Bytes("receipt", On(authentication, LAMBDA d :
             {Beside("qual-receipt", d), Beside("qual-selection", d)})) >>
     \o Signed(authentication) \o Sealed(authentication)

PrimaryReceipts == Receipts(On1(""))
OtherReceipts == Receipts(OnOthers(""))

(* Every requirement expanded over its subjects, and the executable that   *)
(* must have collected it.                                                 *)
expanded_requirements(native) ==
  [l \in Subjects("leaf") \cup PerPlatform("leaf") |->
     <<"tree", IF l[2] = "" THEN native ELSE l[2], IF l[3] = "" THEN Primary ELSE l[3]>>]

(* A predicate embeds its leaf, taken from the tree its selection          *)
(* collected; the evidence cites the whole execution.                      *)
PredicatesAndEvidence(native) ==
  LET trees == expanded_requirements(native)
      predicates == {<<"predicate", l[2], l[3]>> : l \in DOMAIN trees}
      evidence == {<<"evidence", l[2], l[3]>> : l \in DOMAIN trees}
      tree(d) == trees[Beside("leaf", d)]
  IN Author(On(predicates, LAMBDA d : {Beside("qual-selection", tree(d)), Suite, tree(d)}))
     \o << Bytes("leaf", On(predicates, LAMBDA d :
                    {Beside("leaf", d), Beside("qual-receipt", tree(d))})) >>
     \o Sealed(predicates)
     \o Author(On(evidence, LAMBDA d :
           {Beside("predicate", d), tree(d)} \cup
           {Beside(k, tree(d)) : k \in {"qual-selection", "qual-attempt", "qual-attempt-auth",
                                        "qual-receipt", "qual-receipt-auth"}}))
     \o << Bytes("leaf", On(evidence, LAMBDA d : {Beside("leaf", d)})) >>
     \o Sealed(evidence)

-----------------------------------------------------------------------------
(* Statuses: the product's third cites its second and its second its first.*)
Statuses ==
  LET Step(kind, prior) ==
        Author(Refs({One(kind)}, {Release} \cup prior)) \o Signed({One(kind)}) \o Sealed({One(kind)})
  IN Step("status-1", {}) \o Step("status-2", {One("status-1")})
     \o Step("status", {One("status-2")})
     \o Author(On(PerRenderer("status"), LAMBDA d : {Renderer(d)}))
     \o Signed(PerRenderer("status")) \o Sealed(PerRenderer("status"))

status_consistency_proof(proof, from, to) ==
  Author(proof :> {Release, from, to}) \o Signed({proof}) \o Sealed({proof})

(* Statuses are given as a function of the proofs.                         *)
status_inclusion_proof(status) ==
  Author([d \in DOMAIN status |-> {SubjectOf(d), status[d]}]) \o Sealed(DOMAIN status)

(* A head: an inclusion proof, the checkpoint over status, proof and prior *)
(* checkpoint, and the signed authentication of the checkpoint; for every  *)
(* subject of which a status is given.                                     *)
current_status_head(kind, status, prior) ==
  LET Named(suffix) == {<<kind \o suffix, d[2], d[3]>> : d \in DOMAIN status}
      given(f, d) == f[Beside("", d)]
  IN status_inclusion_proof(On(Named("-inclusion"), LAMBDA d : given(status, d)))
     \o Author(On(Named(""), LAMBDA d :
           {SubjectOf(d), given(status, d), Beside(kind \o "-inclusion", d)} \cup given(prior, d)))
     \o Sealed(Named(""))
     \o Author(On(Named("-auth"), LAMBDA d : {Beside(kind, d)}))
     \o Signed(Named("-auth")) \o Sealed(Named("-auth"))

Product == {One("")}
NoPrior(D) == Refs(D, {})
CurrentStatus(D) == On(D, LAMBDA d : Of("status", d))
Chained(kind, D) == On(D, LAMBDA d : {Of(kind, d)})

ProductStatusHeads ==
  current_status_head("head-initial", Refs(Product, One("status-1")), NoPrior(Product))
  \o current_status_head("head-refresh", Refs(Product, One("status-1")),
                         Chained("head-initial", Product))
  \o status_consistency_proof(One("log-proof"), One("status-1"), One("status"))
  \o current_status_head("head", CurrentStatus(Product),
                         Refs(Product, {One("head-refresh"), One("log-proof")}))

RendererStatusHeads ==
  current_status_head("head-initial", CurrentStatus(PerRenderer("")), NoPrior(PerRenderer("")))
  \o current_status_head("head", CurrentStatus(PerRenderer("")),
                         Chained("head-initial", PerRenderer("")))

(* Logs of subjects outside this release: joined at sequence 7, joined far *)
(* behind with a consistency proof, and a withdrawn one.                   *)
FirstContactStatusHead ==
  Author(One("contact-status") :> {}) \o Signed({One("contact-status")}) \o Sealed({One("contact-status")})
  \o current_status_head("contact-head", Refs(Product, One("contact-status")), NoPrior(Product))

FarBehindStatusHead ==
  LET first == One("behind-status-1")  last == One("behind-status")
  IN Author(Refs({first, last}, {})) \o Signed({first, last}) \o Sealed({first, last})
     \o current_status_head("behind-head-1", Refs(Product, first), NoPrior(Product))
     \o status_consistency_proof(One("behind-proof"), first, last)
     \o current_status_head("behind-head", Refs(Product, last),
                            Refs(Product, {One("behind-head-1"), One("behind-proof")}))

WithdrawnStatus ==
  Author(One("withdrawn-status") :> {}) \o Signed({One("withdrawn-status")})

-----------------------------------------------------------------------------
(* Finalization: fresh heads, chained to the ones above; a verification    *)
(* result for every signed or derived subject; the signed eligibility.     *)
qualification_status_head ==
  current_status_head("final-head", CurrentStatus(Subjects("")), Chained("head", Subjects("")))

verify_subject(subject) ==
  << Bytes("schema", Refs(DOMAIN subject, {Schemas})), Cite("links", subject),
     Bytes("subject", subject), Seal(DOMAIN subject) >>

status_eligibility_entry ==
  LET Verified(kind, result) ==
        verify_subject(On(Subjects(result), LAMBDA d : {Of(kind, d), Policy}))
  IN Verified("status", "status-verification") \o Verified("final-head", "head-verification")
     \o Verified("final-head-inclusion", "inclusion-verification")

EligibilityEvidence ==
  LET parts == {"status", "final-head", "final-head-auth", "final-head-inclusion"}
      results == {"status-verification", "head-verification", "inclusion-verification"}
  IN << Bytes("entries", Refs({Eligibility}, UNION {Subjects(k) : k \in parts})) >>
     \o Author(Refs({Eligibility}, UNION {Subjects(k) : k \in parts \cup results}
                                   \cup {One("pin-set")}))
     \o Signed({Eligibility}) \o Sealed({Eligibility})
     \o verify_subject(One("eligibility-verification") :> {Eligibility, Policy})

Executions == UNION {PerPlatform(k) : k \in {"qual-selection", "qual-attempt", "qual-attempt-auth",
                                             "qual-receipt", "qual-receipt-auth"}}
AllEvidence == Subjects("evidence") \cup PerPlatform("evidence")

FinalizationMatrix ==
  Author(Refs({Matrix}, {Release, QualificationPolicy, Suite}
                        \cup AllReleases \cup Executions \cup AllEvidence)) \o Sealed({Matrix})

PolicyAndSuiteVerification ==
  verify_subject(One("policy-verification") :> {QualificationPolicy}
                 @@ One("suite-verification") :> {Suite, QualificationPolicy})

QualificationDecision ==
  Author(Refs({Decision}, {Release, QualificationPolicy, Matrix, Eligibility, One("pin-set"),
                           One("eligibility-verification"), One("policy-verification"),
                           One("suite-verification")} \cup AllReleases \cup AllEvidence))
  \o Signed({Decision}) \o Sealed({Decision})

(* Every other fixture is bound to the new release: selections in full, a  *)
(* manifest, a compatibility result and a harness render in part.          *)
bind_release_lineage ==
  << Cite("lineage", On(On1("selection") \cup {One("input-denial")}, LAMBDA d :
            {Release, Decision, Distribution, Allowlist, Renderer(d), Of("capability", d)}
            \cup UNION {{One(k), Of(k, d)} : k \in {"status", "head", "head-auth"}})),
     Cite("lineage", On(PerRenderer("render-manifest") \cup PerRenderer("compatibility"),
            LAMBDA d : {Release, Distribution, Allowlist, Renderer(d)})),
     Cite("lineage", Refs({One("harness-render")}, {Release, Distribution, Allowlist})) >>

refresh_release_graph(native) ==
  ProductPolicies \o QualificationAndConsumerPolicies \o PinSet \o ContractBundle
  \o ProductReleaseOpening \o Capabilities \o RendererReleases \o CompiledAllowlist
  \o ProductDistribution \o QualificationSuite \o QualificationPolicyBlock
  \o ProductReleaseClosing
  \o PrimaryAttempts \o qualification_evidence_tree(On1(""), native) \o PrimaryReceipts
  \o OtherAttempts \o qualification_evidence_tree(OnOthers(""), native) \o OtherReceipts
  \o PredicatesAndEvidence(native)
  \o Statuses \o ProductStatusHeads \o RendererStatusHeads \o FirstContactStatusHead
  \o FarBehindStatusHead \o WithdrawnStatus
  \o qualification_status_head \o status_eligibility_entry \o EligibilityEvidence
  \o FinalizationMatrix \o PolicyAndSuiteVerification \o QualificationDecision
  \o bind_release_lineage
=============================================================================
