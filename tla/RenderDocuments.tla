-------------------------- MODULE RenderDocuments --------------------------
(***************************************************************************)
(* refresh_renderer_documents and expected_documents of                    *)
(* generate_renderer_digest_fixtures.py: around the release graph, the     *)
(* fixtures of one production render per renderer (selection, manifest,    *)
(* attempt, receipt), the public render of the native renderer, the denial *)
(* fixtures, and the files the generator shares with                       *)
(* refresh_contract_metadata.py.                                           *)
(***************************************************************************)
EXTENDS ReleaseGraph

CONSTANT Native         \* the renderer whose render is published

Harness == One("harness-render")
Only(kind) == <<kind, Native, Primary>>
Manifest(d) == Of("render-manifest", d)

(* The fixtures loaded from the disk and kept: every schema descriptor in  *)
(* them is set from the schema files, signed member or not.                *)
Fixtures ==
  {Release, Distribution, Allowlist, Decision, Matrix, Eligibility, Harness,
   One("input-denial"), One("readiness-report"), One("source-authentication")}
  \cup PerRenderer("capability") \cup AllReleases \cup Subjects("status")
  \cup PerPlatform("qual-selection") \cup On1("selection")
  \cup PerRenderer("render-manifest") \cup PerRenderer("compatibility")
  \cup On1("attempt-auth") \cup On1("execution-auth")
refresh_descriptor == << Bytes("schema", Refs(Fixtures, {Schemas})) >>

StandaloneSigningResult ==
  << Cite("links", Refs({One("signing-result")}, {Policy})),
     Bytes("schema", Refs({One("signing-result")}, {Schemas})) >>

(* The signer evidence is read back from the registered blob of the        *)
(* product release's signature.                                            *)
ProductReleaseSigner ==
  << Bytes("evidence", Refs({One("signer-evidence"), One("signer-identity")}, {Release})) >>

(* Trust policies of positive fixtures are set; a descriptor recorded in   *)
(* one whose blob is not registered gets a blob of its own.  The harness   *)
(* render is the only fixture that still holds descriptors of earlier      *)
(* blocks here: those of the qualification and of the renderer release,    *)
(* which bind_release_lineage leaves alone.                                *)
materialize_positive_authority ==
  << Cite("trust", Refs({Harness} \cup PerRenderer("render-manifest")
                        \cup PerRenderer("input-parameters"), {Policy})),
     Materialize("qualification", Harness :> {Decision}),
     Materialize("renderer", Harness :> {<<"renderer-release", Native, "">>}),
     Materialize("evidence", Harness :> {Only("receipt")}) >>

(* A digest of the document's own other members.                           *)
refresh_selection == << Sign(Refs(On1("selection") \cup {One("input-denial")}, {})) >>

refresh_any_capability == << CoverageDigests >>

(* The effective input of a manifest: its own members and the policies of  *)
(* its skills.  A compatibility result has the digest of the same input    *)
(* and of the capability as it is now; the manifest embeds the result.     *)
ManifestInput(d) == {Policy, Release, Allowlist, Distribution, Renderer(d)}
refresh_manifest_input ==
  << Cite("input", On(PerRenderer("render-manifest"), ManifestInput)) >>

refresh_compatibility ==
  << Cite("input", On(PerRenderer("compatibility"), ManifestInput)),
     Bytes("capability", On(PerRenderer("compatibility"), LAMBDA d : {Of("capability", d)})),
     Bytes("compatibility", On(PerRenderer("render-manifest"), LAMBDA d :
            {Of("compatibility", d)})) >>

-----------------------------------------------------------------------------
(* One production render of every renderer on the primary platform.        *)
AttemptAuthority ==
  << Bytes("links", On(On1("attempt"), LAMBDA d :
            {Beside("selection", d), Of("input-parameters", d)})),
     Bytes("inputs", On(On1("attempt"), LAMBDA d : {Manifest(d)})),
     Cite("checkpoints", On(On1("attempt"), LAMBDA d :
            {Bundle, One("head"), One("head-auth"), Of("head", d), Of("head-auth", d)})) >>

AttemptAuthentication ==
  << Bytes("attempt", On(On1("attempt-auth"), LAMBDA d : {Beside("attempt", d)})) >>
  \o Signed(On1("attempt-auth"))

ExecutionReceipt ==
  << Bytes("attempt", On(On1("receipt"), LAMBDA d :
            {Beside("attempt", d), Beside("attempt-auth", d), Beside("selection", d)})),
     Bytes("manifest", On(On1("receipt"), LAMBDA d : {Manifest(d)})) >>

ExecutionAuthentication ==
  << Bytes("receipt", On(On1("execution-auth"), LAMBDA d :
            {Beside("receipt", d), Beside("attempt", d), Beside("selection", d)})) >>
  \o Signed(On1("execution-auth"))
  \o << Seal(On1("selection") \cup On1("attempt") \cup On1("attempt-auth") \cup On1("receipt")
             \cup On1("execution-auth") \cup PerRenderer("render-manifest")) >>

-----------------------------------------------------------------------------
(* The publication of the native render.                                   *)
PublicSourceAuthentication ==
  << Bytes("schema", Refs({One("source-auth"), One("skill-auth")}, {Schemas})),
     Cite("links", Refs({One("source-auth"), One("skill-auth")}, {Policy})) >>
  \o Signed({One("source-auth"), One("skill-auth")})
  \o Sealed({One("source-auth"), One("skill-auth")})

Published(kind) == {One(kind), <<kind, Native, "">>}

(* Fresh heads again, chained to those of the qualification.               *)
PublicFinalizationHeads ==
  current_status_head("public-head", CurrentStatus(Published("")), Chained("final-head", Published("")))

public_status_entry ==
  LET Verified(kind, result) ==
        verify_subject(On(Published(result), LAMBDA d : {Of(kind, d), Policy}))
  IN Verified("status", "public-status-verification")
     \o Verified("public-head", "public-head-verification")
     \o Verified("public-head-inclusion", "public-inclusion-verification")

PublicEligibility ==
  LET e == One("public-eligibility")
      parts == {"status", "public-head", "public-head-auth", "public-head-inclusion"}
      results == {"public-status-verification", "public-head-verification",
                  "public-inclusion-verification"}
  IN << Bytes("entries", Refs({e}, UNION {Published(k) : k \in parts})) >>
     \o Author(Refs({e}, UNION {Published(k) : k \in parts \cup results} \cup {One("pin-set")}))
     \o Signed({e}) \o Sealed({e})
     \o verify_subject(One("public-eligibility-verification") :> {e, Policy})

(* The harness render is emptied and written again from the selection, the *)
(* manifest and the descriptors captured above.                            *)
HarnessRender ==
  << Bytes("schema", Refs({Harness}, {Schemas})),
     Cite("lineage", Refs({Harness}, {Release, Distribution, Allowlist})),
     Cite("qualification", Refs({Harness}, {Decision})),
     Cite("renderer", Refs({Harness}, {<<"renderer-release", Native, "">>})),
     Cite("trust", Refs({Harness}, {Policy})),
     Cite("evidence", Refs({Harness},
            {Only(k) : k \in {"selection", "attempt", "attempt-auth", "receipt", "execution-auth"}}
            \cup {<<"render-manifest", Native, "">>, One("source-auth"), One("skill-auth"),
                  One("public-eligibility"), One("public-eligibility-verification")})) >>
  \o Signed({Harness}) \o Sealed({Harness})

(* The OCI image of the render holds the bytes of all of them.             *)
Publication ==
  << Bytes("layers", Refs({One("publication")},
            {Only(k) : k \in {"selection", "attempt", "attempt-auth", "receipt", "execution-auth"}}
            \cup {<<"render-manifest", Native, "">>, One("source-auth"), One("skill-auth"),
                  One("public-eligibility"), Harness})) >>

-----------------------------------------------------------------------------
(* Fixtures that repeat a generated document, whole or with one defect.    *)
build_release_status_append_resolution ==
  << Bytes("append", One("append-resolution") :> {One("status-1"), Schemas}) >>

canonicalize_indexed_provider_audit_fixtures ==
  << Copy(One("source-authentication") :> {One("source-auth")}),
     Copy(One("private-subject") :> {One("skill-auth")}) >>
  \o build_release_status_append_resolution

RENDERER_CLOSED_SCHEMA_DENIAL_SOURCES ==
  {Distribution, Release, Decision, QualificationPolicy, Suite, One("head-initial"),
   One("head-initial-auth"), One("head-initial-inclusion"), One("log-proof"), One("status-1"),
   One("evidence"), One("predicate"), One("signer-evidence"), One("signer-identity")}
  \cup {Only(k) : k \in {"attempt", "attempt-auth", "execution-auth", "qual-selection",
                         "qual-attempt", "qual-attempt-auth", "tree", "qual-receipt",
                         "qual-receipt-auth"}}
Denial(d) == <<"denial:" \o d[1], d[2], d[3]>>
materialize_renderer_closed_schema_denials ==
  << Copy([n \in {Denial(d) : d \in RENDERER_CLOSED_SCHEMA_DENIAL_SOURCES} |->
             {d \in RENDERER_CLOSED_SCHEMA_DENIAL_SOURCES : Denial(d) = n}]) >>
UnknownAuthorityDenials ==
  << Copy(One("denial:allowlist") :> {Allowlist}),
     Copy(One("denial:policy") :> {One("policy-fixture")}) >>

refresh_renderer_documents ==
  refresh_descriptor \o refresh_release_graph(Native)
  \o StandaloneSigningResult \o ProductReleaseSigner \o materialize_positive_authority
  \o refresh_selection \o refresh_any_capability \o refresh_manifest_input
  \o refresh_compatibility
  \o AttemptAuthority \o AttemptAuthentication \o ExecutionReceipt \o ExecutionAuthentication
  \o PublicSourceAuthentication \o PublicFinalizationHeads \o public_status_entry
  \o PublicEligibility \o HarnessRender \o Publication
  \o canonicalize_indexed_provider_audit_fixtures
  \o materialize_renderer_closed_schema_denials

(* The catalogue of cases embeds the pin set, the publication and the      *)
(* vectors that replay every verification of a signature.                  *)
CaseCatalog ==
  << Bytes("authority", One("cases") :> {One("pin-set"), One("publication")}),
     Cite("allowlist", One("cases") :> {Allowlist}),
     Bytes("vectors", One("cases") :>
       ({Release, Distribution, QualificationPolicy, Eligibility, Decision, Harness,
         One("keyless-vector"), One("public-eligibility")}
        \cup AllReleases \cup Subjects("status"))) >>

(* Of the inventory only the managed schemas' entries are set, of the      *)
(* documentation map only the entry of the renderer identity standard.     *)
SharedFiles ==
  << Project("managed", One("inventory") :> {Schemas}),
     Project("identity", One("map") :> {One("identity")}) >>

renderer_steps ==
  refresh_renderer_documents \o UnknownAuthorityDenials \o CaseCatalog \o SharedFiles

(* What the renderer generator reads besides its own outputs.              *)
RendererSources ==
  {Schemas, One("trust-schema"), One("openapi"), One("index"), One("inventory"), One("map"),
   One("identity"), One("readiness-report")} \cup PerRenderer("input-parameters")
=============================================================================
