-------------------------- MODULE PrivateFixtures --------------------------
(***************************************************************************)
(* build_graph of generate_private_compilation_graph_fixtures.py: a        *)
(* consumer's private compilation built on the renderer's fixtures.  The   *)
(* generator first runs the renderer generator in memory and takes the     *)
(* renderer's documents from that run, not from the disk; only its own     *)
(* three documents are loaded from the disk.                               *)
(***************************************************************************)
EXTENDS RenderDocuments

CONSTANT Hosted         \* the renderer the consumer compiles for

Lock == One("lock")                     \* the private compilation input
PrivateManifest == One("private-manifest")
Authority == One("authority")
ConsumerPolicy == One("consumer-policy")
ConsumerPins == One("consumer-pins")
HostedSelection == <<"selection", Hosted, Primary>>
Hosting(kind) == {One(kind), <<kind, Hosted, "">>}

(* A consumer document: its schema is read from the file.                  *)
Compose(cited) == << Bytes("schema", Refs(DOMAIN cited, {Schemas})),
                     Cite("links", [d \in DOMAIN cited |-> cited[d] \cup {ConsumerPolicy}]) >>
SignedByConsumer(D) == << Sign(Refs(D, {Schemas, ConsumerPolicy})) >>
(* A document and its twin for the second subject.                         *)
PerSubject(kinds) == {One(k) : k \in kinds} \cup {One(k \o "-2") : k \in kinds}

-----------------------------------------------------------------------------
(* The renderer's prospective outputs and the policies pinned in them.     *)
import_renderer_policy == Import({Policy, BundlePolicy})

(* The lock freezes the selection; its digests of consumer policies are    *)
(* opaque.                                                                 *)
LockInputs ==
  << Bytes("schema", Refs({Lock, Authority}, {Schemas})),
     Bytes("selection", Lock :> {HostedSelection}) >>

trust_policy(D) == << Bytes("text", Refs(D, {One("trust-schema")})), Seal(D) >>
ConsumerPolicies == trust_policy({ConsumerPolicy})

pin_set_provider_binding ==
  Compose(ConsumerPins :> {}) \o Sealed({ConsumerPins}) \o Import({One("pin-set")})

(* Importing the public render imports every descriptor inside it.         *)
PublicRenderImport ==
  Import({Harness, Release, Decision, Distribution, Allowlist, One("source-auth"),
          One("skill-auth"), One("public-eligibility"), <<"render-manifest", Native, "">>}
         \cup {Only(k) : k \in {"selection", "attempt", "attempt-auth", "receipt",
                                "execution-auth"}})

skill_package == Compose(One("private-skill") :> {}) \o Sealed({One("private-skill")})

BindingAndCandidate ==
  Compose((One("binding") :> {<<"renderer-release", Hosted, "">>}) @@ (One("candidate") :> {}))
  \o Sealed({One("binding"), One("candidate")})

SkillApprovals ==
  Compose(One("approvals") :> {One("private-skill"), Harness}) \o Sealed({One("approvals")})

LockArtifacts ==
  << Cite("artifacts", Lock :> {One("candidate"), One("binding"), Harness, Bundle,
                                One("private-skill"), One("approvals")}),
     Bytes("inputs", PrivateManifest :> {One("binding")}) >>

(* Statuses and checkpoints of the selection, by descriptor; the earlier   *)
(* product statuses by name, described again.                              *)
StatusImport ==
  Import(Hosting("status") \cup Hosting("head") \cup Hosting("head-auth"))
  \o << Seal({One("status-1"), One("status-2")}) >>

(* Fresh heads for the compilation, chained to those of the selection.     *)
CompilationHeads ==
  current_status_head("compile-head", CurrentStatus(Hosting("")), Chained("head", Hosting("")))

permitted_signature_verification(kind, result, policy) ==
  verify_subject(On(Hosting(result), LAMBDA d : {Of(kind, d), policy}))

(* One entry: status, checkpoint and inclusion proof, each verified.       *)
status_entry(head) ==
  permitted_signature_verification("status", head \o "-status-result", Policy)
  \o permitted_signature_verification(head, head \o "-result", Policy)
  \o permitted_signature_verification(head \o "-inclusion", head \o "-inclusion-result", Policy)

(* The consumer's signed eligibility over the entries.                     *)
ConsumerEligibility(evidence, head) ==
  LET parts == {"status", head, head \o "-auth", head \o "-inclusion"}
      results == {head \o "-status-result", head \o "-result", head \o "-inclusion-result"}
  IN << Bytes("entries", evidence :> UNION {Hosting(k) : k \in parts}) >>
     \o Compose(evidence :> (UNION {Hosting(k) : k \in parts \cup results}
                             \cup {ConsumerPins, One("pin-set")}))
     \o SignedByConsumer({evidence}) \o Sealed({evidence})

CompilationEligibility ==
  status_entry("compile-head") \o ConsumerEligibility(One("compile-eligibility"), "compile-head")
  \o << Cite("eligibility", Lock :> {One("compile-eligibility"), ConsumerPins}) >>

(* The authority authorises the digest of the lock's inputs as they are    *)
(* before the authority and the authentication bundle are cited in it.     *)
AuthorizedInput ==
  << Bytes("authorized", Lock :> {One("binding"), One("candidate"), One("compile-eligibility"),
                                  HostedSelection}),
     Bytes("authorized", Authority :> {One("binding"), One("candidate"), One("compile-eligibility"),
                                       HostedSelection}),
     Cite("links", Authority :> {ConsumerPolicy, One("binding"), One("candidate")}),
     Seal({Authority}) >>

(* One signed referrer per input; that of a public subject is the one in   *)
(* its authentication evidence.                                            *)
AuthenticationBundle ==
  LET b == One("authentication-bundle")
      inputs == {One("private-skill"), One("binding"), One("candidate"), One("approvals"), Authority}
  IN Compose(One("input-signatures") :> (inputs \cup {Policy, ConsumerPins}))
     \o Sealed({One("input-signatures")})
     \o << Bytes("public", b :> {One("source-auth"), One("skill-auth")}) >>
     \o Compose(b :> (inputs \cup {One("input-signatures")})) \o Sealed({b})

LockDigest ==
  << Cite("authority", Lock :> {Authority, One("authentication-bundle")}) >>

(* The private manifest is bound to the selection and the capability.      *)
refresh_private_manifest ==
  << Bytes("schema", PrivateManifest :> {Schemas}),
     Bytes("inputs", PrivateManifest :> {One("binding"), <<"capability", Hosted, "">>}),
     Cite("lineage", PrivateManifest :> {Release, Distribution, Allowlist,
                                         <<"renderer-release", Hosted, "">>}) >>

PrivateAttempt ==
  << Bytes("schema", Refs({One("attempt"), One("attempt-auth")}, {Schemas})),
     Bytes("selection", One("attempt") :> {HostedSelection, PrivateManifest, One("binding")}),
     Cite("links", One("attempt") :> (Hosting("head") \cup Hosting("head-auth") \cup {Bundle})),
     Bytes("attempt", One("attempt-auth") :> {One("attempt")}) >>
  \o Signed({One("attempt-auth")})

PrivateReceipt ==
  << Bytes("schema", Refs({One("receipt"), One("execution-auth")}, {Schemas})),
     Bytes("attempt", One("receipt") :> {One("attempt"), One("attempt-auth"), HostedSelection,
                                         PrivateManifest}),
     Cite("links", One("receipt") :> {Release, Decision, Bundle, Distribution, Allowlist}),
     Bytes("receipt", One("execution-auth") :> {One("receipt"), One("attempt"), HostedSelection}) >>
  \o Signed({One("execution-auth")})

(* The lock is final: it is described and the description signed.          *)
LockSigning ==
  Sealed({Lock}) \o Compose(One("lock-signature") :> {Lock, ConsumerPins})

Deployment ==
  << Bytes("execution", One("deployment") :> {One("attempt"), One("attempt-auth"), One("receipt"),
              One("execution-auth"), PrivateManifest, One("lock-signature")}) >>
  \o Compose(One("deployment") :> {Lock, Authority, One("candidate"), One("binding"), Harness,
              One("approvals"), One("compile-eligibility"), Release,
              <<"renderer-release", Hosted, "">>, ConsumerPins})
  \o Sealed({One("deployment")})
  \o Compose(One("deployment-signature") :> {One("deployment"), ConsumerPins})

-----------------------------------------------------------------------------
(* Two subjects are deployed: the second deployment and its evidence       *)
(* repeat the first with another subject, described and signed again.      *)
CompilationEvidence ==
  Compose(One("compilation-evidence") :> {Lock, One("deployment"), One("deployment-signature"),
            One("compile-eligibility"), ConsumerPins, Distribution})
  \o << Bytes("execution", One("compilation-evidence") :> {One("attempt"), One("attempt-auth"),
            One("receipt"), One("execution-auth"), PrivateManifest}) >>
  \o SignedByConsumer({One("compilation-evidence")}) \o Sealed({One("compilation-evidence")})

SecondDeployment ==
  << Copy(One("deployment-2") :> {One("deployment")}) >> \o Sealed({One("deployment-2")})
  \o Compose(One("deployment-2-signature") :> {One("deployment-2"), ConsumerPins})
  \o << Copy(One("compilation-evidence-2") :> {One("compilation-evidence")}),
        Cite("deployment", One("compilation-evidence-2") :>
               {One("deployment-2"), One("deployment-2-signature")}) >>
  \o SignedByConsumer({One("compilation-evidence-2")}) \o Sealed({One("compilation-evidence-2")})

RuntimeRelease ==
  Compose(One("runtime-release") :> {One("candidate"), One("compile-eligibility"), ConsumerPins,
            One("deployment"), One("compilation-evidence"),
            One("deployment-2"), One("compilation-evidence-2")})
  \o SignedByConsumer({One("runtime-release")}) \o Sealed({One("runtime-release")})

-----------------------------------------------------------------------------
(* Activation: heads chained to those of the compilation, an eligibility   *)
(* over them, and the host's own verification of it at the time of use.    *)
ActivationEligibility ==
  current_status_head("activation-head", CurrentStatus(Hosting("")),
                      Chained("compile-head", Hosting("")))
  \o status_entry("activation-head")
  \o ConsumerEligibility(One("activation-eligibility"), "activation-head")
  \o verify_subject(One("activation-verification") :>
                    {One("activation-eligibility"), ConsumerPolicy})

host_use_time_status_verification_digests ==
  permitted_signature_verification("status", "host-status-result", Policy)
  \o permitted_signature_verification("activation-head", "host-head-result", Policy)
  \o permitted_signature_verification("activation-head-inclusion", "host-inclusion-result", Policy)

HostVerification ==
  verify_subject(One("host-signature-result") :> {One("activation-eligibility"), ConsumerPolicy})
  \o verify_subject(One("host-verification") :>
       {One("activation-eligibility"), One("host-signature-result")}
       \cup UNION {Hosting(k) : k \in {"host-status-result", "host-head-result",
                                       "host-inclusion-result"}})

consumer_platform_evidence_policy ==
  Sealed({One("host-evidence-policy"), One("decision-policy")})

(* The authority of the activation succeeds that of the compilation.       *)
SubjectEvidence ==
  << Copy(Refs({One("activation-authority"), One("activation-authority-2")}, {Authority})),
     Cite("predecessor", Refs({One("activation-authority"), One("activation-authority-2")},
                              {Authority})) >>
  \o Sealed({One("activation-authority"), One("activation-authority-2")})
  \o Compose((One("candidate-ready") :> {One("runtime-release"), One("candidate"),
                One("deployment"), One("activation-authority"), One("host-evidence-policy")})
             @@ (One("candidate-ready-2") :> {One("runtime-release"), One("candidate"),
                One("deployment-2"), One("activation-authority-2"), One("host-evidence-policy")})
             @@ (One("decision-proof") :> {One("runtime-release"), One("candidate"),
                One("deployment"), One("decision-policy")})
             @@ (One("decision-proof-2") :> {One("runtime-release"), One("candidate"),
                One("deployment-2"), One("decision-policy")}))
  \o Sealed(PerSubject({"candidate-ready", "decision-proof"}))

consumer_platform_verification_digest ==
  LET Verified(result, kinds) ==
        verify_subject(On({<<result, k, "">> : k \in kinds}, LAMBDA d : {One(d[2])}))
  IN Verified("platform-result", {"activation-authority", "candidate-ready", "decision-proof"})
     \o Verified("platform-result-2",
                 {"activation-authority-2", "candidate-ready-2", "decision-proof-2"})

ActivationAuthorization ==
  Compose(One("activation-authorization") :>
            ({One("runtime-release"), One("activation-eligibility"),
              One("activation-verification"), ConsumerPins}
             \cup PerSubject({"activation-authority", "candidate-ready", "decision-proof"})
             \cup {<<"platform-result", k, "">> :
                     k \in {"activation-authority", "candidate-ready", "decision-proof"}}
             \cup {<<"platform-result-2", k, "">> :
                     k \in {"activation-authority-2", "candidate-ready-2", "decision-proof-2"}}))
  \o SignedByConsumer({One("activation-authorization")})
  \o Sealed({One("activation-authorization")})

(* Fixtures with one defect, and the result the manifest embeds.           *)
PrivateDenials ==
  LET Denied(kind, of) == Copy(One(kind) :> {of})
  IN << Denied("authorization-unknown", One("activation-authorization")),
        Denied("deployment-unknown", One("deployment")),
        Denied("deployment-runtime-backlink", One("deployment")),
        Cite("backlink", One("deployment-runtime-backlink") :> {One("runtime-release")}),
        Denied("deployment-evidence-backlink", One("deployment")),
        Denied("evidence-backlink", One("compilation-evidence")),
        Cite("backlink", Refs({One("deployment-evidence-backlink"), One("evidence-backlink")},
                              {One("compilation-evidence")})),
        Denied("runtime-unknown", One("runtime-release")),
        Denied("bundle-unknown", One("authentication-bundle")),
        Copy(One("private-compatibility") :> {PrivateManifest}) >>

(* The catalogue lists every artifact and every blob.                      *)
PrivateCases ==
  << Cite("artifacts", One("private-cases") :>
            {Lock, One("deployment"), One("compilation-evidence"), One("runtime-release"),
             One("activation-authorization"), One("activation-eligibility"),
             One("host-verification"), Authority, One("authentication-bundle"), ConsumerPins,
             One("pin-set")}) >>

private_steps ==
  import_renderer_policy \o LockInputs \o ConsumerPolicies \o pin_set_provider_binding
  \o PublicRenderImport \o skill_package \o BindingAndCandidate \o SkillApprovals
  \o LockArtifacts \o StatusImport \o CompilationHeads \o CompilationEligibility
  \o AuthorizedInput \o AuthenticationBundle \o LockDigest \o refresh_private_manifest
  \o PrivateAttempt \o PrivateReceipt \o LockSigning \o Deployment
  \o CompilationEvidence \o SecondDeployment \o RuntimeRelease
  \o ActivationEligibility \o host_use_time_status_verification_digests \o HostVerification
  \o consumer_platform_evidence_policy \o SubjectEvidence
  \o consumer_platform_verification_digest \o ActivationAuthorization
  \o PrivateDenials \o PrivateCases

PrivateOutputs ==
  {Lock, Authority, PrivateManifest} \cup
  {One(k) : k \in {"authentication-bundle", "private-compatibility", "deployment",
     "compilation-evidence", "runtime-release", "activation-authorization",
     "authorization-unknown", "deployment-unknown", "deployment-evidence-backlink",
     "deployment-runtime-backlink", "evidence-backlink", "bundle-unknown", "runtime-unknown",
     "private-cases"}}
=============================================================================
