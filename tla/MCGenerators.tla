---------------------------- MODULE MCGenerators ----------------------------
(***************************************************************************)
(* Instance of Regeneration: two renderers, the native one built for two   *)
(* platforms; one source of each kind is edited.                           *)
(***************************************************************************)
EXTENDS Regeneration

MCPlatforms(r) == IF r = "native" THEN {"amd64", "arm64"} ELSE {"amd64"}
MCEditable == {Schemas, One("trust-schema"), One("guides")}
(* Interrupted in the middle of the release graph, or after it but before  *)
(* the harness render; among the documents or among the blobs.             *)
MCCrashPoints == {{"policy", "product-release", "status", "head", "lock"},
                  {"harness-render", "release-qualification", "deployment"}}
=============================================================================
