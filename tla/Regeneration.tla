---------------------------- MODULE Regeneration ----------------------------
(***************************************************************************)
(* The checked-in fixtures and the three commands that regenerate them:    *)
(* refresh_contract_metadata.py, generate_renderer_digest_fixtures.py and  *)
(* generate_private_compilation_graph_fixtures.py.  Each command reads the *)
(* disk, computes every output, compares them with the disk and either     *)
(* reports the difference (check) or removes it (write).  Sources are      *)
(* edited between runs, and a run may be interrupted between two writes.   *)
(***************************************************************************)
EXTENDS PrivateFixtures, FiniteSets

CONSTANTS Editable,     \* the sources somebody edits
          MaxEdits,     \* bound on edits
          MaxCrashes,   \* bound on interrupted runs
          MaxRuns,      \* bound on the completed runs remembered in `runs`
          CrashPoints   \* sets of kinds of documents or blobs written before an interruption

VARIABLES disk,     \* docs: the files; blobs: the blob directory of each generator
          edition,  \* source |-> its current edition
          runs,     \* since the last edit or interruption: the first metadata run
                    \* and the generators run after it, at most MaxRuns
          last,     \* the command whose run was completed by the last step
          crashes,
          green     \* the commands whose check accepts the disk
vars == <<disk, edition, runs, last, crashes, green>>

Tools == {"metadata", "renderer", "private"}
Sources == (RendererSources \ {One("inventory"), One("map"), One("readiness-report")})
           \cup {One("guides")}

-----------------------------------------------------------------------------
(* refresh_contract_metadata.py: the inventory of all schemas, the schema  *)
(* digests of the API projections and of the event registry, the schema    *)
(* descriptor at the root of every indexed fixture, signed or not, and the *)
(* documentation map.                                                      *)
Indexed ==
  (Fixtures \cup {One("source-authentication"), One("pin-set"), Suite, QualificationPolicy,
                  One("log-proof"), One("status-1"), One("head-initial"), One("signing-result"),
                  Lock, Authority, PrivateManifest}
   \cup {One(k) : k \in {"authentication-bundle", "deployment", "compilation-evidence",
                         "runtime-release", "activation-authorization"}})

expected_schema_inventory ==
  << Project("managed", One("inventory") :> {Schemas}),
     Project("other", One("inventory") :> {One("trust-schema")}) >>
refresh_indexed_fixtures(docs) ==
  << Bytes("schema", Refs(Indexed \cap DOMAIN docs, {Schemas})) >>
refresh_projection_components == << Project("schema", One("openapi") :> {Schemas}) >>
refresh_event_registry == << Project("schema", One("events") :> {Schemas}) >>
refresh_event_examples == << Project("schema", One("event-examples") :> {Schemas}) >>
refresh_documentation_map ==
  << Project("identity", One("map") :> {One("identity")}),
     Project("guides", One("map") :> {One("guides")}) >>

metadata_steps(docs) ==
  expected_schema_inventory \o refresh_indexed_fixtures(docs) \o refresh_projection_components
  \o refresh_event_registry \o refresh_event_examples \o refresh_documentation_map

Memory(docs) == [docs |-> docs, seal |-> << >>, cas |-> {}]
PrivateOwned(docs) == PrivateOutputs \cap DOMAIN docs
(* The files the renderer generator loads: all but the private generator's.*)
Loaded(docs) == [d \in DOMAIN docs \ PrivateOutputs |-> docs[d]]

(* What a command's outputs would be: memory at the end of its run.        *)
expected_documents(docs) == Execute(Memory(Loaded(docs)), renderer_steps)
build_refresh_plan(docs) == Execute(Memory(docs), metadata_steps(docs))

(* Mutant: the renderer's documents are read from the disk.                *)
build_graph_of_disk(docs, renderer) ==
  Execute([docs |-> docs @@ renderer.docs, seal |-> renderer.seal, cas |-> {}], private_steps)

(* The private generator runs the renderer's in memory, on the same disk,  *)
(* and loads three documents of its own.                                   *)
build_graph(docs, renderer) ==
  LET own == {Lock, PrivateManifest, Authority} \cap DOMAIN docs
  IN Execute([docs |-> [d \in own |-> docs[d]] @@ renderer.docs,
              seal |-> renderer.seal, cas |-> {}], private_steps)

(* Mutant: the generators have one blob directory.                         *)
WrittenTogether(tool, d, result) ==
  [docs |-> result.docs @@ d.docs,
   blobs |-> IF tool = "metadata" THEN d.blobs ELSE [t \in Tools |-> result.cas]]

(* What the disk holds once a command has written its outputs and unlinked *)
(* the blobs it did not expect.                                            *)
Written(tool, d, result) ==
  [docs |-> result.docs @@ d.docs, blobs |-> [d.blobs EXCEPT ![tool] = result.cas]]

Result(tool, docs) ==
  CASE tool = "metadata" -> build_refresh_plan(docs)
    [] tool = "renderer" -> expected_documents(docs)
    [] tool = "private" ->
         LET graph == build_graph(docs, expected_documents(docs))
         IN [graph EXCEPT !.docs = [d \in PrivateOutputs |-> @[d]]]

(* Mutant: a check compares documents only.                                *)
GreenDocuments(d) == {tool \in Tools : Written(tool, d, Result(tool, d.docs)).docs = d.docs}

(* A check reports a drift of a document or of the blob directory.         *)
Green(d) == {tool \in Tools : Written(tool, d, Result(tool, d.docs)) = d}

(* What a command writes after its blobs.                                  *)
Trailing(tool) ==
  IF tool = "renderer" THEN <<One("cases"), One("inventory"), One("map")>> ELSE << >>

(* The disk with some of a run's documents replaced and some of its blobs  *)
(* added.                                                                  *)
PartlyWritten(tool, d, result, docs, blobs) ==
  [docs |-> [e \in docs |-> result.docs[e]] @@ d.docs,
   blobs |-> [d.blobs EXCEPT ![tool] = @ \cup blobs]]

(* An interrupted write: some documents, or every one that precedes the    *)
(* blobs and some blobs, or all blobs and the first of the files that      *)
(* follow; the old blobs are not unlinked yet.                             *)
InterruptedWrites(tool, d, result) ==
  LET trailing == Trailing(tool)
      First(n) == {trailing[i] : i \in 1..n}
      leading == DOMAIN result.docs \ First(Len(trailing))
      DocsOf(kinds) == {e \in leading : e[1] \in kinds}
      BlobsOf(kinds) == {b \in result.cas : b[1][1] \in kinds}
  IN {PartlyWritten(tool, d, result, DocsOf(kinds), {}) : kinds \in CrashPoints}
     \cup {PartlyWritten(tool, d, result, leading, BlobsOf(kinds)) : kinds \in CrashPoints}
     \cup {PartlyWritten(tool, d, result, leading \cup First(n), result.cas) :
              n \in 0..Len(trailing)}

-----------------------------------------------------------------------------
Source(s, e) == "text" :> {<<s, e, s>>}
Blank == [docs |-> [s \in Sources |-> Source(s, 0)], blobs |-> [t \in Tools |-> {}]]

(* The disk as it is checked in: every command accepts it.                 *)
CheckedIn ==
  FoldLeft(LAMBDA d, tool : Written(tool, d, Result(tool, d.docs)), Blank,
           <<"metadata", "renderer", "metadata", "renderer", "renderer", "private">>)

Init == /\ disk \in {CheckedIn}
        /\ edition = [s \in Sources |-> 0]
        /\ runs = << >>
        /\ last = ""
        /\ crashes = 0
        /\ green = Green(disk)

Edits == FoldFunction(+, 0, edition)
Become(disks) == \E d \in disks : disk' = d /\ green' = Green(d)

Edit(s) ==
  /\ Edits < MaxEdits
  /\ edition' = [edition EXCEPT ![s] = @ + 1]
  /\ Become({[disk EXCEPT !.docs[s] = Source(s, edition[s] + 1) @@ @]})
  /\ runs' = << >>
  /\ last' = ""
  /\ UNCHANGED crashes

Write(tool) ==
  /\ Become({Written(tool, disk, Result(tool, disk.docs))})
  /\ runs' = IF (runs = << >>) = (tool = "metadata") /\ Len(runs) < MaxRuns
             THEN Append(runs, tool) ELSE runs
  /\ last' = tool
  /\ UNCHANGED <<edition, crashes>>

Interrupt(tool) ==
  /\ crashes < MaxCrashes
  /\ Become(UNION {InterruptedWrites(tool, disk, result) : result \in {Result(tool, disk.docs)}})
  /\ crashes' = crashes + 1
  /\ runs' = << >>
  /\ last' = ""
  /\ UNCHANGED edition

Next == \/ \E s \in Editable : Edit(s)
        \/ \E tool \in Tools : Write(tool) \/ Interrupt(tool)

(* Whoever finds a check red runs that command again: weak fairness of     *)
(* Write(tool) when red, with "enabled" and "taken" spelled out (a run     *)
(* that is red always changes the disk, and only a run sets `last`).       *)
Rerun(tool) == []<>(tool \in green) \/ []<><<last' = tool>>_vars
Spec == Init /\ [][Next]_vars /\ \A tool \in Tools : Rerun(tool)

-----------------------------------------------------------------------------
Settled == green = Tools

(* When all three checks accept, no document and no blob holds a trace of  *)
(* an edition that has been replaced: neither a half-written run nor a     *)
(* projection nobody refreshed can hide behind green checks.               *)
AcceptedIsCurrent ==
  Settled =>
    \A x \in UNION {Content(disk.docs, d) : d \in DOMAIN disk.docs}
             \cup UNION {b[2] : b \in UNION {disk.blobs[t] : t \in Tools}} :
      x[2] = edition[x[1]]

Body(m, d) == UNION {m.docs[d][p] : p \in DOMAIN m.docs[d] \ {"signature"}}
SignedUnder(m) == UNION {Content(m.docs, e) : e \in {Schemas, Policy, ConsumerPolicy}}

(* Whatever is on the disk when a generator starts, every descriptor it    *)
(* computes describes the document as it is at the end of the run, and     *)
(* every signature covers the rest of its document as it is then and, of   *)
(* other documents, the policies and schemas it was made under: nothing is *)
(* rewritten after it was described or signed.                             *)
AuthorityIsFinal ==
  LET renderer == expected_documents(disk.docs)
  IN \A m \in {renderer, build_graph(disk.docs, renderer)} :
       /\ \A d \in DOMAIN m.seal : m.seal[d] = Content(m.docs, d)
       /\ \A d \in DOMAIN m.docs : "signature" \in DOMAIN m.docs[d] =>
            /\ Body(m, d) \subseteq m.docs[d]["signature"]
            /\ m.docs[d]["signature"] \subseteq Body(m, d) \cup SignedUnder(m)

Ran(order) == \E at \in [DOMAIN order -> DOMAIN runs] :
  /\ \A i, j \in DOMAIN order : i < j => at[i] < at[j]
  /\ \A i \in DOMAIN order : runs[at[i]] = order[i]

(* The private generator does not need the renderer's files to be current: *)
(* after the metadata and then the private generator have run, its check   *)
(* accepts, whether and whenever the renderer generator runs.              *)
PrivateNeedsNoRenderer ==
  Ran(<<"metadata", "private">>) => "private" \in green

(* Two runs of the renderer generator after the metadata are enough, from  *)
(* any disk that edits and interrupted runs leave behind.                  *)
RendererSettlesInTwo ==
  Ran(<<"metadata", "renderer", "renderer">>) => "renderer" \in green

(* Once edits stop, rerunning the commands whose checks fail ends: no two  *)
(* commands undo each other's output for ever.                             *)
Converges == <>[](Settled)

(* What the private generator's comment promises: one coordinated          *)
(* generation, metadata then renderer then private, is a fixed point.      *)
CoordinatedFixedPoint ==
  Ran(<<"metadata", "renderer", "private">>) => Settled
=============================================================================
