# A verification development for bytedesk-agent-delivery

TLA+ modules that model the parts of this repository whose correctness depends on the order in which
things happen, TLC configurations that check them on small instances, and TLAPS proofs of the safety
properties that matter most for every instance.

Run everything from this directory: `tlc -workers 2 -config X.cfg M` for a run of the table below,
`tlapm M_proofs.tla` for a proof module. On two cores `coordinator`, `status`, `generators` and
`release` take one to two minutes each, `operations` and `records` under one; the other runs end
within seconds.

## 1. Inventory: the system and its parts

The repository is the open-source side of a delivery system for agents. A *consumer* asks for a
desired state of a *target*; the promotion coordinator decides whether an update may advance, the
canary verifier whether its rollout may; the host reconciler makes the target run a signed release;
source changes arrive as SCM webhooks. Releases are contract bundles that are evaluated, signed and
verified by the tools under `scripts/contracts`; the same directory holds the generators of the
signed fixtures that specify all documents by example. The code that keeps state across calls is
small and has many actors around it; the tools keep theirs in files that others replace meanwhile.

| Part (source) | State | Operations | Interacts with | Hard because | Correct when |
|---|---|---|---|---|---|
| Desired-state store (`internal/desiredstate/store.go`) | map from (consumer, target) to revision, digest, payload; one mutex; memory only | `Read`, `CompareAndSwap` | API and Coordinator hold the same `*Store` | racing writers, a document that comes back, restart | one logical revision per key; no lost update, no ABA |
| HTTP surface (`internal/api`) | none of its own | GET, PUT with `If-Match` / `If-None-Match` | store; clients over a network | a refused PUT takes the lock twice; timeouts, resends | answers are true; nobody overwrites a version it has not seen; contenders get through |
| Promotion coordinator (`internal/promotion`) | none; each caller carries its `Classification` | `Read`, `ClassifyUpdate`, `Promote` | store; humans approve | check in one call, act in another | only compatible or approved updates advance, on the state they were judged on |
| Canary verifier (`internal/canary/verifier.go`) | none; three documents and two proofs per call | `VerifyPromotion` | host, the consumer's capability verifier, whoever collects the evidence | evidence of another plan, dispatch or state of the facts, late, edited or signed by someone else in the actor's name | what a promotion is verified with happened, for this plan, under these facts, and was signed by whom the plan expects |
| Host switch journal (`internal/hostreconciler`) | per target one entry, active or recovery_required | `Activate`, `MarkPostSwitchFailure`, `RecoverTo` | attempts of the reconciler, arbitrarily late | duplicates, late reports, long call sequences | failure reports are fenced; repeats converge; recovery changes the release |
| SCM inbox (`internal/scmintake/inbox.go`) | one receipt per (provider, deliveryId) | `Receive` | webhook senders, at least once | copies, lost answers, replays with other bytes | new at most once; one payload per deliveryId |
| File and skill operations (`internal/operations/operations.go`) | working copy, folded-path index, seen targets | add / replace / remove in a loop | caller's tree | an index maintained by increments, preconditions on a changing copy, an error half-way | atomic, order-independent, never an illegal tree |
| JSON patch, rebase (`internal/operations`) | one or two working documents | patch operations, three-way stability | coordinator, whose classification depends on a conflict | a conflict hidden by an earlier operation; array-index edges; a document that outgrows the parser's limits | only the place named changes; a rebase is the proposed source plus the delta; conflicts are real and none is hidden |
| Status head and Merkle log (`scripts/contracts/status_head_authority.py`, `status_merkle.py`; `validate_status_head_binding` in `test_renderer_digests.py`) | authority: the log of a subject; consumer: the head it accepted last | `refresh`; validation of an answer | one another, over a network; the log's storage | answers that are late, doubled or of another operation; an authority that lost its latest statuses; tree arithmetic at odd sizes | a consumer never goes back or changes to a fork, forks alone are refused, no stale head is used |
| Replay ledger (`consume_replay_ledger` in `scripts/contracts/verify_bundle.py`) | an append-only file under a lock | one entry per verification | other verifications, an operator who moves the file away | the file locked need not be the file the path names; crashes between two writes | a request is used once; what was reported stays on disk |
| Atomic writer and stable reader (`scripts/contracts/contractlib.py`) | an output path, temporary files | `atomic_write`, `stable_read_bytes`, `stable_file_digest` | every tool; editors | crashes between write, sync and rename; a reader among writers | the path is never torn; reports stay true; a read is of one content |
| Release evidence, signing request, bundle verification (`create_test_release_evidence.py`, `release_evidence.py`, `create_signing_request.py`, `verify_bundle.py`) | bundle, evidence tree, request, signature, two outputs: all files | evaluate, publish, request, sign, verify | one another through the files, read one at a time | the release is prepared again while it is verified | what passes is one signed release with its own evidence |
| Fixture generators (`refresh_contract_metadata.py`, `generate_renderer_digest_fixtures.py`, `generate_private_compilation_graph_fixtures.py`) | the checked-in fixtures and two blob directories | check and write of each | one another: each reads what another wrote; editors of the sources | several thousand lines whose order decides whether a digest is final; interrupted runs; leftovers | green checks mean current; nothing is described before it is final; reruns end |
| Lifecycle contracts and loader, status eligibility, and the rest: private compilation, canonical encoding, schema validation, command-line tools, registry client, signing adapters, OCI graph, bundle build, renderers, other generators and linters | none, or files | one-shot functions | - | - | not modelled (section 7) |

`PROJECT.json` lists the same parts with their status, and under `hazards` every place of this code
where a mistake would be hard to reach by a test, with the property that would catch it.

## 2. Modules

| Module | Models | Uses |
|---|---|---|
| `DesiredStateStore` | the store | - |
| `DesiredStateApi` | GET and PUT handlers, clients, network | extends `DesiredStateStore` |
| `ConditionalRegister` | abstract: a PUT is decided in one step against one register | refined by `DesiredStateApi` |
| `PromotionCoordinator` | classification and promotion beside HTTP writers | extends `DesiredStateStore` |
| `CanaryVerifier` | the verification of a rollout's evidence, and who produces it | checked beside the coordinator in `MCPromotionCoordinator` |
| `SwitchJournal` | the host's journal and its callers | - |
| `ScmInbox` | the inbox and its senders | - |
| `ReplayLedger` | the ledger of used signing requests, by system call | - |
| `AtomicFile` | one output path of the tools, by system call | - |
| `FileOperations` | one delta after another on a caller's tree | - |
| `SkillOperations` | one skill delta after another | refines `FileOperations` |
| `JsonValues` | one operation at a JSON pointer, as functions, and the reference for it | extended by `JsonPatch` and `JsonLimits` |
| `JsonLimits` | the depth and size `cloneJSON` accepts | gives `JsonPatch` its `Clones` |
| `JsonPatch` | operations at JSON pointers on one document | - |
| `JsonRebase` | a delta carried from one source to another, on two working copies | - |
| `RebasePatch` | a rebase beside a patch of the proposed source, with the effects of the code | extends `JsonRebase` and `JsonPatch`; refines `JsonPatch` |
| `StatusMerkle` | the Merkle tree and its proofs, as functions, over a hash without collisions | extended by `StatusHead` |
| `StatusHead` | authority, network and consumer of one subject's status | extends `StatusMerkle` |
| `ReleaseEvidence` | the evidence documents of a bundle, as functions | - |
| `BundleVerification` | verifications, read by read, beside a release that changes | extends `ReleaseEvidence` |
| `FixtureGraph` | the statements a generator is made of, and their meaning | - |
| `ReleaseGraph` | the release authority graph of the renderer generator | extends `FixtureGraph` |
| `RenderDocuments` | the rest of the renderer generator | extends `ReleaseGraph` |
| `PrivateFixtures` | the private compilation generator | extends `RenderDocuments` |
| `Regeneration` | the three generators' commands on one disk | extends `PrivateFixtures` |
| `DesiredStateStore_proofs`, `DesiredStateApi_proofs`, `BundleVerification_proofs` | theorems about the module of the same name | the module, TLAPS |
| `StatusHead_proofs` | theorems about `StatusMerkle` and `StatusHead` | the modules, TLAPS |
| `PromotionCoordinator_proofs` | theorems about `PromotionCoordinator` and `CanaryVerifier` | extends `DesiredStateStore_proofs` |
| `JsonRebase_proofs` | theorems about `JsonRebase`, `JsonPatch` and `RebasePatch` | the modules, TLAPS |
| `Records_proofs` | theorems about `SwitchJournal`, `ScmInbox`, `ReplayLedger` and `AtomicFile` | the modules, TLAPS |
| `Operations_proofs` | theorems about `FileOperations` and `SkillOperations` | the modules, TLAPS |
| `MC*` | a small instance of the module of the same name; `MCPromotionCoordinator` of the canary too, `MCFileOperations` of the skills too; `MCRecords` of the journal, the inbox, the ledger and the file; `MCGenerators` of `Regeneration` | the module |

Three MC modules hold several components that share no state. There a behaviour runs one of them, its
`side`, and the others stay at their start: the run explores each component by itself and the
product is never built.

Definitions whose comment starts with "Mutant" are altered forms of the definition below them. They
are used by no specification; each shows that some property would notice that particular mistake.

### Store

`records` is `Store.records`. The mutex makes each call one step. `Outcome` makes the checks of
`CompareAndSwap` in their order: the shape of the precondition, the canonical digest, then, under
the lock, the precondition against the record. Canonicalisation is the constant `DigestOf`: several
documents may share a digest (they differ in layout), and one that jcs rejects has none. Loss of all
state at the end of the process is `Restart`. `log` is ghost state: every version committed by this
incarnation with its writer and the precondition it was written on.

### HTTP surface

One record per PUT in `calls`. A request that is refused by the precondition takes the store's lock
twice, so it is two steps: `Serve` (decode, parse headers, `CompareAndSwap`) and `ReportMismatch`
(the `Read` that fills in `currentRevision` and `currentDigest` of the problem). Any other call, or
a restart, may come in between. Header values are abstracted to what `parsePrecondition` tells
apart: absent, `*`, an accepted strong ETag (revision and digest), anything else.

Clients are not in the repository. A client of the model follows the conditional-request protocol
that the ETags are for: `Get`, then `Put` on the tag it holds, then `Receive`; on a mismatch it goes
on with the reported state. `Timeout` abandons a request that may still be served, `LoseRequest`
loses one. A `Stray` sends one request with arbitrary headers and body.

`ConditionalRegister` has no handler steps: a request is decided in one atomic step and answered
later. The refinement mapping reads a request's decision off `step`, `decided` and `answer`. The
property `ImplementsConditionalRegister` says that the two-lock handler is nevertheless
linearizable.

### Coordinator

`Propose` is `Read` and `ClassifyUpdate` on what was read (both as one step: the classification
reads only its own arguments, so nothing is visible between the two); `Approve` is the human;
`Promote` writes with the precondition of the earlier read. The six facts of a proposal are the
inputs `ClassifyUpdate` decides on; that the three-way rebase succeeds is one of them.
`PromoteUnclassified` calls `Promote` with the zero value of `Classification`; `ApiPut` is a PUT of
the HTTP handler on the same store.

### Canary

The world of `CanaryVerifier` is outside the code, which only judges what it is handed: plans are
published and replaced, the capability check is dispatched again, the facts in force change, the
clock moves, and host and verifier sign what they saw, some of it for a plan or a dispatch that is
no longer current. A signer is an identity and the trust policy it signs under. Every
document claims one and is signed by one, who need not be the one it claims; what is known of the
signature is the record of its authentication, which the caller keeps (`documents` and `proofs` map
what was signed to its record), and which may be incomplete. Who is expected in each of the three
roles may change, or nobody may be expected (`ChangeSigner`), and a plan names a policy for each
role, which need not be that of the signer expected later. A capability report says what its two
decisions are and cites a proof for each, which may say otherwise. `slips` bounds what goes wrong: a
failed phase, an odd window, a wrong, missing or misquoted decision, a wrong claim, another hand or
an incomplete record, another policy in a plan, another signer expected, a plan replaced or a check
dispatched again while answers to the old one are under way. `VerifyPromotion` is called with the
plan, the facts, the dispatch, the time, the expected signers and the records that are current then,
and is presented with any of the documents signed by then, as they are or edited in their outcome or
in their claim; each of its checks is a conjunct, under the name of the function that makes it.
`PromotionIsProven` does not repeat the checks: it asks for *events*, that the signer expected in
the role, under the policy the plan names, did sign such a document, in a window that had begun and
not expired. A claim that looks right is not enough for that, which is what its mutant, of
`verifyAuthenticatedRecord`, lets pass. Two things the code does not ask for are not
claimed: a probe's proof is bound to the plan but not to the dispatch, and the order of the two
phases is not compared. Once the call is made, what the world does cannot be seen by it, so the
world stops.

### Journal

`entries` is `Journal.entries`. An *attempt* has a fixed target and identity (release digest and the
three bindings, abstracted to one). It may call `Activate` or `RecoverTo` at any time and any number
of times, and reports a failure only after a call told it that it holds or held the switch. Ghost
state: `history` (the switches of a target, with who made them) and `failures`.

### Inbox

`receipts` is `Inbox.entries`, reduced to the digest of each receipt. Digesting happens before the
lock and depends on the bytes alone, so a call is one step. `news` counts how often an incarnation
reported a key as new. A sender keeps sending until it has an answer; copies are delayed, reordered,
duplicated, lost, and answers are lost.

### Ledger

One step per system call of `consume_replay_ledger`: `OpenLedger` (which creates the file if the
path names none), `Lock`, `Check` (the path still names the file that is locked; it ends in a
newline; no entry has one of the three keys; there is room), `Write` (any part of what is left, as
`os.write` may), `SyncLedger`, `ReturnConsumed` (which synchronises the directory and gives the lock
back). `FailConsume` is any of them failing, or the process being killed: what it wrote stays.
`Rotate` is the operator who moves the file away. `LedgerOutage` is a crash of the machine: of what
was not synchronised any beginning may survive, a new file's name may not. A file is a sequence of
entries and the bytes of an incomplete last line; a line with bytes of two calls is `Mixed`. After a
rotation a request can be used again, which is what rotating is for, so `OncePerEra` compares calls
whose check saw the same number of rotations.

### Atomic file

One step per system call of `atomic_write`, in its two modes: the temporary file is created, written
block by block, synchronised and closed, published by `rename`, or by `link` where the path must be
absent (which fails if it is not), and the directory is synchronised. The reader opens the path,
reads block by block and compares the file's identity with the one at opening. An editor may change
a published file in place, which is what the comparison is for. A `Crash` ends all calls: the path
names again what it names on disk or still what it named, and blocks not synchronised since they
were written may be gone. Calls that begin afterwards go on from there. Two assumptions are about
the file system: names of temporary files are fresh (they are random), and every change gives a file
another change time. With clocks of coarse resolution the second can fail, and then a read can be
torn without the code noticing.

### File operations

One step per iteration of the loop of `ApplyFileOperations`. Paths and records are opaque; what the
code computes from characters is given by constants (`Portable`, `Fold`, `Below`), as general as the
code: the proofs assume only that no folded path is below itself. `tree` is the caller's map, any
map at all at the start; an unfit one cannot `Start`, and any can be refused for the contract of its
delta (`RefuseInput`). The copy, the index and the set of seen targets are the loop's variables;
`done` is ghost.

`SkillOperations` is `ApplySkillOperations`, a second loop without folding and index. It is shown to
implement `FileOperations` with packages for paths, so what holds of files holds of skills.

### JSON patch

One step per operation of `ApplyJSONPatch` (`JsonPatch`): pointer and value, `applyJSONOperation`
(`JsonValues`), then the `cloneJSON` that enforces depth and size on the result (`Clones`, which
`JsonLimits` defines). Values are scalars, objects or arrays; a token is a name and, where `Numeral`
says so, an index. The recursion of the code goes down one pointer and comes back the same way, so it
is written as two functions on the length of the way: `descend` gives the nodes passed, `rebuild`
what each call returns. The limits alone are recursive operators, because they go down every branch.

The properties compare with a reference that does not know how the code descends, nor that it can
fail: `Standing` is the set of values a pointer leads to (empty, or one), `Peek` what is seen there,
`Legal` says when an operation may apply, and `Expected` what must be seen at any pointer afterwards.
`ChangesOnlyTheTarget` is asked of every step, of whichever operations could have made it, and at
every place.

### Rebase

One step per operation of `RebaseJSONPatch`: the first failing check is the answer (`Verdict`), or
both working copies take the operation. Here a document is only its top-level members, because that
is what `stableRebasePath` compares; what an operation does inside its member is the constant
`Effect` and what `cloneJSON` accepts is the constant `Fits`, so that the theorems hold for all of
them. `RebasePatch` gives both their meaning from `JsonPatch` (`EffectOf`, `FitsAsObject`), and makes
the working copy of the proposed source the document of a patch, which is shown to take the steps of
`PatchSpec`. `touched` and `at` are ghost.

### Status head

`StatusMerkle` translates `status_merkle.py`: `merkle_root`, `inclusion_proof`, `consistency_proof`
and their verifiers, with records in place of digests (a hash without collisions). The recursive
functions of the code are recursive functions on the same arguments, and so are its loops: the nodes
of a path that were consumed, or the bits of a size that were shifted out, are the argument.
`StatusHead` has two sides. The authority's `Refresh` is `StatusHeadAuthorityBuilder.refresh`: it
refuses a consumer that is ahead or on another log of the same size, and otherwise answers with a
checkpoint and, if the log grew, a proof of consistency from the size the consumer named. The
consumer's `Accept` is `validate_status_head_binding`, given the state it persisted
(`expected_client_prior_state`, with which `docs/standards/integration-ports-v1.md` charges the
consumer); its checks have the names of the code's. A request carries the nonce of its operation and
what the consumer had accepted by then; the answer may arrive late, several times or never, and a
request may be served again.

The log is outside the code, which takes its leaves as an argument: `LogStatus` adds to it and
`Restore` takes it back to an earlier state, after which it forks. Both sides call the tree's
operators. What they rely on is that a proof verifies for nothing but what it was made for, which is
proved for trees of every size (section 5); `TreeIsSound` in `MCStatusHead` states it over all words
of up to seven leaves, which TLC evaluates. `views` and the members `log` and `asked` of a checkpoint
are ghost.

### Release evidence and bundle verification

`ReleaseEvidence` has one operator per document builder and per check. A digest is what it is the
digest of, so "cites the bill of materials" is a set membership, and a scan of another archive is a
different value. `BundleVerification` has two sides. The release changes file by file: `Stage`
replaces the archive, `RemoveTree` and `PublishTree` the evidence (the code builds a tree aside and
moves it into place), `CreateRequest` writes a signing request for what it reads, `Sign` signs the
request that is there, as the signer the policy names (by Sigstore) or as anybody with a key of the
moment (`ephemeral`, a test envelope that carries its own key). A verification is `main` of
`verify_bundle.py` with one step per file it reads or writes, between any two of which the release
may change: the archive, the certification, the request, the evidence attestation, its documents,
the signature, then the interpretation of the members, the ledger and the two outputs. What it
compares at a step is a conjunct with the name of the function that compares. In the mode `unsigned`
it begins at the interpretation and expects no key; in `test` it accepts the ephemeral signature
only, which establishes that somebody signed and no more, and ends after the ledger; in `external`
it accepts the signer's only. Each verification is given a ledger, its own or a shared one, and
`Rotate` moves a ledger's file away. An entry is refused that repeats the id, the nonce or the
digest of any entry in the file. Appending an entry is one step here (`ReplayLedger` has the steps
it is made of) and coming back from it another: the entry may be in the file although the call
fails. `following` is the order in which a verification does what others see, and `Refuse` may come
between any two of its steps, so that a failure leaves an entry without outputs, or the first output
without the second. Such a half pair is never cleaned up, by the code or in the model, and every
later external verification at these paths is refused by it. `signed` and `recorded` are ghost: the
signatures that were made, and the entries that were appended, with the verification each was for.

### Generators

The three generators have eleven thousand lines, nearly all of which say which document gets which
member from where. `FixtureGraph` is a language for that: a program is a sequence of statements,
each of which rewrites a member of some documents with the content of others (`Cite`, `Bytes`,
`Project`), computes their descriptors (`Seal`), signs them (`Sign`), or registers a blob. Whether a
statement reads a document as it is *now* or by the descriptor computed *earlier* is the difference
the properties are about. The content of a document is the set of the source editions it was
computed from, each with the file through which it was read; so two digests differ exactly if some
edition behind them, or the way it came, does. `ReleaseGraph`, `RenderDocuments` and
`PrivateFixtures` then are the generators' blocks in the order of the code, one definition per
block, without the documents' other contents. The renderer generator embeds digests of files that
`refresh_contract_metadata.py` writes, and that one reads the fixtures' schemas; the private
generator runs the renderer generator in memory and keeps its outputs apart.

`Regeneration` puts the three commands on one disk. A command computes its outputs from the disk; it
is *green* if they are what the disk has, documents and blobs, which is its check mode. `Write` is a
run that completes, `Interrupt` one that does not. The order of the code's writes is that of
`InterruptedWrites`: the documents, then the blobs, then (of the renderer generator) the case
catalogue, the inventory and the documentation map, then surplus blobs are unlinked. A run is
interrupted among the documents or among the blobs (at the sets of kinds in `CrashPoints`), or
between any two of the later writes.
`Edit` changes a source.

The model was compared with the programs: on copies of the repository with an edited source, the
sequences of runs m r p, m r r p, m p, m p r, r m p r, r r and r p r p (m metadata, r renderer, p
private) leave checks red and green, and blobs stale, as the model says.

## 3. Runs

| Run | Instance and bounds | What it shows |
|---|---|---|
| `api_strays` | one client, two arbitrary requests, one restart | `AnswersAreTruthful`, refinement of `ConditionalRegister` |
| `api_clients` | two clients with documents of one digest, five PUTs each, one fault, one restart, fairness | `NoUnseenOverwrite`, `MismatchReportMovesForward`, `ClientsSucceed` |
| `api_replay` | as above, violation expected | finding: a replayed PUT is not answered as a replay |
| `coordinator` | coordinator: two promoters with two attempts each, one unclassified caller, one HTTP client, seven proposals, a document that every write brings back and one that has no digest; canary: two plans (one certified to go without probes), two states of the facts, three signers (the host, the consumer, the consumer under another policy), windows of two instants, two dispatches, five documents, one slip | `OnlyCompatibleOrApproved`, `VerdictStillApplies`; of the store `VersionsFormAChain`: each committed version names exactly the one it replaced; of the canary `PromotionIsProven` |
| `records` | journal: two targets, four attempts (two at one release with different bindings), four switches per target; inbox: two keys, three deliveries (one a replay with other bytes), two copies each at a time, two faults, one restart; ledger: three calls that share keys, entries in two parts, room for two, two files, one rotation, one outage; file: three writers (two that require absence), one reader, two blocks, one edit, two crashes | `OnlyLatestSwitchFails`, `NoRepeatedSwitch`; `OnePayloadPerDelivery`; `OncePerEra`, `AcceptedIsRecorded`; `PathIsWhole`, `ReportsStayTrue`, `ReadsAreSnapshots` |
| `journal_reactivation` | the journal, violation expected | finding: a failed release is activated again |
| `operations` | files: five paths (two spellings of one name, a path below it, an unrelated one, an unportable one), three records, deltas of up to three operations, all starting trees; skills: three packages, two descriptors | `IndexIsCurrent`, `TreesStayFit`, `DeltaIsAboutTheInput`, `DeltaIsAtomic`; `ImplementsFileOperations` |
| `json` | all pairs of eighteen sources of two members (objects in arrays, arrays in arrays, a member named like an index), fifteen operations at ten pointers, deltas of up to four, depth 4, nine nodes | `NoHiddenConflict`, `OnlyTheDeltaIsAdded`, `ConflictsAreReal`, `RebaseImplementsPatch`, `AppliesExactlyWhenLegal`, `ChangesOnlyTheTarget` |
| `status` | two operations, two statuses, logs of up to three statuses in two epochs, restored any number of times, two instants, a head valid for one | `ViewOnlyGrows`, `OnlyForksAreRefused`, `FreshAtUse`; `TreeIsSound` |
| `release` | two verifications, two request ids with one nonce, two ledgers rotated any number of times, three archives (one with a damaged member, one whose manifest the policy revokes), four evaluations (one with scans of another archive), four kinds of evidence, two changes of the release | `VouchedIsSigned`, `EvidenceIsOfTheBundle`, `OutputsAreSpent`, `OutputsAreOneVerification` |
| `generators` | two renderers, one of them on two platforms; one edit of a schema, the trust-policy schema or the guides; one interruption, among the documents, among the blobs, between the files that follow or before blobs are unlinked; three runs remembered, any number made | `AcceptedIsCurrent`, `AuthorityIsFinal`, `PrivateNeedsNoRenderer`, `RendererSettlesInTwo`, `Converges` |
| `fixedpoint` | the same without interruptions, four runs remembered, violation expected | finding: one coordinated generation is no fixed point |

Types are proved rather than checked, in the modules that have theorems; a wrong type in the others
would be an error of evaluation.

Why the bounds suffice. An ABA needs three versions of a key, of which the first and the last share
a digest: the coordinator and API instances have both. A refused PUT can be overtaken by another
write and by a restart within its two steps, which needs two requests and one restart. `MaxPuts` is
5 because a client can be refused at most once per version the other writes, once after a restart,
and can lose one request: with fewer PUTs `ClientsSucceed` would fail on the bound rather than on
the code. A verification of a canary needs three documents and two proofs, or three documents for a
certified plan: five allow one of each and one thing in the wrong place: of the other plan, other
facts, another time or an earlier dispatch, in another's name or by another's hand. Of the three
signers two differ in identity only and two in policy only. Two things wrong that hide one another
would need a larger instance; the checks are conjuncts about one document each. The journal's
finding needs three switches of one target, and four attempts give every pairing of same/other
release and same/other binding. In the ledger two calls suffice for every race and a third for the
room that runs out; two files are what one rotation can leave. In the file operations, collisions
are between two paths, an ancestor conflict between two, and a dependence between operations between
two; three operations allow one to undo another's effect for a third. The arrays of the patches
reach lengths at which first, last and past-the-end indices differ, and the size limit lies where an
operation fits into the smaller of two sources only. To hide a conflict takes two operations at one
member; four allow this in both members. A fork that matters is of a log of one status by another
that is longer than it; a log of three lets it be longer than, as long as and shorter than what was
accepted. Two operations suffice for an answer to the wrong one and for one that was overtaken, and
seven leaves take every path through the tree's arithmetic. A mixture of two releases takes a first
one that is there at the start and the two changes that begin a second; two verifications meet at a
ledger and at the outputs, and with two ledgers they need not meet. The two keys share a nonce, so
that an entry can repeat another's nonce without its id. The evidence of `release` is one document
of each way of being checked. Of the sources of the generators one of each way of being read is
edited: through the inventory and directly, into the trust policies, and through the documentation
map only. Two renderers tell the release's own subject from a renderer's, and two platforms the
qualified one from the rest.

Symmetry is used in `coordinator` over the promoters and over the facts, in `status` over the
operations and in `release` over the verifications and over the request ids, which are
interchangeable in specifications without liveness.

Deadlock checking is off where the system may stop: clients finish, bounded counters run out.

## 4. Fairness

Two runs check liveness under fairness. In `api_clients` weak fairness is assumed of the two steps
of a handler (net/http runs each handler on its own goroutine, and a mutex of Go is not held across
blocking calls here) and of the client steps `Put`, `Receive` and `GiveUp`, which is what a client
with work left does. No client is forced to `Get` or to time out, no message is forced to be lost
and the server is not forced to restart. `ClientsSucceed` then needs a real argument: a client is
refused only because another write succeeded, and the mismatch answer carries a usable state.

In `generators` `Rerun` says that whoever finds a check red runs that command again; it is weak
fairness of a completing run, with "enabled" and "taken" written out because evaluating them would
run the generators again at every state. Edits and interruptions are bounded and nobody is forced to
make one. `Converges` says more than that each command reaches its own fixed point: the commands
read each other's outputs, so they could undo each other's work for ever.

## 5. Proofs

All theorems hold for every value of the constants that satisfies the named assumptions of the
module; the bounds play no part in the arguments.

**Store** (`DesiredStateStore_proofs`). `TypeCorrect`, `OneRevision`, `NoLostUpdate`. The inductive
invariant `StoreInv` joins the three: `VersionsFormAChain` alone is not inductive, because the step
that extends the chain compares the caller's precondition with `records`, and only
`OneLogicalRevision` says that `records[k]` is the last entry of the chain; that in turn needs the
typing of revisions for the arithmetic.

**HTTP surface** (`DesiredStateApi_proofs`). `TruthfulAnswers`, `NoLostWrites`,
`ReportsMoveForward`, `HandlerImplementsRegister`, for any number of clients, strays, PUTs, faults
and restarts. The handler takes the store's steps, so `ApiInv` contains `StoreInv`. None of the
three properties is inductive, because each compares tags while the store compares records. The core
of `ApiInv` is `BeliefsArePast`: whatever tag a client, a call or an answer carries from this
incarnation is the tag the key had after some number of versions, and the invariant remembers that
number. Revisions grow by one, so comparing tags is comparing positions in the log. A request that
is refused was then decided on a later position than the one its client believed
(`StepsAreOrdered`), and the second lock can only see a position later still, which is what the
mismatch answer reports. The request's number is new (`Numbered`), so the versions of two calls are
not confused. The refinement is proved action by action: the verdict of a request, as
`ConditionalRegister` has it, is read off `step`, `decided` and `answer`; it is reached at `Serve`,
where the store decides, and the 412 that `ReportMismatch` completes leaves it as it is. Assumed are
that clients and strays are different, that a body which is not JSON is no document, and that
revision 0 can be written.

**Coordinator** (`PromotionCoordinator_proofs`). `CoordinatorUsesStore` shows step by step that
promoters, stray callers and the HTTP handler only ever take steps of the store, which brings in
`StoreInv`. `OnlyVerdictsProgress` and `VerdictsAreCurrent` need `VerdictInv` besides: a promoter
holds the disposition of its own proposal, its precondition names the version that was the last of
the chain when it read, and every version it wrote is the one after that. The first part is stable
under every other writer because it speaks of what was read; at the write `Holds` with `StoreInv`
makes the version that was read the last of the chain.

**Canary** (`PromotionCoordinator_proofs`). `VerifiedIsProven`: `PromotionIsProven` for any plans,
facts, signers, policies, expectations, dispatches, windows and slips. `CanaryInv` says that the
inputs of a call are what was there when it was made, since the world stops then, and that each kind
of evidence accepted so far was signed for the plan, passed and had its window (`JudgedInv`). A
document that was edited, in its outcome or in its claim, has no record of authentication, so what
was accepted is what was signed; its record is complete and names the signer expected in the role,
and the plan names the policy of that signer, or the call would not have begun. That the sentinel
was refused and the capability permitted needs the order of the steps: a call that is accepted is
past both probes, unless its plan is certified to go without.

**Journal** (`Records_proofs`). `FailuresAreFenced`, `ReplayIsIdempotent`,
`RecoveryNeedsAnotherRelease`. `JournalInvariant` adds the typing to `OnlyLatestSwitchFails`;
`NoRepeatedSwitch` follows step by step because an entry that is not the one of the last switch does
not exist: `Activate` refuses only its current identity, and only the invariant makes this the
identity of the last element of the history. `RecoveryChangesRelease` is an action property proved
from the same invariant.

**Inbox** (`Records_proofs`). `OnePayload`. The property is inductive with its typing: a second
"new" of one incarnation would need a receipt to disappear, and an accepted payload other than the
receipt's would need a receipt to change; `Receive` does neither.

**Ledger** (`Records_proofs`). `RequestsAreUsedOnce`, `ConsumedIsRecorded`, for any processes, keys,
parts, files, rotations and outages. A call is *writing* from its check to its return. It then holds
the lock of its file, and what nobody finished there is the beginning of its own line
(`WritersHoldTheLock`); as long as nothing was moved away the path names its file, and two writing
calls are of different eras (`WritersAreCurrent`); its key is new among the other lines
(`WritersAreNew`). None of this says that a request consumed *earlier in this era* is in the file
the caller checks: that is `ConsumedIsKept`, which needs the synchronisation of the directory,
without which a crash could take the file's name away and a second file begin in the same era.

**Atomic file** (`Records_proofs`). `PathStaysWhole`, `ReportsHold`, `ReadsAreStable`, for any
writers, readers, blocks, edits and crashes. `NamesInv` orders the names by the time they were
published: the name on disk is not later than the present one, a call that returned is not later
than the name on disk, and a call with `require_absent` is the first of those that did not fail.
`WholeInv` follows the blocks: a file is complete before it is synchronised, synchronised before it
has the name, and then written to by nobody but an editor. `ReaderInv` is about the change stamp: as
long as it is the one at opening, the blocks are the ones at opening, and those read so far are
among them.

**File and skill operations** (`Operations_proofs`). `TreesAlwaysFit`, `IndexAlwaysCurrent`,
`DeltasAreAboutTheInput`, `DeltasAreAtomic`. `FileInv` (typing, `IndexIsCurrent`, `TreesStayFit`) is
inductive: the checks look at the index, so a tree stays fit only if the index is current, and the
index can be maintained by increments only if the tree has no collisions. `DeltaInv` adds that
`seen` is exactly the folded paths of `done`, without which a second operation on one target could
not be excluded. `DeltasAreAtomic` then compares the working copy with `ResultOf`, which takes the
delta as a set. `SkillsImplementFiles` is a step-by-step simulation: with the identity for folding
nothing collides, so both loops allow the same operations.

**Rebase** (`JsonRebase_proofs`). `NoConflictIsHidden`, `RebaseIsThreeWay`, `NoFalseConflict`. The
danger is that comparisons are made on copies that earlier operations changed. `RebaseInv` says why
it is none: a touched member was equal in both sources *and is equal in both copies*, an untouched
one is as it was in its source. The middle part is what makes it inductive: an operation applies to
equal values with equal effect, for any `Effect`. That an operation which applied to the previous
copy also applies to the proposed one is a consequence.

**JSON patch** (also `JsonRebase_proofs`). `PatchAppliesExactlyWhenLegal`,
`PatchChangesOnlyTheTarget`, `PatchDocumentsAreProper`, for documents of any size and pointers of
any length, whatever `Clones` accepts. What recursive functions compute has to be proved by
induction, and the library states induction with an operator for a parameter, which the provers
cannot instantiate. `Induction` states it with a set, and follows from the pigeonhole principle: the
numbers up to some `n` that are not in the set, if there are any and `n` is one, would map by
predecessor, one to one, into the same numbers without `n`. By it the recursive functions exist
(`DescendDef`, `AlongDef`, `RebuildDef`), the way down of the code is the way along the pointer of
the reference (`WayDown`), and a rebuilt node is the old one with the next rebuilt node in it
(`Ways`). `OperationAppliesWhenLegal` then looks at the last container only. For
`OperationChangesOnlyTheTarget` two walks go along an arbitrary pointer through the document before
and after (`Walks`): as long as the pointer agrees with the operation's they stand at corresponding
nodes, whose kind is the same; where it leaves the operation's they stand at the same value and stay
together; and if it never does, they meet what `BelowLeaf` says of the target's container. The
invariant the specification needs is `Proper`: the document belongs to a set of values that contains
the parts of its members, which an operation preserves (`ResultProper`). The assumption on `Values`
is that the parser's values are such a set.

`RebaseTakesPatchSteps` is the refinement, step by step: `BothSpec` implements `PatchSpec`, if
`Effect` and `Fits` are what `RebasePatch` says (`EffectsAreOperations`, as the configuration of the
run has it). `JsonRebase` applies an operation to one member, `JsonPatch` to the whole document;
that both do the same is `OperationAtMember`: in two objects that agree on the first token of a
pointer the operation makes the same edit of that member, or fails in both. The marks for "no
member" and "no result" must not be documents themselves (`MarkAssumption`), which is why the
invariant needs `Proper`.

**Merkle tree** (`StatusHead_proofs`). `RootDeterminesLeaves`, `InclusionSound`,
`NoPathToAnotherLeaf`, `ConsistencySound`, `NoPathToAnotherHistory`, for any number of leaves. That
the recursive functions exist and are what their equations say is proved by `Induction`, here too
from the pigeonhole principle; then everything goes by induction on the number of leaves, split at
the largest power of two below it (`Parts`). A root determines the leaves because a node determines
its children, and an inclusion proof is rebuilt part by part. `NoPathToAnotherLeaf` is about paths
that nobody made (`RootBinds`): whatever nodes are sent, and however many, the walk down from the
root meets the same splits.

Consistency is the difficult one, because the two sides of the code have nothing in common:
`consistency_proof` descends by splits, `verify_consistency` shifts the bits of two sizes. Both meet
in `Comes`: after the nodes that the proof has for a part of the new tree, the loop holds the roots
of both trees over that part, and certain numbers. `Inside` says it of a full part of 2^k leaves in
which the old tree ends: the loop enters with the numbers of the last old and of the last new leaf,
and leaves with both in units of the part. On the way the tests of the loop (the parity of the first
number, whether the two are equal) say on which side the next sibling lies, and so whether it
belongs to both roots or only to the new one. `Rightmost` says it of a part at the right end, where
the new tree need not be full: the loop leaves with equal numbers, those of the part up to zeros
that it shifts out at its next turn to the left (`ShiftOnes`, `ShiftZeros`). An old size that is a
power of two is a case of its own: only the old root is missing from the proof (`FirstMissing`),
while of any other size the proof leaves out nothing (`NeverComplete`). So with the proof of a log
the loop ends at the roots of that log and of its beginning, and these determine their leaves.

`NoPathToAnotherHistory` is the other half, about paths that nobody made, and needs none of this. At
every turn of the loop both roots take the same sibling on the left, or the new one alone takes one
on the right; so at every turn the leaves below the old root begin those below the new one
(`Continues`, kept by `ContinuesLeft` and `ContinuesRight`), because a root tells the leaves without
their number (`RootTellsSize`). It holds for a path of any length and for any sizes that are claimed
with it, which matters here: at the end of a path the code asks whether `fn` is 0 and not whether
`sn` is, so that nothing but the roots refuses a path of the wrong length.

**Status head** (also `StatusHead_proofs`). `NeverBack`, `AlarmsAreExact`, `AnswersAreFresh`, with
the tree itself in them and nothing assumed about it. The typing invariant carries the argument:
every checkpoint in the network, and the consumer's state, is the head of a log that could exist,
answered for the prior state that its operation sent. So a checkpoint whose prior state is the
accepted one was proved against the log that was accepted, and `ConsistencySound` makes this log a
prefix of the answer's; an answer made before another acceptance no longer has the accepted prior
state.

**Bundle verification** (`BundleVerification_proofs`). `SignedBeforeUse`, `EvidenceCoheres`,
`OutputsFollowTheLedger`, `OutputsAreNotMixed`, for any verifiers, keys, ledgers, archives and
evaluations and any number of changes. The files may change at every step, so the invariant `IInv`
says nothing of them except that what stands in the signature file was signed. `Known` says what a
verifier has established about the copies it took, at each of its steps; it is stable because copies
do not change. `Held` is about what verifiers share: of whoever is past the signature that a
signature of its mode's kind over its request was made, of whoever is past the ledger that its entry
was appended, and of whoever is past an output that it is the writer (`OthersHold`: signatures and
appended entries are never taken back, and an output is written only where none is).
`OutputsAreSpent` is itself part of `IInv`, since a writer that fails forgets what it read: after
that only the output says who it was. That one ledger accepts no two entries that repeat one another
is not claimed here; it is what `OncePerEra` says of the ledger's own steps.

The assumptions are what makes the constants mean what their comments say: the marks for "no file",
"nothing", "no digest" are not members of the sets they stand beside, bounds are natural numbers, a
file has at least one block, and functions such as `KeyOf` and `TargetOf` have the sets they are
about for domain and range. None is about what the system does. TLC evaluates all of them on the
instances. `EffectsAreOperations` is no assumption of a module but the hypothesis of the one theorem
that needs it: it speaks of every value, and the configuration makes it an identity.

`OneRevision`, `RecoveryNeedsAnotherRelease` and the inductive invariants are proved though no run
lists them. Two of the invariants changed the models: the one of the atomic file was refuted by TLC
with two crashes, because a file written to after a crash was counted as being on disk, and the one
of the HTTP surface needed its assumptions on the constants to be said.

Only model-checked, with the reason:

- `AcceptedIsCurrent`, `AuthorityIsFinal`, `PrivateNeedsNoRenderer` and `RendererSettlesInTwo` of the
  generators. They are about what one fixed program of several hundred statements computes; `Execute`
  is recursive, and nothing in them is general but the bounds of the instance.
- `ClientsSucceed` and `Converges`: liveness under fairness and `ENABLED` are outside what the proof
  system handles.

## 6. Findings

Each is a disagreement between a sentence of the repository and what its code does, shown by a run
whose violation is expected; `PROJECT.json` quotes the sentences.

1. `api_replay`: a PUT that is sent again after it committed is answered 412, `not-committed`,
   although the port contract promises the original result or exact evidence.
2. `journal_reactivation`: after a recovery the journal forgets the failed release, and activates it
   again.
3. `fixedpoint`: one coordinated generation, metadata then renderer then private, is not the "true
   fixed point" of the private generator's comment. The first renderer run after an edit still meets
   the descriptors of the old release in the harness render, gives them synthetic blobs, and only
   then writes the harness render that no longer cites them; the next check calls those blobs drift.
   A second run of the renderer generator settles it (`RendererSettlesInTwo`).

Two smaller observations have no run. `internal/promotion/coordinator.go:15-17` calls the
Coordinator the only component that writes the record; the HTTP handler writes the same store
(`ApiPut`), and `Promote` accepts the zero `Classification` (`PromoteUnclassified`). And a duplicate
of an `Activate` that arrives after another switch of the target activates again, which the
idempotence of `internal/hostreconciler/journal.go:95-96` does not cover: `NoRepeatedSwitch`
therefore speaks of successive switches.

## 7. What is not modelled, and why

- Character-level work (JCS, NFC folding, path syntax, header grammar, JSON and YAML parsing, the
  formats of digests and times) is abstracted to the function it computes. `Read`'s defensive copies
  and the wording of problems change no state.
- *Lifecycle contracts and loader.* The contracts are declarative: guards and effects are names, and
  no code of the repository executes a transition. `Validate` is a single-pass check of one document
  and `Resolve` a lookup in its table. A model of the leases and cancellations they describe would
  be of the documents and not of a program.
- *Status eligibility, OCI graph, `ResolveAgentSpecSource`, commit and repository identity, private
  compilation, schema validation.* Each judges values handed to it in one pass, keeps nothing and
  meets no other actor; a unit test reaches all of it.
- *Registry client, signing adapters, bundle build, command-line tools.* Input and output of a
  single caller around the parts above. What the build leaves behind enters `BundleVerification` as
  files that are replaced one by one, and a signature as what was signed and by
  whom.
- *Renderers, other generators, linters, repository checks.* One pass over files they do not write,
  or writes of files that no other tool of the generation reads back.
- Within modelled parts: of the evidence, what scans, licences and conformance results say; of the
  fixtures, everything but what they cite, and the checks the generators make of their inputs; of
  status heads, signatures, trust policies and stapled trees.

## 8. Plan

Everything that was planned and has a program behind it is done: the store, its HTTP surface and the
coordinator; the journal and the inbox; file, skill and JSON operations; status heads and their
tree; the canary verifier; the ledger, the atomic writer and bundle verification; the fixture
generators. The lifecycle models and status eligibility were planned and dropped for the reasons of
section 7. If the repository gains code that executes lifecycle transitions, the leases of
`durable-action.v1.json` are what to model first.

All invariants and action properties the runs check are proved, and so are the refinements of
`ConditionalRegister`, `FileOperations` and `JsonPatch`, except those that section 5 lists as only
model-checked. No theorem assumes anything about the behaviour of a part that is modelled elsewhere:
the last such assumption, that the tree of a status log is sound, is now `ConsistencySound`.
