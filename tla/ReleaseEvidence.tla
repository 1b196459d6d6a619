--------------------------- MODULE ReleaseEvidence ---------------------------
(***************************************************************************)
(* The evidence a contract bundle is released with: what an evaluation     *)
(* writes (scripts/contracts/create_test_release_evidence.py) and what a   *)
(* verification accepts of it (scripts/contracts/release_evidence.py).     *)
(*                                                                         *)
(* A digest is modelled by what it is the digest of.  Repository, policy   *)
(* and evaluator are the pinned ones everywhere and are left out; a        *)
(* document that is not closed, canonical or passed is refused, and is not *)
(* written here.                                                           *)
(***************************************************************************)
EXTENDS Naturals, FiniteSets, Sequences

CONSTANTS
    EvidenceIds,  \* RELEASE_EVIDENCE_IDS, in the order they are read
    None          \* a field a document does not have

Sourced == {"schema", "conformance", "determinism"}
Dated == {"sbom", "provenance", "vulnerability", "malware", "secret_scan", "license",
          "scan_completeness"}
Scans == {"vulnerability", "malware", "secret_scan"}
OfTheSbom == Scans \cup {"license", "scan_completeness"}

Plain == {"compatibility", "executed_distribution"}

required == {EvidenceIds[i] : i \in 1..Len(EvidenceIds)}

ASSUME EvidenceAssumption == required \subseteq Sourced \cup Dated \cup Plain

\* A document about an archive: when it was made, and from which source
\* report or which other documents.
built(id, archive, at, source, cites) ==
    [id |-> id, subject |-> archive, cites |-> cites,
     at |-> IF id \in Dated THEN at ELSE None,
     source |-> IF id \in Sourced THEN source ELSE None]

build_spdx_document(archive, at) == built("sbom", archive, at, None, {})

build_scan_report(id, archive, at, sbom) == built(id, archive, at, None, {sbom})

build_scan_completeness_report(archive, at, sbom, reports) ==
    built("scan_completeness", archive, at, None, {sbom} \cup reports)

(***************************************************************************)
(* An evaluation: the archive it is about, its time, the source reports it *)
(* copied, and the archive the scanners were given, which is another one   *)
(* when scan reports were carried over.                                    *)
(***************************************************************************)
scanReport(e, id) ==
    build_scan_report(id, e.scanned, e.at, build_spdx_document(e.scanned, e.at))

document(e, id) ==
    CASE id = "sbom" -> build_spdx_document(e.archive, e.at)
      [] id \in Scans \cup {"license"} -> scanReport(e, id)
      [] id = "scan_completeness" ->
            build_scan_completeness_report(e.archive, e.at, build_spdx_document(e.archive, e.at),
                                           {scanReport(e, s) : s \in Scans \cap required})
      [] OTHER -> built(id, e.archive, e.at, e.source, {})

\* The attestation of an evaluation: its subject and the digest of each document.
attestation(e) ==
    [subject |-> e.archive, at |-> e.at, checks |-> [id \in required |-> document(e, id)]]

(***************************************************************************)
(* What validate_release_evidence demands of the documents it read, given  *)
(* the archive, the attestation's time and the source report.              *)
(***************************************************************************)
validate_source(doc, archive, source) == doc.subject = archive /\ doc.source = source

validate_spdx(doc, archive, at) == doc = build_spdx_document(archive, at)

validate_provenance(doc, archive, at) == doc = built("provenance", archive, at, None, {})

\* Mutant: a scan of anything will do.
validate_scan_report_of_any(id, doc, archive, at, sbom) == doc.id = id

validate_scan_report(id, doc, archive, at, sbom) == doc = build_scan_report(id, archive, at, sbom)

validate_scan_completeness(doc, archive, at, sbom, reports) ==
    doc = build_scan_completeness_report(archive, at, sbom, reports)

validate_release_evidence(docs, archive, at, source) ==
    /\ DOMAIN docs = required
    /\ \A id \in required :
        /\ id \in Plain => docs[id].subject = archive
        /\ id \in Sourced => validate_source(docs[id], archive, source)
        /\ id = "sbom" => validate_spdx(docs[id], archive, at)
        /\ id = "provenance" => validate_provenance(docs[id], archive, at)
        /\ id \in Scans \cup {"license"} =>
            validate_scan_report(id, docs[id], archive, at, docs["sbom"])
        /\ id = "scan_completeness" =>
            validate_scan_completeness(docs[id], archive, at, docs["sbom"],
                                       {docs[s] : s \in Scans \cap required})
=============================================================================
