------------------------- MODULE DesiredStateStore -------------------------
(***************************************************************************)
(* The compare-and-swap store of internal/desiredstate/store.go: at most   *)
(* one record per key, written only through an absent/match precondition   *)
(* under the store's mutex, kept in memory only.                           *)
(*                                                                         *)
(* The mutex makes Read and CompareAndSwap atomic, so each is one step.    *)
(* The canonical digest (jcs.Transform, then SHA-256) is the function      *)
(* DigestOf: documents that differ only in layout have one digest, and a   *)
(* document jcs cannot canonicalise has NoDigest.                          *)
(***************************************************************************)
EXTENDS Integers, Sequences

CONSTANTS
    Keys,         \* the (consumerId, targetId) pairs
    Payloads,     \* the state documents a caller can present
    Digests,      \* canonical payload digests
    NoDigest,     \* the empty digest string
    DigestOf,     \* Payloads -> Digests \cup {NoDigest}
    Callers,      \* whoever calls the store (ghost: names the writer of a version)
    Revisions,    \* the revision numbers a caller can put in a precondition
    MaxRevision   \* bound: no commit once a key has this many versions

ASSUME DigestAssumption ==
    /\ NoDigest \notin Digests
    /\ DigestOf \in [Payloads -> Digests \cup {NoDigest}]
ASSUME RevisionAssumption == Revisions \subseteq Int /\ MaxRevision \in Nat

VARIABLES
    records,      \* Store.records: a map from keys to their current record
    log           \* ghost: every version this incarnation of the store committed

storeVars == <<records, log>>

Record == [revision : Nat \ {0}, digest : Digests, payload : Payloads]

(***************************************************************************)
(* Preconditions.  Kind "any" stands for every kind but absent and match,  *)
(* such as a wildcard.                                                     *)
(***************************************************************************)
Kinds == {"absent", "match", "any"}
Precondition == [kind : Kinds, revision : Revisions, digest : Digests \cup {NoDigest}]

Absent == [kind |-> "absent", revision |-> 0, digest |-> NoDigest]
Match(r, d) == [kind |-> "match", revision |-> r, digest |-> d]

ValidPrecondition(p) ==
    \/ p.kind = "absent" /\ p.revision = 0 /\ p.digest = NoDigest
    \/ p.kind = "match" /\ p.revision > 0 /\ p.digest # NoDigest

Exists(k) == k \in DOMAIN records

\* Mutant: the digest alone is compared.
HoldsDigestOnly(k, p) ==
    \/ p.kind = "absent" /\ ~Exists(k)
    \/ p.kind = "match" /\ Exists(k) /\ records[k].digest = p.digest

\* The switch under the lock: does the precondition match the stored state?
Holds(k, p) ==
    \/ p.kind = "absent" /\ ~Exists(k)
    \/ /\ p.kind = "match"
       /\ Exists(k)
       /\ records[k].revision = p.revision
       /\ records[k].digest = p.digest

NextRevision(k) == IF Exists(k) THEN records[k].revision + 1 ELSE 1

\* The error CompareAndSwap returns, in the order its checks are made.
Outcome(k, p, v) ==
    IF ~ValidPrecondition(p) THEN "precondition_invalid"
    ELSE IF DigestOf[v] = NoDigest THEN "not_canonicalizable"
    ELSE IF ~Holds(k, p) THEN "precondition_failed"
    ELSE "ok"

NewRecord(k, v) == [revision |-> NextRevision(k), digest |-> DigestOf[v], payload |-> v]

\* One version in the ghost log: what was stored, for whom, on which precondition.
LogEntry == [record : Record, caller : Callers, on : Precondition]

----------------------------------------------------------------------------
StoreInit ==
    /\ records = [k \in {} |-> 0]
    /\ log = [k \in Keys |-> << >>]

Commit(c, k, p, v) ==
    /\ records' = [x \in DOMAIN records \cup {k} |->
                       IF x = k THEN NewRecord(k, v) ELSE records[x]]
    /\ log' = [log EXCEPT ![k] =
                   Append(@, [record |-> NewRecord(k, v), caller |-> c, on |-> p])]

\* One call: the lock is held from the check to the write.
CompareAndSwap(c, k, p, v) ==
    IF Outcome(k, p, v) = "ok"
    THEN Len(log[k]) < MaxRevision /\ Commit(c, k, p, v)
    ELSE UNCHANGED storeVars

\* The process ends and a new one calls NewStore: nothing was persisted.
Restart ==
    /\ records' = [k \in {} |-> 0]
    /\ log' = [k \in Keys |-> << >>]

StoreNext ==
    \/ \E c \in Callers, k \in Keys, p \in Precondition, v \in Payloads :
           CompareAndSwap(c, k, p, v)
    \/ Restart

StoreSpec == StoreInit /\ [][StoreNext]_storeVars

----------------------------------------------------------------------------
\* The shape of the state: at most one record per key, every version well formed.
StoreTypeOK ==
    /\ DOMAIN records \subseteq Keys
    /\ \A k \in DOMAIN records : records[k] \in Record
    /\ log \in [Keys -> Seq(LogEntry)]

\* Every key has exactly one logical revision (the package comment): the stored
\* record is the last committed version, and the i-th version carries revision i.
OneLogicalRevision ==
    \A k \in Keys :
        /\ Exists(k) <=> log[k] # << >>
        /\ Exists(k) => records[k] = log[k][Len(log[k])].record
        /\ \A i \in 1..Len(log[k]) : log[k][i].record.revision = i

\* No update is lost and nothing is ABA (the Store comment): the first version was
\* created on "absent", and each later one names exactly the version it replaces,
\* by revision and digest, however often a digest comes back.
VersionsFormAChain ==
    \A k \in Keys : \A i \in 1..Len(log[k]) :
        log[k][i].on = IF i = 1 THEN Absent
                       ELSE Match(i - 1, log[k][i - 1].record.digest)
=============================================================================
