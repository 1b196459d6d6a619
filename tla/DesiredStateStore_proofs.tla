---------------------- MODULE DesiredStateStore_proofs ----------------------
(***************************************************************************)
(* Proofs about DesiredStateStore, for every set of keys, documents,       *)
(* digests and callers and every bound.  StoreInv is inductive: the chain  *)
(* of preconditions can only be extended when the stored record is known   *)
(* to be the last version of the log, which is what OneLogicalRevision     *)
(* says.                                                                   *)
(***************************************************************************)
EXTENDS DesiredStateStore, TLAPS

StoreInv == StoreTypeOK /\ OneLogicalRevision /\ VersionsFormAChain

\* What Append does to the positions of a sequence.
LEMMA AppendFacts ==
    ASSUME NEW S, NEW s \in Seq(S), NEW e \in S
    PROVE  /\ Append(s, e) \in Seq(S)
           /\ Len(Append(s, e)) = Len(s) + 1
           /\ \A i \in 1..Len(s) : Append(s, e)[i] = s[i]
           /\ Append(s, e)[Len(s) + 1] = e
  OBVIOUS

\* NewRecord builds a well-formed record when the document has a digest.
LEMMA NewRecordType ==
    ASSUME StoreTypeOK, NEW k \in Keys, NEW v \in Payloads, DigestOf[v] # NoDigest
    PROVE  NewRecord(k, v) \in Record
<1>1. DigestOf[v] \in Digests
  BY DigestAssumption
<1>2. NextRevision(k) \in Nat \ {0}
  BY DEF NextRevision, Exists, StoreTypeOK, Record
<1> QED
  BY <1>1, <1>2 DEF NewRecord, Record

\* A precondition that is valid and holds names the stored record exactly, or
\* is Absent when there is none.
LEMMA HoldsNamesCurrent ==
    ASSUME StoreTypeOK, NEW k \in Keys, NEW p \in Precondition,
           ValidPrecondition(p), Holds(k, p)
    PROVE  p = IF Exists(k) THEN Match(records[k].revision, records[k].digest)
               ELSE Absent
<1>1. p = [kind |-> p.kind, revision |-> p.revision, digest |-> p.digest]
  BY DEF Precondition
<1>2. CASE p.kind = "absent"
  BY <1>1, <1>2 DEF ValidPrecondition, Holds, Absent
<1>3. CASE p.kind = "match"
  BY <1>1, <1>3 DEF ValidPrecondition, Holds, Match
<1> QED
  BY <1>2, <1>3 DEF ValidPrecondition

\* The type invariant holds initially and after a restart.
LEMMA StoreInitInv == StoreInit => StoreInv
<1> SUFFICES ASSUME StoreInit PROVE StoreInv
  OBVIOUS
<1>1. log \in [Keys -> Seq(LogEntry)] /\ \A k \in Keys : log[k] = << >>
  BY DEF StoreInit
<1>2. DOMAIN records = {}
  BY DEF StoreInit
<1> QED
  BY <1>1, <1>2 DEF StoreInv, StoreTypeOK, OneLogicalRevision, VersionsFormAChain, Exists

LEMMA CommitInv ==
    ASSUME StoreInv, NEW c \in Callers, NEW k \in Keys, NEW p \in Precondition,
           NEW v \in Payloads, Outcome(k, p, v) = "ok", Commit(c, k, p, v)
    PROVE  StoreInv'
<1> DEFINE rec == NewRecord(k, v)
           entry == [record |-> rec, caller |-> c, on |-> p]
<1> USE DEF StoreInv
<1>1. ValidPrecondition(p) /\ DigestOf[v] # NoDigest /\ Holds(k, p)
  BY DEF Outcome
<1>2. rec \in Record
  BY <1>1, NewRecordType
<1>3. entry \in LogEntry
  BY <1>2 DEF LogEntry
<1>4. /\ log' \in [Keys -> Seq(LogEntry)]
      /\ log'[k] = Append(log[k], entry)
      /\ \A x \in Keys \ {k} : log'[x] = log[x]
  BY <1>3, AppendFacts DEF Commit, StoreTypeOK
<1>5. /\ DOMAIN records' = DOMAIN records \cup {k}
      /\ records'[k] = rec
      /\ \A x \in DOMAIN records \ {k} : records'[x] = records[x]
  BY DEF Commit
<1> HIDE DEF rec, entry
<1>6. /\ log[k] \in Seq(LogEntry)
      /\ Len(log[k]) \in Nat
      /\ Len(log'[k]) = Len(log[k]) + 1
      /\ \A i \in 1..Len(log[k]) : log'[k][i] = log[k][i]
      /\ log'[k][Len(log[k]) + 1] = entry
  BY <1>3, <1>4, AppendFacts DEF StoreTypeOK
<1>7. rec.revision = Len(log[k]) + 1
  <2>1. rec.revision = NextRevision(k)
    BY DEF rec, NewRecord
  <2>2. CASE Exists(k)
    <3>1. Len(log[k]) \in 1..Len(log[k])
      BY <2>2, <1>6 DEF OneLogicalRevision
    <3> QED
      BY <2>1, <2>2, <3>1 DEF NextRevision, OneLogicalRevision
  <2>3. CASE ~Exists(k)
    BY <2>1, <2>3 DEF NextRevision, OneLogicalRevision
  <2> QED
    BY <2>2, <2>3
<1>8. p = IF Len(log[k]) = 0 THEN Absent
          ELSE Match(Len(log[k]), log[k][Len(log[k])].record.digest)
  <2>1. CASE Exists(k)
    <3>1. Len(log[k]) \in 1..Len(log[k])
      BY <2>1, <1>6 DEF OneLogicalRevision
    <3>2. records[k] = log[k][Len(log[k])].record /\ records[k].revision = Len(log[k])
      BY <2>1, <3>1 DEF OneLogicalRevision
    <3> QED
      BY <2>1, <3>1, <3>2, <1>1, HoldsNamesCurrent
  <2>2. CASE ~Exists(k)
    BY <2>2, <1>1, HoldsNamesCurrent DEF OneLogicalRevision
  <2> QED
    BY <2>1, <2>2
<1>9. entry.record = rec /\ entry.on = p
  BY DEF entry
<1>10. StoreTypeOK'
  BY <1>2, <1>4, <1>5 DEF StoreTypeOK
<1>11. OneLogicalRevision'
  <2> SUFFICES ASSUME NEW x \in Keys
               PROVE  /\ Exists(x)' <=> log'[x] # << >>
                      /\ Exists(x)' => records'[x] = log'[x][Len(log'[x])].record
                      /\ \A i \in 1..Len(log'[x]) : log'[x][i].record.revision = i
    BY DEF OneLogicalRevision
  <2>1. CASE x = k
    <3>1. Exists(x)' /\ log'[x] # << >>
      BY <2>1, <1>5, <1>6 DEF Exists
    <3>2. records'[x] = log'[x][Len(log'[x])].record
      BY <2>1, <1>5, <1>6, <1>9
    <3>3. ASSUME NEW i \in 1..Len(log'[x])
          PROVE  log'[x][i].record.revision = i
      BY <2>1, <1>6, <1>7, <1>9, SMTT(30) DEF OneLogicalRevision
    <3> QED
      BY <3>1, <3>2, <3>3
  <2>2. CASE x # k
    BY <2>2, <1>4, <1>5 DEF OneLogicalRevision, Exists
  <2> QED
    BY <2>1, <2>2
<1>12. VersionsFormAChain'
  <2> SUFFICES ASSUME NEW x \in Keys, NEW i \in 1..Len(log'[x])
               PROVE  log'[x][i].on = IF i = 1 THEN Absent
                                      ELSE Match(i - 1, log'[x][i - 1].record.digest)
    BY DEF VersionsFormAChain
  <2>c. \A j \in 1..Len(log[x]) : log[x][j].on = IF j = 1 THEN Absent
                                   ELSE Match(j - 1, log[x][j - 1].record.digest)
    BY DEF VersionsFormAChain
  <2>1. CASE x # k
    <3>1. log'[x] = log[x]
      BY <2>1, <1>4
    <3> QED
      BY <2>c, <3>1
  <2>2. CASE x = k /\ i \in 1..Len(log[k])
    <3>0. i # 1 => i - 1 \in 1..Len(log[k])
      BY <2>2, <1>6
    <3>1. log'[k][i] = log[k][i] /\ (i # 1 => log'[k][i - 1] = log[k][i - 1])
      <4>1. \A j \in 1..Len(log[k]) : log'[k][j] = log[k][j]
        BY <1>6
      <4> QED
        BY <2>2, <3>0, <4>1, Zenon
    <3> QED
      BY <2>c, <2>2, <3>1
  <2>3. CASE x = k /\ i = Len(log[k]) + 1
    <3>1. log'[x][i].on = p
      BY <2>3, <1>6, <1>9
    <3>2. CASE Len(log[k]) = 0
      BY <2>3, <3>1, <3>2, <1>8
    <3>3. CASE Len(log[k]) # 0
      <4>1. log'[x][i - 1] = log[k][Len(log[k])]
        BY <2>3, <3>3, <1>6
      <4> QED
        BY <2>3, <3>1, <3>3, <4>1, <1>6, <1>8
    <3> QED
      BY <3>2, <3>3
  <2> QED
    BY <2>1, <2>2, <2>3, <1>6
<1> QED
  BY <1>10, <1>11, <1>12

\* Every step of the store preserves the inductive invariant.
LEMMA StoreStepInv == StoreInv /\ [StoreNext]_storeVars => StoreInv'
<1> SUFFICES ASSUME StoreInv, [StoreNext]_storeVars PROVE StoreInv'
  OBVIOUS
<1>1. ASSUME NEW c \in Callers, NEW k \in Keys, NEW p \in Precondition,
             NEW v \in Payloads, CompareAndSwap(c, k, p, v)
      PROVE  StoreInv'
  <2>1. CASE Outcome(k, p, v) = "ok"
    BY <1>1, <2>1, CommitInv DEF CompareAndSwap
  <2>2. CASE UNCHANGED storeVars
    BY <2>2 DEF storeVars, StoreInv, StoreTypeOK, OneLogicalRevision, VersionsFormAChain, Exists
  <2> QED
    BY <1>1, <2>1, <2>2 DEF CompareAndSwap
<1>2. CASE Restart
  <2>1. log' \in [Keys -> Seq(LogEntry)] /\ \A k \in Keys : log'[k] = << >>
    BY <1>2 DEF Restart
  <2>2. DOMAIN records' = {}
    BY <1>2 DEF Restart
  <2> QED
    BY <2>1, <2>2 DEF StoreInv, StoreTypeOK, OneLogicalRevision, VersionsFormAChain, Exists
<1>3. CASE UNCHANGED storeVars
  BY <1>3 DEF storeVars, StoreInv, StoreTypeOK, OneLogicalRevision, VersionsFormAChain, Exists
<1> QED
  BY <1>1, <1>2, <1>3 DEF StoreNext

\* The conjunction of the three invariants below holds in every reachable state.
THEOREM StoreInvariant == StoreSpec => []StoreInv
  BY StoreInitInv, StoreStepInv, PTL DEF StoreSpec

\* The store's state always has its type.
THEOREM TypeCorrect == StoreSpec => []StoreTypeOK
  BY StoreInvariant, PTL DEF StoreInv

\* A key always has exactly one logical revision, the last one committed.
THEOREM OneRevision == StoreSpec => []OneLogicalRevision
  BY StoreInvariant, PTL DEF StoreInv

\* CompareAndSwap never loses an update: each version names the one it replaced.
THEOREM NoLostUpdate == StoreSpec => []VersionsFormAChain
  BY StoreInvariant, PTL DEF StoreInv
=============================================================================
