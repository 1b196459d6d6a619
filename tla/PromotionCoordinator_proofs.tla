-------------------- MODULE PromotionCoordinator_proofs --------------------
(***************************************************************************)
(* What the promotion coordinator guarantees beside other writers, for any *)
(* number of promoters and other callers, any proposals and any bounds.    *)
(*                                                                         *)
(* The store's invariant carries over, since every step is a step of the   *)
(* store.  VerdictInv adds what a verdict rests on: while an update is     *)
(* classified, the precondition it holds names the version that was there. *)
(***************************************************************************)
EXTENDS PromotionCoordinator, CanaryVerifier, DesiredStateStore_proofs

\* The precondition that names the i-th version of a key, or none.
named(k, i) == IF i = 0 THEN Absent ELSE Match(i, log[k][i].record.digest)

\* At position i of the key's history stands a version that p wrote.
wrote(p, k, i) == i \in 1..Len(log[k]) /\ log[k][i].caller = p

VerdictInv ==
    /\ work \in [Promoters -> Work]
    /\ \A k \in Keys : Len(log[k]) <= MaxRevision
    /\ \A p \in Promoters, k \in Keys : \A i \in 1..Len(log[k]) :
          log[k][i].caller = p =>
              work[p].step = "promoted" /\ k = work[p].key /\ i = work[p].versions + 1
    /\ \A p \in Promoters : work[p].step # "idle" =>
          work[p].disposition = ClassifyUpdate(work[p].proposal)
    /\ \A p \in Promoters : work[p].step = "classified" =>
          /\ work[p].versions <= Len(log[work[p].key])
          /\ work[p].precondition = named(work[p].key, work[p].versions)
    /\ \A p \in Promoters : work[p].step = "promoted" =>
          /\ wrote(p, work[p].key, work[p].versions + 1)
          /\ work[p].disposition = "approval-required" => work[p].approved

Inv == StoreInv /\ VerdictInv

\* The fields of an update under way.
LEMMA WorkFacts ==
    ASSUME VerdictInv, NEW p \in Promoters, work[p].step # "idle"
    PROVE  work[p] \in [step : Steps, attempt : 1..MaxAttempts, key : Keys,
                        proposal : Proposals, disposition : Dispositions, approved : BOOLEAN,
                        payload : Payloads, precondition : Precondition, versions : Nat]
  BY DEF VerdictInv, Work, NoWork

\* What Coordinator.Read leads to: a precondition that names the last version.
LEMMA CurrentIsNamed ==
    ASSUME Inv, NEW k \in Keys
    PROVE  /\ currentPrecondition(k) = named(k, Len(log[k]))
           /\ currentPrecondition(k) \in Precondition
           /\ Len(log[k]) \in Nat
<1>1. log[k] \in Seq(LogEntry) /\ Len(log[k]) <= MaxRevision
  BY DEF Inv, StoreInv, StoreTypeOK, VerdictInv
<1>2. CASE ~Exists(k)
  <2>1. Len(log[k]) = 0
    BY <1>1, <1>2 DEF Inv, StoreInv, OneLogicalRevision
  <2>2. 0 \in Revisions
    BY RevisionsNamed, RevisionAssumption
  <2> QED
    BY <1>2, <2>1, <2>2 DEF currentPrecondition, named, Absent, Precondition, Kinds
<1>3. CASE Exists(k)
  <2>1. Len(log[k]) \in 1..Len(log[k])
    BY <1>1, <1>3 DEF Inv, StoreInv, OneLogicalRevision
  <2>2. records[k] = log[k][Len(log[k])].record /\ records[k].revision = Len(log[k])
    BY <1>3, <2>1 DEF Inv, StoreInv, OneLogicalRevision
  <2>3. Len(log[k]) \in Revisions
    BY <1>1, <2>1, RevisionsNamed, RevisionAssumption
  <2>4. records[k].digest \in Digests
    BY <1>3 DEF Exists, Inv, StoreInv, StoreTypeOK, Record
  <2> QED
    BY <1>3, <2>1, <2>2, <2>3, <2>4 DEF currentPrecondition, named, Match, Precondition, Kinds
<1> QED
  BY <1>1, <1>2, <1>3

\* A call that succeeds adds one version, by its caller, at the end of one history.
LEMMA CallAdds ==
    ASSUME Inv, NEW c \in Callers, NEW k \in Keys, NEW p \in Precondition, NEW v \in Payloads,
           CompareAndSwap(c, k, p, v), Outcome(k, p, v) = "ok"
    PROVE  /\ Len(log[k]) \in Nat /\ Len(log'[k]) = Len(log[k]) + 1
           /\ Len(log'[k]) <= MaxRevision
           /\ log'[k][Len(log[k]) + 1].caller = c
           /\ \A i \in 1..Len(log[k]) : log'[k][i] = log[k][i]
           /\ \A x \in Keys \ {k} : log'[x] = log[x]
<1>1. Len(log[k]) < MaxRevision /\ Commit(c, k, p, v)
  BY DEF CompareAndSwap
<1>2. DigestOf[v] # NoDigest
  BY DEF Outcome
<1> DEFINE entry == [record |-> NewRecord(k, v), caller |-> c, on |-> p]
<1>3. log \in [Keys -> Seq(LogEntry)]
  BY DEF Inv, StoreInv, StoreTypeOK
<1>4. entry \in LogEntry
  BY <1>2, NewRecordType DEF Inv, StoreInv, LogEntry
<1>5. log' = [log EXCEPT ![k] = Append(@, entry)]
  BY <1>1 DEF Commit
<1>6. entry.caller = c
  OBVIOUS
<1> HIDE DEF entry
<1>7. log'[k] = Append(log[k], entry) /\ \A x \in Keys \ {k} : log'[x] = log[x]
  BY <1>3, <1>5
<1> QED
  BY <1>1, <1>3, <1>4, <1>6, <1>7, AppendFacts, RevisionAssumption

\* A call that succeeds found the version its precondition names in place.
LEMMA CallNamesLast ==
    ASSUME Inv, NEW k \in Keys, NEW i \in Nat, i <= Len(log[k]), NEW v \in Payloads,
           named(k, i) \in Precondition, Outcome(k, named(k, i), v) = "ok"
    PROVE  i = Len(log[k])
<1>1. Holds(k, named(k, i)) /\ ValidPrecondition(named(k, i))
  BY DEF Outcome
<1>2. named(k, i) = currentPrecondition(k)
  BY <1>1, HoldsNamesCurrent DEF Inv, StoreInv, currentPrecondition
<1>3. named(k, i) = named(k, Len(log[k])) /\ Len(log[k]) \in Nat
  BY <1>2, CurrentIsNamed
<1> QED
  BY <1>3 DEF named, Absent, Match

\* The store's part of any step.
LEMMA StoreKeeps ==
    ASSUME Inv, NEW c \in Callers, NEW k \in Keys, NEW p \in Precondition, NEW v \in Payloads,
           CompareAndSwap(c, k, p, v)
    PROVE  StoreInv'
  BY StoreStepInv DEF Inv, StoreNext

\* A write by a caller that is no promoter disturbs no update under way.
LEMMA OtherWrites ==
    ASSUME Inv, NEW c \in Callers \ Promoters, NEW k \in Keys, NEW p \in Precondition,
           NEW v \in Payloads, CompareAndSwap(c, k, p, v), work' = work
    PROVE  VerdictInv'
<1>1. CASE Outcome(k, p, v) = "ok"
  <2>1. /\ Len(log[k]) \in Nat /\ Len(log'[k]) = Len(log[k]) + 1 /\ Len(log'[k]) <= MaxRevision
        /\ log'[k][Len(log[k]) + 1].caller = c
        /\ \A i \in 1..Len(log[k]) : log'[k][i] = log[k][i]
        /\ \A x \in Keys \ {k} : log'[x] = log[x]
    BY <1>1, CallAdds
  <2>2. \A x \in Keys : Len(log'[x]) <= MaxRevision
    BY <2>1 DEF Inv, VerdictInv
  <2>3. \A x \in Keys : \A i \in 1..Len(log[x]) :
           i \in 1..Len(log'[x]) /\ log'[x][i] = log[x][i]
    BY <2>1
  <2>4. \A x \in Keys : \A i \in 1..Len(log'[x]) :
           log'[x][i].caller = c \/ (i \in 1..Len(log[x]) /\ log'[x][i] = log[x][i])
    BY <2>1
  <2>5. \A q \in Promoters, x \in Keys : \A i \in 1..Len(log'[x]) :
          log'[x][i].caller = q =>
              work[q].step = "promoted" /\ x = work[q].key /\ i = work[q].versions + 1
    BY <2>4 DEF Inv, VerdictInv
  <2>6. ASSUME NEW q \in Promoters, work[q].step = "classified"
        PROVE  /\ work[q].versions <= Len(log'[work[q].key])
               /\ work[q].precondition = named(work[q].key, work[q].versions)'
    <3>1. work[q].key \in Keys /\ work[q].versions \in Nat
      BY <2>6, WorkFacts DEF Inv
    <3>2. /\ work[q].versions <= Len(log[work[q].key])
          /\ work[q].precondition = named(work[q].key, work[q].versions)
      BY <2>6 DEF Inv, VerdictInv
    <3>3. Len(log[work[q].key]) \in Nat /\ Len(log'[work[q].key]) \in Nat
          /\ Len(log[work[q].key]) <= Len(log'[work[q].key])
      BY <2>1, <3>1, CurrentIsNamed
    <3>4. work[q].versions # 0 => work[q].versions \in 1..Len(log[work[q].key])
      BY <3>1, <3>2, <3>3
    <3> QED
      BY <2>3, <3>1, <3>2, <3>3, <3>4 DEF named
  <2>7. ASSUME NEW q \in Promoters, work[q].step = "promoted"
        PROVE  wrote(q, work[q].key, work[q].versions + 1)'
    <3>1. work[q].key \in Keys
      BY <2>7, WorkFacts DEF Inv
    <3>2. wrote(q, work[q].key, work[q].versions + 1)
      BY <2>7 DEF Inv, VerdictInv
    <3> QED
      BY <2>3, <3>1, <3>2 DEF wrote
  <2> QED
    BY <2>2, <2>5, <2>6, <2>7 DEF Inv, VerdictInv
<1>2. CASE UNCHANGED storeVars
  BY <1>2 DEF Inv, VerdictInv, storeVars, wrote, named
<1> QED
  BY <1>1, <1>2 DEF CompareAndSwap

\* A proposal rests on the version its proposer read.
LEMMA ProposeKeeps ==
    ASSUME Inv, NEW p \in Promoters, NEW k \in Keys, Propose(p, k)
    PROVE  VerdictInv'
<1>1. PICK u \in Proposals, v \in Payloads :
         work' = [work EXCEPT ![p] =
                    [step |-> "classified", attempt |-> @.attempt + 1, key |-> k,
                     proposal |-> u, disposition |-> ClassifyUpdate(u),
                     approved |-> FALSE, payload |-> v,
                     precondition |-> currentPrecondition(k),
                     versions |-> Len(log[k])]]
  BY DEF Propose
<1> DEFINE w == [step |-> "classified", attempt |-> work[p].attempt + 1, key |-> k,
                 proposal |-> u, disposition |-> ClassifyUpdate(u),
                 approved |-> FALSE, payload |-> v,
                 precondition |-> currentPrecondition(k),
                 versions |-> Len(log[k])]
<1>2. work \in [Promoters -> Work] /\ log' = log
  BY DEF Inv, VerdictInv, Propose
<1>3. work' = [work EXCEPT ![p] = w]
  BY <1>1
<1>4. /\ w.step = "classified" /\ w.key = k /\ w.versions = Len(log[k])
      /\ w.proposal = u /\ w.disposition = ClassifyUpdate(u)
      /\ w.precondition = currentPrecondition(k)
  OBVIOUS
<1>5. w \in Work
  <2>1. work[p].attempt \in 0..MaxAttempts /\ work[p].attempt < MaxAttempts
    BY <1>2, AttemptAssumption DEF Work, NoWork, Propose
  <2>2. work[p].attempt + 1 \in 1..MaxAttempts
    BY <2>1, AttemptAssumption
  <2>3. ClassifyUpdate(u) \in Dispositions
    BY DEF ClassifyUpdate, Dispositions
  <2> QED
    BY <2>2, <2>3, CurrentIsNamed DEF Work, Steps
<1> HIDE DEF w
<1>6. work'[p] = w /\ \A x \in Promoters \ {p} : work'[x] = work[x]
  BY <1>2, <1>3
<1>7. work' \in [Promoters -> Work]
  BY <1>2, <1>3, <1>5
<1>8. \A x \in Keys : \A i \in 1..Len(log[x]) : log[x][i].caller # p
  BY DEF Inv, VerdictInv, Propose
<1>9. named(k, Len(log[k])) = currentPrecondition(k) /\ Len(log[k]) \in Nat
  BY CurrentIsNamed
<1> QED
  BY <1>2, <1>4, <1>6, <1>7, <1>8, <1>9 DEF Inv, VerdictInv, wrote, named

LEMMA ApproveKeeps ==
    ASSUME Inv, NEW p \in Promoters, Approve(p)
    PROVE  VerdictInv'
<1>1. work' = [work EXCEPT ![p].approved = TRUE] /\ log' = log /\ work[p].step = "classified"
  BY DEF Approve
<1>2. work \in [Promoters -> Work]
  BY DEF Inv, VerdictInv
<1>3. work[p] \in [step : Steps, attempt : 1..MaxAttempts, key : Keys,
                   proposal : Proposals, disposition : Dispositions, approved : BOOLEAN,
                   payload : Payloads, precondition : Precondition, versions : Nat]
  BY <1>1, WorkFacts DEF Inv
<1> DEFINE w == [work[p] EXCEPT !.approved = TRUE]
<1>4. /\ w \in Work /\ w.step = "classified" /\ w.key = work[p].key
      /\ w.versions = work[p].versions /\ w.proposal = work[p].proposal
      /\ w.disposition = work[p].disposition /\ w.precondition = work[p].precondition
  BY <1>1, <1>3 DEF Work
<1>5. work' = [work EXCEPT ![p] = w]
  BY <1>1
<1> HIDE DEF w
<1>6. work'[p] = w /\ \A x \in Promoters \ {p} : work'[x] = work[x]
  BY <1>2, <1>5
<1>7. work' \in [Promoters -> Work]
  BY <1>2, <1>4, <1>5
<1> QED
  BY <1>1, <1>4, <1>6, <1>7 DEF Inv, VerdictInv, wrote, named

\* An update moves on to step s and keeps everything else.
LEMMA MovesOn ==
    ASSUME Inv, NEW p \in Promoters, NEW s \in Steps, work[p].step = "classified",
           work' = [work EXCEPT ![p].step = s]
    PROVE  /\ work' \in [Promoters -> Work]
           /\ \A x \in Promoters \ {p} : work'[x] = work[x]
           /\ work'[p].step = s /\ work'[p].key = work[p].key
           /\ work'[p].versions = work[p].versions
           /\ work'[p].proposal = work[p].proposal
           /\ work'[p].disposition = work[p].disposition
           /\ work'[p].approved = work[p].approved
<1>1. work \in [Promoters -> Work]
  BY DEF Inv, VerdictInv
<1>2. work[p] \in [step : Steps, attempt : 1..MaxAttempts, key : Keys,
                   proposal : Proposals, disposition : Dispositions, approved : BOOLEAN,
                   payload : Payloads, precondition : Precondition, versions : Nat]
  BY WorkFacts DEF Inv
<1> DEFINE w == [work[p] EXCEPT !.step = s]
<1>3. /\ w \in Work /\ w.step = s /\ w.key = work[p].key
      /\ w.versions = work[p].versions /\ w.proposal = work[p].proposal
      /\ w.disposition = work[p].disposition /\ w.approved = work[p].approved
  BY <1>2 DEF Work
<1>4. work' = [work EXCEPT ![p] = w]
  OBVIOUS
<1> HIDE DEF w
<1> QED
  BY <1>1, <1>3, <1>4

\* An update that stops, without a write.
LEMMA StopsQuietly ==
    ASSUME Inv, NEW p \in Promoters, NEW s \in {"stopped", "stale", "failed"},
           work[p].step = "classified", work' = [work EXCEPT ![p].step = s], log' = log
    PROVE  VerdictInv'
<1>1. s \in Steps /\ s # "classified" /\ s # "promoted" /\ s # "idle"
  BY DEF Steps
<1>2. /\ work' \in [Promoters -> Work]
      /\ \A x \in Promoters \ {p} : work'[x] = work[x]
      /\ work'[p].step = s
      /\ work'[p].proposal = work[p].proposal /\ work'[p].disposition = work[p].disposition
  BY <1>1, MovesOn
<1> QED
  BY <1>1, <1>2 DEF Inv, VerdictInv, wrote, named

LEMMA PromoteKeeps ==
    ASSUME Inv, NEW p \in Promoters, Promote(p)
    PROVE  Inv'
<1> DEFINE w == work[p]
           outcome == Outcome(w.key, w.precondition, w.payload)
<1>1. w.step = "classified"
  BY DEF Promote
<1>2. /\ w.key \in Keys /\ w.precondition \in Precondition /\ w.payload \in Payloads
      /\ w.versions \in Nat
  BY <1>1, WorkFacts DEF Inv
<1>3. p \in Callers
  BY CallerAssumption
<1>4. CASE refuses(w.disposition, w.approved, w.precondition)
  <2>1. work' = [work EXCEPT ![p].step = "stopped"] /\ UNCHANGED storeVars
    BY <1>4 DEF Promote
  <2>2. VerdictInv'
    BY <1>1, <2>1, StopsQuietly DEF storeVars
  <2> QED
    BY <2>1, <2>2, StoreStepInv DEF Inv
<1>5. CASE ~refuses(w.disposition, w.approved, w.precondition)
  <2>1. /\ CompareAndSwap(p, w.key, w.precondition, w.payload)
        /\ work' = [work EXCEPT ![p].step =
                      CASE outcome = "ok" -> "promoted"
                        [] outcome = "precondition_failed" -> "stale"
                        [] OTHER -> "failed"]
    BY <1>5 DEF Promote
  <2>2. StoreInv'
    BY <1>2, <1>3, <2>1, StoreKeeps
  <2>3. CASE outcome # "ok"
    <3>1. log' = log
      BY <2>1, <2>3 DEF CompareAndSwap, storeVars
    <3>2. \E s \in {"stopped", "stale", "failed"} : work' = [work EXCEPT ![p].step = s]
      <4>1. CASE outcome = "precondition_failed"
        BY <2>1, <4>1
      <4>2. CASE outcome # "precondition_failed"
        BY <2>1, <2>3, <4>2
      <4> QED
        BY <4>1, <4>2
    <3>3. VerdictInv'
      BY <1>1, <3>1, <3>2, StopsQuietly
    <3> QED
      BY <2>2, <3>3 DEF Inv
  <2>4. CASE outcome = "ok"
    <3>1. work' = [work EXCEPT ![p].step = "promoted"]
      BY <2>1, <2>4
    <3>2. /\ work' \in [Promoters -> Work]
          /\ \A x \in Promoters \ {p} : work'[x] = work[x]
          /\ work'[p].step = "promoted" /\ work'[p].key = w.key
          /\ work'[p].versions = w.versions /\ work'[p].proposal = w.proposal
          /\ work'[p].disposition = w.disposition /\ work'[p].approved = w.approved
      BY <1>1, <3>1, MovesOn DEF Steps
    <3>3. w.versions <= Len(log[w.key]) /\ w.precondition = named(w.key, w.versions)
      BY <1>1 DEF Inv, VerdictInv
    <3>4. w.versions = Len(log[w.key])
      BY <1>2, <2>4, <3>3, CallNamesLast
    <3>5. /\ Len(log[w.key]) \in Nat /\ Len(log'[w.key]) = Len(log[w.key]) + 1
          /\ Len(log'[w.key]) <= MaxRevision
          /\ log'[w.key][Len(log[w.key]) + 1].caller = p
          /\ \A i \in 1..Len(log[w.key]) : log'[w.key][i] = log[w.key][i]
          /\ \A x \in Keys \ {w.key} : log'[x] = log[x]
      BY <1>2, <1>3, <2>1, <2>4, CallAdds
    <3>6. \A x \in Keys : Len(log'[x]) <= MaxRevision
      BY <3>5 DEF Inv, VerdictInv
    <3>7. \A x \in Keys : \A i \in 1..Len(log[x]) :
             i \in 1..Len(log'[x]) /\ log'[x][i] = log[x][i]
      BY <3>5
    <3>8. \A x \in Keys : \A i \in 1..Len(log'[x]) :
             \/ x = w.key /\ i = w.versions + 1 /\ log'[x][i].caller = p
             \/ i \in 1..Len(log[x]) /\ log'[x][i] = log[x][i]
      BY <3>4, <3>5, SMTT(30)
    <3>9. \A x \in Keys : \A i \in 1..Len(log[x]) : log[x][i].caller # p
      BY <1>1 DEF Inv, VerdictInv
    <3>10. \A q \in Promoters, x \in Keys : \A i \in 1..Len(log'[x]) :
             log'[x][i].caller = q =>
               work'[q].step = "promoted" /\ x = work'[q].key /\ i = work'[q].versions + 1
      <4> SUFFICES ASSUME NEW q \in Promoters, NEW x \in Keys, NEW i \in 1..Len(log'[x]),
                          log'[x][i].caller = q
                   PROVE  work'[q].step = "promoted" /\ x = work'[q].key
                            /\ i = work'[q].versions + 1
        OBVIOUS
      <4>1. CASE q = p
        BY <3>2, <3>8, <3>9, <4>1
      <4>2. CASE q # p
        <5>1. i \in 1..Len(log[x]) /\ log'[x][i] = log[x][i]
          BY <3>8, <4>2
        <5> QED
          BY <3>2, <4>2, <5>1 DEF Inv, VerdictInv
      <4> QED
        BY <4>1, <4>2
    <3>11. \A q \in Promoters : work'[q].step # "idle" =>
              work'[q].disposition = ClassifyUpdate(work'[q].proposal)
      BY <1>1, <3>2 DEF Inv, VerdictInv
    <3>12. ASSUME NEW q \in Promoters, work'[q].step = "classified"
           PROVE  /\ work'[q].versions <= Len(log'[work'[q].key])
                  /\ work'[q].precondition = named(work[q].key, work[q].versions)'
      <4>1. q # p /\ work'[q] = work[q]
        BY <3>2, <3>12
      <4>2. work[q].key \in Keys /\ work[q].versions \in Nat
        BY <3>12, <4>1, WorkFacts DEF Inv
      <4>3. /\ work[q].versions <= Len(log[work[q].key])
            /\ work[q].precondition = named(work[q].key, work[q].versions)
        BY <3>12, <4>1 DEF Inv, VerdictInv
      <4>4. Len(log[work[q].key]) \in Nat /\ Len(log'[work[q].key]) \in Nat
            /\ Len(log[work[q].key]) <= Len(log'[work[q].key])
        BY <3>5, <4>2, CurrentIsNamed
      <4>5. work[q].versions # 0 => work[q].versions \in 1..Len(log[work[q].key])
        BY <4>2, <4>3, <4>4
      <4> QED
        BY <3>7, <4>1, <4>2, <4>3, <4>4, <4>5 DEF named
    <3>13. ASSUME NEW q \in Promoters, work'[q].step = "promoted"
           PROVE  /\ wrote(q, work[q].key, work[q].versions + 1)'
                  /\ work'[q].disposition = "approval-required" => work'[q].approved
      <4>1. CASE q = p
        BY <1>5, <3>2, <3>4, <3>5, <4>1, SMTT(30) DEF wrote, refuses
      <4>2. CASE q # p
        <5>1. work'[q] = work[q] /\ work[q].key \in Keys
          BY <3>2, <3>13, <4>2, WorkFacts DEF Inv
        <5>2. /\ wrote(q, work[q].key, work[q].versions + 1)
              /\ work[q].disposition = "approval-required" => work[q].approved
          BY <3>13, <5>1 DEF Inv, VerdictInv
        <5> QED
          BY <3>7, <5>1, <5>2 DEF wrote
      <4> QED
        BY <4>1, <4>2
    <3>14. VerdictInv'
      BY <3>2, <3>6, <3>10, <3>11, <3>12, <3>13 DEF VerdictInv
    <3> QED
      BY <2>2, <3>14 DEF Inv
  <2> QED
    BY <2>3, <2>4
<1> QED
  BY <1>4, <1>5

LEMMA InitInv == Init => Inv
<1> SUFFICES ASSUME Init PROVE Inv
  OBVIOUS
<1>1. StoreInv
  BY StoreInitInv DEF Init
<1>2. \A k \in Keys : Len(log[k]) = 0
  BY DEF Init, StoreInit
<1>3. \A p \in Promoters : work[p] = NoWork
  BY DEF Init
<1>4. work \in [Promoters -> Work]
  BY DEF Init, Work
<1> QED
  BY <1>1, <1>2, <1>3, <1>4, RevisionAssumption DEF Inv, VerdictInv, NoWork

LEMMA StepInv == Inv /\ [Next]_vars => Inv'
<1> SUFFICES ASSUME Inv, [Next]_vars PROVE Inv'
  OBVIOUS
<1>1. ASSUME NEW p \in Promoters, NEW k \in Keys, Propose(p, k) PROVE Inv'
  <2>1. UNCHANGED storeVars
    BY <1>1 DEF Propose, storeVars
  <2> QED
    BY <1>1, <2>1, ProposeKeeps, StoreStepInv DEF Inv
<1>2. ASSUME NEW p \in Promoters, Approve(p) PROVE Inv'
  <2>1. UNCHANGED storeVars
    BY <1>2 DEF Approve, storeVars
  <2> QED
    BY <1>2, <2>1, ApproveKeeps, StoreStepInv DEF Inv
<1>3. ASSUME NEW p \in Promoters, Promote(p) PROVE Inv'
  BY <1>3, PromoteKeeps
<1>4. ASSUME NEW x \in Unclassified, NEW k \in Keys, PromoteUnclassified(x, k) PROVE Inv'
  <2>1. x \in Callers \ Promoters
    BY CallerAssumption
  <2>2. PICK p \in Precondition, v \in Payloads : CompareAndSwap(x, k, p, v) /\ work' = work
    BY <1>4 DEF PromoteUnclassified
  <2> QED
    BY <2>1, <2>2, OtherWrites, StoreKeeps DEF Inv
<1>5. ASSUME NEW x \in ApiClients, NEW k \in Keys, ApiPut(x, k) PROVE Inv'
  <2>1. x \in Callers \ Promoters
    BY CallerAssumption
  <2>2. PICK v \in Payloads : CompareAndSwap(x, k, currentPrecondition(k), v) /\ work' = work
    BY <1>5 DEF ApiPut
  <2>3. currentPrecondition(k) \in Precondition
    BY CurrentIsNamed
  <2> QED
    BY <2>1, <2>2, <2>3, OtherWrites, StoreKeeps DEF Inv
<1>6. CASE UNCHANGED vars
  BY <1>6 DEF vars, Inv, VerdictInv, StoreInv, StoreTypeOK, OneLogicalRevision,
              VersionsFormAChain, Exists, wrote, named
<1> QED
  BY <1>1, <1>2, <1>3, <1>4, <1>5, <1>6 DEF Next

THEOREM CoordinatorInvariant == Spec => []Inv
  BY InitInv, StepInv, PTL DEF Spec

\* Every promoted update was compatible or approved by a human.
THEOREM OnlyVerdictsProgress == Spec => []OnlyCompatibleOrApproved
<1>1. Inv => OnlyCompatibleOrApproved
  <2> SUFFICES ASSUME Inv, NEW p \in Promoters, work[p].step # "idle", writtenBy(p) # {}
               PROVE  LET u == work[p].proposal
                      IN \/ work[p].approved
                         \/ /\ u.skillDigestsUnchanged /\ u.trustPolicyUnchanged
                            /\ u.consumerPolicyVerdictOK /\ u.rebases
                            /\ ~u.rawSecretPresent /\ ~u.securityAuthorityChanged
    BY DEF OnlyCompatibleOrApproved
  <2>1. work[p].key \in Keys
    BY WorkFacts DEF Inv
  <2>2. work[p].step = "promoted"
    BY <2>1 DEF Inv, VerdictInv, writtenBy
  <2>3. work[p].disposition = "approval-required" => work[p].approved
    BY <2>2 DEF Inv, VerdictInv
  <2>4. work[p].disposition = ClassifyUpdate(work[p].proposal)
    BY <2>2 DEF Inv, VerdictInv
  <2> QED
    BY <2>3, <2>4 DEF ClassifyUpdate
<1> QED
  BY <1>1, CoordinatorInvariant, PTL

\* What was promoted replaced the version its verdict was reached on.
THEOREM VerdictsAreCurrent == Spec => []VerdictStillApplies
<1>1. Inv => VerdictStillApplies
  <2> SUFFICES ASSUME Inv, NEW p \in Promoters, work[p].step # "idle"
               PROVE  /\ writtenBy(p) \subseteq {work[p].versions + 1}
                      /\ writtenBy(p) # {} <=> work[p].step = "promoted"
    BY DEF VerdictStillApplies
  <2>1. work[p].key \in Keys
    BY WorkFacts DEF Inv
  <2>2. \A i \in writtenBy(p) : work[p].step = "promoted" /\ i = work[p].versions + 1
    BY <2>1 DEF Inv, VerdictInv, writtenBy
  <2>3. work[p].step = "promoted" => work[p].versions + 1 \in writtenBy(p)
    BY DEF Inv, VerdictInv, wrote, writtenBy
  <2> QED
    BY <2>2, <2>3
<1> QED
  BY <1>1, CoordinatorInvariant, PTL

\* The coordinator and the other writers together use the store as any callers do, so
\* that what is proved of the store holds of it here.
THEOREM CoordinatorUsesStore == Spec => StoreSpec
<1>1. Init => StoreInit
  BY DEF Init
<1>2. Inv /\ [Next]_vars => [StoreNext]_storeVars
  <2> SUFFICES ASSUME Inv, [Next]_vars PROVE [StoreNext]_storeVars
    OBVIOUS
  <2>1. ASSUME NEW p \in Promoters, NEW k \in Keys, Propose(p, k) PROVE UNCHANGED storeVars
    BY <2>1 DEF Propose, storeVars
  <2>2. ASSUME NEW p \in Promoters, Approve(p) PROVE UNCHANGED storeVars
    BY <2>2 DEF Approve, storeVars
  <2>3. ASSUME NEW p \in Promoters, Promote(p) PROVE [StoreNext]_storeVars
    <3>1. /\ work[p].key \in Keys /\ work[p].precondition \in Precondition
          /\ work[p].payload \in Payloads /\ p \in Callers
      BY <2>3, WorkFacts, CallerAssumption DEF Inv, Promote
    <3>2. \/ UNCHANGED storeVars
          \/ CompareAndSwap(p, work[p].key, work[p].precondition, work[p].payload)
      BY <2>3 DEF Promote
    <3> QED
      BY <3>1, <3>2 DEF StoreNext
  <2>4. ASSUME NEW x \in Unclassified, NEW k \in Keys, PromoteUnclassified(x, k)
        PROVE  StoreNext
    BY <2>4, CallerAssumption DEF PromoteUnclassified, StoreNext
  <2>5. ASSUME NEW x \in ApiClients, NEW k \in Keys, ApiPut(x, k) PROVE StoreNext
    <3>1. PICK v \in Payloads : CompareAndSwap(x, k, currentPrecondition(k), v)
      BY <2>5 DEF ApiPut
    <3>2. currentPrecondition(k) \in Precondition /\ x \in Callers
      BY CurrentIsNamed, CallerAssumption
    <3> QED
      BY <3>1, <3>2 DEF StoreNext
  <2>6. UNCHANGED vars => UNCHANGED storeVars
    BY DEF vars, storeVars
  <2> QED
    BY <2>1, <2>2, <2>3, <2>4, <2>5, <2>6 DEF Next
<1> QED
  BY <1>1, <1>2, CoordinatorInvariant, PTL DEF Spec, StoreSpec

----------------------------------------------------------------------------
(***************************************************************************)
(* The canary.  CanaryInv is inductive: the inputs of a call are what was  *)
(* there when it was made, for the actors do nothing while it judges, and  *)
(* whatever it has accepted so far was signed, or decided, for its plan,   *)
(* in its time and by the signer expected, whose policy is the plan's.     *)
(* That the sentinel was denied needs the order of the steps: the call is  *)
(* past both probes before it can be accepted.                             *)
(***************************************************************************)
Timed(w) == w.issued \in Nat /\ w.expires \in Nat

WorldInv ==
    /\ now \in Nat
    /\ plan # None =>
          plan.issued \in Nat /\ plan.mode \in {"required", "certified_not_applicable"}
    /\ \A p \in published : p.expires \in Nat
    /\ \A d \in DOMAIN documents \cup DOMAIN proofs : Timed(d.window)

\* A call that goes on or was accepted.
Judging == verification.step \notin {"none", "refused"}

Shown(kind) ==
    \E d \in DOMAIN documents :
        /\ d.kind = kind /\ d.passed /\ Happened(d.window)
        /\ SignedAs("host_reconciler", documents[d])
Answered ==
    \E d \in DOMAIN documents :
        /\ d.kind = "capability" /\ d.passed /\ d.dispatch = inputs.dispatch /\ Happened(d.window)
        /\ SignedAs("consumer_capability_verifier", documents[d])
Decided(c) ==
    \E d \in DOMAIN proofs :
        /\ d.capability = c /\ d.class = Wanted[c] /\ (c = "sentinel" => d.code = "expected")
        /\ d.facts = inputs.facts /\ Happened(d.window)
        /\ SignedAs("authorization_decision", proofs[d])

\* The inputs are what was there when the call was made, and nothing happened since.
InputsInv ==
    /\ inputs.documents = documents /\ inputs.proofs = proofs
    /\ inputs.facts = inputs.plan.facts
    /\ validatePlanSignerPolicies(inputs.plan, inputs.signers)
    /\ inputs.now \in Nat /\ inputs.plan.issued \in Nat
    /\ inputs.plan.mode \in {"required", "certified_not_applicable"}

JudgedInv ==
    /\ \A phase \in Phases : phase \in verification.seen => Shown(phase)
    /\ "capability" \in verification.seen =>
          /\ Answered
          /\ inputs.plan.mode # "required" => inputs.plan.nonce \in Certified
          /\ inputs.plan.mode = "required" =>
                /\ verification.step # "permitted" => Decided("permitted")
                /\ verification.step \notin {"permitted", "sentinel"} => Decided("sentinel")
    /\ verification.step = "verified" => verification.seen = EvidenceKinds

CallShape ==
    verification = [step |-> verification.step, inputs |-> verification.inputs,
                    seen |-> verification.seen, evidence |-> verification.evidence]

CanaryInv == WorldInv /\ CallShape /\ (Judging => InputsInv /\ JudgedInv)

----------------------------------------------------------------------------
\* What an accepted window says of a document or a proof.
LEMMA AcceptedHappened ==
    ASSUME NEW w, Timed(w), inputs.now \in Nat, inputs.plan.issued \in Nat,
           w.plan = inputs.plan.nonce, activeWindow(w, inputs.now),
           w.issued >= inputs.plan.issued
    PROVE  Happened(w)
<1>1. MaxWindow \in Nat
  BY WindowAssumption
<1> QED
  BY <1>1 DEF Timed, activeWindow, Happened

\* A record that was compared with the signer expected in a role is by that signer.
LEMMA ComparedIsSigned ==
    ASSUME InputsInv, NEW role \in Roles, NEW known, NEW d,
           verifyAuthenticatedRecord(known, d, inputs.signers[role])
    PROVE  d \in DOMAIN known /\ SignedAs(role, known[d])
  BY DEF InputsInv, verifyAuthenticatedRecord, validatePlanSignerPolicies, SignedAs

LEMMA SignAdds ==
    ASSUME NEW known, NEW d, NEW hand
    PROVE  DOMAIN Sign(known, d, hand) = DOMAIN known \cup {d}
  BY DEF Sign

\* The actors know of no call.
LEMMA ActorsInv == ASSUME CanaryInv, Actors PROVE CanaryInv'
<1>1. /\ WorldInv /\ CallShape /\ verification' = verification /\ ~Judging
      /\ MaxWindow \in Nat
  BY WindowAssumption DEF Actors, CanaryInv, Judging
<1>2. ASSUME Tick PROVE WorldInv'
  BY <1>1, <1>2 DEF Tick, WorldInv
<1>3. ASSUME NEW role, ChangeFacts \/ Dispatch \/ ChangeSigner(role) PROVE WorldInv'
  BY <1>1, <1>3 DEF ChangeFacts, Dispatch, ChangeSigner, WorldInv
<1>4. ASSUME NEW n \in Plans, NEW m \in {"required", "certified_not_applicable"},
             NEW long \in BOOLEAN, NEW policies, PublishPlan(n, m, long, policies)
      PROVE  WorldInv'
  <2>1. /\ plan'.mode = m /\ plan'.issued = now
        /\ plan'.expires = now + MaxWindow + (IF long THEN 1 ELSE 0)
        /\ published' = published \cup {plan'}
        /\ UNCHANGED <<now, documents, proofs>>
    BY <1>4 DEF PublishPlan
  <2> QED
    BY <1>1, <2>1 DEF WorldInv
<1>5. \A p \in published : \A expires \in Expiries(p) : Timed(Window(p, expires))
  <2> SUFFICES ASSUME NEW p \in published, NEW expires \in Expiries(p)
               PROVE  Timed(Window(p, expires))
    OBVIOUS
  <2>1. now \in Nat /\ expires \in Nat
    BY <1>1 DEF WorldInv, Expiries
  <2> QED
    BY <2>1 DEF Window, Timed
<1>6. ASSUME NEW d, NEW hand, Timed(d.window), documents' = Sign(documents, d, hand),
             UNCHANGED <<now, plan, published, proofs>>
      PROVE  WorldInv'
  <2>1. DOMAIN documents' = DOMAIN documents \cup {d}
    BY <1>6, SignAdds
  <2> QED
    BY <1>1, <1>6, <2>1 DEF WorldInv
<1>7. ASSUME NEW d, NEW hand, Timed(d.window), proofs' = Sign(proofs, d, hand),
             UNCHANGED <<now, plan, published, documents>>
      PROVE  WorldInv'
  <2>1. DOMAIN proofs' = DOMAIN proofs \cup {d}
    BY <1>7, SignAdds
  <2> QED
    BY <1>1, <1>7, <2>1 DEF WorldInv
<1>8. ASSUME NEW p \in published, NEW passed, NEW expires \in Expiries(p), NEW phase, NEW hand,
             ReportPhase(p, phase, passed, expires, hand)
      PROVE  WorldInv'
  <2> DEFINE d == [window |-> Window(p, expires), facts |-> p.facts, kind |-> phase,
                   passed |-> passed, claim |-> hand.claim]
  <2>1. documents' = Sign(documents, d, hand) /\ UNCHANGED <<now, plan, published, proofs>>
    BY <1>8 DEF ReportPhase
  <2>2. Timed(d.window)
    BY <1>5
  <2> HIDE DEF d
  <2> QED
    BY <1>6, <2>1, <2>2
<1>9. ASSUME NEW p \in published, NEW c, NEW class, NEW code, NEW expires \in Expiries(p), NEW hand,
             Decide(p, c, class, code, expires, hand)
      PROVE  WorldInv'
  <2> DEFINE d == [window |-> Window(p, expires), facts |-> facts, capability |-> c,
                   class |-> class, code |-> code, claim |-> hand.claim]
  <2>1. proofs' = Sign(proofs, d, hand) /\ UNCHANGED <<now, plan, published, documents>>
    BY <1>9 DEF Decide
  <2>2. Timed(d.window)
    BY <1>5
  <2> HIDE DEF d
  <2> QED
    BY <1>7, <2>1, <2>2
<1>10. ASSUME NEW p \in published, NEW n, NEW passed, NEW cited, NEW hand,
              ReportCapability(p, n, passed, cited, hand)
       PROVE  WorldInv'
  <2> DEFINE d == [window |-> Window(p, p.expires), facts |-> p.facts, kind |-> "capability",
                   passed |-> passed, claim |-> hand.claim, mode |-> p.mode, dispatch |-> n,
                   cited |-> cited]
  <2>1. documents' = Sign(documents, d, hand) /\ UNCHANGED <<now, plan, published, proofs>>
    BY <1>10 DEF ReportCapability
  <2>2. Timed(d.window)
    BY <1>5 DEF Expiries
  <2> HIDE DEF d
  <2> QED
    BY <1>6, <2>1, <2>2
<1>11. ASSUME NEW p \in published, Report(p) PROVE WorldInv'
  BY <1>8, <1>9, <1>10, <1>11 DEF Report
<1>12. WorldInv'
  BY <1>2, <1>3, <1>4, <1>11 DEF Actors
<1> QED
  BY <1>1, <1>12 DEF CanaryInv, CallShape, Judging

\* A call is made with what is there.
LEMMA VerifyPromotionInv == ASSUME CanaryInv, VerifyPromotion PROVE CanaryInv'
<1> DEFINE given == [plan |-> plan, facts |-> facts, dispatch |-> dispatch, now |-> now,
                     signers |-> signers, documents |-> documents, proofs |-> proofs]
           call == [step |-> "evidence", seen |-> {}, evidence |-> None, inputs |-> given]
<1>1. /\ verification' = call /\ UNCHANGED world
      /\ plan # None /\ plan.facts = facts
      /\ validatePlanSignerPolicies(plan, signers)
  BY DEF VerifyPromotion
<1>2. /\ given.plan = plan /\ given.facts = facts /\ given.now = now
      /\ given.documents = documents /\ given.proofs = proofs /\ given.signers = signers
  OBVIOUS
<1> HIDE DEF given
<1>3. /\ verification'.step = "evidence" /\ verification'.seen = {} /\ inputs' = given
      /\ CallShape'
  BY <1>1 DEF inputs, CallShape
<1>4. WorldInv'
  BY <1>1 DEF CanaryInv, WorldInv, world
<1>5. InputsInv'
  <2>1. validatePlanSignerPolicies(inputs.plan, inputs.signers)'
    BY <1>1, <1>2, <1>3 DEF validatePlanSignerPolicies
  <2> QED
    BY <1>1, <1>2, <1>3, <2>1 DEF CanaryInv, WorldInv, InputsInv, world
<1>6. JudgedInv'
  BY <1>3 DEF JudgedInv
<1> QED
  BY <1>3, <1>4, <1>5, <1>6 DEF CanaryInv

\* A step of the call that keeps its inputs, and what it has judged so far.
LEMMA JudgingStep ==
    ASSUME CanaryInv, Judging, UNCHANGED world, NEW step, NEW seen, NEW evidence,
           verification' = [step |-> step, inputs |-> inputs, seen |-> seen,
                            evidence |-> evidence],
           \A phase \in Phases : phase \in seen => Shown(phase),
           "capability" \in seen =>
              /\ Answered
              /\ inputs.plan.mode # "required" => inputs.plan.nonce \in Certified
              /\ inputs.plan.mode = "required" =>
                    /\ step # "permitted" => Decided("permitted")
                    /\ step \notin {"permitted", "sentinel"} => Decided("sentinel"),
           step = "verified" => seen = EvidenceKinds
    PROVE  CanaryInv'
<1>1. WorldInv /\ InputsInv
  BY DEF CanaryInv
<1>2. WorldInv'
  BY <1>1 DEF WorldInv, world
<1>3. /\ inputs' = inputs /\ verification'.step = step /\ verification'.seen = seen
      /\ CallShape'
  BY DEF inputs, CallShape
<1>4. documents' = documents /\ proofs' = proofs
  BY DEF world
<1>5. InputsInv'
  BY <1>1, <1>3, <1>4 DEF InputsInv, validatePlanSignerPolicies
<1>6. /\ \A w : Happened(w)' <=> Happened(w)
      /\ \A role, record : SignedAs(role, record)' <=> SignedAs(role, record)
  BY <1>3 DEF Happened, SignedAs
<1>7. \A kind : Shown(kind) => Shown(kind)'
  BY <1>4, <1>6 DEF Shown
<1>8. Answered => Answered'
  BY <1>3, <1>4, <1>6 DEF Answered
<1>9. \A c : Decided(c) => Decided(c)'
  BY <1>3, <1>4, <1>6 DEF Decided
<1>10. JudgedInv'
  BY <1>3, <1>7, <1>8, <1>9 DEF JudgedInv
<1> QED
  BY <1>2, <1>3, <1>5, <1>10 DEF CanaryInv

\* A document that is accepted was signed by whom it should have been, and is about this
\* plan and this time.
LEMMA AcceptedIsSigned ==
    ASSUME CanaryInv, NEW e, evidenceAccepted(e)
    PROVE  /\ Judging /\ e \in DOMAIN documents /\ Happened(e.window)
           /\ SignedAs(Actor(e.kind), documents[e])
           /\ verification.step = "evidence" /\ e.kind \notin verification.seen
<1>1. Judging /\ verification.step = "evidence" /\ e.kind \notin verification.seen
  BY DEF evidenceAccepted, Judging
<1>2. InputsInv /\ WorldInv
  BY <1>1 DEF CanaryInv
<1>3. e \in DOMAIN documents /\ SignedAs(Actor(e.kind), documents[e])
  <2>1. verifyAuthenticatedRecord(documents, e, inputs.signers[Actor(e.kind)])
    BY <1>2 DEF evidenceAccepted, InputsInv
  <2>2. Actor(e.kind) \in Roles
    BY DEF Actor, Roles
  <2> QED
    BY <1>2, <2>1, <2>2, ComparedIsSigned
<1>4. Timed(e.window)
  BY <1>2, <1>3 DEF WorldInv
<1>5. Happened(e.window)
  BY <1>2, <1>4, AcceptedHappened DEF InputsInv, evidenceAccepted, bindEvidence
<1> QED
  BY <1>1, <1>3, <1>5

LEMMA HostResultsInv == ASSUME CanaryInv, NEW e, verifyHostResults(e) PROVE CanaryInv'
<1>1. /\ evidenceAccepted(e) /\ e.kind \in Phases /\ e.passed /\ UNCHANGED world
      /\ verification' = [verification EXCEPT !.seen = @ \cup {e.kind}]
  BY DEF verifyHostResults
<1>2. /\ Judging /\ e \in DOMAIN documents /\ Happened(e.window)
      /\ SignedAs("host_reconciler", documents[e]) /\ verification.step = "evidence"
  BY <1>1, AcceptedIsSigned DEF Actor
<1>3. CallShape /\ JudgedInv
  BY <1>2 DEF CanaryInv
<1> DEFINE seen == verification.seen \cup {e.kind}
<1>4. verification' = [step |-> "evidence", inputs |-> inputs, seen |-> seen,
                       evidence |-> verification.evidence]
  BY <1>1, <1>2, <1>3 DEF CallShape, inputs
<1>5. Shown(e.kind)
  BY <1>1, <1>2 DEF Shown
<1>6. \A phase \in Phases : phase \in seen => Shown(phase)
  BY <1>3, <1>5 DEF JudgedInv
<1>7. "capability" \in seen => "capability" \in verification.seen
  BY <1>1 DEF Phases
<1>8. "capability" \in seen =>
         /\ Answered
         /\ inputs.plan.mode # "required" => inputs.plan.nonce \in Certified
         /\ inputs.plan.mode = "required" => Decided("permitted") /\ Decided("sentinel")
  BY <1>2, <1>3, <1>7 DEF JudgedInv
<1> HIDE DEF seen
<1> QED
  BY <1>1, <1>2, <1>4, <1>6, <1>8, JudgingStep

LEMMA CapabilityResultsInv ==
    ASSUME CanaryInv, NEW e, verifyCapabilityResults(e) PROVE CanaryInv'
<1> DEFINE step == IF e.mode = "required" THEN "permitted" ELSE "evidence"
           seen == verification.seen \cup {e.kind}
<1>1. /\ evidenceAccepted(e) /\ e.kind = "capability" /\ e.passed /\ UNCHANGED world
      /\ e.dispatch = inputs.dispatch /\ e.mode = inputs.plan.mode
      /\ e.mode = "certified_not_applicable" => inputs.plan.nonce \in Certified
      /\ verification' = [verification EXCEPT !.seen = seen, !.evidence = e, !.step = step]
  BY DEF verifyCapabilityResults
<1>2. /\ Judging /\ e \in DOMAIN documents /\ Happened(e.window)
      /\ SignedAs("consumer_capability_verifier", documents[e])
  BY <1>1, AcceptedIsSigned DEF Actor, Phases
<1>3. CallShape /\ JudgedInv /\ InputsInv
  BY <1>2 DEF CanaryInv
<1>4. Answered
  BY <1>1, <1>2 DEF Answered
<1>5. /\ inputs.plan.mode = "required" => step = "permitted"
      /\ inputs.plan.mode # "required" => inputs.plan.nonce \in Certified
      /\ step # "verified"
  BY <1>1, <1>3 DEF InputsInv
<1>6. \A phase \in Phases : phase \in seen => Shown(phase)
  BY <1>1, <1>3 DEF JudgedInv, Phases
<1> HIDE DEF step, seen
<1>7. verification' = [step |-> step, inputs |-> inputs, seen |-> seen, evidence |-> e]
  BY <1>1, <1>3 DEF CallShape, inputs
<1> QED
  BY <1>1, <1>2, <1>4, <1>5, <1>6, <1>7, JudgingStep

\* A probe is accepted by a proof that was made, for this plan and under these facts.
LEMMA DecisionInv ==
    ASSUME CanaryInv,
           NEW capability \in {"permitted", "sentinel"}, NEW next \in {"sentinel", "evidence"},
           capability = "permitted" <=> next = "sentinel",
           verifyDecision(capability, next)
    PROVE  CanaryInv'
<1> DEFINE claimed == verification.evidence.cited[capability]
           proof == claimed.proof
<1>1. /\ verification.step = capability /\ UNCHANGED world
      /\ verification' = [verification EXCEPT !.step = next]
      /\ proof.class = Wanted[capability]
      /\ capability = "sentinel" => proof.code = "expected"
      /\ verifyAuthenticatedRecord(inputs.proofs, proof, inputs.signers["authorization_decision"])
      /\ proof.window.plan = inputs.plan.nonce /\ proof.facts = inputs.plan.facts
      /\ proof.capability = capability
      /\ activeWindow(proof.window, inputs.now)
      /\ proof.window.issued >= inputs.plan.issued
  BY DEF verifyDecision, goTo
<1> HIDE DEF claimed, proof
<1>2. Judging
  BY <1>1 DEF Judging
<1>3. WorldInv /\ CallShape /\ InputsInv /\ JudgedInv
  BY <1>2 DEF CanaryInv
<1>4. /\ proof \in DOMAIN proofs /\ SignedAs("authorization_decision", proofs[proof])
      /\ Timed(proof.window)
  <2>1. proof \in DOMAIN proofs /\ SignedAs("authorization_decision", proofs[proof])
    BY <1>1, <1>3, ComparedIsSigned DEF InputsInv, Roles
  <2> QED
    BY <1>3, <2>1 DEF WorldInv
<1>5. Happened(proof.window)
  BY <1>1, <1>3, <1>4, AcceptedHappened DEF InputsInv
<1>6. Decided(capability)
  BY <1>1, <1>3, <1>4, <1>5 DEF Decided, InputsInv
<1>7. verification' = [step |-> next, inputs |-> inputs, seen |-> verification.seen,
                       evidence |-> verification.evidence]
  BY <1>1, <1>3 DEF CallShape, inputs
<1>8. "capability" \in verification.seen =>
         /\ Answered
         /\ inputs.plan.mode # "required" => inputs.plan.nonce \in Certified
         /\ inputs.plan.mode = "required" =>
               /\ next # "permitted" => Decided("permitted")
               /\ next \notin {"permitted", "sentinel"} => Decided("sentinel")
  BY <1>1, <1>3, <1>6 DEF JudgedInv
<1>9. \A phase \in Phases : phase \in verification.seen => Shown(phase)
  BY <1>3 DEF JudgedInv
<1> QED
  BY <1>1, <1>2, <1>7, <1>8, <1>9, JudgingStep

LEMMA AcceptInv == ASSUME CanaryInv, Accept PROVE CanaryInv'
<1>1. /\ verification.step = "evidence" /\ verification.seen = EvidenceKinds /\ UNCHANGED world
      /\ verification' = [verification EXCEPT !.step = "verified"]
  BY DEF Accept, goTo
<1>2. Judging /\ CallShape /\ JudgedInv
  BY <1>1 DEF CanaryInv, Judging
<1>3. verification' = [step |-> "verified", inputs |-> inputs, seen |-> verification.seen,
                       evidence |-> verification.evidence]
  BY <1>1, <1>2 DEF CallShape, inputs
<1>4. \A phase \in Phases : phase \in verification.seen => Shown(phase)
  BY <1>2 DEF JudgedInv
<1>5. "capability" \in verification.seen =>
         /\ Answered
         /\ inputs.plan.mode # "required" => inputs.plan.nonce \in Certified
         /\ inputs.plan.mode = "required" => Decided("permitted") /\ Decided("sentinel")
  BY <1>1, <1>2 DEF JudgedInv
<1> QED
  BY <1>1, <1>2, <1>3, <1>4, <1>5, JudgingStep

LEMMA RefuseInv == ASSUME CanaryInv, Refuse PROVE CanaryInv'
<1>1. /\ UNCHANGED world
      /\ verification' = [step |-> "refused", inputs |-> None, seen |-> {}, evidence |-> None]
  BY DEF Refuse, NoCall
<1>2. ~Judging' /\ CallShape'
  BY <1>1 DEF Judging, CallShape
<1>3. WorldInv'
  BY <1>1 DEF CanaryInv, WorldInv, world
<1> QED
  BY <1>2, <1>3 DEF CanaryInv

LEMMA CanaryStep == CanaryInv /\ [CanaryNext]_canaryVars => CanaryInv'
<1> SUFFICES ASSUME CanaryInv, [CanaryNext]_canaryVars PROVE CanaryInv'
  OBVIOUS
<1>1. CASE Actors \/ VerifyPromotion
  BY <1>1, ActorsInv, VerifyPromotionInv
<1>2. ASSUME NEW e, verifyHostResults(e) \/ verifyCapabilityResults(e) PROVE CanaryInv'
  BY <1>2, HostResultsInv, CapabilityResultsInv
<1>3. CASE verifyDecision("permitted", "sentinel")
  BY <1>3, DecisionInv
<1>4. CASE verifyDecision("sentinel", "evidence")
  BY <1>4, DecisionInv
<1>5. CASE Accept \/ Refuse
  BY <1>5, AcceptInv, RefuseInv
<1>6. CASE UNCHANGED canaryVars
  BY <1>6 DEF canaryVars, world, CanaryInv, WorldInv, CallShape, Judging, InputsInv,
     JudgedInv, Shown, Answered, Decided, Happened, SignedAs, validatePlanSignerPolicies, inputs
<1> QED
  BY <1>1, <1>2, <1>3, <1>4, <1>5, <1>6 DEF CanaryNext

LEMMA CanaryStarts == CanaryInit => CanaryInv
  BY DEF CanaryInit, CanaryInv, WorldInv, CallShape, Judging, NoCall

THEOREM CanaryInvariant == CanarySpec => []CanaryInv
  BY CanaryStarts, CanaryStep, PTL DEF CanarySpec

\* What VerifyPromotion accepts was found and decided for this plan, this dispatch, these
\* facts and this time by the signers expected, under the policies the plan names, for any
\* plans, facts, signers, documents and number of mishaps.
THEOREM VerifiedIsProven == CanarySpec => []PromotionIsProven
<1>1. ASSUME CanaryInv PROVE PromotionIsProven
  <2> SUFFICES ASSUME verification.step = "verified" PROVE PromotionIsProven
    BY DEF PromotionIsProven
  <2>1. InputsInv /\ JudgedInv /\ verification.seen = EvidenceKinds
    BY <1>1 DEF CanaryInv, Judging, JudgedInv
  <2>2. \A phase \in Phases : Shown(phase)
    BY <2>1 DEF JudgedInv, EvidenceKinds
  <2>3. /\ Answered
        /\ inputs.plan.mode # "required" => inputs.plan.nonce \in Certified
        /\ inputs.plan.mode = "required" => Decided("permitted") /\ Decided("sentinel")
    BY <2>1 DEF JudgedInv, EvidenceKinds
  <2>4. DOMAIN Wanted = {"permitted", "sentinel"}
    BY DEF Wanted
  <2>5. \/ inputs.plan.nonce \in Certified /\ inputs.plan.mode = "certified_not_applicable"
        \/ \A c \in DOMAIN Wanted : Decided(c)
    BY <2>1, <2>3, <2>4 DEF InputsInv
  <2> QED
    BY <2>2, <2>3, <2>5 DEF PromotionIsProven, Shown, Answered, Decided
<1>2. CanaryInv => PromotionIsProven
  BY <1>1
<1> QED
  BY <1>2, CanaryInvariant, PTL
=============================================================================
