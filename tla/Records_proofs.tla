--------------------------- MODULE Records_proofs ---------------------------
(***************************************************************************)
(* Proofs about the records the programs keep: the host switch journal,    *)
(* the inbox of webhook deliveries, the replay ledger and the published    *)
(* file.  Each part states an inductive invariant and, from it, the        *)
(* properties of its component, for any number of targets, deliveries,     *)
(* processes, calls, blocks, edits, restarts and crashes.                  *)
(***************************************************************************)
EXTENDS SwitchJournal, ScmInbox, ReplayLedger, AtomicFile, FiniteSetTheorems, TLAPS

----------------------------------------------------------------------------
(***************************************************************************)
(* The switch journal.  JournalInv is inductive: that two switches in a    *)
(* row differ rests on the entry naming the latest switch, and on a        *)
(* recovery entry naming the same identity as the one that failed.         *)
(***************************************************************************)
JournalInv == TypeOK /\ OnlyLatestSwitchFails /\ NoRepeatedSwitch

\* What Append does to the positions of a sequence.
LEMMA AppendFacts ==
    ASSUME NEW S, NEW s \in Seq(S), NEW e \in S
    PROVE  /\ Append(s, e) \in Seq(S)
           /\ Len(Append(s, e)) = Len(s) + 1
           /\ \A i \in 1..Len(s) : Append(s, e)[i] = s[i]
           /\ Append(s, e)[Len(s) + 1] = e
  OBVIOUS

\* The initial state and the state after a restart are empty.
LEMMA EmptyInv ==
    ASSUME DOMAIN entries = {}, history = [t \in Targets |-> << >>],
           failures = [t \in Targets |-> {}], outcome \in [Attempts -> Outcomes]
    PROVE  JournalInv
<1>1. history \in [Targets -> Seq(Switch)] /\ \A t \in Targets : history[t] = << >>
  OBVIOUS
<1>2. TypeOK
  BY <1>1 DEF TypeOK
<1>3. OnlyLatestSwitchFails /\ NoRepeatedSwitch
  BY <1>1 DEF OnlyLatestSwitchFails, NoRepeatedSwitch, Exists, InRecovery
<1> QED
  BY <1>2, <1>3 DEF JournalInv

\* A switch to an identity other than the current one extends the history properly.
LEMMA SwitchToInv ==
    ASSUME JournalInv, NEW a \in Attempts, SwitchTo(TargetOf[a], a),
           outcome' \in [Attempts -> Outcomes],
           Exists(TargetOf[a]) => entries[TargetOf[a]].identity # IdentityOf[a]
    PROVE  JournalInv'
<1> DEFINE t == TargetOf[a]
           e == [state |-> "active", identity |-> IdentityOf[a], failed |-> None]
           s == [identity |-> IdentityOf[a], by |-> a]
<1> USE DEF JournalInv
<1>1. t \in Targets /\ IdentityOf[a] \in Identity
  BY AttemptAssumption
<1>2. e \in Entry /\ s \in Switch
  BY <1>1 DEF Entry, Switch
<1>3. /\ history' \in [Targets -> Seq(Switch)]
      /\ history'[t] = Append(history[t], s)
      /\ \A x \in Targets \ {t} : history'[x] = history[x]
  BY <1>1, <1>2, AppendFacts DEF SwitchTo, TypeOK
<1>4. /\ DOMAIN entries' = DOMAIN entries \cup {t}
      /\ entries'[t] = e
      /\ \A x \in DOMAIN entries \ {t} : entries'[x] = entries[x]
  BY DEF SwitchTo, Put
<1>5. e.state = "active" /\ e.identity = IdentityOf[a] /\ s.identity = IdentityOf[a]
  OBVIOUS
<1> HIDE DEF e, s
<1>6. /\ Len(history[t]) \in Nat
      /\ Len(history'[t]) = Len(history[t]) + 1
      /\ \A i \in 1..Len(history[t]) : history'[t][i] = history[t][i]
      /\ history'[t][Len(history[t]) + 1] = s
  BY <1>1, <1>2, <1>3, AppendFacts DEF TypeOK
<1>7. TypeOK'
  BY <1>1, <1>2, <1>3, <1>4 DEF TypeOK, SwitchTo
<1>8. OnlyLatestSwitchFails'
  <2> SUFFICES ASSUME NEW x \in Targets
               PROVE  /\ Exists(x)' <=> history'[x] # << >>
                      /\ Exists(x)' => entries'[x].identity = Last(x)'.identity
                      /\ InRecovery(x)' => entries'[x].failed = Last(x)'.identity
    BY DEF OnlyLatestSwitchFails
  <2>1. CASE x = t
    BY <2>1, <1>4, <1>5, <1>6 DEF Exists, InRecovery, Last
  <2>2. CASE x # t
    BY <2>2, <1>3, <1>4 DEF OnlyLatestSwitchFails, Exists, InRecovery, Last
  <2> QED
    BY <2>1, <2>2
<1>9. NoRepeatedSwitch'
  <2> SUFFICES ASSUME NEW x \in Targets, NEW i \in 1..(Len(history'[x]) - 1)
               PROVE  history'[x][i].identity # history'[x][i + 1].identity
    BY DEF NoRepeatedSwitch
  <2>1. CASE x # t
    BY <2>1, <1>3 DEF NoRepeatedSwitch
  <2>2. CASE x = t /\ i < Len(history[t])
    <3>1. i \in 1..(Len(history[t]) - 1) /\ i \in 1..Len(history[t]) /\ i + 1 \in 1..Len(history[t])
      BY <2>2, <1>6
    <3> QED
      BY <2>2, <3>1, <1>1, <1>6 DEF NoRepeatedSwitch
  <2>3. CASE x = t /\ i = Len(history[t])
    <3>1. Exists(t) /\ entries[t].identity = history[t][Len(history[t])].identity
      BY <2>3, <1>1, <1>6 DEF OnlyLatestSwitchFails, Last
    <3>2. history'[t][i] = history[t][Len(history[t])] /\ history'[t][i + 1] = s
      BY <2>3, <1>6
    <3> QED
      BY <2>3, <3>1, <3>2, <1>5
  <2> QED
    BY <2>1, <2>2, <2>3, <1>6
<1> QED
  BY <1>7, <1>8, <1>9

\* The call that changes nothing but its own outcome.
LEMMA AnswerInv ==
    ASSUME JournalInv, UNCHANGED <<entries, history, failures>>,
           outcome' \in [Attempts -> Outcomes]
    PROVE  JournalInv'
  BY DEF JournalInv, TypeOK, OnlyLatestSwitchFails, NoRepeatedSwitch, Exists, InRecovery, Last

\* Only an outcome of the closed set is returned.
LEMMA ReturnsType ==
    ASSUME TypeOK, NEW a \in Attempts, NEW o \in Outcomes, Returns(a, o)
    PROVE  outcome' \in [Attempts -> Outcomes]
  BY DEF TypeOK, Returns

LEMMA ActivateInv ==
    ASSUME JournalInv, NEW a \in Attempts, Activate(a)
    PROVE  JournalInv'
<1> DEFINE t == TargetOf[a]
<1> USE DEF JournalInv
<1>1. outcome' \in [Attempts -> Outcomes]
  BY ReturnsType DEF Activate, Outcomes
<1>2. CASE InRecovery(t) \/ ActiveAs(t, IdentityOf[a])
  BY <1>1, <1>2, AnswerInv DEF Activate
<1>3. CASE ~InRecovery(t) /\ ~ActiveAs(t, IdentityOf[a])
  <2>1. t \in Targets
    BY AttemptAssumption
  <2>2. Exists(t) => entries[t].state = "active"
    BY <1>3, <2>1 DEF Exists, InRecovery, TypeOK, Entry
  <2>3. Exists(t) => entries[t].identity # IdentityOf[a]
    BY <1>3, <2>2 DEF ActiveAs
  <2>4. SwitchTo(t, a)
    BY <1>3 DEF Activate
  <2> QED
    BY <1>1, <2>3, <2>4, SwitchToInv
<1> QED
  BY <1>2, <1>3

LEMMA RecoverToInv ==
    ASSUME JournalInv, NEW a \in Attempts, RecoverTo(a)
    PROVE  JournalInv'
<1> DEFINE t == TargetOf[a]
<1> USE DEF JournalInv
<1>1. outcome' \in [Attempts -> Outcomes]
  BY ReturnsType DEF RecoverTo, Outcomes
<1>2. CASE ~InRecovery(t) \/ entries[t].failed.release = IdentityOf[a].release
  BY <1>1, <1>2, AnswerInv DEF RecoverTo
<1>3. CASE InRecovery(t) /\ entries[t].failed.release # IdentityOf[a].release
  <2>1. t \in Targets
    BY AttemptAssumption
  <2>2. entries[t].identity = entries[t].failed
    BY <1>3, <2>1 DEF OnlyLatestSwitchFails, InRecovery
  <2>3. SwitchTo(t, a)
    BY <1>3 DEF RecoverTo
  <2> QED
    BY <1>1, <1>3, <2>2, <2>3, SwitchToInv
<1> QED
  BY <1>2, <1>3

LEMMA MarkInv ==
    ASSUME JournalInv, NEW a \in Attempts, MarkPostSwitchFailure(a)
    PROVE  JournalInv'
<1> DEFINE t == TargetOf[a]
           e == [state |-> "recovery_required", identity |-> IdentityOf[a],
                 failed |-> IdentityOf[a]]
<1> USE DEF JournalInv
<1>1. outcome' \in [Attempts -> Outcomes]
  BY ReturnsType DEF MarkPostSwitchFailure, Outcomes
<1>2. CASE ~ActiveAs(t, IdentityOf[a])
  BY <1>1, <1>2, AnswerInv DEF MarkPostSwitchFailure
<1>3. CASE ActiveAs(t, IdentityOf[a])
  <2>1. t \in Targets /\ IdentityOf[a] \in Identity
    BY AttemptAssumption
  <2>2. e \in Entry
    BY <2>1 DEF Entry
  <2>3. /\ DOMAIN entries' = DOMAIN entries \cup {t}
        /\ entries'[t] = e
        /\ \A x \in DOMAIN entries \ {t} : entries'[x] = entries[x]
        /\ history' = history
    BY <1>3 DEF MarkPostSwitchFailure, Put
  <2>4. e.identity = IdentityOf[a] /\ e.failed = IdentityOf[a]
    OBVIOUS
  <2> HIDE DEF e
  <2>5. Exists(t) /\ Last(t).identity = IdentityOf[a]
    BY <1>3, <2>1 DEF ActiveAs, OnlyLatestSwitchFails
  <2>6. failures' \in [Targets -> SUBSET Releases]
    BY <1>3, <2>1 DEF MarkPostSwitchFailure, TypeOK, Identity
  <2>7. TypeOK'
    BY <1>1, <2>1, <2>2, <2>3, <2>6 DEF TypeOK
  <2>8. OnlyLatestSwitchFails'
    <3> SUFFICES ASSUME NEW x \in Targets
                 PROVE  /\ Exists(x)' <=> history'[x] # << >>
                        /\ Exists(x)' => entries'[x].identity = Last(x)'.identity
                        /\ InRecovery(x)' => entries'[x].failed = Last(x)'.identity
      BY DEF OnlyLatestSwitchFails
    <3>1. CASE x = t
      BY <3>1, <2>3, <2>4, <2>5 DEF OnlyLatestSwitchFails, Exists, Last
    <3>2. CASE x # t
      BY <3>2, <2>3 DEF OnlyLatestSwitchFails, Exists, InRecovery, Last
    <3> QED
      BY <3>1, <3>2
  <2>9. NoRepeatedSwitch'
    BY <2>3 DEF NoRepeatedSwitch
  <2> QED
    BY <2>7, <2>8, <2>9
<1> QED
  BY <1>2, <1>3

\* Every step preserves the inductive invariant.
LEMMA StepInv == JournalInv /\ [Next]_vars => JournalInv'
<1> SUFFICES ASSUME JournalInv, [Next]_vars PROVE JournalInv'
  OBVIOUS
<1>1. CASE Restart
  BY <1>1, EmptyInv DEF Restart, JournalInv, TypeOK, OnlyLatestSwitchFails,
     NoRepeatedSwitch, Exists, InRecovery
<1>2. CASE UNCHANGED vars
  BY <1>2, AnswerInv DEF vars, JournalInv, TypeOK
<1> QED
  BY <1>1, <1>2, ActivateInv, MarkInv, RecoverToInv DEF Next

\* The three invariants hold in every reachable state.
THEOREM JournalInvariant == Spec => []JournalInv
<1>1. Init => JournalInv
  BY EmptyInv DEF Init, Outcomes
<1> QED
  BY <1>1, StepInv, PTL DEF Spec

\* A recovery entry always names the latest switch: stale failure reports are fenced.
THEOREM FailuresAreFenced == Spec => []OnlyLatestSwitchFails
  BY JournalInvariant, PTL DEF JournalInv

\* Repeating a switch that is current never switches again.
THEOREM ReplayIsIdempotent == Spec => []NoRepeatedSwitch
  BY JournalInvariant, PTL DEF JournalInv

\* A step from recovery_required leads to another release, or ends the process.
LEMMA RecoveryStep ==
    ASSUME JournalInv, Next, NEW t \in Targets, InRecovery(t)
    PROVE  \/ ~Exists(t)'
           \/ entries'[t] = entries[t]
           \/ /\ entries'[t].state = "active"
              /\ entries'[t].identity.release # entries[t].failed.release
<1> USE DEF Exists, InRecovery
<1>1. CASE Restart
  BY <1>1 DEF Restart
<1>2. ASSUME NEW a \in Attempts, Activate(a) \/ MarkPostSwitchFailure(a)
      PROVE  entries'[t] = entries[t]
  BY <1>2 DEF Activate, MarkPostSwitchFailure, SwitchTo, Put, ActiveAs
<1>3. ASSUME NEW a \in Attempts, RecoverTo(a)
      PROVE  \/ entries'[t] = entries[t]
             \/ /\ entries'[t].state = "active"
                /\ entries'[t].identity.release # entries[t].failed.release
  BY <1>3 DEF RecoverTo, SwitchTo, Put
<1> QED
  BY <1>1, <1>2, <1>3 DEF Next

\* A target leaves recovery_required only to another release, or by a restart.
THEOREM RecoveryNeedsAnotherRelease == Spec => RecoveryChangesRelease
<1> DEFINE Leaves ==
      \A t \in Targets : InRecovery(t) =>
          \/ ~Exists(t)'
          \/ entries'[t] = entries[t]
          \/ /\ entries'[t].state = "active"
             /\ entries'[t].identity.release # entries[t].failed.release
<1>1. JournalInv /\ [Next]_vars => [Leaves]_vars
  BY RecoveryStep
<1> QED
  BY <1>1, JournalInvariant, PTL DEF Spec, RecoveryChangesRelease

----------------------------------------------------------------------------
(***************************************************************************)
(* The webhook inbox.  InboxInv is inductive: a second "new" for an id     *)
(* would need a receipt to disappear without a restart, and an accepted    *)
(* payload other than the receipt's would need a receipt to change.        *)
(***************************************************************************)
InboxInv ==
    /\ news \in [DeliveryIds -> Nat]
    /\ DOMAIN receipts \subseteq DeliveryIds
    /\ received \subseteq Deliveries
    /\ OnePayloadPerDelivery

\* An inbox that has just been started.
LEMMA EmptyInbox ==
    ASSUME receipts = [k \in {} |-> 0], news = [k \in DeliveryIds |-> 0], received = {}
    PROVE  InboxInv
  BY DEF InboxInv, OnePayloadPerDelivery

\* What a call of Receive does to the receipts and the ghosts, by what it finds.
LEMMA ReceiveInv ==
    ASSUME InboxInv, NEW d \in Deliveries, Receive(d)
    PROVE  InboxInv'
<1> DEFINE id == DeliveryIdOf[d]
           digest == PayloadDigestOf[d]
<1>1. id \in DeliveryIds
  BY DeliveryAssumption
<1>2. CASE ReceiveOutcome(d) = "new"
  <2>1. id \notin DOMAIN receipts
    BY <1>2 DEF ReceiveOutcome
  <2>2. /\ DOMAIN receipts' = DOMAIN receipts \cup {id}
        /\ receipts'[id] = digest
        /\ \A k \in DOMAIN receipts : receipts'[k] = receipts[k]
    BY <1>2, <2>1 DEF Receive, Receipt
  <2>3. news[id] = 0
    BY <2>1, <1>1 DEF InboxInv, OnePayloadPerDelivery
  <2>4. /\ news' \in [DeliveryIds -> Nat] /\ news'[id] = 1
        /\ \A k \in DeliveryIds : k # id => news'[k] = news[k]
    BY <1>2, <1>1, <2>3 DEF Receive, InboxInv
  <2>5. received' = received \cup {d}
    BY <1>2 DEF Receive
  <2>6. \A k \in DeliveryIds : news'[k] <= 1 /\ (news'[k] = 1 <=> k \in DOMAIN receipts')
    BY <2>2, <2>4 DEF InboxInv, OnePayloadPerDelivery
  <2>7. ASSUME NEW e \in received'
        PROVE  DeliveryIdOf[e] \in DOMAIN receipts' /\ receipts'[DeliveryIdOf[e]] = PayloadDigestOf[e]
    BY <2>2, <2>5 DEF InboxInv, OnePayloadPerDelivery
  <2> QED
    BY <1>1, <2>2, <2>4, <2>5, <2>6, <2>7 DEF InboxInv, OnePayloadPerDelivery
<1>3. CASE ReceiveOutcome(d) # "new"
  <2>1. receipts' = receipts /\ news' = news
    BY <1>3 DEF Receive, InboxInv
  <2>2. id \in DOMAIN receipts
    BY <1>3 DEF ReceiveOutcome
  <2>3. CASE ReceiveOutcome(d) = "idempotency_collision"
    BY <2>1, <2>3 DEF Receive, InboxInv, OnePayloadPerDelivery
  <2>4. CASE ReceiveOutcome(d) # "idempotency_collision"
    <3>1. receipts[id] = digest
      BY <1>3, <2>2, <2>4 DEF ReceiveOutcome
    <3>2. received' = received \cup {d}
      BY <2>4 DEF Receive
    <3> QED
      BY <2>1, <2>2, <3>1, <3>2 DEF InboxInv, OnePayloadPerDelivery
  <2> QED
    BY <2>3, <2>4
<1> QED
  BY <1>2, <1>3

LEMMA InboxStep == InboxInv /\ [InboxNext]_inboxVars => InboxInv'
<1> SUFFICES ASSUME InboxInv, [InboxNext]_inboxVars PROVE InboxInv'
  OBVIOUS
<1>1. ASSUME NEW d \in Deliveries, Send(d) PROVE InboxInv'
  BY <1>1 DEF Send, InboxInv, OnePayloadPerDelivery
<1>2. ASSUME NEW d \in Deliveries, Receive(d) PROVE InboxInv'
  BY <1>2, ReceiveInv
<1>3. ASSUME NEW d \in Deliveries, LoseCopy(d) PROVE InboxInv'
  BY <1>3 DEF LoseCopy, InboxInv, OnePayloadPerDelivery
<1>4. CASE RestartInbox
  BY <1>4 DEF RestartInbox, InboxInv, OnePayloadPerDelivery
<1>5. CASE UNCHANGED inboxVars
  BY <1>5 DEF inboxVars, InboxInv, OnePayloadPerDelivery
<1> QED
  BY <1>1, <1>2, <1>3, <1>4, <1>5 DEF InboxNext

\* One incarnation of the inbox reports a deliveryId as new once and accepts one payload
\* for it, however its copies and answers are duplicated, reordered and lost.
THEOREM OnePayload == InboxSpec => []OnePayloadPerDelivery
<1>1. InboxInit => InboxInv
  BY EmptyInbox DEF InboxInit
<1>2. InboxInv => OnePayloadPerDelivery
  BY DEF InboxInv
<1> QED
  BY <1>1, <1>2, InboxStep, PTL DEF InboxSpec

----------------------------------------------------------------------------
(***************************************************************************)
(* The replay ledger.  A call is writing from its check to its return;     *)
(* LedgerInv says what the lock, the era and the bytes give it then:       *)
(*                                                                         *)
(*   - it holds the lock of its file, so no other call writes there, and   *)
(*     what no call has finished is the beginning of its own line          *)
(*     (WritersHoldTheLock);                                               *)
(*   - as long as the ledger was not moved away the path names its file,   *)
(*     and two writing calls are of different eras (WritersAreCurrent);    *)
(*   - its key is new among the other lines of its file (WritersAreNew);   *)
(*   - what was consumed in an era is on disk, in the file that calls of   *)
(*     that era write to, and in the ledger if the era is the present one  *)
(*     (ConsumedIsKept).                                                   *)
(*                                                                         *)
(* The last needs the directory: a ledger with a consumed call in it is    *)
(* linked, so that a crash cannot start a second file in one era.          *)
(***************************************************************************)
CallSteps == {"start", "opened", "locked", "append", "sync", "syncDir", "accepted", "refused"}
LedgerFile == [entries : Seq(Processes), tail : SUBSET Processes, synced : Nat]
LedgerCall == [step : CallSteps, file : Nat \cup {NoFile}, written : Nat, era : Nat]

LedgerTypeOK ==
    /\ files \in Seq(LedgerFile)
    /\ \A f \in DOMAIN files : files[f].synced <= Len(files[f].entries)
    /\ holder \in Seq(Processes \cup {NoFile}) /\ Len(holder) = Len(files)
    /\ call \in [Processes -> LedgerCall]
    /\ \A p \in Processes : call[p].step \in CallSteps \ {"start", "accepted", "refused"} =>
                               call[p].file \in DOMAIN files
    /\ ledger \in DOMAIN files \cup {NoFile}
    /\ linked \in BOOLEAN /\ rotations \in Nat
    /\ consumed \in SUBSET [call : Processes, era : Nat]

writing(p) == call[p].step \in {"append", "sync", "syncDir"}
locking(p) == call[p].step = "locked" \/ writing(p)
linesOf(f) == files[f].entries
compatible(p, q) == \A key \in UniqueFields : EntryOf[p][key] # EntryOf[q][key]
onDiskIn(f, p) == \E i \in 1..files[f].synced : files[f].entries[i] = p

HoldsTheLock(p) ==
    /\ holder[fileOf(p)] = p
    /\ callAt(p, "append") => files[fileOf(p)].tail \subseteq {p}
    /\ call[p].step \in {"sync", "syncDir"} =>
          Len(linesOf(fileOf(p))) > 0 /\ linesOf(fileOf(p))[Len(linesOf(fileOf(p)))] = p
    /\ callAt(p, "syncDir") => files[fileOf(p)].synced = Len(linesOf(fileOf(p)))
WritersHoldTheLock == \A p \in Processes : locking(p) => HoldsTheLock(p)

IsCurrent(p) == call[p].era <= rotations /\ (call[p].era = rotations => ledger = fileOf(p))
WritersAreCurrent ==
    /\ \A p \in Processes : writing(p) => IsCurrent(p)
    /\ \A p, q \in Processes : writing(p) /\ writing(q) /\ p # q => call[p].era # call[q].era

IsNew(p) ==
    \A i \in 1..Len(linesOf(fileOf(p))) :
        linesOf(fileOf(p))[i] = p \/ compatible(linesOf(fileOf(p))[i], p)
WritersAreNew == \A p \in Processes : writing(p) => IsNew(p)

InLedger(a) == linked /\ ledger \in DOMAIN files /\ onDiskIn(ledger, a.call)
ConsumedIsKept ==
    /\ \A a \in consumed : \E f \in DOMAIN files : onDiskIn(f, a.call)
    /\ \A a \in consumed : a.era <= rotations
    /\ \A a \in consumed : a.era = rotations => InLedger(a)
    /\ \A a \in consumed, p \in Processes :
          writing(p) /\ call[p].era = a.era => onDiskIn(fileOf(p), a.call)

LedgerInv ==
    /\ LedgerTypeOK /\ OncePerEra
    /\ WritersHoldTheLock /\ WritersAreCurrent /\ WritersAreNew /\ ConsumedIsKept

LEMMA FileType ==
    ASSUME NEW F \in Seq(LedgerFile), NEW f \in DOMAIN F
    PROVE  /\ F[f] \in LedgerFile /\ F[f].entries \in Seq(Processes)
           /\ F[f].synced \in Nat /\ F[f].tail \in SUBSET Processes
           /\ F[f] = [entries |-> F[f].entries, tail |-> F[f].tail, synced |-> F[f].synced]
           /\ DOMAIN F = 1..Len(F) /\ Len(F) \in Nat /\ f \in Nat
<1>1. F[f] \in LedgerFile
  OBVIOUS
<1> QED
  BY <1>1 DEF LedgerFile

LEMMA CallType ==
    ASSUME LedgerTypeOK, NEW p \in Processes
    PROVE  /\ call[p] \in LedgerCall
           /\ call[p].step \in CallSteps /\ call[p].file \in Nat \cup {NoFile}
           /\ call[p].written \in Nat /\ call[p].era \in Nat
  BY DEF LedgerTypeOK, LedgerCall

\* A call between its open and its end has a file.
LEMMA LockingFile ==
    ASSUME LedgerTypeOK, NEW p \in Processes, locking(p) \/ call[p].step = "opened"
    PROVE  /\ fileOf(p) \in DOMAIN files /\ fileOf(p) \in DOMAIN holder
           /\ fileOf(p) \in Nat /\ fileOf(p) # NoFile
<1>1. call[p].step \in CallSteps \ {"start", "accepted", "refused"}
  BY CallType DEF locking, writing, CallSteps
<1>2. fileOf(p) \in DOMAIN files
  BY <1>1 DEF LedgerTypeOK, fileOf
<1>3. DOMAIN holder = DOMAIN files /\ DOMAIN files = 1..Len(files) /\ Len(files) \in Nat
  BY DEF LedgerTypeOK
<1> QED
  BY <1>2, <1>3, ProcessAssumption

----------------------------------------------------------------------------
\* A call that did not move, whose file nobody wrote to and whose lock nobody took.
LEMMA OthersHold ==
    ASSUME NEW q \in Processes, call'[q] = call[q], locking(q), HoldsTheLock(q),
           files'[fileOf(q)] = files[fileOf(q)], holder'[fileOf(q)] = q
    PROVE  HoldsTheLock(q)'
  BY DEF HoldsTheLock, fileOf, callAt, linesOf

LEMMA OthersNew ==
    ASSUME NEW q \in Processes, call'[q] = call[q], IsNew(q),
           files'[fileOf(q)] = files[fileOf(q)]
    PROVE  IsNew(q)'
  BY DEF IsNew, fileOf, linesOf, compatible

LEMMA SameLocking ==
    ASSUME NEW q \in Processes, call'[q] = call[q]
    PROVE  /\ locking(q)' <=> locking(q)
           /\ writing(q)' <=> writing(q)
           /\ (fileOf(q))' = fileOf(q)
  BY DEF locking, writing, fileOf

\* A step in which the writing calls stay what they were, or fewer.
LEMMA SameWriters ==
    ASSUME LedgerInv, UNCHANGED <<ledger, rotations>>,
           \A q \in Processes : writing(q)' => writing(q) /\ call'[q].era = call[q].era
                                               /\ call'[q].file = call[q].file
    PROVE  WritersAreCurrent'
<1>1. ASSUME NEW q \in Processes, writing(q)' PROVE IsCurrent(q)'
  BY <1>1 DEF LedgerInv, WritersAreCurrent, IsCurrent, fileOf
<1>2. ASSUME NEW q \in Processes, NEW r \in Processes, writing(q)', writing(r)', q # r
      PROVE  call'[q].era # call'[r].era
  BY <1>2 DEF LedgerInv, WritersAreCurrent
<1> QED
  BY <1>1, <1>2 DEF WritersAreCurrent

\* What is on disk stays there if the file only grows.
LEMMA DiskGrows ==
    ASSUME LedgerTypeOK, LedgerTypeOK', NEW f \in DOMAIN files, f \in DOMAIN files',
           NEW p, onDiskIn(f, p), files'[f].synced >= files[f].synced,
           \A i \in 1..files[f].synced : files'[f].entries[i] = files[f].entries[i]
    PROVE  onDiskIn(f, p)'
<1>1. PICK i \in 1..files[f].synced : files[f].entries[i] = p
  BY DEF onDiskIn
<1>2. files[f].synced \in Nat /\ files'[f].synced \in Nat
  BY FileType DEF LedgerTypeOK
<1> QED
  BY <1>1, <1>2 DEF onDiskIn

\* A step that consumes nothing, moves no path, starts no writing and takes nothing off
\* the disk.
LEMMA SameConsumed ==
    ASSUME LedgerInv, LedgerTypeOK', UNCHANGED <<ledger, linked, rotations, consumed>>,
           \A q \in Processes : writing(q)' => writing(q) /\ call'[q].era = call[q].era
                                               /\ call'[q].file = call[q].file,
           \A f \in DOMAIN files :
              /\ f \in DOMAIN files' /\ files'[f].synced >= files[f].synced
              /\ \A i \in 1..files[f].synced : files'[f].entries[i] = files[f].entries[i]
    PROVE  ConsumedIsKept'
<1>1. LedgerTypeOK /\ ConsumedIsKept
  BY DEF LedgerInv
<1>2. \A f \in DOMAIN files : \A a \in consumed : onDiskIn(f, a.call) => onDiskIn(f, a.call)'
  BY <1>1, DiskGrows
<1>3. ASSUME NEW a \in consumed PROVE \E f \in DOMAIN files' : onDiskIn(f, a.call)'
  BY <1>1, <1>2 DEF ConsumedIsKept
<1>4. ASSUME NEW a \in consumed, a.era = rotations PROVE InLedger(a)'
  BY <1>1, <1>2, <1>4 DEF ConsumedIsKept, InLedger
<1>5. ASSUME NEW a \in consumed, NEW q \in Processes, writing(q)', call'[q].era = a.era
      PROVE  onDiskIn(fileOf(q), a.call)'
  <2>1. writing(q) /\ call[q].era = a.era /\ call'[q].file = fileOf(q)
    BY <1>5 DEF fileOf
  <2>2. fileOf(q) \in DOMAIN files
    BY <1>1, <2>1, LockingFile DEF locking
  <2>3. onDiskIn(fileOf(q), a.call)
    BY <1>1, <2>1 DEF ConsumedIsKept
  <2> QED
    BY <1>2, <2>1, <2>2, <2>3 DEF onDiskIn, fileOf
<1> QED
  BY <1>1, <1>3, <1>4, <1>5 DEF ConsumedIsKept

LEMMA SameFilesConsumed ==
    ASSUME LedgerInv, LedgerTypeOK', UNCHANGED <<ledger, linked, files, rotations, consumed>>,
           \A q \in Processes : writing(q)' => writing(q) /\ call'[q] = call[q]
    PROVE  ConsumedIsKept'
<1>1. \A f \in DOMAIN files : files[f].synced \in Nat
  BY FileType DEF LedgerInv, LedgerTypeOK
<1>2. \A f \in DOMAIN files :
         /\ f \in DOMAIN files' /\ files'[f].synced >= files[f].synced
         /\ \A i \in 1..files[f].synced : files'[f].entries[i] = files[f].entries[i]
  BY <1>1
<1>3. \A q \in Processes : writing(q)' => writing(q) /\ call'[q].era = call[q].era
                                          /\ call'[q].file = call[q].file
  OBVIOUS
<1> QED
  BY <1>2, <1>3, SameConsumed

\* One call takes a step; the others stay where they are.
LEMMA StepOfCall ==
    ASSUME LedgerTypeOK, NEW p \in Processes, NEW step \in CallSteps, callGoesTo(p, step)
    PROVE  /\ call' \in [Processes -> LedgerCall]
           /\ call'[p].step = step /\ call'[p].file = call[p].file /\ call'[p].era = call[p].era
           /\ \A q \in Processes : q # p => call'[q] = call[q]
<1>1. call[p] \in LedgerCall
  BY CallType
<1>2. [call[p] EXCEPT !.step = step] \in LedgerCall
  BY <1>1 DEF LedgerCall
<1> QED
  BY <1>1, <1>2 DEF LedgerTypeOK, callGoesTo, LedgerCall

\* Giving a lock back takes none from another call.
LEMMA UnlockFacts ==
    ASSUME LedgerTypeOK, NEW p \in Processes, unlock(p), fileOf(p) \in DOMAIN holder
    PROVE  /\ holder' \in Seq(Processes \cup {NoFile}) /\ Len(holder') = Len(holder)
           /\ \A f \in DOMAIN holder : \A q \in Processes \ {p} :
                 holder[f] = q => holder'[f] = q
<1> DEFINE v == IF holder[fileOf(p)] = p THEN NoFile ELSE holder[fileOf(p)]
<1>1. v \in Processes \cup {NoFile}
  BY DEF LedgerTypeOK
<1>2. holder' = [holder EXCEPT ![fileOf(p)] = v]
  BY DEF unlock
<1>3. holder[fileOf(p)] # p => v = holder[fileOf(p)]
  OBVIOUS
<1> HIDE DEF v
<1>4. /\ holder' \in Seq(Processes \cup {NoFile}) /\ Len(holder') = Len(holder)
      /\ holder'[fileOf(p)] = v
      /\ \A f \in DOMAIN holder : f # fileOf(p) => holder'[f] = holder[f]
  BY <1>1, <1>2 DEF LedgerTypeOK
<1> QED
  BY <1>3, <1>4

\* Two calls that hold a lock have different files.
LEMMA LocksExclude ==
    ASSUME WritersHoldTheLock, NEW p \in Processes, NEW q \in Processes, p # q,
           locking(p), locking(q)
    PROVE  fileOf(p) # fileOf(q)
  BY DEF WritersHoldTheLock, HoldsTheLock

----------------------------------------------------------------------------
\* A call opens the file the path names.
LEMMA OpenNamedInv ==
    ASSUME LedgerInv, NEW p \in Processes, OpenLedger(p), ledger # NoFile
    PROVE  LedgerInv'
<1>1. /\ ledger' = ledger /\ linked' = linked /\ files' = files /\ holder' = holder
      /\ rotations' = rotations /\ consumed' = consumed
      /\ call' = [call EXCEPT ![p].step = "opened", ![p].file = ledger]
  BY DEF OpenLedger
<1>2. LedgerTypeOK /\ ledger \in DOMAIN files /\ ledger \in Nat
  BY DEF LedgerInv, LedgerTypeOK
<1>3. call[p] \in LedgerCall
  BY <1>2, CallType
<1>4. /\ call' \in [Processes -> LedgerCall]
      /\ call'[p].step = "opened" /\ call'[p].file = ledger
      /\ \A q \in Processes : q # p => call'[q] = call[q]
  BY <1>1, <1>2, <1>3 DEF LedgerTypeOK, LedgerCall, CallSteps
<1>5. LedgerTypeOK'
  BY <1>1, <1>2, <1>4 DEF LedgerTypeOK
<1>6. \A q \in Processes : locking(q)' => q # p /\ call'[q] = call[q] /\ locking(q)
  BY <1>4 DEF locking, writing
<1>7. \A q \in Processes : writing(q)' => q # p /\ call'[q] = call[q] /\ writing(q)
  BY <1>4 DEF writing
<1>8. WritersHoldTheLock'
  BY <1>1, <1>6, OthersHold DEF LedgerInv, WritersHoldTheLock, HoldsTheLock
<1>9. WritersAreNew'
  BY <1>1, <1>7, OthersNew DEF LedgerInv, WritersAreNew
<1>10. WritersAreCurrent'
  BY <1>1, <1>7, SameWriters
<1>11. ConsumedIsKept'
  BY <1>1, <1>5, <1>7, SameFilesConsumed
<1> QED
  BY <1>1, <1>5, <1>8, <1>9, <1>10, <1>11 DEF LedgerInv, OncePerEra

\* A call creates the file: of the present era nothing was consumed and no call writes.
LEMMA OpenNewInv ==
    ASSUME LedgerInv, NEW p \in Processes, OpenLedger(p), ledger = NoFile
    PROVE  LedgerInv'
<1> DEFINE n == Len(files) + 1
           new == [entries |-> << >>, tail |-> {}, synced |-> 0]
<1>1. /\ ledger' = n /\ linked' = FALSE
      /\ files' = Append(files, new) /\ holder' = Append(holder, NoFile)
      /\ rotations' = rotations /\ consumed' = consumed
      /\ call' = [call EXCEPT ![p].step = "opened", ![p].file = n]
  BY DEF OpenLedger
<1>2. LedgerTypeOK /\ n \in Nat /\ new \in LedgerFile
  BY DEF LedgerInv, LedgerTypeOK, LedgerFile
<1> HIDE DEF n, new
<1>3. call[p] \in LedgerCall
  BY <1>2, CallType
<1>4. /\ call' \in [Processes -> LedgerCall]
      /\ call'[p].step = "opened" /\ call'[p].file = n
      /\ \A q \in Processes : q # p => call'[q] = call[q]
  BY <1>1, <1>2, <1>3 DEF LedgerTypeOK, LedgerCall, CallSteps
<1>5. /\ files' \in Seq(LedgerFile) /\ Len(files') = n /\ files'[n] = new
      /\ DOMAIN files' = 1..n /\ DOMAIN files = 1..Len(files) /\ Len(files) \in Nat
      /\ \A f \in DOMAIN files : f \in DOMAIN files' /\ files'[f] = files[f]
  BY <1>1, <1>2 DEF LedgerTypeOK, n
<1>6. /\ holder' \in Seq(Processes \cup {NoFile}) /\ Len(holder') = n
      /\ \A f \in DOMAIN files : holder'[f] = holder[f]
  BY <1>1, <1>2 DEF LedgerTypeOK, n
<1>7. LedgerTypeOK'
  <2>1. \A f \in DOMAIN files' : f \in DOMAIN files \/ f = n
    BY <1>5 DEF n
  <2>2. files'[n].synced = 0 /\ Len(files'[n].entries) = 0
    BY <1>5 DEF new
  <2>3. \A f \in DOMAIN files' : files'[f].synced <= Len(files'[f].entries)
    BY <1>2, <1>5, <2>1, <2>2 DEF LedgerTypeOK
  <2>4. n \in DOMAIN files'
    BY <1>2, <1>5 DEF n
  <2>5. ASSUME NEW q \in Processes,
               call'[q].step \in CallSteps \ {"start", "accepted", "refused"}
        PROVE  call'[q].file \in DOMAIN files'
    <3>1. CASE q = p
      BY <1>4, <2>4, <3>1
    <3>2. CASE q # p
      BY <1>2, <1>4, <1>5, <2>5, <3>2 DEF LedgerTypeOK
    <3> QED
      BY <3>1, <3>2
  <2>6. ledger' \in DOMAIN files' \cup {NoFile} /\ linked' \in BOOLEAN
    BY <1>1, <2>4
  <2> QED
    BY <1>1, <1>2, <1>4, <1>5, <1>6, <2>3, <2>5, <2>6 DEF LedgerTypeOK
<1>8. \A q \in Processes : locking(q)' =>
         /\ q # p /\ call'[q] = call[q] /\ locking(q)
         /\ files'[fileOf(q)] = files[fileOf(q)] /\ holder'[fileOf(q)] = holder[fileOf(q)]
  <2> SUFFICES ASSUME NEW q \in Processes, locking(q)'
               PROVE  /\ q # p /\ call'[q] = call[q] /\ locking(q)
                      /\ files'[fileOf(q)] = files[fileOf(q)]
                      /\ holder'[fileOf(q)] = holder[fileOf(q)]
    OBVIOUS
  <2>1. q # p /\ call'[q] = call[q] /\ locking(q)
    BY <1>4 DEF locking, writing
  <2>2. fileOf(q) \in DOMAIN files
    BY <1>2, <2>1, LockingFile
  <2> QED
    BY <1>5, <1>6, <2>1, <2>2
<1>9. WritersHoldTheLock'
  BY <1>8, OthersHold DEF LedgerInv, WritersHoldTheLock, HoldsTheLock
<1>10. \A q \in Processes : writing(q)' => locking(q)' /\ writing(q)
  BY <1>8, SameLocking DEF locking
<1>11. WritersAreNew'
  BY <1>8, <1>10, OthersNew DEF LedgerInv, WritersAreNew
<1>12. \A q \in Processes : writing(q) => call[q].era < rotations
  <2> SUFFICES ASSUME NEW q \in Processes, writing(q) PROVE call[q].era < rotations
    OBVIOUS
  <2>1. fileOf(q) # NoFile
    BY <1>2, LockingFile DEF locking
  <2>2. call[q].era <= rotations /\ call[q].era # rotations
    BY <2>1 DEF LedgerInv, WritersAreCurrent, IsCurrent
  <2>3. call[q].era \in Nat /\ rotations \in Nat
    BY <1>2, CallType DEF LedgerTypeOK
  <2> QED
    BY <2>2, <2>3
<1>13. WritersAreCurrent'
  <2>1. ASSUME NEW q \in Processes, writing(q)' PROVE IsCurrent(q)'
    <3>1. writing(q) /\ call'[q] = call[q]
      BY <1>8, <1>10, <2>1
    <3>2. call[q].era \in Nat /\ rotations \in Nat /\ call[q].era < rotations
      BY <1>2, <1>12, <3>1, CallType DEF LedgerTypeOK
    <3> QED
      BY <1>1, <3>1, <3>2 DEF IsCurrent
  <2>2. ASSUME NEW q \in Processes, NEW r \in Processes, writing(q)', writing(r)', q # r
        PROVE  call'[q].era # call'[r].era
    BY <1>8, <1>10, <2>2 DEF LedgerInv, WritersAreCurrent
  <2> QED
    BY <2>1, <2>2 DEF WritersAreCurrent
<1>14. ASSUME NEW a \in consumed PROVE a.era # rotations
  <2>1. NoFile \notin DOMAIN files
    BY <1>5, ProcessAssumption
  <2> QED
    BY <2>1 DEF LedgerInv, ConsumedIsKept, InLedger
<1>15. \A f \in DOMAIN files : \A x : onDiskIn(f, x) => onDiskIn(f, x)'
  BY <1>5 DEF onDiskIn
<1>16. ConsumedIsKept'
  <2>1. \A a \in consumed' : \E f \in DOMAIN files' : onDiskIn(f, a.call)'
    BY <1>1, <1>5, <1>15 DEF LedgerInv, ConsumedIsKept
  <2>2. \A a \in consumed' : a.era <= rotations' /\ a.era # rotations'
    BY <1>1, <1>14 DEF LedgerInv, ConsumedIsKept
  <2>3. ASSUME NEW a \in consumed', NEW q \in Processes, writing(q)', call'[q].era = a.era
        PROVE  onDiskIn(fileOf(q), a.call)'
    <3>1. /\ writing(q) /\ call'[q] = call[q]
          /\ files'[fileOf(q)] = files[fileOf(q)]
      BY <1>8, <1>10, <2>3
    <3>2. onDiskIn(fileOf(q), a.call)
      BY <1>1, <2>3, <3>1 DEF LedgerInv, ConsumedIsKept
    <3> QED
      BY <3>1, <3>2 DEF onDiskIn, fileOf
  <2> QED
    BY <2>1, <2>2, <2>3 DEF ConsumedIsKept
<1> QED
  BY <1>1, <1>7, <1>9, <1>11, <1>13, <1>16 DEF LedgerInv, OncePerEra

LEMMA LockInv ==
    ASSUME LedgerInv, NEW p \in Processes, Lock(p)
    PROVE  LedgerInv'
<1>1. /\ ledger' = ledger /\ linked' = linked /\ files' = files
      /\ rotations' = rotations /\ consumed' = consumed
      /\ call[p].step = "opened" /\ holder[fileOf(p)] = NoFile
      /\ holder' = [holder EXCEPT ![fileOf(p)] = p]
      /\ callGoesTo(p, "locked")
  BY DEF Lock, callAt
<1>2. LedgerTypeOK
  BY DEF LedgerInv
<1>3. fileOf(p) \in DOMAIN files /\ fileOf(p) \in DOMAIN holder
  BY <1>1, <1>2, LockingFile
<1>4. /\ holder' \in Seq(Processes \cup {NoFile}) /\ Len(holder') = Len(holder)
      /\ holder'[fileOf(p)] = p
      /\ \A f \in DOMAIN holder : f # fileOf(p) => holder'[f] = holder[f]
  BY <1>1, <1>2, <1>3 DEF LedgerTypeOK
<1>5. /\ call' \in [Processes -> LedgerCall]
      /\ call'[p].step = "locked" /\ call'[p].file = call[p].file
      /\ \A q \in Processes : q # p => call'[q] = call[q]
  BY <1>1, <1>2, StepOfCall DEF CallSteps
<1>6. LedgerTypeOK'
  BY <1>1, <1>2, <1>3, <1>4, <1>5 DEF LedgerTypeOK, fileOf
<1>7. WritersHoldTheLock'
  <2>1. ASSUME NEW q \in Processes, q # p, locking(q)' PROVE HoldsTheLock(q)'
    <3>1. call'[q] = call[q] /\ locking(q)
      BY <1>5, <2>1, SameLocking
    <3>2. HoldsTheLock(q) /\ fileOf(q) \in DOMAIN holder
      BY <1>2, <3>1, LockingFile DEF LedgerInv, WritersHoldTheLock
    <3>3. fileOf(q) # fileOf(p)
      BY <1>1, <3>2, ProcessAssumption DEF HoldsTheLock
    <3> QED
      BY <1>1, <1>4, <3>1, <3>2, <3>3, OthersHold DEF HoldsTheLock
  <2>2. HoldsTheLock(p)'
    BY <1>4, <1>5 DEF HoldsTheLock, fileOf, callAt
  <2> QED
    BY <2>1, <2>2 DEF WritersHoldTheLock
<1>8. \A q \in Processes : writing(q)' => q # p /\ call'[q] = call[q] /\ writing(q)
  BY <1>5 DEF writing
<1>9. WritersAreNew'
  BY <1>1, <1>8, OthersNew DEF LedgerInv, WritersAreNew
<1>10. WritersAreCurrent'
  BY <1>1, <1>8, SameWriters
<1>11. ConsumedIsKept'
  BY <1>1, <1>6, <1>8, SameFilesConsumed
<1> QED
  BY <1>1, <1>6, <1>7, <1>9, <1>10, <1>11 DEF LedgerInv, OncePerEra

\* A call that ends gives nothing away but its own lock.
LEMMA EndInv ==
    ASSUME LedgerInv, NEW p \in Processes, callGoesTo(p, "refused"), unlock(p),
           locking(p) \/ call[p].step = "opened",
           UNCHANGED <<ledger, linked, files, rotations, consumed>>
    PROVE  LedgerInv'
<1>1. LedgerTypeOK
  BY DEF LedgerInv
<1>2. /\ call' \in [Processes -> LedgerCall]
      /\ call'[p].step = "refused"
      /\ \A q \in Processes : q # p => call'[q] = call[q]
  BY <1>1, StepOfCall DEF CallSteps
<1>3. fileOf(p) \in DOMAIN holder
  BY <1>1, LockingFile
<1>4. /\ holder' \in Seq(Processes \cup {NoFile}) /\ Len(holder') = Len(holder)
      /\ \A f \in DOMAIN holder : \A q \in Processes \ {p} : holder[f] = q => holder'[f] = q
  BY <1>1, <1>3, UnlockFacts
<1>5. LedgerTypeOK'
  BY <1>1, <1>2, <1>4 DEF LedgerTypeOK
<1>6. WritersHoldTheLock'
  <2> SUFFICES ASSUME NEW q \in Processes, locking(q)' PROVE HoldsTheLock(q)'
    BY DEF WritersHoldTheLock
  <2>1. q # p /\ call'[q] = call[q] /\ locking(q)
    BY <1>2, SameLocking DEF locking, writing
  <2>2. HoldsTheLock(q) /\ fileOf(q) \in DOMAIN holder
    BY <1>1, <2>1, LockingFile DEF LedgerInv, WritersHoldTheLock
  <2>3. holder'[fileOf(q)] = q
    BY <1>4, <2>1, <2>2 DEF HoldsTheLock
  <2> QED
    BY <2>1, <2>2, <2>3, OthersHold
<1>7. \A q \in Processes : writing(q)' => q # p /\ call'[q] = call[q] /\ writing(q)
  BY <1>2 DEF writing
<1>8. WritersAreNew'
  BY <1>7, OthersNew DEF LedgerInv, WritersAreNew
<1>9. WritersAreCurrent'
  BY <1>7, SameWriters
<1>10. ConsumedIsKept'
  BY <1>5, <1>7, SameFilesConsumed
<1> QED
  BY <1>5, <1>6, <1>8, <1>9, <1>10 DEF LedgerInv, OncePerEra

\* The check: the path names the file locked, so that two calls of one era would hold
\* one lock.
LEMMA CheckInv ==
    ASSUME LedgerInv, NEW p \in Processes, Check(p), mayAppend(p)
    PROVE  LedgerInv'
<1>1. /\ UNCHANGED <<ledger, linked, files, rotations, consumed>>
      /\ call[p].step = "locked" /\ locking(p) /\ ledger = fileOf(p)
      /\ files[fileOf(p)].tail = {} /\ unused(linesOf(fileOf(p)), p)
      /\ call' = [call EXCEPT ![p].step = "append", ![p].era = rotations]
      /\ holder' = holder
  BY DEF Check, callAt, mayAppend, linesOf, locking
<1>2. LedgerTypeOK /\ rotations \in Nat /\ call[p] \in LedgerCall
  BY CallType DEF LedgerInv, LedgerTypeOK
<1>3. /\ call' \in [Processes -> LedgerCall]
      /\ call'[p].step = "append" /\ call'[p].file = call[p].file
      /\ call'[p].era = rotations
      /\ \A q \in Processes : q # p => call'[q] = call[q]
  BY <1>1, <1>2 DEF LedgerTypeOK, LedgerCall, CallSteps
<1>4. LedgerTypeOK'
  <2>1. fileOf(p) \in DOMAIN files
    BY <1>1, <1>2, LockingFile
  <2> QED
    BY <1>1, <1>2, <1>3, <2>1 DEF LedgerTypeOK, fileOf
<1>5. WritersHoldTheLock'
  <2>1. ASSUME NEW q \in Processes, q # p, locking(q)' PROVE HoldsTheLock(q)'
    <3>1. call'[q] = call[q] /\ locking(q)
      BY <1>3, <2>1, SameLocking
    <3> QED
      BY <1>1, <3>1, OthersHold DEF LedgerInv, WritersHoldTheLock, HoldsTheLock
  <2>2. holder[fileOf(p)] = p
    BY <1>1 DEF LedgerInv, WritersHoldTheLock, HoldsTheLock
  <2>3. HoldsTheLock(p)'
    BY <1>1, <1>3, <2>2 DEF HoldsTheLock, fileOf, callAt
  <2> QED
    BY <2>1, <2>3 DEF WritersHoldTheLock
<1>6. \A q \in Processes : q # p /\ writing(q)' => call'[q] = call[q] /\ writing(q)
  BY <1>3, SameLocking
<1>7. ASSUME NEW q \in Processes, q # p, writing(q) PROVE call[q].era # rotations
  <2>1. fileOf(q) # fileOf(p)
    BY <1>1, <1>7, LocksExclude DEF LedgerInv, locking
  <2> QED
    BY <1>1, <1>7, <2>1 DEF LedgerInv, WritersAreCurrent, IsCurrent
<1>8. WritersAreCurrent'
  <2>1. ASSUME NEW q \in Processes, q # p, writing(q)' PROVE IsCurrent(q)'
    BY <1>1, <1>6, <2>1 DEF LedgerInv, WritersAreCurrent, IsCurrent, fileOf
  <2>2. IsCurrent(p)'
    BY <1>1, <1>2, <1>3 DEF IsCurrent, fileOf
  <2>3. ASSUME NEW q \in Processes, NEW r \in Processes, writing(q)', writing(r)', q # r
        PROVE  call'[q].era # call'[r].era
    BY <1>3, <1>6, <1>7, <2>3 DEF LedgerInv, WritersAreCurrent
  <2> QED
    BY <2>1, <2>2, <2>3 DEF WritersAreCurrent
<1>9. WritersAreNew'
  <2>1. IsNew(p)'
    BY <1>1, <1>3 DEF IsNew, unused, compatible, fileOf, linesOf
  <2> QED
    BY <1>1, <1>6, <2>1, OthersNew DEF LedgerInv, WritersAreNew
<1>10. ConsumedIsKept'
  <2>1. ASSUME NEW a \in consumed, NEW q \in Processes, writing(q)', call'[q].era = a.era
        PROVE  onDiskIn(fileOf(q), a.call)'
    <3>1. CASE q = p
      <4>1. a.era = rotations
        BY <1>3, <2>1, <3>1
      <4>2. onDiskIn(fileOf(p), a.call)
        BY <1>1, <4>1 DEF LedgerInv, ConsumedIsKept, InLedger
      <4> QED
        BY <1>1, <1>3, <3>1, <4>2 DEF onDiskIn, fileOf
    <3>2. CASE q # p
      <4>1. call'[q] = call[q] /\ writing(q)
        BY <1>6, <2>1, <3>2
      <4>2. onDiskIn(fileOf(q), a.call)
        BY <2>1, <4>1 DEF LedgerInv, ConsumedIsKept
      <4> QED
        BY <1>1, <4>1, <4>2 DEF onDiskIn, fileOf
    <3> QED
      BY <3>1, <3>2
  <2>2. \A a \in consumed : \E g \in DOMAIN files' : onDiskIn(g, a.call)'
    BY <1>1 DEF LedgerInv, ConsumedIsKept, onDiskIn
  <2>3. \A a \in consumed : a.era <= rotations' /\ (a.era = rotations' => InLedger(a)')
    BY <1>1 DEF LedgerInv, ConsumedIsKept, InLedger, onDiskIn
  <2> QED
    BY <1>1, <2>1, <2>2, <2>3 DEF ConsumedIsKept
<1> QED
  BY <1>1, <1>4, <1>5, <1>8, <1>9, <1>10 DEF LedgerInv, OncePerEra

----------------------------------------------------------------------------
(***************************************************************************)
(* A write, a synchronisation and a return each touch one file, and only   *)
(* the call that holds its lock does.                                      *)
(***************************************************************************)
\* What one write does to the file: nothing but the caller's bytes follow its lines.
LEMMA WriteFacts ==
    ASSUME LedgerInv, NEW p \in Processes, Write(p)
    PROVE  /\ files' \in Seq(LedgerFile) /\ Len(files') = Len(files)
           /\ \A f \in DOMAIN files : f # fileOf(p) => files'[f] = files[f]
           /\ files'[fileOf(p)].synced = files[fileOf(p)].synced
           /\ call' \in [Processes -> LedgerCall]
           /\ \A q \in Processes : q # p => call'[q] = call[q]
           /\ call'[p].file = call[p].file /\ call'[p].era = call[p].era
           /\ \/ /\ call'[p].step = "append" /\ files'[fileOf(p)].tail = {p}
                 /\ files'[fileOf(p)].entries = linesOf(fileOf(p))
              \/ /\ call'[p].step = "sync"
                 /\ files'[fileOf(p)].entries = Append(linesOf(fileOf(p)), p)
<1> DEFINE f == fileOf(p)
           old == files[f]
<1>1. LedgerTypeOK /\ call[p].step = "append" /\ locking(p) /\ call[p] \in LedgerCall
  BY CallType DEF LedgerInv, Write, callAt, locking, writing
<1>2. /\ f \in DOMAIN files /\ old \in LedgerFile /\ old.entries \in Seq(Processes)
      /\ old = [entries |-> old.entries, tail |-> old.tail, synced |-> old.synced]
      /\ old.synced \in Nat
  BY <1>1, LockingFile, FileType DEF LedgerTypeOK
<1>3. old.tail \cup {p} = {p}
  BY <1>1 DEF LedgerInv, WritersHoldTheLock, HoldsTheLock, callAt
<1>4. PICK n \in 1..(Parts - call[p].written) :
         LET whole == call[p].written + n = Parts
             bytes == files[fileOf(p)].tail \cup {p}
         IN /\ files' = [files EXCEPT
                   ![fileOf(p)].tail = IF whole THEN {} ELSE bytes,
                   ![fileOf(p)].entries = IF ~whole THEN @
                                        ELSE Append(@, IF bytes = {p} THEN p ELSE Mixed)]
            /\ call' = [call EXCEPT ![p].written = @ + n,
                                    ![p].step = IF whole THEN "sync" ELSE @]
  BY DEF Write
<1>5. call[p].written + n \in Nat
  BY <1>1, PartsAssumption DEF LedgerCall
<1> DEFINE whole == call[p].written + n = Parts
           T == IF whole THEN {} ELSE old.tail \cup {p}
           E == IF ~whole THEN old.entries
                ELSE Append(old.entries, IF old.tail \cup {p} = {p} THEN p ELSE Mixed)
           set == [entries |-> E, tail |-> T, synced |-> old.synced]
<1>8. files' = [files EXCEPT ![f].tail = T, ![f].entries = E]
  BY <1>4
<1>9. files' = [files EXCEPT ![f] = set]
  <2> DEFINE r == [entries |-> old.entries, tail |-> T, synced |-> old.synced]
  <2> HIDE DEF T, E
  <2>1. [old EXCEPT !.tail = T] = r
    BY <1>2
  <2>2. [files EXCEPT ![f].tail = T] = [files EXCEPT ![f] = r]
    BY <2>1
  <2>3. [r EXCEPT !.entries = E] = set
    OBVIOUS
  <2> HIDE DEF r, set
  <2>4. [files EXCEPT ![f] = r][f] = r
    BY <1>2
  <2>5. [[files EXCEPT ![f] = r] EXCEPT ![f].entries = E]
           = [[files EXCEPT ![f] = r] EXCEPT ![f] = set]
    BY <2>3, <2>4
  <2>6. [[files EXCEPT ![f] = r] EXCEPT ![f] = set] = [files EXCEPT ![f] = set]
    OBVIOUS
  <2> QED
    BY <1>8, <2>2, <2>5, <2>6
<1>6. CASE call[p].written + n = Parts
  <2> DEFINE new == [entries |-> Append(old.entries, p), tail |-> {}, synced |-> old.synced]
             c == [call[p] EXCEPT !.written = @ + n, !.step = "sync"]
  <2>1. new \in LedgerFile
    BY <1>2 DEF LedgerFile
  <2>2. files' = [files EXCEPT ![f] = new]
    <3>1. T = {} /\ E = Append(old.entries, p)
      BY <1>3, <1>6
    <3> QED
      BY <1>9, <3>1
  <2>3. call' = [call EXCEPT ![p] = c]
    BY <1>4, <1>6
  <2>4. c \in LedgerCall /\ c.step = "sync" /\ c.file = call[p].file /\ c.era = call[p].era
    BY <1>1, <1>5 DEF LedgerCall, CallSteps
  <2>5. new.synced = files[f].synced /\ new.entries = Append(old.entries, p)
    OBVIOUS
  <2> HIDE DEF new, c, old, f
  <2>6. /\ files' \in Seq(LedgerFile) /\ Len(files') = Len(files) /\ files'[f] = new
        /\ \A g \in DOMAIN files : g # f => files'[g] = files[g]
    BY <1>1, <1>2, <2>1, <2>2 DEF LedgerTypeOK
  <2>7. /\ call' \in [Processes -> LedgerCall] /\ call'[p] = c
        /\ \A q \in Processes : q # p => call'[q] = call[q]
    BY <1>1, <2>3, <2>4 DEF LedgerTypeOK
  <2> QED
    BY <2>4, <2>5, <2>6, <2>7 DEF f, old, linesOf
<1>7. CASE call[p].written + n # Parts
  <2> DEFINE new == [entries |-> old.entries, tail |-> {p}, synced |-> old.synced]
             c == [call[p] EXCEPT !.written = @ + n]
  <2>1. new \in LedgerFile
    BY <1>2 DEF LedgerFile
  <2>2. files' = [files EXCEPT ![f] = new]
    <3>1. T = {p} /\ E = old.entries
      BY <1>3, <1>7
    <3> QED
      BY <1>9, <3>1
  <2>3. call' = [call EXCEPT ![p] = c]
    BY <1>1, <1>4, <1>7 DEF LedgerCall
  <2>4. c \in LedgerCall /\ c.step = "append" /\ c.file = call[p].file /\ c.era = call[p].era
    BY <1>1, <1>5 DEF LedgerCall, CallSteps
  <2>5. new.synced = files[f].synced /\ new.entries = old.entries /\ new.tail = {p}
    OBVIOUS
  <2> HIDE DEF new, c, old, f
  <2>6. /\ files' \in Seq(LedgerFile) /\ Len(files') = Len(files) /\ files'[f] = new
        /\ \A g \in DOMAIN files : g # f => files'[g] = files[g]
    BY <1>1, <1>2, <2>1, <2>2 DEF LedgerTypeOK
  <2>7. /\ call' \in [Processes -> LedgerCall] /\ call'[p] = c
        /\ \A q \in Processes : q # p => call'[q] = call[q]
    BY <1>1, <2>3, <2>4 DEF LedgerTypeOK
  <2> QED
    BY <2>4, <2>5, <2>6, <2>7 DEF f, old, linesOf
<1> QED
  BY <1>6, <1>7

\* What a step of p that adds at most lines of its own to its file leaves true.
LEMMA OwnFileStep ==
    ASSUME LedgerInv, LedgerTypeOK', NEW p \in Processes, writing(p),
           UNCHANGED <<ledger, linked, rotations, holder, consumed>>,
           Len(files') = Len(files),
           \A f \in DOMAIN files : f # fileOf(p) => files'[f] = files[f],
           files'[fileOf(p)].synced >= files[fileOf(p)].synced,
           \A i \in 1..Len(linesOf(fileOf(p))) :
              files'[fileOf(p)].entries[i] = linesOf(fileOf(p))[i],
           \A i \in 1..Len(files'[fileOf(p)].entries) :
              i \in 1..Len(linesOf(fileOf(p))) \/ files'[fileOf(p)].entries[i] = p,
           \A q \in Processes : q # p => call'[q] = call[q],
           call'[p].file = call[p].file, call'[p].era = call[p].era,
           HoldsTheLock(p)'
    PROVE  LedgerInv'
<1>1. LedgerTypeOK /\ locking(p) /\ fileOf(p) \in DOMAIN files
  BY LockingFile DEF LedgerInv, locking
<1>2. ASSUME NEW q \in Processes, q # p, locking(q)'
      PROVE  /\ call'[q] = call[q] /\ locking(q)
             /\ files'[fileOf(q)] = files[fileOf(q)]
  <2>1. call'[q] = call[q] /\ locking(q)
    BY <1>2, SameLocking
  <2>2. fileOf(q) # fileOf(p) /\ fileOf(q) \in DOMAIN files
    BY <1>1, <1>2, <2>1, LocksExclude, LockingFile DEF LedgerInv
  <2> QED
    BY <2>1, <2>2
<1>3. WritersHoldTheLock'
  <2>1. ASSUME NEW q \in Processes, q # p, locking(q)' PROVE HoldsTheLock(q)'
    BY <1>2, <2>1, OthersHold DEF LedgerInv, WritersHoldTheLock, HoldsTheLock
  <2> QED
    BY <2>1 DEF WritersHoldTheLock
<1>4. \A q \in Processes : writing(q)' => writing(q) /\ call'[q].era = call[q].era
                                          /\ call'[q].file = call[q].file
  BY SameLocking
<1>5. WritersAreCurrent'
  BY <1>4, SameWriters
<1>6. WritersAreNew'
  <2>1. ASSUME NEW q \in Processes, q # p, writing(q)' PROVE IsNew(q)'
    <3>1. locking(q)' /\ call'[q] = call[q] /\ writing(q)
      BY <2>1, SameLocking DEF locking
    <3> QED
      BY <1>2, <2>1, <3>1, OthersNew DEF LedgerInv, WritersAreNew
  <2>2. IsNew(p)'
    <3>1. IsNew(p) /\ (fileOf(p))' = fileOf(p)
      BY DEF LedgerInv, WritersAreNew, fileOf
    <3>2. ASSUME NEW i \in 1..Len(files'[fileOf(p)].entries)
          PROVE  files'[fileOf(p)].entries[i] = p \/ compatible(files'[fileOf(p)].entries[i], p)
      BY <3>1 DEF IsNew
    <3> QED
      BY <3>1, <3>2 DEF IsNew, linesOf, compatible
  <2> QED
    BY <2>1, <2>2 DEF WritersAreNew
<1>7. ASSUME NEW f \in DOMAIN files
      PROVE  /\ f \in DOMAIN files' /\ files'[f].synced >= files[f].synced
             /\ \A i \in 1..files[f].synced : files'[f].entries[i] = files[f].entries[i]
  <2>1. files[f].synced \in Nat /\ files[f].entries \in Seq(Processes)
    BY <1>1, FileType DEF LedgerTypeOK
  <2>2. f \in DOMAIN files' /\ files[f].synced <= Len(linesOf(f))
    <3>1. DOMAIN files = 1..Len(files) /\ DOMAIN files' = 1..Len(files')
      BY <1>1 DEF LedgerTypeOK
    <3> QED
      BY <1>1, <3>1 DEF LedgerTypeOK, linesOf
  <2>3. CASE f = fileOf(p)
    <3>1. Len(linesOf(f)) \in Nat
      BY <2>1 DEF linesOf
    <3> QED
      BY <2>1, <2>2, <2>3, <3>1 DEF linesOf
  <2>4. CASE f # fileOf(p)
    BY <2>1, <2>2, <2>4
  <2> QED
    BY <2>3, <2>4
<1>8. ConsumedIsKept'
  BY <1>4, <1>7, SameConsumed
<1> QED
  BY <1>3, <1>5, <1>6, <1>8 DEF LedgerInv, OncePerEra

LEMMA WriteInv ==
    ASSUME LedgerInv, NEW p \in Processes, Write(p)
    PROVE  LedgerInv'
<1> DEFINE f == fileOf(p)
<1>1. /\ UNCHANGED <<ledger, linked, holder, rotations, consumed>>
      /\ LedgerTypeOK /\ writing(p) /\ locking(p)
  BY DEF LedgerInv, Write, writing, callAt, locking
<1>2. f \in DOMAIN files /\ linesOf(f) \in Seq(Processes) /\ files[f].synced \in Nat
      /\ files[f].synced <= Len(linesOf(f)) /\ Len(linesOf(f)) \in Nat
  <2>1. f \in DOMAIN files
    BY <1>1, LockingFile
  <2> QED
    BY <1>1, <2>1, FileType DEF LedgerTypeOK, linesOf
<1> DEFINE lines == files'[f].entries
<1>3. \/ /\ lines = linesOf(f) /\ call'[p].step = "append" /\ files'[f].tail = {p}
      \/ /\ lines = Append(linesOf(f), p) /\ call'[p].step = "sync"
  BY WriteFacts
<1>4. /\ Len(lines) \in Nat /\ Len(lines) >= Len(linesOf(f))
      /\ \A i \in 1..Len(linesOf(f)) : lines[i] = linesOf(f)[i]
      /\ \A i \in 1..Len(lines) : i \in 1..Len(linesOf(f)) \/ lines[i] = p
      /\ call'[p].step = "sync" => Len(lines) > 0 /\ lines[Len(lines)] = p
  BY <1>2, <1>3
<1>5. files'[f].synced = files[f].synced /\ call'[p].file = call[p].file
      /\ call'[p].era = call[p].era
  BY WriteFacts
<1>6. LedgerTypeOK'
  <2>1. \A g \in DOMAIN files' : files'[g].synced <= Len(files'[g].entries)
    <3>1. DOMAIN files' = DOMAIN files
      BY <1>1, WriteFacts DEF LedgerTypeOK
    <3>2. files'[f].synced <= Len(files'[f].entries)
      BY <1>2, <1>4, <1>5
    <3>3. \A g \in DOMAIN files : g # f => files'[g] = files[g]
      BY WriteFacts
    <3> QED
      BY <1>1, <3>1, <3>2, <3>3 DEF LedgerTypeOK
  <2>2. DOMAIN files' = DOMAIN files /\ files' \in Seq(LedgerFile) /\ Len(files') = Len(files)
    BY <1>1, WriteFacts DEF LedgerTypeOK
  <2>3. /\ call' \in [Processes -> LedgerCall]
        /\ \A q \in Processes : q # p => call'[q] = call[q]
    BY WriteFacts
  <2> HIDE DEF f, lines
  <2> QED
    BY <1>1, <1>2, <1>5, <2>1, <2>2, <2>3 DEF LedgerTypeOK, f, fileOf
<1>7. HoldsTheLock(p)'
  <2>1. holder[f] = p
    BY <1>1 DEF LedgerInv, WritersHoldTheLock, HoldsTheLock
  <2> QED
    BY <1>1, <1>3, <1>4, <1>5, <2>1 DEF HoldsTheLock, callAt, fileOf, linesOf
<1>8. files'[f].synced >= files[f].synced
  BY <1>2, <1>5
<1>9. /\ Len(files') = Len(files)
      /\ \A g \in DOMAIN files : g # fileOf(p) => files'[g] = files[g]
      /\ \A q \in Processes : q # p => call'[q] = call[q]
  BY WriteFacts
<1> QED
  BY <1>1, <1>4, <1>5, <1>6, <1>7, <1>8, <1>9, OwnFileStep

LEMMA SyncInv ==
    ASSUME LedgerInv, NEW p \in Processes, SyncLedger(p)
    PROVE  LedgerInv'
<1> DEFINE f == fileOf(p)
           n == Len(files[f].entries)
           new == [entries |-> files[f].entries, tail |-> files[f].tail, synced |-> n]
<1>1. /\ UNCHANGED <<ledger, linked, holder, rotations, consumed>>
      /\ LedgerTypeOK /\ call[p].step = "sync" /\ writing(p) /\ locking(p)
      /\ callGoesTo(p, "syncDir")
  BY DEF LedgerInv, SyncLedger, writing, callAt, locking
<1>2. f \in DOMAIN files
  BY <1>1, LockingFile
<1>3. /\ files[f].entries \in Seq(Processes) /\ files[f].synced \in Nat
      /\ files[f].synced <= n /\ n \in Nat
      /\ files[f] = [entries |-> files[f].entries, tail |-> files[f].tail,
                     synced |-> files[f].synced]
      /\ files[f].tail \in SUBSET Processes
  BY <1>1, <1>2, FileType DEF LedgerTypeOK
<1>4. files' = [files EXCEPT ![f] = new]
  <2>1. [files[f] EXCEPT !.synced = n] = new
    BY <1>3
  <2> QED
    BY <2>1 DEF SyncLedger
<1>5. new \in LedgerFile
  BY <1>3 DEF LedgerFile
<1>6. new.entries = linesOf(f) /\ new.synced = n /\ n = Len(linesOf(f))
  BY DEF linesOf
<1> HIDE DEF f, n, new
<1>7. /\ files' \in Seq(LedgerFile) /\ Len(files') = Len(files) /\ DOMAIN files' = DOMAIN files
      /\ files'[f] = new
      /\ \A g \in DOMAIN files : g # f => files'[g] = files[g]
  BY <1>1, <1>2, <1>4, <1>5 DEF LedgerTypeOK
<1>8. /\ call' \in [Processes -> LedgerCall]
      /\ call'[p].step = "syncDir" /\ call'[p].file = f /\ call'[p].era = call[p].era
      /\ \A q \in Processes : q # p => call'[q] = call[q]
  BY <1>1, StepOfCall DEF CallSteps, f, fileOf
<1>9. LedgerTypeOK'
  <2>1. \A g \in DOMAIN files' : files'[g].synced <= Len(files'[g].entries)
    BY <1>1, <1>3, <1>6, <1>7 DEF LedgerTypeOK
  <2> QED
    BY <1>1, <1>2, <1>7, <1>8, <2>1 DEF LedgerTypeOK
<1>10. HoldsTheLock(p)'
  <2>1. HoldsTheLock(p)
    BY <1>1 DEF LedgerInv, WritersHoldTheLock
  <2>2. holder[f] = p /\ Len(linesOf(f)) > 0 /\ linesOf(f)[Len(linesOf(f))] = p
    BY <1>1, <2>1 DEF HoldsTheLock, f
  <2> QED
    BY <1>1, <1>6, <1>7, <1>8, <2>2 DEF HoldsTheLock, callAt, fileOf, linesOf
<1>11. /\ files'[f].synced >= files[f].synced /\ files'[f].entries = linesOf(f)
  BY <1>3, <1>6, <1>7
<1> QED
  BY <1>1, <1>7, <1>8, <1>9, <1>10, <1>11, OwnFileStep DEF f, fileOf

----------------------------------------------------------------------------
\* A return: the line is on disk, under a name that is on disk, and its key is not that
\* of another call of its era, whose line is in the same file.
LEMMA ReturnInv ==
    ASSUME LedgerInv, NEW p \in Processes, ReturnConsumed(p)
    PROVE  LedgerInv'
<1> DEFINE f == fileOf(p)
           new == [call |-> p, era |-> call[p].era]
<1>1. /\ UNCHANGED <<ledger, files, rotations>> /\ linked' = TRUE
      /\ LedgerTypeOK /\ call[p].step = "syncDir" /\ writing(p) /\ locking(p)
      /\ callGoesTo(p, "accepted") /\ unlock(p)
      /\ consumed' = consumed \cup {new}
  BY DEF LedgerInv, ReturnConsumed, writing, callAt, locking
<1>2. /\ call' \in [Processes -> LedgerCall]
      /\ call'[p].step = "accepted"
      /\ \A q \in Processes : q # p => call'[q] = call[q]
  BY <1>1, StepOfCall DEF CallSteps
<1>3. f \in DOMAIN files /\ f \in DOMAIN holder
  BY <1>1, LockingFile
<1>4. /\ holder' \in Seq(Processes \cup {NoFile}) /\ Len(holder') = Len(holder)
      /\ \A g \in DOMAIN holder : \A q \in Processes \ {p} : holder[g] = q => holder'[g] = q
  BY <1>1, <1>3, UnlockFacts
<1>5. new.call = p /\ new.era = call[p].era /\ new \in [call : Processes, era : Nat]
  BY <1>1, CallType
<1> HIDE DEF new
<1>6. LedgerTypeOK'
  BY <1>1, <1>2, <1>4, <1>5 DEF LedgerTypeOK
<1>7. \A q \in Processes : locking(q)' => q # p /\ call'[q] = call[q] /\ locking(q)
  BY <1>2 DEF locking, writing
<1>8. \A q \in Processes : writing(q)' => q # p /\ call'[q] = call[q] /\ writing(q)
  BY <1>2 DEF writing
<1>9. WritersHoldTheLock'
  <2> SUFFICES ASSUME NEW q \in Processes, locking(q)' PROVE HoldsTheLock(q)'
    BY DEF WritersHoldTheLock
  <2>1. q # p /\ call'[q] = call[q] /\ locking(q)
    BY <1>7
  <2>2. HoldsTheLock(q) /\ fileOf(q) \in DOMAIN holder
    BY <1>1, <2>1, LockingFile DEF LedgerInv, WritersHoldTheLock
  <2>3. holder'[fileOf(q)] = q
    BY <1>4, <2>1, <2>2 DEF HoldsTheLock
  <2> QED
    BY <1>1, <2>1, <2>2, <2>3, OthersHold
<1>10. WritersAreNew'
  BY <1>1, <1>8, OthersNew DEF LedgerInv, WritersAreNew
<1>11. WritersAreCurrent'
  BY <1>1, <1>8, SameWriters
<1>12. onDiskIn(f, p) /\ files[f].synced = Len(linesOf(f)) /\ files[f].synced \in Nat
  <2>1. HoldsTheLock(p)
    BY <1>1 DEF LedgerInv, WritersHoldTheLock
  <2>2. files[f].synced = Len(linesOf(f)) /\ Len(linesOf(f)) > 0
        /\ linesOf(f)[Len(linesOf(f))] = p
    BY <1>1, <2>1 DEF HoldsTheLock, callAt
  <2>3. files[f].synced \in Nat
    BY <1>1, <1>3, FileType DEF LedgerTypeOK
  <2> QED
    BY <2>2, <2>3 DEF onDiskIn, linesOf
<1>13. ASSUME NEW a \in consumed, a.era = call[p].era, a.call # p
       PROVE  compatible(a.call, p) /\ compatible(p, a.call)
  <2>1. onDiskIn(f, a.call)
    BY <1>1, <1>13 DEF LedgerInv, ConsumedIsKept
  <2>2. PICK i \in 1..files[f].synced : files[f].entries[i] = a.call
    BY <2>1 DEF onDiskIn
  <2>3. compatible(a.call, p)
    BY <1>1, <1>12, <1>13, <2>2 DEF LedgerInv, WritersAreNew, IsNew, linesOf
  <2> QED
    BY <2>3 DEF compatible
<1>14. OncePerEra'
  <2> SUFFICES ASSUME NEW a \in consumed', NEW b \in consumed', a.call # b.call, a.era = b.era
               PROVE  compatible(a.call, b.call)
    BY DEF OncePerEra, compatible
  <2>1. CASE a \in consumed /\ b \in consumed
    BY <2>1 DEF LedgerInv, OncePerEra, compatible
  <2>2. CASE a = new \/ b = new
    BY <1>1, <1>5, <1>13, <2>2
  <2> QED
    BY <1>1, <2>1, <2>2
<1>15. ConsumedIsKept'
  <2>1. \A x : \A g \in DOMAIN files : onDiskIn(g, x)' <=> onDiskIn(g, x)
    BY <1>1 DEF onDiskIn
  <2>2. ASSUME NEW a \in consumed' PROVE \E g \in DOMAIN files' : onDiskIn(g, a.call)'
    BY <1>1, <1>3, <1>5, <1>12, <2>1 DEF LedgerInv, ConsumedIsKept
  <2>3. IsCurrent(p)
    BY <1>1 DEF LedgerInv, WritersAreCurrent
  <2>4. \A a \in consumed' : a.era <= rotations'
    BY <1>1, <1>5, <2>3 DEF LedgerInv, ConsumedIsKept, IsCurrent
  <2>5. ASSUME NEW a \in consumed', a.era = rotations' PROVE InLedger(a)'
    <3>1. CASE a = new
      BY <1>1, <1>3, <1>5, <1>12, <2>1, <2>3, <2>5, <3>1 DEF InLedger, IsCurrent
    <3>2. CASE a \in consumed
      BY <1>1, <2>1, <2>5, <3>2 DEF LedgerInv, ConsumedIsKept, InLedger
    <3> QED
      BY <1>1, <3>1, <3>2
  <2>6. ASSUME NEW a \in consumed', NEW q \in Processes, writing(q)', call'[q].era = a.era
        PROVE  onDiskIn(fileOf(q), a.call)'
    <3>1. q # p /\ call'[q] = call[q] /\ writing(q)
      BY <1>8, <2>6
    <3>2. a # new
      BY <1>1, <1>5, <2>6, <3>1 DEF LedgerInv, WritersAreCurrent
    <3>3. onDiskIn(fileOf(q), a.call)
      BY <1>1, <2>6, <3>1, <3>2 DEF LedgerInv, ConsumedIsKept
    <3> QED
      BY <1>1, <3>1, <3>3 DEF onDiskIn, fileOf
  <2> QED
    BY <2>2, <2>4, <2>5, <2>6 DEF ConsumedIsKept
<1> QED
  BY <1>6, <1>9, <1>10, <1>11, <1>14, <1>15 DEF LedgerInv

\* When the ledger is moved away an era ends, and nothing was consumed in the new one.
LEMMA RotateInv ==
    ASSUME LedgerInv, Rotate
    PROVE  LedgerInv'
<1>1. /\ UNCHANGED <<linked, files, holder, call, consumed>>
      /\ ledger' = NoFile /\ rotations' = rotations + 1
      /\ LedgerTypeOK /\ rotations \in Nat
  BY DEF LedgerInv, Rotate, LedgerTypeOK
<1>2. LedgerTypeOK'
  BY <1>1 DEF LedgerTypeOK
<1>3. WritersHoldTheLock' /\ WritersAreNew'
  BY <1>1 DEF LedgerInv, WritersHoldTheLock, HoldsTheLock, WritersAreNew, IsNew, locking,
              writing, callAt, fileOf, linesOf, compatible
<1>4. WritersAreCurrent'
  <2>1. ASSUME NEW p \in Processes, writing(p) PROVE IsCurrent(p)'
    <3>1. call[p].era \in Nat /\ call[p].era <= rotations
      BY <1>1, <2>1, CallType DEF LedgerInv, WritersAreCurrent, IsCurrent
    <3> QED
      BY <1>1, <3>1 DEF IsCurrent
  <2> QED
    BY <1>1, <2>1 DEF LedgerInv, WritersAreCurrent, writing
<1>5. ConsumedIsKept'
  <2>1. \A a \in consumed : a.era \in Nat /\ a.era <= rotations
    BY <1>1 DEF LedgerInv, ConsumedIsKept, LedgerTypeOK
  <2>2. \A a \in consumed' : a.era <= rotations' /\ a.era # rotations'
    BY <1>1, <2>1
  <2>3. \A a \in consumed' : \E f \in DOMAIN files' : onDiskIn(f, a.call)'
    BY <1>1 DEF LedgerInv, ConsumedIsKept, onDiskIn
  <2>4. \A a \in consumed', p \in Processes :
           writing(p)' /\ call'[p].era = a.era => onDiskIn(fileOf(p), a.call)'
    BY <1>1 DEF LedgerInv, ConsumedIsKept, onDiskIn, writing, fileOf
  <2> QED
    BY <2>2, <2>3, <2>4 DEF ConsumedIsKept
<1> QED
  BY <1>1, <1>2, <1>3, <1>4, <1>5 DEF LedgerInv, OncePerEra

\* After a crash no call writes; a ledger in which something was consumed is still there,
\* with every line that was on disk.
LEMMA OutageInv ==
    ASSUME LedgerInv, LedgerOutage
    PROVE  LedgerInv'
<1>1. /\ UNCHANGED <<rotations, consumed>> /\ linked' = TRUE /\ LedgerTypeOK
      /\ IF ledger = NoFile \/ linked THEN ledger' = ledger ELSE ledger' \in {ledger, NoFile}
      /\ holder' = [f \in DOMAIN holder |-> NoFile]
      /\ call' = [p \in Processes |->
            IF call[p].step \in {"start", "accepted", "refused"} THEN call[p]
            ELSE [call[p] EXCEPT !.step = "refused"]]
  BY DEF LedgerInv, LedgerOutage
<1>2. PICK kept \in [DOMAIN files -> 0..Cardinality(Processes)],
           tail \in [DOMAIN files -> SUBSET Processes] :
        /\ \A f \in DOMAIN files :
              LET n == Len(files[f].entries)
              IN /\ kept[f] \in files[f].synced..n
                 /\ tail[f] \in {{}, IF kept[f] = n THEN files[f].tail
                                     ELSE {files[f].entries[kept[f] + 1]}}
        /\ files' = [f \in DOMAIN files |->
              [entries |-> SubSeq(files[f].entries, 1, kept[f]),
               tail |-> tail[f], synced |-> kept[f]]]
  BY DEF LedgerOutage
<1>3. ASSUME NEW f \in DOMAIN files
      PROVE  /\ files'[f] \in LedgerFile /\ files'[f].synced <= Len(files'[f].entries)
             /\ files'[f].synced >= files[f].synced
             /\ \A i \in 1..files[f].synced : files'[f].entries[i] = files[f].entries[i]
  <2>1. /\ files[f].entries \in Seq(Processes) /\ files[f].synced \in Nat
        /\ Len(files[f].entries) \in Nat
    BY <1>1, FileType DEF LedgerTypeOK
  <2>2. kept[f] \in files[f].synced..Len(files[f].entries) /\ kept[f] \in Nat
        /\ tail[f] \in SUBSET Processes
    BY <1>2, <2>1
  <2> DEFINE lines == SubSeq(files[f].entries, 1, kept[f])
  <2>3. /\ lines \in Seq(Processes) /\ Len(lines) = kept[f]
        /\ \A i \in 1..kept[f] : lines[i] = files[f].entries[i]
    BY <2>1, <2>2
  <2>4. files'[f] = [entries |-> lines, tail |-> tail[f], synced |-> kept[f]]
    BY <1>2
  <2> HIDE DEF lines
  <2> QED
    BY <2>1, <2>2, <2>3, <2>4 DEF LedgerFile
<1>4. /\ DOMAIN files = 1..Len(files) /\ Len(files) \in Nat /\ DOMAIN files' = DOMAIN files
      /\ files' \in Seq(LedgerFile) /\ Len(files') = Len(files)
  <2>1. DOMAIN files = 1..Len(files) /\ Len(files) \in Nat
    BY <1>1 DEF LedgerTypeOK
  <2>2. files' \in [1..Len(files) -> LedgerFile]
    BY <1>2, <1>3, <2>1
  <2> QED
    BY <2>1, <2>2
<1>5. holder' \in Seq(Processes \cup {NoFile}) /\ Len(holder') = Len(files')
  <2>1. holder' \in [1..Len(files) -> Processes \cup {NoFile}]
    BY <1>1 DEF LedgerTypeOK
  <2> QED
    BY <1>4, <2>1
<1>6. ASSUME NEW p \in Processes
      PROVE  call'[p] \in LedgerCall /\ call'[p].step \in {"start", "accepted", "refused"}
  <2>1. call[p] \in LedgerCall
    BY <1>1, CallType
  <2>2. CASE call[p].step \in {"start", "accepted", "refused"}
    BY <1>1, <2>1, <2>2
  <2>3. CASE call[p].step \notin {"start", "accepted", "refused"}
    <3>1. call'[p] = [call[p] EXCEPT !.step = "refused"]
      BY <1>1, <2>3
    <3> QED
      BY <2>1, <3>1 DEF LedgerCall, CallSteps
  <2> QED
    BY <2>2, <2>3
<1>7. call' \in [Processes -> LedgerCall]
  BY <1>1, <1>6
<1>8. LedgerTypeOK'
  <2>1. \A p \in Processes : call'[p].step \notin CallSteps \ {"start", "accepted", "refused"}
    BY <1>6
  <2>2. ledger' \in DOMAIN files' \cup {NoFile}
    BY <1>1, <1>4 DEF LedgerTypeOK
  <2>3. \A f \in DOMAIN files' : files'[f].synced <= Len(files'[f].entries)
    BY <1>3, <1>4
  <2> QED
    BY <1>1, <1>4, <1>5, <1>7, <2>1, <2>2, <2>3 DEF LedgerTypeOK
<1>9. \A p \in Processes : ~locking(p)' /\ ~writing(p)'
  BY <1>6 DEF locking, writing
<1>10. WritersHoldTheLock' /\ WritersAreCurrent' /\ WritersAreNew'
  BY <1>9 DEF WritersHoldTheLock, WritersAreCurrent, WritersAreNew
<1>11. ConsumedIsKept'
  <2>1. \A f \in DOMAIN files : \A a \in consumed : onDiskIn(f, a.call) => onDiskIn(f, a.call)'
    BY <1>1, <1>3, <1>4, <1>8, DiskGrows
  <2>2. \A a \in consumed' : \E f \in DOMAIN files' : onDiskIn(f, a.call)'
    BY <1>1, <1>4, <2>1 DEF LedgerInv, ConsumedIsKept
  <2>3. ASSUME NEW a \in consumed, a.era = rotations PROVE InLedger(a)'
    <3>1. linked /\ ledger \in DOMAIN files /\ onDiskIn(ledger, a.call)
      BY <2>3 DEF LedgerInv, ConsumedIsKept, InLedger
    <3>2. ledger' = ledger /\ onDiskIn(ledger, a.call)'
      BY <1>1, <2>1, <3>1
    <3> QED
      BY <1>1, <1>4, <3>1, <3>2 DEF InLedger, onDiskIn
  <2> QED
    BY <1>1, <1>9, <2>2, <2>3 DEF LedgerInv, ConsumedIsKept
<1> QED
  BY <1>1, <1>8, <1>10, <1>11 DEF LedgerInv, OncePerEra

----------------------------------------------------------------------------
LEMMA LedgerInitInv == LedgerInit => LedgerInv
<1> SUFFICES ASSUME LedgerInit PROVE LedgerInv
  OBVIOUS
<1>1. /\ files = << >> /\ holder = << >> /\ consumed = {} /\ rotations = 0
      /\ ledger = NoFile /\ linked = FALSE
  BY DEF LedgerInit
<1>2. \A p \in Processes : call[p] \in LedgerCall /\ call[p].step = "start"
  BY DEF LedgerInit, LedgerCall, CallSteps
<1>3. call \in [Processes -> LedgerCall]
  BY <1>2 DEF LedgerInit
<1>4. LedgerTypeOK
  <2>1. files \in Seq(LedgerFile) /\ Len(files) = 0 /\ DOMAIN files = {}
    BY <1>1
  <2>2. holder \in Seq(Processes \cup {NoFile}) /\ Len(holder) = 0
    BY <1>1
  <2> QED
    BY <1>1, <1>2, <1>3, <2>1, <2>2 DEF LedgerTypeOK
<1> QED
  BY <1>1, <1>2, <1>4 DEF LedgerInv, OncePerEra, WritersHoldTheLock, WritersAreCurrent,
     WritersAreNew, ConsumedIsKept, locking, writing

LEMMA LedgerStep == LedgerInv /\ [LedgerNext]_ledgerVars => LedgerInv'
<1> SUFFICES ASSUME LedgerInv, [LedgerNext]_ledgerVars PROVE LedgerInv'
  OBVIOUS
<1>1. ASSUME NEW p \in Processes, OpenLedger(p) PROVE LedgerInv'
  BY <1>1, OpenNamedInv, OpenNewInv
<1>2. ASSUME NEW p \in Processes, Lock(p) PROVE LedgerInv'
  BY <1>2, LockInv
<1>3. ASSUME NEW p \in Processes, Check(p) PROVE LedgerInv'
  <2>1. CASE mayAppend(p)
    BY <1>3, <2>1, CheckInv
  <2>2. CASE ~mayAppend(p)
    BY <1>3, <2>2, EndInv DEF Check, callAt, locking
  <2> QED
    BY <2>1, <2>2
<1>4. ASSUME NEW p \in Processes, Write(p) PROVE LedgerInv'
  BY <1>4, WriteInv
<1>5. ASSUME NEW p \in Processes, SyncLedger(p) PROVE LedgerInv'
  BY <1>5, SyncInv
<1>6. ASSUME NEW p \in Processes, ReturnConsumed(p) PROVE LedgerInv'
  BY <1>6, ReturnInv
<1>7. ASSUME NEW p \in Processes, FailConsume(p) PROVE LedgerInv'
  BY <1>7, EndInv DEF FailConsume, locking, writing
<1>8. CASE Rotate
  BY <1>8, RotateInv
<1>9. CASE LedgerOutage
  BY <1>9, OutageInv
<1>10. CASE UNCHANGED ledgerVars
  <2>1. UNCHANGED <<ledger, linked, files, holder, call, rotations, consumed>>
    BY <1>10 DEF ledgerVars
  <2> QED
    BY <2>1 DEF LedgerInv, LedgerTypeOK, OncePerEra, WritersHoldTheLock, HoldsTheLock,
       WritersAreCurrent, IsCurrent, WritersAreNew, IsNew, ConsumedIsKept, InLedger,
       locking, writing, callAt, fileOf, linesOf, compatible, onDiskIn
<1> QED
  BY <1>1, <1>2, <1>3, <1>4, <1>5, <1>6, <1>7, <1>8, <1>9, <1>10 DEF LedgerNext

LEMMA LedgerInvariant == LedgerSpec => []LedgerInv
  BY LedgerInitInv, LedgerStep, PTL DEF LedgerSpec

\* Between two moves of the ledger file no two calls that return share a field that must
\* be unique: for any number of calls, files, parts of a write and crashes.
THEOREM RequestsAreUsedOnce == LedgerSpec => []OncePerEra
<1>1. LedgerInv => OncePerEra
  BY DEF LedgerInv
<1> QED
  BY <1>1, LedgerInvariant, PTL

\* What a call has returned is on disk for good, and no line mixes two calls.
THEOREM ConsumedIsRecorded == LedgerSpec => []AcceptedIsRecorded
<1>1. LedgerInv => AcceptedIsRecorded
  <2> SUFFICES ASSUME LedgerInv PROVE AcceptedIsRecorded
    OBVIOUS
  <2>1. ASSUME NEW a \in consumed
        PROVE  \E f \in DOMAIN files : \E i \in 1..files[f].synced : files[f].entries[i] = a.call
    BY DEF LedgerInv, ConsumedIsKept, onDiskIn
  <2>2. ASSUME NEW f \in DOMAIN files, NEW i \in 1..Len(files[f].entries)
        PROVE  files[f].entries[i] # Mixed
    <3>1. files[f].entries \in Seq(Processes)
      BY FileType DEF LedgerInv, LedgerTypeOK
    <3> QED
      BY <3>1, ProcessAssumption
  <2> QED
    BY <2>1, <2>2 DEF AcceptedIsRecorded
<1> QED
  BY <1>1, LedgerInvariant, PTL

----------------------------------------------------------------------------
(***************************************************************************)
(* The published file.  Three inductive invariants over one type:          *)
(*                                                                         *)
(*   - NamesInv orders the names: the path on disk is not later than the   *)
(*     path, a call that returned is not later than the path on disk, and  *)
(*     a call with require_absent is the first of those that did not fail; *)
(*   - WholeInv follows the blocks: a file is complete before it is        *)
(*     synchronised, synchronised before it has the name, and what has a   *)
(*     name is not written to any more except by an editor;                *)
(*   - ReaderInv: as long as the file is unchanged since it was opened,    *)
(*     what was read so far is what it held when it was opened.            *)
(***************************************************************************)
WriterSteps == {"start", "writing", "written", "ready", "linked", "published", "returned",
                "failed"}
Block == Writers \cup {Nothing, Edited}
OutputFile == [blocks : [1..Blocks -> Block], changed : Nat]
ReaderCall == [step : {"start", "reading", "returned", "failed"},
               file : Writers \cup {Nothing}, changed : Nat, got : Seq(Block)]

OutputTypeOK ==
    /\ output \in Writers \cup {Nothing} /\ onDisk \in Writers \cup {Nothing}
    /\ file \in [Writers -> OutputFile]
    /\ synced \in SUBSET Writers
    /\ writer \in [Writers -> WriterSteps]
    /\ reader \in [Readers -> ReaderCall]
    /\ \A r \in Readers : reader[r].step = "reading" => reader[r].file \in Writers
    /\ opened \in [Readers -> Seq(Block)]
    /\ published \in Seq(Writers)
    /\ edits \in Nat

named(w) == writer[w] \in {"linked", "published", "returned"}
isIn(s, w) == \E i \in 1..Len(s) : s[i] = w
noRepeats(s) == \A i, j \in 1..Len(s) : s[i] = s[j] => i = j
rankIn(s, w) == CHOOSE i \in 1..Len(s) : s[i] = w

NamesInv ==
    /\ noRepeats(published)
    /\ \A w \in Writers : isIn(published, w) => named(w) \/ writer[w] = "failed"
    /\ output # Nothing => isIn(published, output)
    /\ onDisk # Nothing =>
          isIn(published, onDisk) /\ output # Nothing /\ rank(onDisk) <= rank(output)
    /\ \A w \in Writers : named(w) =>
          isIn(published, w) /\ output # Nothing /\ rank(w) <= rank(output)
    /\ \A w \in Writers : returned(w) => onDisk # Nothing /\ rank(w) <= rank(onDisk)
    /\ \A w \in Absent \cap Writers, v \in Writers : named(w) /\ named(v) => rank(w) <= rank(v)

whole(w) == \A i \in 1..Blocks : file[w].blocks[i] = w
begun(w, n) == \A i \in 1..Blocks : file[w].blocks[i] = IF i <= n THEN w ELSE Nothing

WholeInv ==
    /\ \A w \in Writers : writer[w] = "start" => begun(w, 0)
    /\ \A w \in Writers : writer[w] = "writing" => \E n \in 0..(Blocks - 1) : begun(w, n)
    /\ \A w \in Writers :
          edits = 0 /\ (named(w) \/ writer[w] \in {"written", "ready"}) => whole(w)
    /\ \A w \in Writers : named(w) \/ writer[w] = "ready" => w \in synced
    /\ \A w \in {output, onDisk} \ {Nothing} : w \in synced /\ (edits = 0 => whole(w))

ReaderInv ==
    \A r \in Readers :
        /\ reader[r].step = "reading" =>
              /\ Len(reader[r].got) <= Blocks
              /\ reader[r].changed <= file[reader[r].file].changed
              /\ unchanged(r) => /\ opened[r] = file[reader[r].file].blocks
                                 /\ \A i \in 1..Len(reader[r].got) : reader[r].got[i] = opened[r][i]
        /\ reader[r].step = "returned" => reader[r].got = opened[r]

OutputInv == OutputTypeOK /\ NamesInv /\ WholeInv /\ ReaderInv

----------------------------------------------------------------------------
LEMMA FileFacts ==
    ASSUME OutputTypeOK, NEW w \in Writers
    PROVE  /\ file[w] \in OutputFile /\ touched(file[w]) \in OutputFile
           /\ file[w].changed \in Nat /\ file[w].blocks \in [1..Blocks -> Block]
           /\ touched(file[w]).blocks = file[w].blocks
           /\ touched(file[w]).changed = file[w].changed + 1
           /\ file[w] = [blocks |-> file[w].blocks, changed |-> file[w].changed]
<1>1. file[w] \in OutputFile
  BY DEF OutputTypeOK
<1>2. /\ file[w] = [blocks |-> file[w].blocks, changed |-> file[w].changed]
      /\ file[w].changed \in Nat /\ file[w].blocks \in [1..Blocks -> Block]
  BY <1>1 DEF OutputFile
<1>3. touched(file[w]) = [blocks |-> file[w].blocks, changed |-> file[w].changed + 1]
  BY <1>2 DEF touched
<1> QED
  BY <1>1, <1>2, <1>3 DEF OutputFile

LEMMA ReaderFacts ==
    ASSUME OutputTypeOK, NEW r \in Readers
    PROVE  /\ reader[r] \in ReaderCall
           /\ reader[r].step \in {"start", "reading", "returned", "failed"}
           /\ reader[r].got \in Seq(Block) /\ Len(reader[r].got) \in Nat
           /\ reader[r].changed \in Nat /\ opened[r] \in Seq(Block)
  BY DEF OutputTypeOK, ReaderCall

LEMMA RankFacts ==
    ASSUME NEW s \in Seq(Writers), noRepeats(s), NEW w, isIn(s, w)
    PROVE  /\ rankIn(s, w) \in 1..Len(s) /\ s[rankIn(s, w)] = w
           /\ \A i \in 1..Len(s) : s[i] = w => rankIn(s, w) = i
  BY DEF isIn, noRepeats, rankIn

\* A new name is the last; the others keep their places.
LEMMA AppendRank ==
    ASSUME NEW s \in Seq(Writers), noRepeats(s), NEW w \in Writers, ~isIn(s, w)
    PROVE  /\ Append(s, w) \in Seq(Writers) /\ noRepeats(Append(s, w))
           /\ isIn(Append(s, w), w) /\ rankIn(Append(s, w), w) = Len(s) + 1
           /\ \A v : isIn(s, v) => /\ isIn(Append(s, w), v)
                                   /\ rankIn(Append(s, w), v) = rankIn(s, v)
                                   /\ rankIn(s, v) <= Len(s)
           /\ \A v : isIn(Append(s, w), v) => v = w \/ isIn(s, v)
           /\ Len(s) \in Nat
<1> DEFINE t == Append(s, w)
<1>1. /\ t \in Seq(Writers) /\ Len(t) = Len(s) + 1 /\ Len(s) \in Nat
      /\ t[Len(s) + 1] = w /\ \A i \in 1..Len(s) : t[i] = s[i]
  OBVIOUS
<1> HIDE DEF t
<1>2. noRepeats(t)
  BY <1>1 DEF noRepeats, isIn
<1>3. isIn(t, w)
  BY <1>1 DEF isIn
<1>4. rankIn(t, w) = Len(s) + 1
  BY <1>1, <1>2, <1>3, RankFacts
<1>5. ASSUME NEW v, isIn(s, v)
      PROVE  isIn(t, v) /\ rankIn(t, v) = rankIn(s, v) /\ rankIn(s, v) <= Len(s)
  <2>1. rankIn(s, v) \in 1..Len(s) /\ s[rankIn(s, v)] = v
    BY <1>5, RankFacts
  <2>2. rankIn(s, v) \in 1..Len(t) /\ t[rankIn(s, v)] = v
    BY <1>1, <2>1
  <2>3. isIn(t, v)
    BY <2>2 DEF isIn
  <2> QED
    BY <1>1, <1>2, <2>1, <2>2, <2>3, RankFacts
<1>6. \A v : isIn(t, v) => v = w \/ isIn(s, v)
  BY <1>1 DEF isIn
<1> QED
  BY <1>1, <1>2, <1>3, <1>4, <1>5, <1>6 DEF t

LEMMA RankIsRankIn ==
    ASSUME NEW w
    PROVE  rank(w) = rankIn(published, w) /\ rank(w)' = rankIn(published', w)
  BY DEF rank, rankIn

----------------------------------------------------------------------------
(***************************************************************************)
(* Names.                                                                  *)
(***************************************************************************)
\* A step that gives no name and after which no call has more to say than before.
LEMMA NamesKeep ==
    ASSUME NamesInv, UNCHANGED <<output, onDisk, published>>,
           \A w \in Writers :
              /\ named(w)' => named(w)
              /\ returned(w)' => returned(w)
              /\ named(w) \/ writer[w] = "failed" => named(w)' \/ writer'[w] = "failed"
    PROVE  NamesInv'
<1>1. \A w : rank(w)' = rank(w)
  BY RankIsRankIn
<1>2. \A w : isIn(published, w)' <=> isIn(published, w)
  BY DEF isIn
<1>3. noRepeats(published)'
  BY DEF NamesInv, noRepeats
<1>4. (rank(output))' = rank(output) /\ (rank(onDisk))' = rank(onDisk)
  BY DEF rank
<1> QED
  BY <1>1, <1>2, <1>3, <1>4 DEF NamesInv, isIn

\* The path gets a new name: it is the last, and one that must be absent is the first.
LEMMA NamesPublish ==
    ASSUME OutputTypeOK, NamesInv, NEW w \in Writers, writer[w] = "ready",
           output' = w, published' = Append(published, w), onDisk' = onDisk,
           w \in Absent => output = Nothing,
           writer' \in [Writers -> WriterSteps], writer'[w] \in {"linked", "published"},
           \A v \in Writers : v # w => writer'[v] = writer[v]
    PROVE  NamesInv'
<1>1. published \in Seq(Writers) /\ noRepeats(published) /\ ~isIn(published, w)
  BY DEF OutputTypeOK, NamesInv, named
<1>2. /\ noRepeats(published') /\ isIn(published', w) /\ Len(published) \in Nat
      /\ rankIn(published', w) = Len(published) + 1
      /\ \A v : isIn(published, v) => /\ isIn(published', v)
                                      /\ rankIn(published', v) = rank(v)
                                      /\ rank(v) <= Len(published) /\ rank(v) \in Nat
      /\ \A v : isIn(published', v) => v = w \/ isIn(published, v)
  <2>1. \A v : isIn(published, v) => rank(v) \in Nat
    BY <1>1, RankFacts, RankIsRankIn
  <2> QED
    BY <1>1, <2>1, AppendRank, RankIsRankIn
<1>3. named(w)' /\ ~returned(w)' /\ ~named(w)
  BY DEF named, returned
<1>4. \A v \in Writers : v # w => /\ named(v)' <=> named(v)
                                  /\ returned(v)' <=> returned(v)
  BY DEF named, returned
<1>5. /\ noRepeats(published)'
      /\ \A v \in Writers : isIn(published, v)' => named(v)' \/ writer'[v] = "failed"
      /\ output' # Nothing /\ isIn(published', output')
  <2>1. w # Nothing
    BY WriterAssumption
  <2>2. noRepeats(published)'
    BY <1>2 DEF noRepeats
  <2>3. ASSUME NEW v \in Writers, isIn(published, v)' PROVE named(v)' \/ writer'[v] = "failed"
    <3>1. v = w \/ isIn(published, v)
      BY <1>2, <2>3 DEF isIn
    <3> QED
      BY <1>3, <1>4, <3>1 DEF NamesInv
  <2> QED
    BY <1>2, <2>1, <2>2, <2>3
<1>6. (rank(output))' = Len(published) + 1
  BY <1>2 DEF rank, rankIn
<1>7. onDisk # Nothing => /\ isIn(published', onDisk) /\ (rank(onDisk))' = rank(onDisk)
                          /\ (rank(onDisk))' <= (rank(output))'
  <2> SUFFICES ASSUME onDisk # Nothing
               PROVE  /\ isIn(published', onDisk) /\ (rank(onDisk))' = rank(onDisk)
                      /\ (rank(onDisk))' <= (rank(output))'
    OBVIOUS
  <2>1. isIn(published, onDisk)
    BY DEF NamesInv
  <2>2. (rank(onDisk))' = rankIn(published', onDisk)
    BY DEF rank, rankIn
  <2> QED
    BY <1>2, <1>6, <2>1, <2>2
<1>8. ASSUME NEW v \in Writers, named(v)'
      PROVE  /\ isIn(published', v) /\ rank(v)' \in Nat /\ rank(v)' <= Len(published) + 1
             /\ v # w => rank(v)' = rank(v) /\ rank(v)' <= Len(published)
  <2>1. CASE v = w
    BY <1>2, <2>1, RankIsRankIn
  <2>2. CASE v # w
    BY <1>2, <1>4, <1>8, <2>2, RankIsRankIn DEF NamesInv
  <2> QED
    BY <2>1, <2>2
<1>9. ASSUME NEW v \in Writers, returned(v)'
      PROVE  onDisk' # Nothing /\ rank(v)' <= (rank(onDisk))'
  <2>1. v # w /\ returned(v) /\ named(v)'
    BY <1>3, <1>4, <1>9 DEF named, returned
  <2> QED
    BY <1>7, <1>8, <2>1 DEF NamesInv
<1>10. ASSUME NEW u \in Absent \cap Writers, NEW v \in Writers, named(u)', named(v)'
       PROVE  rank(u)' <= rank(v)'
  <2>1. CASE u = w
    <3>1. v = w
      BY <1>4, <1>10, <2>1 DEF NamesInv
    <3> QED
      BY <1>8, <1>10, <2>1, <3>1
  <2>2. CASE u # w /\ v = w
    BY <1>2, <1>8, <1>10, <2>2, RankIsRankIn
  <2>3. CASE u # w /\ v # w
    BY <1>4, <1>8, <1>10, <2>3 DEF NamesInv
  <2> QED
    BY <2>1, <2>2, <2>3
<1>11. \A v \in Writers : named(v)' => isIn(published', v) /\ rank(v)' <= (rank(output))'
  BY <1>6, <1>8
<1>12. \A v : isIn(published, v)' <=> isIn(published', v)
  BY DEF isIn
<1> QED
  BY <1>5, <1>7, <1>9, <1>10, <1>11, <1>12 DEF NamesInv, isIn

LEMMA NamesReturn ==
    ASSUME OutputTypeOK, NamesInv, NEW w \in Writers, ReturnWritten(w)
    PROVE  NamesInv'
<1>1. /\ UNCHANGED <<output, published>> /\ onDisk' = output /\ writer[w] = "published"
      /\ writer' = [writer EXCEPT ![w] = "returned"]
  BY DEF ReturnWritten, goTo
<1>2. \A v : rank(v)' = rank(v)
  BY <1>1, RankIsRankIn
<1>3. /\ (rank(output))' = rank(output) /\ (rank(onDisk))' = rank(output)
  BY <1>1 DEF rank
<1>4. \A v \in Writers : /\ named(v)' => named(v)
                         /\ returned(v)' => named(v)
                         /\ named(v) \/ writer[v] = "failed" => named(v)' \/ writer'[v] = "failed"
  BY <1>1 DEF named, returned
<1>5. \A v : isIn(published, v)' <=> isIn(published, v)
  BY <1>1 DEF isIn
<1>6. noRepeats(published)'
  BY <1>1 DEF NamesInv, noRepeats
<1>7. output # Nothing => isIn(published, output)
  BY DEF NamesInv
<1>8. rank(output) <= rank(output) \/ output = Nothing
  <2>1. output # Nothing => rankIn(published, output) \in 1..Len(published)
    BY <1>7, RankFacts DEF OutputTypeOK, NamesInv
  <2> QED
    BY <2>1 DEF rank, rankIn
<1> QED
  BY <1>1, <1>2, <1>3, <1>4, <1>5, <1>6, <1>7, <1>8 DEF NamesInv, isIn

\* After a crash the calls that returned are those that had, and the path names what
\* they synchronised, or something later.
LEMMA NamesCrash ==
    ASSUME OutputTypeOK, NamesInv, Crash
    PROVE  NamesInv'
<1>1. /\ output' \in {output, onDisk} /\ onDisk' = output' /\ published' = published
      /\ writer' = [w \in Writers |->
            IF writer[w] \in {"start", "returned"} THEN writer[w] ELSE "failed"]
  BY DEF Crash
<1>2. \A v : rank(v)' = rank(v) /\ (isIn(published, v)' <=> isIn(published, v))
  BY <1>1, RankIsRankIn DEF isIn
<1>3. noRepeats(published)'
  BY <1>1 DEF NamesInv, noRepeats
<1>4. \A v \in Writers : /\ named(v)' => returned(v)
                         /\ returned(v)' => returned(v)
                         /\ returned(v) => named(v)
                         /\ named(v) \/ writer[v] = "failed" => named(v)' \/ writer'[v] = "failed"
  BY <1>1 DEF named, returned
<1>5. ASSUME NEW v, isIn(published, v) PROVE rank(v) \in Nat
  <2>1. rankIn(published, v) \in 1..Len(published)
    BY <1>5, RankFacts DEF OutputTypeOK, NamesInv
  <2> QED
    BY <2>1, RankIsRankIn
<1>6. output' # Nothing => isIn(published, output')
  BY <1>1 DEF NamesInv
<1>7. ASSUME NEW v \in Writers, returned(v)
      PROVE  isIn(published, v) /\ output' # Nothing /\ rank(v) <= rank(output')
  <2>1. /\ isIn(published, v) /\ onDisk # Nothing /\ rank(v) <= rank(onDisk)
        /\ isIn(published, onDisk) /\ output # Nothing /\ rank(onDisk) <= rank(output)
        /\ isIn(published, output)
    BY <1>4, <1>7 DEF NamesInv
  <2>2. rank(v) \in Nat /\ rank(onDisk) \in Nat /\ rank(output) \in Nat
    BY <1>5, <2>1
  <2>3. rank(v) <= rank(onDisk) /\ rank(v) <= rank(output)
    BY <2>1, <2>2
  <2> QED
    BY <1>1, <2>1, <2>3
<1>8. (rank(output))' = rank(output') /\ (rank(onDisk))' = rank(output')
  BY <1>1 DEF rank
<1>9. output' # Nothing => rank(output') <= rank(output')
  BY <1>5, <1>6
<1> QED
  BY <1>1, <1>2, <1>3, <1>4, <1>6, <1>7, <1>8, <1>9 DEF NamesInv, isIn

----------------------------------------------------------------------------
(***************************************************************************)
(* Readers and blocks.                                                     *)
(***************************************************************************)
\* Files only change by being stamped anew, and readers are left alone.
LEMMA ReadersKeep ==
    ASSUME OutputTypeOK, ReaderInv, UNCHANGED <<reader, opened>>,
           \A w \in Writers :
              /\ file'[w].changed \in Nat /\ file[w].changed <= file'[w].changed
              /\ file'[w].changed = file[w].changed => file'[w].blocks = file[w].blocks
    PROVE  ReaderInv'
<1> SUFFICES ASSUME NEW r \in Readers, reader[r].step = "reading"
             PROVE  /\ reader[r].changed <= file'[reader[r].file].changed
                    /\ file'[reader[r].file].changed = reader[r].changed =>
                          /\ unchanged(r)
                          /\ file'[reader[r].file].blocks = file[reader[r].file].blocks
  BY DEF ReaderInv, unchanged
<1>1. reader[r].file \in Writers /\ reader[r].changed \in Nat
      /\ file[reader[r].file].changed \in Nat
  BY ReaderFacts, FileFacts DEF OutputTypeOK
<1>2. reader[r].changed <= file[reader[r].file].changed
  BY DEF ReaderInv
<1>3. reader[r].changed <= file'[reader[r].file].changed
  BY <1>1, <1>2
<1>4. ASSUME file'[reader[r].file].changed = reader[r].changed
      PROVE  unchanged(r) /\ file'[reader[r].file].blocks = file[reader[r].file].blocks
  <2>1. file[reader[r].file].changed = reader[r].changed
    BY <1>1, <1>2, <1>4
  <2> QED
    BY <1>1, <1>4, <2>1 DEF unchanged
<1> QED
  BY <1>3, <1>4

\* A file of which at most the stamp changes, later.
stampedOrSame(w) ==
    /\ file'[w].blocks = file[w].blocks
    /\ file'[w].changed \in {file[w].changed, file[w].changed + 1}
    /\ file'[w] \in OutputFile

LEMMA StampedReaders ==
    ASSUME OutputTypeOK, ReaderInv, UNCHANGED <<reader, opened>>,
           \A w \in Writers : stampedOrSame(w)
    PROVE  ReaderInv'
<1>1. \A w \in Writers :
         /\ file'[w].changed \in Nat /\ file[w].changed <= file'[w].changed
         /\ file'[w].changed = file[w].changed => file'[w].blocks = file[w].blocks
  <2> SUFFICES ASSUME NEW w \in Writers
               PROVE  file'[w].changed \in Nat /\ file[w].changed <= file'[w].changed
    BY DEF stampedOrSame
  <2>1. file[w].changed \in Nat
    BY FileFacts
  <2> QED
    BY <2>1 DEF stampedOrSame
<1> QED
  BY <1>1, ReadersKeep

\* The blocks stay, and no call gets ahead of its file.
LEMMA WholeKeep ==
    ASSUME WholeInv, edits' = edits,
           \A w \in Writers : file'[w].blocks = file[w].blocks,
           \A w \in Writers :
              /\ writer'[w] = "start" => begun(w, 0)
              /\ writer'[w] = "writing" => \E n \in 0..(Blocks - 1) : begun(w, n)
              /\ named(w)' \/ writer'[w] \in {"written", "ready"} =>
                    named(w) \/ writer[w] \in {"written", "ready"}
              /\ named(w)' \/ writer'[w] = "ready" => w \in synced',
           \A w \in {output', onDisk'} \ {Nothing} :
              w \in Writers /\ w \in synced' /\ (edits = 0 => whole(w))
    PROVE  WholeInv'
<1>1. \A w \in Writers : (whole(w)' <=> whole(w)) /\ \A n : begun(w, n)' <=> begun(w, n)
  BY DEF whole, begun
<1>2. \A w \in Writers : writer'[w] = "start" => begun(w, 0)'
  BY <1>1
<1>3. \A w \in Writers : writer'[w] = "writing" => \E n \in 0..(Blocks - 1) : begun(w, n)'
  BY <1>1
<1>4. \A w \in Writers :
         edits' = 0 /\ (named(w)' \/ writer'[w] \in {"written", "ready"}) => whole(w)'
  BY <1>1 DEF WholeInv
<1>5. \A w \in {output', onDisk'} \ {Nothing} : w \in synced' /\ (edits' = 0 => whole(w)')
  BY <1>1
<1> QED
  BY <1>2, <1>3, <1>4, <1>5 DEF WholeInv

\* A step of one call in which files are at most stamped.
LEMMA GoToInv ==
    ASSUME OutputInv, NEW w \in Writers, NEW step \in WriterSteps \ {"start"}, goTo(w, step),
           UNCHANGED <<reader, opened, edits>>,
           file' \in [Writers -> OutputFile], \A v \in Writers : stampedOrSame(v),
           synced \subseteq synced', synced' \subseteq Writers,
           published' \in Seq(Writers),
           step = "writing" => writer[w] = "start",
           step \in {"written", "ready", "linked", "published", "returned"} =>
              named(w) \/ writer[w] \in {"written", "ready"},
           step \in {"ready", "linked", "published", "returned"} => w \in synced',
           \A v \in {output', onDisk'} : v \in {output, onDisk} \/ (v = w /\ writer[w] = "ready"),
           NamesInv'
    PROVE  OutputInv'
<1>1. OutputTypeOK /\ NamesInv /\ WholeInv /\ ReaderInv
  BY DEF OutputInv
<1>2. /\ writer' \in [Writers -> WriterSteps] /\ writer'[w] = step
      /\ \A v \in Writers : v # w => writer'[v] = writer[v]
  BY <1>1 DEF goTo, OutputTypeOK
<1>3. OutputTypeOK'
  <2>1. output' \in Writers \cup {Nothing} /\ onDisk' \in Writers \cup {Nothing}
    BY <1>1 DEF OutputTypeOK
  <2> QED
    BY <1>1, <1>2, <2>1 DEF OutputTypeOK
<1>4. ReaderInv'
  BY <1>1, StampedReaders
<1>5. WholeInv'
  <2>1. \A v \in Writers : file'[v].blocks = file[v].blocks
    BY DEF stampedOrSame
  <2>2. ASSUME NEW v \in Writers
        PROVE  /\ writer'[v] = "start" => begun(v, 0)
               /\ writer'[v] = "writing" => \E n \in 0..(Blocks - 1) : begun(v, n)
               /\ named(v)' \/ writer'[v] \in {"written", "ready"} =>
                     named(v) \/ writer[v] \in {"written", "ready"}
               /\ named(v)' \/ writer'[v] = "ready" => v \in synced'
    <3>1. CASE v # w
      BY <1>1, <1>2, <3>1 DEF WholeInv, named
    <3>2. CASE v = w
      <4>1. 0 \in 0..(Blocks - 1)
        BY BlockAssumption
      <4>2. writer'[w] = "writing" => \E n \in 0..(Blocks - 1) : begun(w, n)
        BY <1>1, <1>2, <4>1 DEF WholeInv
      <4> QED
        BY <1>2, <3>2, <4>2 DEF named
    <3> QED
      BY <3>1, <3>2
  <2>3. ASSUME NEW v \in {output', onDisk'} \ {Nothing}
        PROVE  v \in Writers /\ v \in synced' /\ (edits = 0 => whole(v))
    <3>1. CASE v \in {output, onDisk}
      BY <1>1, <3>1 DEF WholeInv, OutputTypeOK
    <3>2. CASE v = w /\ writer[w] = "ready"
      BY <1>1, <3>2 DEF WholeInv
    <3> QED
      BY <3>1, <3>2
  <2> QED
    BY <1>1, <2>1, <2>2, <2>3, WholeKeep
<1> QED
  BY <1>3, <1>4, <1>5 DEF OutputInv

LEMMA SameFiles ==
    ASSUME OutputTypeOK, file' = file
    PROVE  file' \in [Writers -> OutputFile] /\ \A v \in Writers : stampedOrSame(v)
<1>1. file \in [Writers -> OutputFile]
  BY DEF OutputTypeOK
<1> QED
  BY <1>1, FileFacts DEF stampedOrSame

LEMMA StampOne ==
    ASSUME OutputTypeOK, NEW w \in Writers, file' = [file EXCEPT ![w] = touched(@)]
    PROVE  file' \in [Writers -> OutputFile] /\ \A v \in Writers : stampedOrSame(v)
<1>1. file \in [Writers -> OutputFile] /\ touched(file[w]) \in OutputFile
  BY FileFacts DEF OutputTypeOK
<1>2. /\ file' \in [Writers -> OutputFile] /\ file'[w] = touched(file[w])
      /\ \A v \in Writers : v # w => file'[v] = file[v]
  BY <1>1
<1> QED
  BY <1>1, <1>2, FileFacts DEF stampedOrSame

LEMMA StampTwo ==
    ASSUME OutputTypeOK, NEW w \in Writers, NEW v \in Writers, w # v,
           file' = [file EXCEPT ![w] = touched(@), ![v] = touched(@)]
    PROVE  file' \in [Writers -> OutputFile] /\ \A u \in Writers : stampedOrSame(u)
<1>1. /\ file \in [Writers -> OutputFile] /\ touched(file[w]) \in OutputFile
      /\ touched(file[v]) \in OutputFile
  BY FileFacts DEF OutputTypeOK
<1>2. /\ file' \in [Writers -> OutputFile]
      /\ file'[w] = touched(file[w]) /\ file'[v] = touched(file[v])
      /\ \A u \in Writers : u # w /\ u # v => file'[u] = file[u]
  BY <1>1
<1> QED
  BY <1>1, <1>2, FileFacts DEF stampedOrSame

\* A call that goes on or fails without a new name.
LEMMA QuietNames ==
    ASSUME OutputInv, NEW w \in Writers, NEW step \in WriterSteps, goTo(w, step),
           UNCHANGED <<output, onDisk, published>>,
           step \in {"linked", "published", "returned"} => named(w) /\ step # "returned",
           named(w) \/ writer[w] = "failed" => step \in {"linked", "published", "failed"}
    PROVE  NamesInv'
<1>1. /\ writer'[w] = step
      /\ \A v \in Writers : v # w => writer'[v] = writer[v]
  BY DEF goTo, OutputInv, OutputTypeOK
<1>2. \A v \in Writers :
         /\ named(v)' => named(v)
         /\ returned(v)' => returned(v)
         /\ named(v) \/ writer[v] = "failed" => named(v)' \/ writer'[v] = "failed"
  BY <1>1 DEF named, returned
<1> QED
  BY <1>2, NamesKeep DEF OutputInv

LEMMA CreateInv == ASSUME OutputInv, NEW w \in Writers, Create(w) PROVE OutputInv'
<1>1. /\ UNCHANGED <<output, onDisk, file, synced, reader, published, opened, edits>>
      /\ writer[w] = "start" /\ goTo(w, "writing")
  BY DEF Create
<1>2. file' \in [Writers -> OutputFile] /\ \A v \in Writers : stampedOrSame(v)
  BY <1>1, SameFiles DEF OutputInv
<1>3. NamesInv'
  BY <1>1, QuietNames DEF WriterSteps, named
<1>4. synced \subseteq Writers /\ published \in Seq(Writers)
  BY DEF OutputInv, OutputTypeOK
<1> QED
  BY <1>1, <1>2, <1>3, <1>4, GoToInv DEF WriterSteps

LEMMA SyncFileInv == ASSUME OutputInv, NEW w \in Writers, SyncFile(w) PROVE OutputInv'
<1>1. /\ UNCHANGED <<output, onDisk, file, reader, published, opened, edits>>
      /\ writer[w] = "written" /\ goTo(w, "ready") /\ synced' = synced \cup {w}
  BY DEF SyncFile
<1>2. file' \in [Writers -> OutputFile] /\ \A v \in Writers : stampedOrSame(v)
  BY <1>1, SameFiles DEF OutputInv
<1>3. NamesInv'
  BY <1>1, QuietNames DEF WriterSteps, named
<1>4. synced \subseteq Writers /\ published \in Seq(Writers)
  BY DEF OutputInv, OutputTypeOK
<1> QED
  BY <1>1, <1>2, <1>3, <1>4, GoToInv DEF WriterSteps

\* The name is given: by rename, or by link where the path must name nothing.
LEMMA PublishInv ==
    ASSUME OutputInv, NEW w \in Writers, NEW step \in {"linked", "published"},
           writer[w] = "ready", goTo(w, step), w \in Absent => output = Nothing,
           output' = w, published' = Append(published, w),
           UNCHANGED <<onDisk, synced, reader, opened, edits>>,
           file' \in [Writers -> OutputFile], \A v \in Writers : stampedOrSame(v)
    PROVE  OutputInv'
<1>1. OutputTypeOK /\ NamesInv /\ w \in synced
  BY DEF OutputInv, WholeInv
<1>2. synced \subseteq Writers /\ published' \in Seq(Writers)
  BY <1>1 DEF OutputTypeOK
<1>3. /\ writer' \in [Writers -> WriterSteps] /\ writer'[w] = step
      /\ \A v \in Writers : v # w => writer'[v] = writer[v]
  BY <1>1 DEF goTo, OutputTypeOK, WriterSteps
<1>4. NamesInv'
  BY <1>1, <1>3, NamesPublish
<1> QED
  BY <1>1, <1>2, <1>4, GoToInv DEF WriterSteps

LEMMA RenameInv == ASSUME OutputInv, NEW w \in Writers, Rename(w) PROVE OutputInv'
<1>1. /\ UNCHANGED <<onDisk, synced, reader, opened, edits>>
      /\ writer[w] = "ready" /\ w \notin Absent /\ goTo(w, "published")
      /\ output' = w /\ published' = Append(published, w)
  BY DEF Rename
<1>2. file' \in [Writers -> OutputFile] /\ \A v \in Writers : stampedOrSame(v)
  <2>1. CASE output = Nothing
    BY <2>1, StampOne DEF Rename, OutputInv
  <2>2. CASE output # Nothing
    <3>1. output \in Writers /\ output # w
      BY <1>1, <2>2 DEF OutputInv, OutputTypeOK, NamesInv, named
    <3> QED
      BY <2>2, <3>1, StampTwo DEF Rename, OutputInv
  <2> QED
    BY <2>1, <2>2
<1> QED
  BY <1>1, <1>2, PublishInv

LEMMA LinkInv == ASSUME OutputInv, NEW w \in Writers, Link(w) PROVE OutputInv'
<1>1. /\ UNCHANGED <<onDisk, synced, reader, opened, edits>>
      /\ writer[w] = "ready"
  BY DEF Link
<1>2. CASE output = Nothing
  <2>1. /\ output' = w /\ published' = Append(published, w) /\ goTo(w, "linked")
        /\ file' = [file EXCEPT ![w] = touched(@)]
    BY <1>2 DEF Link
  <2>2. file' \in [Writers -> OutputFile] /\ \A v \in Writers : stampedOrSame(v)
    BY <2>1, StampOne DEF OutputInv
  <2> QED
    BY <1>1, <1>2, <2>1, <2>2, PublishInv
<1>3. CASE output # Nothing
  <2>1. UNCHANGED <<output, file, published>> /\ goTo(w, "failed")
    BY <1>3 DEF Link
  <2>2. file' \in [Writers -> OutputFile] /\ \A v \in Writers : stampedOrSame(v)
    BY <2>1, SameFiles DEF OutputInv
  <2>3. NamesInv'
    BY <1>1, <2>1, QuietNames DEF WriterSteps, named
  <2>4. synced \subseteq Writers /\ published \in Seq(Writers)
    BY DEF OutputInv, OutputTypeOK
  <2> QED
    BY <1>1, <2>1, <2>2, <2>3, <2>4, GoToInv DEF WriterSteps
<1> QED
  BY <1>2, <1>3

LEMMA UnlinkInv == ASSUME OutputInv, NEW w \in Writers, Unlink(w) PROVE OutputInv'
<1>1. /\ UNCHANGED <<output, onDisk, synced, reader, published, opened, edits>>
      /\ writer[w] = "linked" /\ goTo(w, "published")
      /\ file' = [file EXCEPT ![w] = touched(@)] /\ named(w)
  BY DEF Unlink, named
<1>2. file' \in [Writers -> OutputFile] /\ \A v \in Writers : stampedOrSame(v)
  BY <1>1, StampOne DEF OutputInv
<1>3. NamesInv'
  BY <1>1, QuietNames DEF WriterSteps
<1>4. synced \subseteq Writers /\ published \in Seq(Writers) /\ w \in synced
  BY <1>1 DEF OutputInv, OutputTypeOK, WholeInv
<1> QED
  BY <1>1, <1>2, <1>3, <1>4, GoToInv DEF WriterSteps

LEMMA ReturnWrittenInv == ASSUME OutputInv, NEW w \in Writers, ReturnWritten(w) PROVE OutputInv'
<1>1. /\ UNCHANGED <<output, file, synced, reader, published, opened, edits>>
      /\ onDisk' = output /\ writer[w] = "published" /\ goTo(w, "returned") /\ named(w)
  BY DEF ReturnWritten, named
<1>2. file' \in [Writers -> OutputFile] /\ \A v \in Writers : stampedOrSame(v)
  BY <1>1, SameFiles DEF OutputInv
<1>3. NamesInv'
  BY NamesReturn DEF OutputInv
<1>4. synced \subseteq Writers /\ published \in Seq(Writers) /\ w \in synced
  BY <1>1 DEF OutputInv, OutputTypeOK, WholeInv
<1> QED
  BY <1>1, <1>2, <1>3, <1>4, GoToInv DEF WriterSteps

LEMMA FailWriteInv == ASSUME OutputInv, NEW w \in Writers, FailWrite(w) PROVE OutputInv'
<1>1. /\ UNCHANGED <<output, onDisk, synced, reader, published, opened, edits>>
      /\ goTo(w, "failed")
      /\ file' = file \/ file' = [file EXCEPT ![w] = touched(@)]
  BY DEF FailWrite
<1>2. file' \in [Writers -> OutputFile] /\ \A v \in Writers : stampedOrSame(v)
  BY <1>1, SameFiles, StampOne DEF OutputInv
<1>3. NamesInv'
  BY <1>1, QuietNames DEF WriterSteps
<1>4. synced \subseteq Writers /\ published \in Seq(Writers)
  BY DEF OutputInv, OutputTypeOK
<1> QED
  BY <1>1, <1>2, <1>3, <1>4, GoToInv DEF WriterSteps

\* A write puts the next block into a file whose blocks so far are the caller's.
LEMMA BlockWritten ==
    ASSUME OutputInv, NEW w \in Writers, WriteBlock(w)
    PROVE  \E n \in 0..(Blocks - 1) :
              /\ begun(w, n)
              /\ file' \in [Writers -> OutputFile]
              /\ \A v \in Writers : v # w => file'[v] = file[v]
              /\ file'[w].changed = file[w].changed + 1
              /\ \A i \in 1..Blocks : file'[w].blocks[i] = IF i <= n + 1 THEN w ELSE Nothing
              /\ writer' = IF n + 1 = Blocks THEN [writer EXCEPT ![w] = "written"] ELSE writer
<1>1. OutputTypeOK /\ writer[w] = "writing"
  BY DEF OutputInv, WriteBlock
<1>2. PICK n \in 0..(Blocks - 1) : begun(w, n)
  BY <1>1 DEF OutputInv, WholeInv
<1>3. n \in Nat /\ n + 1 \in 1..Blocks /\ Blocks \in Nat
  BY BlockAssumption
<1>4. written(w) = n
  <2>1. {i \in 1..Blocks : file[w].blocks[i] # Nothing} = 1..n
    BY <1>2, <1>3, WriterAssumption DEF begun
  <2>2. Cardinality(1..n) = n
    BY <1>3, FS_Interval
  <2> QED
    BY <2>1, <2>2 DEF written
<1> DEFINE old == file[w].blocks
           new == [blocks |-> [old EXCEPT ![n + 1] = w], changed |-> file[w].changed + 1]
<1>5. old \in [1..Blocks -> Block] /\ file[w].changed \in Nat
  BY <1>1, FileFacts
<1>6. [touched(file[w]) EXCEPT !.blocks[n + 1] = w] = new
  <2>1. touched(file[w]) = [blocks |-> old, changed |-> file[w].changed + 1]
    <3>1. file[w] = [blocks |-> file[w].blocks, changed |-> file[w].changed]
      BY <1>1, FileFacts
    <3> QED
      BY <3>1 DEF touched
  <2> QED
    BY <2>1
<1>7. [old EXCEPT ![n + 1] = w] \in [1..Blocks -> Block]
  BY <1>5 DEF Block
<1>8. new \in OutputFile
  BY <1>5, <1>7 DEF OutputFile
<1>9. file' = [file EXCEPT ![w] = new]
  BY <1>4, <1>6 DEF WriteBlock
<1>10. \A i \in 1..Blocks : new.blocks[i] = IF i <= n + 1 THEN w ELSE Nothing
  BY <1>2, <1>3, <1>5 DEF begun
<1>11. new.changed = file[w].changed + 1
  OBVIOUS
<1> HIDE DEF new
<1>12. /\ file' \in [Writers -> OutputFile] /\ file'[w] = new
       /\ \A v \in Writers : v # w => file'[v] = file[v]
  BY <1>1, <1>8, <1>9 DEF OutputTypeOK
<1>13. writer' = IF n + 1 = Blocks THEN [writer EXCEPT ![w] = "written"] ELSE writer
  BY <1>4 DEF WriteBlock, goTo
<1> QED
  BY <1>2, <1>10, <1>11, <1>12, <1>13

LEMMA WriteBlockInv == ASSUME OutputInv, NEW w \in Writers, WriteBlock(w) PROVE OutputInv'
<1>1. /\ UNCHANGED <<output, onDisk, reader, published, opened, edits>>
      /\ synced' = synced \ {w} /\ writer[w] = "writing"
  BY DEF WriteBlock
<1>2. OutputTypeOK /\ NamesInv /\ WholeInv /\ ReaderInv
  BY DEF OutputInv
<1>3. PICK n \in 0..(Blocks - 1) :
         /\ begun(w, n)
         /\ file' \in [Writers -> OutputFile]
         /\ \A v \in Writers : v # w => file'[v] = file[v]
         /\ file'[w].changed = file[w].changed + 1
         /\ \A i \in 1..Blocks : file'[w].blocks[i] = IF i <= n + 1 THEN w ELSE Nothing
         /\ writer' = IF n + 1 = Blocks THEN [writer EXCEPT ![w] = "written"] ELSE writer
  BY BlockWritten
<1>4. /\ writer' \in [Writers -> WriterSteps]
      /\ \A v \in Writers : v # w => writer'[v] = writer[v]
      /\ n + 1 = Blocks => writer'[w] = "written"
      /\ n + 1 # Blocks => writer'[w] = "writing"
  BY <1>1, <1>2, <1>3 DEF OutputTypeOK, WriterSteps
<1>5. OutputTypeOK'
  BY <1>1, <1>2, <1>3, <1>4 DEF OutputTypeOK
<1>6. NamesInv'
  <2>1. \A v \in Writers :
           /\ named(v)' => named(v)
           /\ returned(v)' => returned(v)
           /\ named(v) \/ writer[v] = "failed" => named(v)' \/ writer'[v] = "failed"
    BY <1>1, <1>4 DEF named, returned
  <2> QED
    BY <1>1, <1>2, <2>1, NamesKeep
<1>7. w # output /\ w # onDisk
  <2>1. ~isIn(published, w) /\ w # Nothing
    BY <1>1, <1>2, WriterAssumption DEF NamesInv, named
  <2>2. output # Nothing => isIn(published, output)
    BY <1>2 DEF NamesInv
  <2>3. onDisk # Nothing => isIn(published, onDisk)
    BY <1>2 DEF NamesInv
  <2> QED
    BY <2>1, <2>2, <2>3
<1>8. \A v \in Writers : v # w => /\ whole(v)' <=> whole(v)
                                  /\ \A k : begun(v, k)' <=> begun(v, k)
                                  /\ named(v)' <=> named(v)
                                  /\ v \in synced' <=> v \in synced
  BY <1>1, <1>3, <1>4 DEF whole, begun, named
<1>9. WholeInv'
  <2>1. n + 1 = Blocks => whole(w)'
    BY <1>3 DEF whole
  <2>2. n + 1 # Blocks => n + 1 \in 0..(Blocks - 1) /\ begun(w, n + 1)'
    BY <1>3, BlockAssumption DEF begun
  <2>3. \A v \in Writers : writer'[v] = "start" => begun(v, 0)'
    BY <1>2, <1>4, <1>8 DEF WholeInv
  <2>4. \A v \in Writers : writer'[v] = "writing" => \E k \in 0..(Blocks - 1) : begun(v, k)'
    BY <1>2, <1>4, <1>8, <2>2 DEF WholeInv
  <2>5. \A v \in Writers :
           edits' = 0 /\ (named(v)' \/ writer'[v] \in {"written", "ready"}) => whole(v)'
    BY <1>1, <1>2, <1>4, <1>8, <2>1 DEF WholeInv, named
  <2>6. \A v \in Writers : named(v)' \/ writer'[v] = "ready" => v \in synced'
    BY <1>2, <1>4, <1>8 DEF WholeInv, named
  <2>7. \A v \in {output', onDisk'} \ {Nothing} : v \in synced' /\ (edits' = 0 => whole(v)')
    BY <1>1, <1>2, <1>7, <1>8 DEF WholeInv, OutputTypeOK
  <2> QED
    BY <2>3, <2>4, <2>5, <2>6, <2>7 DEF WholeInv
<1>10. ReaderInv'
  <2>1. ASSUME NEW v \in Writers
        PROVE  /\ file'[v].changed \in Nat /\ file[v].changed <= file'[v].changed
               /\ file'[v].changed = file[v].changed => file'[v].blocks = file[v].blocks
    <3>1. file[v].changed \in Nat /\ file[w].changed \in Nat
      BY <1>2, FileFacts
    <3> QED
      BY <1>3, <3>1
  <2> QED
    BY <1>1, <1>2, <2>1, ReadersKeep
<1> QED
  BY <1>5, <1>6, <1>9, <1>10 DEF OutputInv

----------------------------------------------------------------------------
\* Only one reader moves, and nothing else.
LEMMA ReaderStep ==
    ASSUME OutputInv, NEW r \in Readers,
           UNCHANGED <<output, onDisk, file, synced, writer, published, edits>>,
           reader' \in [Readers -> ReaderCall], opened' \in [Readers -> Seq(Block)],
           \A q \in Readers : q # r => reader'[q] = reader[q] /\ opened'[q] = opened[q],
           reader'[r].step = "reading" =>
              /\ reader'[r].file \in Writers
              /\ Len(reader'[r].got) <= Blocks
              /\ reader'[r].changed <= file[reader'[r].file].changed
              /\ file[reader'[r].file].changed = reader'[r].changed =>
                    /\ opened'[r] = file[reader'[r].file].blocks
                    /\ \A i \in 1..Len(reader'[r].got) : reader'[r].got[i] = opened'[r][i],
           reader'[r].step = "returned" => reader'[r].got = opened'[r]
    PROVE  OutputInv'
<1>1. OutputTypeOK'
  BY DEF OutputInv, OutputTypeOK
<1>2. NamesInv'
  BY NamesKeep DEF OutputInv, named, returned
<1>3. WholeInv'
  BY DEF OutputInv, WholeInv, named, whole, begun
<1>4. ReaderInv'
  <2> SUFFICES ASSUME NEW q \in Readers
               PROVE  /\ reader'[q].step = "reading" =>
                            /\ Len(reader'[q].got) <= Blocks
                            /\ reader'[q].changed <= file'[reader'[q].file].changed
                            /\ unchanged(q)' =>
                                  /\ opened'[q] = file'[reader'[q].file].blocks
                                  /\ \A i \in 1..Len(reader'[q].got) :
                                        reader'[q].got[i] = opened'[q][i]
                      /\ reader'[q].step = "returned" => reader'[q].got = opened'[q]
    BY DEF ReaderInv
  <2>1. CASE q = r
    BY <2>1 DEF unchanged
  <2>2. CASE q # r
    BY <2>2 DEF OutputInv, ReaderInv, unchanged
  <2> QED
    BY <2>1, <2>2
<1> QED
  BY <1>1, <1>2, <1>3, <1>4 DEF OutputInv

LEMMA OpenOutputInv == ASSUME OutputInv, NEW r \in Readers, OpenOutput(r) PROVE OutputInv'
<1> DEFINE now == [step |-> "reading", file |-> output, changed |-> file[output].changed,
                   got |-> << >>]
<1>1. /\ UNCHANGED <<output, onDisk, file, synced, writer, published, edits>>
      /\ output # Nothing
      /\ reader' = [reader EXCEPT ![r] = now]
      /\ opened' = [opened EXCEPT ![r] = file[output].blocks]
  BY DEF OpenOutput
<1>2. OutputTypeOK /\ output \in Writers
  BY <1>1 DEF OutputInv, OutputTypeOK
<1>3. file[output].blocks \in Seq(Block) /\ file[output].changed \in Nat
  <2>1. file[output].blocks \in [1..Blocks -> Block] /\ file[output].changed \in Nat
    BY <1>2, FileFacts
  <2>2. Blocks \in Nat
    BY BlockAssumption
  <2> QED
    BY <2>1, <2>2
<1>4. now \in ReaderCall /\ Len(now.got) = 0
  BY <1>2, <1>3 DEF ReaderCall
<1>5. now.step = "reading" /\ now.file = output /\ now.changed = file[output].changed
  OBVIOUS
<1> HIDE DEF now
<1>6. /\ reader' \in [Readers -> ReaderCall] /\ reader'[r] = now
      /\ opened' \in [Readers -> Seq(Block)] /\ opened'[r] = file[output].blocks
      /\ \A q \in Readers : q # r => reader'[q] = reader[q] /\ opened'[q] = opened[q]
  BY <1>1, <1>2, <1>3, <1>4 DEF OutputTypeOK
<1>7. 0 <= Blocks
  BY BlockAssumption
<1> QED
  BY <1>1, <1>2, <1>3, <1>4, <1>5, <1>6, <1>7, ReaderStep

\* The reader's blocks grow by the next block of its file.
LEMMA BlockRead ==
    ASSUME NEW got \in Seq(Block), NEW blocks \in [1..Blocks -> Block], Len(got) < Blocks
    PROVE  /\ Len(got) + 1 \in 1..Blocks
           /\ Append(got, blocks[Len(got) + 1]) \in Seq(Block)
           /\ Len(Append(got, blocks[Len(got) + 1])) = Len(got) + 1
           /\ \A i \in 1..(Len(got) + 1) :
                 Append(got, blocks[Len(got) + 1])[i] =
                    IF i = Len(got) + 1 THEN blocks[i] ELSE got[i]
<1>1. Len(got) \in Nat /\ Len(got) + 1 \in 1..Blocks
  BY BlockAssumption
<1>2. PICK b \in Block : b = blocks[Len(got) + 1]
  BY <1>1
<1>3. Append(got, b) \in Seq(Block) /\ Len(Append(got, b)) = Len(got) + 1
  OBVIOUS
<1>4. \A i \in 1..(Len(got) + 1) : Append(got, b)[i] = IF i = Len(got) + 1 THEN b ELSE got[i]
  BY <1>1
<1> QED
  BY <1>1, <1>2, <1>3, <1>4

LEMMA ReadBlockInv == ASSUME OutputInv, NEW r \in Readers, ReadBlock(r) PROVE OutputInv'
<1> DEFINE blocks == file[reader[r].file].blocks
           got == reader[r].got
           more == Append(got, blocks[Len(got) + 1])
           next == [step |-> "reading", file |-> reader[r].file,
                    changed |-> reader[r].changed, got |-> more]
<1>1. /\ UNCHANGED <<output, onDisk, file, synced, writer, published, opened, edits>>
      /\ reader[r].step = "reading" /\ Len(got) < Blocks
      /\ reader' = [reader EXCEPT ![r].got = more]
  BY DEF ReadBlock
<1>2. OutputTypeOK /\ reader[r].file \in Writers
  BY <1>1 DEF OutputInv, OutputTypeOK
<1>3. got \in Seq(Block) /\ Len(got) \in Nat /\ reader[r].changed \in Nat
  BY <1>2, ReaderFacts
<1>4. blocks \in [1..Blocks -> Block]
  BY <1>2, FileFacts
<1>5. reader[r] = [step |-> "reading", file |-> reader[r].file,
                   changed |-> reader[r].changed, got |-> got]
  BY <1>1, <1>2, ReaderFacts DEF ReaderCall
<1>6. /\ reader[r].changed <= file[reader[r].file].changed
      /\ file[reader[r].file].changed = reader[r].changed =>
            opened[r] = blocks /\ \A i \in 1..Len(got) : got[i] = opened[r][i]
  BY <1>1 DEF OutputInv, ReaderInv, unchanged
<1>7. /\ more \in Seq(Block) /\ Len(more) = Len(got) + 1
      /\ \A i \in 1..(Len(got) + 1) : more[i] = IF i = Len(got) + 1 THEN blocks[i] ELSE got[i]
  <2> HIDE DEF blocks, got
  <2> QED
    BY <1>1, <1>3, <1>4, BlockRead
<1> HIDE DEF more, got, blocks
<1>8. [reader[r] EXCEPT !.got = more] = next
  BY <1>5
<1>9. next \in ReaderCall
  BY <1>2, <1>3, <1>7 DEF ReaderCall
<1>10. reader' = [reader EXCEPT ![r] = next]
  BY <1>1, <1>8
<1>11. /\ next.step = "reading" /\ next.file = reader[r].file
       /\ next.changed = reader[r].changed /\ next.got = more
  OBVIOUS
<1> HIDE DEF next
<1>12. /\ reader' \in [Readers -> ReaderCall] /\ reader'[r] = next
       /\ \A q \in Readers : q # r => reader'[q] = reader[q]
  BY <1>2, <1>9, <1>10 DEF OutputTypeOK
<1>13. Len(more) <= Blocks
  BY <1>1, <1>3, <1>7, BlockAssumption
<1>14. file[reader[r].file].changed = reader[r].changed =>
          /\ opened[r] = file[reader[r].file].blocks
          /\ \A i \in 1..Len(more) : more[i] = opened[r][i]
  BY <1>3, <1>6, <1>7 DEF blocks
<1>15. opened' \in [Readers -> Seq(Block)] /\ opened' = opened
  BY <1>1, <1>2 DEF OutputTypeOK
<1>16. /\ reader'[r].step = "reading" /\ reader'[r].file = reader[r].file
       /\ reader'[r].changed = reader[r].changed /\ reader'[r].got = more
  BY <1>11, <1>12
<1>17. /\ reader'[r].file \in Writers
       /\ Len(reader'[r].got) <= Blocks
       /\ reader'[r].changed <= file[reader'[r].file].changed
  BY <1>2, <1>6, <1>13, <1>16
<1>18. file[reader'[r].file].changed = reader'[r].changed =>
          /\ opened'[r] = file[reader'[r].file].blocks
          /\ \A i \in 1..Len(reader'[r].got) : reader'[r].got[i] = opened'[r][i]
  BY <1>14, <1>15, <1>16
<1>19. \A q \in Readers : q # r => reader'[q] = reader[q] /\ opened'[q] = opened[q]
  BY <1>12, <1>15
<1>20. reader'[r].step = "returned" => reader'[r].got = opened'[r]
  BY <1>16
<1>21. reader' \in [Readers -> ReaderCall] /\ opened' \in [Readers -> Seq(Block)]
  BY <1>12, <1>15
<1> QED
  BY <1>1, <1>17, <1>18, <1>19, <1>20, <1>21, ReaderStep

LEMMA SameBlocks ==
    ASSUME NEW read \in [1..Blocks -> Block], NEW was \in [1..Blocks -> Block],
           \A i \in 1..Blocks : read[i] = was[i]
    PROVE  read = was
<1>1. read = [i \in 1..Blocks |-> read[i]]
  OBVIOUS
<1>2. was = [i \in 1..Blocks |-> was[i]]
  OBVIOUS
<1>3. [i \in 1..Blocks |-> read[i]] = [i \in 1..Blocks |-> was[i]]
  OBVIOUS
<1> QED
  BY <1>1, <1>2, <1>3

LEMMA CloseInv == ASSUME OutputInv, NEW r \in Readers, Close(r) PROVE OutputInv'
<1> DEFINE step == IF unchanged(r) THEN "returned" ELSE "failed"
           next == [step |-> step, file |-> reader[r].file, changed |-> reader[r].changed,
                    got |-> reader[r].got]
<1>1. /\ UNCHANGED <<output, onDisk, file, synced, writer, published, opened, edits>>
      /\ reader[r].step = "reading" /\ Len(reader[r].got) = Blocks
      /\ reader' = [reader EXCEPT ![r].step = step]
  BY DEF Close
<1>2. OutputTypeOK /\ reader[r] \in ReaderCall /\ reader[r].file \in Writers
  BY <1>1, ReaderFacts DEF OutputInv, OutputTypeOK
<1>3. reader' = [reader EXCEPT ![r] = next] /\ next \in ReaderCall
  <2>1. step \in {"returned", "failed"}
    OBVIOUS
  <2> HIDE DEF step
  <2>2. [reader[r] EXCEPT !.step = step] = next
    BY <1>2 DEF ReaderCall
  <2>3. next \in ReaderCall
    BY <1>2, <2>1 DEF ReaderCall
  <2> QED
    BY <1>1, <2>2, <2>3
<1>4. next.step # "reading" /\ next.got = reader[r].got
      /\ (next.step = "returned" <=> unchanged(r))
  OBVIOUS
<1> HIDE DEF next
<1>5. /\ reader' \in [Readers -> ReaderCall] /\ reader'[r] = next
      /\ \A q \in Readers : q # r => reader'[q] = reader[q]
  BY <1>2, <1>3 DEF OutputTypeOK
<1>6. unchanged(r) => reader[r].got = opened[r]
  <2> SUFFICES ASSUME unchanged(r) PROVE reader[r].got = opened[r]
    OBVIOUS
  <2>1. /\ opened[r] = file[reader[r].file].blocks
        /\ \A i \in 1..Len(reader[r].got) : reader[r].got[i] = opened[r][i]
    BY <1>1 DEF OutputInv, ReaderInv
  <2>2. opened[r] \in [1..Blocks -> Block] /\ reader[r].got \in Seq(Block)
    BY <1>2, <2>1, FileFacts, ReaderFacts
  <2>3. reader[r].got \in [1..Blocks -> Block]
    BY <1>1, <2>2
  <2>4. \A i \in 1..Blocks : reader[r].got[i] = opened[r][i]
    BY <1>1, <2>1
  <2> QED
    BY <2>2, <2>3, <2>4, SameBlocks
<1>7. opened' \in [Readers -> Seq(Block)] /\ opened' = opened
  BY <1>1, <1>2 DEF OutputTypeOK
<1> QED
  BY <1>1, <1>4, <1>5, <1>6, <1>7, ReaderStep

----------------------------------------------------------------------------
(***************************************************************************)
(* The editor and the crash.                                               *)
(***************************************************************************)
LEMMA FileEdited ==
    ASSUME OutputTypeOK, Edit
    PROVE  /\ output \in Writers /\ file' \in [Writers -> OutputFile]
           /\ \A v \in Writers : v # output => file'[v] = file[v]
           /\ file'[output].changed = file[output].changed + 1
<1>1. PICK i \in 1..Blocks :
         file' = [file EXCEPT ![output] = [touched(@) EXCEPT !.blocks[i] = Edited]]
  BY DEF Edit
<1>2. output \in Writers
  BY DEF Edit, OutputTypeOK
<1> DEFINE new == [blocks |-> [file[output].blocks EXCEPT ![i] = Edited],
                   changed |-> file[output].changed + 1]
<1>3. file[output].blocks \in [1..Blocks -> Block] /\ file[output].changed \in Nat
  BY <1>2, FileFacts
<1>4. touched(file[output]) = [blocks |-> file[output].blocks,
                               changed |-> file[output].changed + 1]
  <2>1. file[output] = [blocks |-> file[output].blocks, changed |-> file[output].changed]
    BY <1>2, FileFacts
  <2> QED
    BY <2>1 DEF touched
<1>5. [touched(file[output]) EXCEPT !.blocks[i] = Edited] = new
  BY <1>4
<1>6. [file[output].blocks EXCEPT ![i] = Edited] \in [1..Blocks -> Block]
  BY <1>3 DEF Block
<1>7. new \in OutputFile /\ new.changed = file[output].changed + 1
  BY <1>3, <1>6 DEF OutputFile
<1>8. file' = [file EXCEPT ![output] = new]
  BY <1>1, <1>5
<1> HIDE DEF new
<1> QED
  BY <1>2, <1>7, <1>8 DEF OutputTypeOK

LEMMA EditInv == ASSUME OutputInv, Edit PROVE OutputInv'
<1>1. /\ UNCHANGED <<output, onDisk, synced, writer, reader, published, opened>>
      /\ edits' = edits + 1 /\ output # Nothing
  BY DEF Edit
<1>2. OutputTypeOK /\ NamesInv /\ WholeInv /\ ReaderInv
  BY DEF OutputInv
<1>3. /\ output \in Writers /\ file' \in [Writers -> OutputFile]
      /\ \A v \in Writers : v # output => file'[v] = file[v]
      /\ file'[output].changed = file[output].changed + 1
  BY <1>2, FileEdited
<1>4. edits' \in Nat /\ edits' # 0
  BY <1>1, <1>2 DEF OutputTypeOK
<1>5. OutputTypeOK'
  BY <1>1, <1>2, <1>3, <1>4 DEF OutputTypeOK
<1>6. NamesInv'
  BY <1>1, <1>2, NamesKeep DEF named, returned
<1>7. writer[output] \notin {"start", "writing"}
  BY <1>1, <1>2, <1>3 DEF NamesInv, named
<1>8. WholeInv'
  <2>1. \A v \in Writers : v # output => \A n : begun(v, n)' <=> begun(v, n)
    BY <1>3 DEF begun
  <2>2. \A v \in Writers : writer'[v] = "start" => begun(v, 0)'
    BY <1>1, <1>2, <1>7, <2>1 DEF WholeInv
  <2>3. \A v \in Writers : writer'[v] = "writing" => \E n \in 0..(Blocks - 1) : begun(v, n)'
    BY <1>1, <1>2, <1>7, <2>1 DEF WholeInv
  <2>4. \A v \in Writers : named(v)' \/ writer'[v] = "ready" => v \in synced'
    BY <1>1, <1>2 DEF WholeInv, named
  <2>5. \A v \in {output', onDisk'} \ {Nothing} : v \in synced'
    BY <1>1, <1>2 DEF WholeInv
  <2> QED
    BY <1>4, <2>2, <2>3, <2>4, <2>5 DEF WholeInv
<1>9. ReaderInv'
  <2>1. ASSUME NEW v \in Writers
        PROVE  /\ file'[v].changed \in Nat /\ file[v].changed <= file'[v].changed
               /\ file'[v].changed = file[v].changed => file'[v].blocks = file[v].blocks
    <3>1. file[v].changed \in Nat /\ file[output].changed \in Nat
      BY <1>2, <1>3, FileFacts
    <3> QED
      BY <1>3, <3>1
  <2> QED
    BY <1>1, <1>2, <2>1, ReadersKeep
<1> QED
  BY <1>5, <1>6, <1>8, <1>9 DEF OutputInv

\* What was synchronised survives; of the rest, any block may be gone.
LEMMA FilesAfterCrash ==
    ASSUME OutputTypeOK, Crash
    PROVE  /\ file' \in [Writers -> OutputFile]
           /\ \A w \in synced : file'[w] = file[w]
           /\ \A w \in Writers, i \in 1..Blocks :
                 file'[w].blocks[i] \in {Nothing, file[w].blocks[i]}
<1>1. PICK lost \in [Writers \ synced -> SUBSET (1..Blocks)] :
         file' = [w \in Writers |->
            IF w \in synced THEN file[w]
            ELSE [touched(file[w]) EXCEPT !.blocks =
                     [i \in 1..Blocks |-> IF i \in lost[w] THEN Nothing ELSE @[i]]]]
  BY DEF Crash
<1>2. synced \subseteq Writers
  BY DEF OutputTypeOK
<1>3. \A w \in synced : file'[w] = file[w]
  BY <1>1, <1>2
<1>4. ASSUME NEW w \in Writers
      PROVE  /\ file'[w] \in OutputFile
             /\ \A i \in 1..Blocks : file'[w].blocks[i] \in {Nothing, file[w].blocks[i]}
  <2>1. CASE w \in synced
    BY <1>3, <2>1, FileFacts
  <2>2. CASE w \notin synced
    <3> DEFINE left == [i \in 1..Blocks |->
                           IF i \in lost[w] THEN Nothing ELSE file[w].blocks[i]]
    <3>1. file[w].blocks \in [1..Blocks -> Block] /\ file[w].changed \in Nat
      BY FileFacts
    <3>2. touched(file[w]) = [blocks |-> file[w].blocks, changed |-> file[w].changed + 1]
      <4>1. file[w] = [blocks |-> file[w].blocks, changed |-> file[w].changed]
        BY FileFacts
      <4> QED
        BY <4>1 DEF touched
    <3>3. file'[w] = [touched(file[w]) EXCEPT !.blocks =
                         [i \in 1..Blocks |-> IF i \in lost[w] THEN Nothing ELSE @[i]]]
      BY <1>1, <2>2
    <3>4. left \in [1..Blocks -> Block]
          /\ \A i \in 1..Blocks : left[i] \in {Nothing, file[w].blocks[i]}
      BY <3>1 DEF Block
    <3>5. file'[w] = [touched(file[w]) EXCEPT !.blocks = left]
      BY <3>2, <3>3
    <3> HIDE DEF left
    <3>6. file'[w] = [blocks |-> left, changed |-> file[w].changed + 1]
      BY <3>2, <3>5
    <3> QED
      BY <3>1, <3>4, <3>6 DEF OutputFile
  <2> QED
    BY <2>1, <2>2
<1>5. file' \in [Writers -> OutputFile]
  BY <1>1, <1>4
<1> QED
  BY <1>3, <1>4, <1>5

\* No call of a reader is left over a crash; what one returned before stays.
LEMMA ReadersAfterCrash ==
    ASSUME OutputTypeOK, Crash
    PROVE  /\ reader' \in [Readers -> ReaderCall]
           /\ \A r \in Readers : /\ reader'[r].step # "reading"
                                 /\ reader'[r].step = "returned" => reader'[r] = reader[r]
<1>1. reader' = [r \in Readers |->
         IF reader[r].step = "reading" THEN [reader[r] EXCEPT !.step = "failed"]
         ELSE reader[r]]
  BY DEF Crash
<1>2. ASSUME NEW r \in Readers
      PROVE  /\ reader'[r] \in ReaderCall /\ reader'[r].step # "reading"
             /\ reader'[r].step = "returned" => reader'[r] = reader[r]
  <2>1. reader[r] \in ReaderCall
    BY ReaderFacts
  <2>2. CASE reader[r].step = "reading"
    <3>1. reader'[r] = [reader[r] EXCEPT !.step = "failed"]
      BY <1>1, <2>2
    <3>2. reader'[r] = [step |-> "failed", file |-> reader[r].file,
                        changed |-> reader[r].changed, got |-> reader[r].got]
      BY <2>1, <3>1 DEF ReaderCall
    <3> QED
      BY <2>1, <3>2 DEF ReaderCall
  <2>3. CASE reader[r].step # "reading"
    BY <1>1, <2>1, <2>3
  <2> QED
    BY <2>2, <2>3
<1> QED
  BY <1>1, <1>2

LEMMA CrashInv == ASSUME OutputInv, Crash PROVE OutputInv'
<1>1. /\ UNCHANGED <<published, opened, edits>> /\ synced' = Writers
      /\ output' \in {output, onDisk} /\ onDisk' = output'
      /\ writer' = [w \in Writers |->
            IF writer[w] \in {"start", "returned"} THEN writer[w] ELSE "failed"]
  BY DEF Crash
<1>2. OutputTypeOK /\ NamesInv /\ WholeInv /\ ReaderInv
  BY DEF OutputInv
<1>3. /\ file' \in [Writers -> OutputFile]
      /\ \A w \in synced : file'[w] = file[w]
      /\ \A w \in Writers, i \in 1..Blocks : file'[w].blocks[i] \in {Nothing, file[w].blocks[i]}
  BY <1>2, FilesAfterCrash
<1>4. /\ reader' \in [Readers -> ReaderCall]
      /\ \A r \in Readers : /\ reader'[r].step # "reading"
                            /\ reader'[r].step = "returned" => reader'[r] = reader[r]
  BY <1>2, ReadersAfterCrash
<1>5. OutputTypeOK'
  <2>1. writer' \in [Writers -> WriterSteps]
    BY <1>1 DEF WriterSteps
  <2> QED
    BY <1>1, <1>2, <1>3, <1>4, <2>1 DEF OutputTypeOK
<1>6. NamesInv'
  BY <1>2, NamesCrash
<1>7. ReaderInv'
  BY <1>1, <1>2, <1>4 DEF ReaderInv
<1>8. \A w \in synced : whole(w) => whole(w)'
  BY <1>3 DEF whole
<1>9. WholeInv'
  <2>1. ASSUME NEW w \in Writers, writer'[w] = "start" PROVE begun(w, 0)'
    <3>1. begun(w, 0)
      BY <1>1, <1>2, <2>1 DEF WholeInv
    <3> QED
      BY <1>3, <3>1 DEF begun
  <2>2. \A w \in Writers : writer'[w] \notin {"writing", "written", "ready"}
    BY <1>1
  <2>3. ASSUME NEW w \in Writers, edits' = 0, named(w)' PROVE whole(w)'
    <3>1. named(w)
      BY <1>1, <2>3 DEF named
    <3>2. whole(w) /\ w \in synced
      BY <1>1, <1>2, <2>3, <3>1 DEF WholeInv
    <3> QED
      BY <1>8, <3>2
  <2>4. ASSUME NEW w \in {output', onDisk'} \ {Nothing}
        PROVE  w \in synced' /\ (edits' = 0 => whole(w)')
    <3>1. w \in {output, onDisk} \ {Nothing}
      BY <1>1
    <3>2. w \in Writers /\ w \in synced /\ (edits = 0 => whole(w))
      BY <1>2, <3>1 DEF WholeInv, OutputTypeOK
    <3> QED
      BY <1>1, <1>8, <3>2
  <2> QED
    BY <1>1, <2>1, <2>2, <2>3, <2>4 DEF WholeInv
<1> QED
  BY <1>5, <1>6, <1>7, <1>9 DEF OutputInv

----------------------------------------------------------------------------
LEMMA OutputInitInv == OutputInit => OutputInv
<1> SUFFICES ASSUME OutputInit PROVE OutputInv
  OBVIOUS
<1> USE DEF OutputInit
<1>1. Blocks \in Nat \ {0}
  BY BlockAssumption
<1>2. OutputTypeOK
  <2>1. [blocks |-> [i \in 1..Blocks |-> Nothing], changed |-> 0] \in OutputFile
    BY DEF OutputFile, Block
  <2>2. [step |-> "start", file |-> Nothing, changed |-> 0, got |-> << >>] \in ReaderCall
    BY DEF ReaderCall
  <2>3. reader \in [Readers -> ReaderCall] /\ file \in [Writers -> OutputFile]
    BY <2>1, <2>2
  <2>4. opened \in [Readers -> Seq(Block)] /\ published \in Seq(Writers)
    OBVIOUS
  <2>5. \A r \in Readers : reader[r].step # "reading"
    OBVIOUS
  <2> QED
    BY <2>3, <2>4, <2>5 DEF OutputTypeOK, WriterSteps
<1>3. NamesInv
  BY DEF NamesInv, noRepeats, isIn, named, returned
<1>4. WholeInv
  <2>1. \A w \in Writers : begun(w, 0)
    BY <1>1 DEF begun
  <2> QED
    BY <2>1 DEF WholeInv, named
<1>5. ReaderInv
  BY DEF ReaderInv
<1> QED
  BY <1>2, <1>3, <1>4, <1>5 DEF OutputInv

LEMMA OutputStutter == ASSUME OutputInv, UNCHANGED outputVars PROVE OutputInv'
<1> USE DEF outputVars
<1>1. OutputTypeOK'
  BY DEF OutputInv, OutputTypeOK
<1>2. NamesInv'
  BY NamesKeep DEF OutputInv, named, returned
<1>3. WholeInv'
  BY DEF OutputInv, WholeInv, named, whole, begun
<1>4. ReaderInv'
  BY DEF OutputInv, ReaderInv, unchanged
<1> QED
  BY <1>1, <1>2, <1>3, <1>4 DEF OutputInv

LEMMA OutputStep == OutputInv /\ [OutputNext]_outputVars => OutputInv'
<1> SUFFICES ASSUME OutputInv, [OutputNext]_outputVars PROVE OutputInv'
  OBVIOUS
<1>1. ASSUME NEW w \in Writers,
             \/ Create(w) \/ WriteBlock(w) \/ SyncFile(w) \/ Rename(w) \/ Link(w)
             \/ Unlink(w) \/ ReturnWritten(w) \/ FailWrite(w)
      PROVE  OutputInv'
  BY <1>1, CreateInv, WriteBlockInv, SyncFileInv, RenameInv, LinkInv, UnlinkInv,
     ReturnWrittenInv, FailWriteInv
<1>2. ASSUME NEW r \in Readers, OpenOutput(r) \/ ReadBlock(r) \/ Close(r)
      PROVE  OutputInv'
  BY <1>2, OpenOutputInv, ReadBlockInv, CloseInv
<1>3. CASE Edit
  BY <1>3, EditInv
<1>4. CASE Crash
  BY <1>4, CrashInv
<1>5. CASE UNCHANGED outputVars
  BY <1>5, OutputStutter
<1> QED
  BY <1>1, <1>2, <1>3, <1>4, <1>5 DEF OutputNext

\* The invariant of the path, the files and their readers.
THEOREM FileOutputInvariant == OutputSpec => []OutputInv
  BY OutputInitInv, OutputStep, PTL DEF OutputSpec

\* Whatever fails or crashes, in whatever order the calls of atomic_write are carried out,
\* the path names nothing or a file one of them wrote to the end.
THEOREM PathStaysWhole == OutputSpec => []PathIsWhole
<1>1. OutputInv => PathIsWhole
  BY DEF OutputInv, WholeInv, PathIsWhole, whole
<1> QED
  BY <1>1, FileOutputInvariant, PTL

\* What atomic_write returned stays true over any number of crashes.
THEOREM ReportsHold == OutputSpec => []ReportsStayTrue
<1>1. ASSUME OutputInv PROVE ReportsStayTrue
  <2> SUFFICES ASSUME NEW w \in Writers, returned(w)
               PROVE  /\ output # Nothing /\ rank(w) <= rank(output)
                      /\ w \in Absent => \A v \in Writers : returned(v) => rank(w) <= rank(v)
    BY DEF ReportsStayTrue
  <2>1. \A v \in Writers : returned(v) => named(v)
    BY DEF returned, named
  <2> QED
    BY <1>1, <2>1 DEF OutputInv, NamesInv
<1>2. OutputInv => ReportsStayTrue
  BY <1>1
<1> QED
  BY <1>2, FileOutputInvariant, PTL

\* What stable_read_bytes and stable_file_digest return is what the file held when it was
\* opened, for any number of blocks, calls, edits and crashes.
THEOREM ReadsAreStable == OutputSpec => []ReadsAreSnapshots
<1>1. OutputInv => ReadsAreSnapshots
  BY DEF OutputInv, ReaderInv, ReadsAreSnapshots
<1> QED
  BY <1>1, FileOutputInvariant, PTL
=============================================================================
