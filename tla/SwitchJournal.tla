--------------------------- MODULE SwitchJournal ---------------------------
(***************************************************************************)
(* The switch journal of internal/hostreconciler/journal.go: per target at *)
(* most one entry, active or recovery_required, bound to the identity of   *)
(* the runtime release that was switched to.  Each method runs under the   *)
(* journal's mutex and is one step.                                        *)
(*                                                                         *)
(* The callers are outside src/.  An Attempt is one logical switch, with   *)
(* its target and identity fixed; it may call Activate or RecoverTo any    *)
(* number of times and in any order with the others (retries, duplicated   *)
(* deliveries, late calls), and reports a failure only of a switch it was  *)
(* told it made.                                                           *)
(***************************************************************************)
EXTENDS Integers, Sequences

CONSTANTS
    Targets,
    Releases,      \* releaseDigest
    Bindings,      \* graph, authorization and eligibility digests together
    Attempts,
    TargetOf, IdentityOf,
    MaxSwitches    \* bound: switches of one target

Identity == [release : Releases, binding : Bindings]

ASSUME AttemptAssumption ==
    /\ TargetOf \in [Attempts -> Targets]
    /\ IdentityOf \in [Attempts -> Identity]
ASSUME BoundAssumption == MaxSwitches \in Nat

VARIABLES
    entries,    \* Journal.entries
    history,    \* ghost: the identities each target was switched to, and by whom
    failures,   \* ghost: the releases whose failure each target's journal recorded
    outcome     \* what each attempt's last call returned

vars == <<entries, history, failures, outcome>>

None == [release |-> "none"]     \* FailedIdentity nil

Entry == [state : {"active"}, identity : Identity, failed : {None}]
         \cup [state : {"recovery_required"}, identity : Identity, failed : Identity]
Switch == [identity : Identity, by : Attempts]

Exists(t) == t \in DOMAIN entries
InRecovery(t) == Exists(t) /\ entries[t].state = "recovery_required"
ActiveAs(t, id) == Exists(t) /\ entries[t].state = "active" /\ entries[t].identity = id

Put(t, e) ==
    entries' = [x \in DOMAIN entries \cup {t} |-> IF x = t THEN e ELSE entries[x]]
SwitchTo(t, a) ==
    /\ Len(history[t]) < MaxSwitches
    /\ Put(t, [state |-> "active", identity |-> IdentityOf[a], failed |-> None])
    /\ history' = [history EXCEPT ![t] =
                      Append(@, [identity |-> IdentityOf[a], by |-> a])]
    /\ UNCHANGED failures
Returns(a, o) == outcome' = [outcome EXCEPT ![a] = o]

----------------------------------------------------------------------------
Init ==
    /\ entries = [t \in {} |-> 0]
    /\ history = [t \in Targets |-> << >>]
    /\ failures = [t \in Targets |-> {}]
    /\ outcome = [a \in Attempts |-> "none"]

\* Mutant: a repeated call switches again.
ActivateAgain(a) ==
    LET t == TargetOf[a]
    IN IF InRecovery(t)
       THEN Returns(a, "recovery_required") /\ UNCHANGED <<entries, history, failures>>
       ELSE SwitchTo(t, a) /\ Returns(a, "switched")

Activate(a) ==
    LET t == TargetOf[a]
    IN IF InRecovery(t)
       THEN Returns(a, "recovery_required") /\ UNCHANGED <<entries, history, failures>>
       ELSE IF ActiveAs(t, IdentityOf[a])
       THEN Returns(a, "replayed") /\ UNCHANGED <<entries, history, failures>>
       ELSE SwitchTo(t, a) /\ Returns(a, "switched")

\* Mutant: any failure report of the target is believed.
MarkUnfenced(a) ==
    LET t == TargetOf[a]
    IN /\ outcome[a] \in {"switched", "replayed", "recovered", "failed", "fenced"}
       /\ IF Exists(t) /\ entries[t].state = "active"
          THEN /\ Put(t, [state |-> "recovery_required", identity |-> entries[t].identity,
                          failed |-> IdentityOf[a]])
               /\ failures' = [failures EXCEPT ![t] = @ \cup {IdentityOf[a].release}]
               /\ Returns(a, "failed")
          ELSE Returns(a, "fenced") /\ UNCHANGED <<entries, failures>>
       /\ UNCHANGED history

\* The report of an attempt that once held the switch, however late it comes.
MarkPostSwitchFailure(a) ==
    LET t == TargetOf[a]
    IN /\ outcome[a] \in {"switched", "replayed", "recovered", "failed", "fenced"}
       /\ IF ActiveAs(t, IdentityOf[a])
          THEN /\ Put(t, [state |-> "recovery_required", identity |-> IdentityOf[a],
                          failed |-> IdentityOf[a]])
               /\ failures' = [failures EXCEPT ![t] = @ \cup {IdentityOf[a].release}]
               /\ Returns(a, "failed")
          ELSE Returns(a, "fenced") /\ UNCHANGED <<entries, failures>>
       /\ UNCHANGED history

RecoverTo(a) ==
    LET t == TargetOf[a]
    IN IF ~InRecovery(t)
       THEN Returns(a, "not_in_recovery") /\ UNCHANGED <<entries, history, failures>>
       ELSE IF entries[t].failed.release = IdentityOf[a].release
       THEN Returns(a, "reactivates") /\ UNCHANGED <<entries, history, failures>>
       ELSE SwitchTo(t, a) /\ Returns(a, "recovered")

\* The journal is durable for the process lifetime only.
Restart ==
    /\ entries' = [t \in {} |-> 0]
    /\ history' = [t \in Targets |-> << >>]
    /\ failures' = [t \in Targets |-> {}]
    /\ UNCHANGED outcome

Next ==
    \/ \E a \in Attempts : Activate(a) \/ MarkPostSwitchFailure(a) \/ RecoverTo(a)
    \/ Restart

Spec == Init /\ [][Next]_vars

----------------------------------------------------------------------------
Outcomes == {"none", "switched", "replayed", "recovery_required", "failed", "fenced",
             "recovered", "not_in_recovery", "reactivates"}

\* The shape of the state.
TypeOK ==
    /\ DOMAIN entries \subseteq Targets
    /\ \A t \in DOMAIN entries : entries[t] \in Entry
    /\ history \in [Targets -> Seq(Switch)]
    /\ failures \in [Targets -> SUBSET Releases]
    /\ outcome \in [Attempts -> Outcomes]

Last(t) == history[t][Len(history[t])]

\* The fencing of MarkPostSwitchFailure: whatever late or superseded attempts report,
\* a target is in recovery only for the switch that is its latest, and the entry names
\* that switch as the one that failed.
OnlyLatestSwitchFails ==
    \A t \in Targets :
        /\ Exists(t) <=> history[t] # << >>
        /\ Exists(t) => entries[t].identity = Last(t).identity
        /\ InRecovery(t) => entries[t].failed = Last(t).identity

\* "Duplicate and restarted operations converge" while the switch is current: however
\* often and by whomever a switch is repeated, a target is never switched twice in a
\* row to one identity.
NoRepeatedSwitch ==
    \A t \in Targets : \A i \in 1..(Len(history[t]) - 1) :
        history[t][i].identity # history[t][i + 1].identity

\* A plain retry never resolves recovery: a target leaves recovery_required only to
\* another release than the one that failed, or because the process ended.
RecoveryChangesRelease ==
    [][ \A t \in Targets : InRecovery(t) =>
          \/ ~Exists(t)'
          \/ entries'[t] = entries[t]
          \/ /\ entries'[t].state = "active"
             /\ entries'[t].identity.release # entries[t].failed.release ]_vars

\* journal.go:5: the journal "never reactivates a release that already failed
\* post-switch".  Once a switch has failed, its release is never switched to again
\* while the journal lives.
NeverReactivatesFailedRelease ==
    [][ \A t \in Targets :
          Len(history'[t]) = Len(history[t]) + 1 =>
            history'[t][Len(history'[t])].identity.release \notin failures[t] ]_vars
=============================================================================
