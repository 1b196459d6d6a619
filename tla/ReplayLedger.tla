---------------------------- MODULE ReplayLedger ----------------------------
(***************************************************************************)
(* The append-only file in which verifications record the signing requests *)
(* they have used: consume_replay_ledger of                                *)
(* scripts/contracts/verify_bundle.py, one call per process, with crashes  *)
(* of a process and of the machine, failing writes, and an operator who    *)
(* moves the file away.                                                    *)
(*                                                                         *)
(* A file is the lines in it, in order, and whose bytes are in an          *)
(* incomplete last one.  Owner, mode and link count of file and directory  *)
(* are as the code demands.                                                *)
(***************************************************************************)
EXTENDS Integers, FiniteSets, Sequences

CONSTANTS
    Processes,      \* verifications, one call each
    EntryOf,        \* EntryOf[p]: what p consumes
    UniqueFields,   \* the fields that must be unique: requestId, nonce, requestDigest
    NoFile,         \* no file, no process
    Mixed,          \* a line with bytes of more than one call
    Parts,          \* an entry is written in up to this many writes
    Capacity,       \* entries that fit under MAX_REPLAY_LEDGER_BYTES
    MaxFiles,       \* bound: files ever created at the path
    MaxRotations,   \* bound: times the operator moves the file away
    MaxLedgerOutages   \* bound: crashes of the machine

ASSUME ProcessAssumption == NoFile \notin Processes \cup Nat /\ Mixed \notin Processes
ASSUME PartsAssumption == Parts \in Nat

VARIABLES
    ledger,          \* the file the path names, or NoFile
    linked,          \* whether the directory entry of that file is on disk
    files,           \* per file: lines, whose bytes follow them, how many lines are on disk
    holder,          \* per file: the process that holds its lock
    call,            \* per process: where its call stands, the file it opened, the parts written
    rotations,       \* ghost: how often the file was moved away
    ledgerOutages,   \* crashes of the machine so far
    consumed         \* ghost: the calls that returned, with the rotations before their check

ledgerVars == <<ledger, linked, files, holder, call, rotations, ledgerOutages, consumed>>

LedgerInit ==
    /\ ledger = NoFile /\ linked = FALSE
    /\ files = << >> /\ holder = << >>
    /\ call = [p \in Processes |-> [step |-> "start", file |-> NoFile, written |-> 0, era |-> 0]]
    /\ rotations = 0 /\ ledgerOutages = 0 /\ consumed = {}

\* Every line is a well-formed entry, and none has a key of p's.
unused(entries, p) ==
    \A i \in 1..Len(entries) :
        entries[i] # Mixed /\ \A key \in UniqueFields : EntryOf[entries[i]][key] # EntryOf[p][key]

----------------------------------------------------------------------------
callAt(p, step) == call[p].step = step
fileOf(p) == call[p].file
callGoesTo(p, step) == call' = [call EXCEPT ![p].step = step]
unlock(p) == holder' = [holder EXCEPT ![fileOf(p)] = IF @ = p THEN NoFile ELSE @]

\* os.open with O_CREAT: a file is created if the path names none.
OpenLedger(p) ==
    /\ callAt(p, "start")
    /\ IF ledger # NoFile
       THEN /\ call' = [call EXCEPT ![p].step = "opened", ![p].file = ledger]
            /\ UNCHANGED <<ledger, linked, files, holder>>
       ELSE /\ Len(files) < MaxFiles
            /\ ledger' = Len(files) + 1 /\ linked' = FALSE
            /\ files' = Append(files, [entries |-> << >>, tail |-> {}, synced |-> 0])
            /\ holder' = Append(holder, NoFile)
            /\ call' = [call EXCEPT ![p].step = "opened", ![p].file = Len(files) + 1]
    /\ UNCHANGED <<rotations, ledgerOutages, consumed>>

\* flock, which waits.
Lock(p) ==
    /\ callAt(p, "opened") /\ holder[fileOf(p)] = NoFile
    /\ holder' = [holder EXCEPT ![fileOf(p)] = p]
    /\ callGoesTo(p, "locked")
    /\ UNCHANGED <<ledger, linked, files, rotations, ledgerOutages, consumed>>

\* Mutant: the file locked need not be the one the path names.
mayAppendAnywhere(p) ==
    LET opened == files[fileOf(p)]
    IN /\ opened.tail = {}
       /\ unused(opened.entries, p)
       /\ Len(opened.entries) < Capacity

\* Under the lock: the path names the file locked, the file is whole, no line has a key
\* of the new entry, and the new entry fits.
mayAppend(p) ==
    LET opened == files[fileOf(p)]
    IN /\ ledger = fileOf(p)
       /\ opened.tail = {}
       /\ unused(opened.entries, p)
       /\ Len(opened.entries) < Capacity

Check(p) ==
    /\ callAt(p, "locked")
    /\ IF mayAppend(p)
       THEN call' = [call EXCEPT ![p].step = "append", ![p].era = rotations] /\ UNCHANGED holder
       ELSE callGoesTo(p, "refused") /\ unlock(p)
    /\ UNCHANGED <<ledger, linked, files, rotations, ledgerOutages, consumed>>

\* One write: some of the parts that are left, the last of which ends the line.
Write(p) ==
    /\ callAt(p, "append")
    /\ \E n \in 1..(Parts - call[p].written) :
          LET whole == call[p].written + n = Parts
              bytes == files[fileOf(p)].tail \cup {p}
          IN /\ files' = [files EXCEPT
                    ![fileOf(p)].tail = IF whole THEN {} ELSE bytes,
                    ![fileOf(p)].entries = IF ~whole THEN @
                                         ELSE Append(@, IF bytes = {p} THEN p ELSE Mixed)]
             /\ call' = [call EXCEPT ![p].written = @ + n,
                                     ![p].step = IF whole THEN "sync" ELSE @]
    /\ UNCHANGED <<ledger, linked, holder, rotations, ledgerOutages, consumed>>

\* Mutant: the call ends without waiting for the disk.
SyncLedgerForgotten(p) ==
    /\ callAt(p, "sync")
    /\ callGoesTo(p, "syncDir")
    /\ UNCHANGED <<ledger, linked, files, holder, rotations, ledgerOutages, consumed>>

SyncLedger(p) ==
    /\ callAt(p, "sync")
    /\ files' = [files EXCEPT ![fileOf(p)].synced = Len(files[fileOf(p)].entries)]
    /\ callGoesTo(p, "syncDir")
    /\ UNCHANGED <<ledger, linked, holder, rotations, ledgerOutages, consumed>>

\* The directory is synchronised, the lock given back, and the call returns.
ReturnConsumed(p) ==
    /\ callAt(p, "syncDir")
    /\ linked' = TRUE
    /\ callGoesTo(p, "accepted") /\ unlock(p)
    /\ consumed' = consumed \cup {[call |-> p, era |-> call[p].era]}
    /\ UNCHANGED <<ledger, files, rotations, ledgerOutages>>

\* A write or a synchronisation fails, or the process is killed: its lock is released,
\* and what it has written stays.
FailConsume(p) ==
    /\ call[p].step \in {"opened", "locked", "append", "sync", "syncDir"}
    /\ callGoesTo(p, "refused") /\ unlock(p)
    /\ UNCHANGED <<ledger, linked, files, rotations, ledgerOutages, consumed>>

\* The operator moves the file away; calls that have it open keep it.
Rotate ==
    /\ ledger # NoFile /\ rotations < MaxRotations
    /\ ledger' = NoFile
    /\ rotations' = rotations + 1
    /\ UNCHANGED <<linked, files, holder, call, ledgerOutages, consumed>>

\* The machine stops.  Of what was not synchronised a beginning may be on disk.
LedgerOutage ==
    /\ ledgerOutages < MaxLedgerOutages
    /\ ledgerOutages' = ledgerOutages + 1
    /\ IF ledger = NoFile \/ linked THEN UNCHANGED ledger
       ELSE ledger' \in {ledger, NoFile}
    /\ \E kept \in [DOMAIN files -> 0..Cardinality(Processes)],
          tail \in [DOMAIN files -> SUBSET Processes] :
          /\ \A f \in DOMAIN files :
                LET n == Len(files[f].entries)
                IN /\ kept[f] \in files[f].synced..n
                   /\ tail[f] \in {{}, IF kept[f] = n THEN files[f].tail
                                       ELSE {files[f].entries[kept[f] + 1]}}
          /\ files' = [f \in DOMAIN files |->
                [entries |-> SubSeq(files[f].entries, 1, kept[f]),
                 tail |-> tail[f], synced |-> kept[f]]]
    /\ linked' = TRUE
    /\ holder' = [f \in DOMAIN holder |-> NoFile]
    /\ call' = [p \in Processes |->
          IF call[p].step \in {"start", "accepted", "refused"} THEN call[p]
          ELSE [call[p] EXCEPT !.step = "refused"]]
    /\ UNCHANGED <<rotations, consumed>>

LedgerNext ==
    \/ \E p \in Processes :
          \/ OpenLedger(p) \/ Lock(p) \/ Check(p) \/ Write(p) \/ SyncLedger(p)
          \/ ReturnConsumed(p) \/ FailConsume(p)
    \/ Rotate \/ LedgerOutage

LedgerSpec == LedgerInit /\ [][LedgerNext]_ledgerVars

----------------------------------------------------------------------------
\* "append one verification" (verify_bundle.py, consume_replay_ledger): no two calls that
\* return share a requestId, a nonce or a request digest, whichever processes and machines
\* crash in between, unless the operator moved the ledger away between their checks.
OncePerEra ==
    \A a, b \in consumed :
        a.call # b.call /\ a.era = b.era =>
            \A key \in UniqueFields : EntryOf[a.call][key] # EntryOf[b.call][key]

\* The ledger fails closed: what a call has returned is in a ledger and stays there even
\* if the machine crashed right after, and no call continues the line another one left
\* incomplete, so that a later call with one of its keys can be compared and is refused.
AcceptedIsRecorded ==
    /\ \A a \in consumed : \E f \in DOMAIN files :
          \E i \in 1..files[f].synced : files[f].entries[i] = a.call
    /\ \A f \in DOMAIN files : \A i \in 1..Len(files[f].entries) : files[f].entries[i] # Mixed
=============================================================================
