----------------------------- MODULE AtomicFile -----------------------------
(***************************************************************************)
(* One output path of the contract tools: atomic_write and write_bytes,    *)
(* which publish a finished temporary file by rename or, where the path    *)
(* must be absent, by link; stable_read_bytes and stable_file_digest,      *)
(* which read it block by block and compare the file's identity before and *)
(* after; an editor that changes the file in place; and crashes.           *)
(*                                                                         *)
(* Names of temporary files are random and never taken.  The time of the   *)
(* last change of a file differs after every change.                       *)
(***************************************************************************)
EXTENDS Integers, Sequences, FiniteSets

CONSTANTS
    Writers,      \* calls of atomic_write
    Absent,       \* those that set require_absent
    Readers,      \* calls of stable_read_bytes or stable_file_digest
    Blocks,       \* a file is written and read in this many blocks
    Nothing,      \* no file; a block that was not written
    Edited,       \* what the editor writes into a block
    MaxEdits,     \* bound: blocks changed in place
    MaxCrashes    \* bound: crashes of the machine

ASSUME WriterAssumption == Nothing \notin Writers
ASSUME BlockAssumption == Blocks \in Nat \ {0}

VARIABLES
    output,     \* the writer whose file the path names, or Nothing
    onDisk,     \* what the path names on disk: the name before, or the present one
    file,       \* per writer, its file: the blocks, and how often it was changed
    synced,     \* the files whose blocks are on disk
    writer,     \* per writer, where its call stands
    reader,     \* per reader: where its call stands, whose file, the stamp, the blocks read
    published,  \* ghost: the writers whose file the path has named, in order
    opened,     \* ghost: per reader, the file's blocks when it was opened
    edits, crashes

outputVars == <<output, onDisk, file, synced, writer, reader, published, opened, edits, crashes>>

OutputInit ==
    /\ output = Nothing /\ onDisk = Nothing
    /\ file = [w \in Writers |-> [blocks |-> [i \in 1..Blocks |-> Nothing], changed |-> 0]]
    /\ synced = {} /\ published = << >>
    /\ writer = [w \in Writers |-> "start"]
    /\ reader = [r \in Readers |->
                    [step |-> "start", file |-> Nothing, changed |-> 0, got |-> << >>]]
    /\ opened = [r \in Readers |-> << >>]
    /\ edits = 0 /\ crashes = 0

touched(f) == [f EXCEPT !.changed = @ + 1]
goTo(w, step) == writer' = [writer EXCEPT ![w] = step]
written(w) == Cardinality({i \in 1..Blocks : file[w].blocks[i] # Nothing})

----------------------------------------------------------------------------
\* An exclusive temporary file is created and opened.
Create(w) ==
    /\ writer[w] = "start"
    /\ goTo(w, "writing")
    /\ UNCHANGED <<output, onDisk, file, synced, reader, published, opened, edits, crashes>>

\* write_bytes: a write may be short, and goes on after what was written.
WriteBlock(w) ==
    /\ writer[w] = "writing"
    /\ file' = [file EXCEPT ![w] = [touched(@) EXCEPT !.blocks[written(w) + 1] = w]]
    /\ synced' = synced \ {w}
    /\ IF written(w) + 1 = Blocks THEN goTo(w, "written") ELSE UNCHANGED writer
    /\ UNCHANGED <<output, onDisk, reader, published, opened, edits, crashes>>

\* Mutant: the file is published before its blocks are on disk.
SyncFileLater(w) ==
    /\ writer[w] = "written"
    /\ goTo(w, "ready")
    /\ UNCHANGED <<output, onDisk, file, synced, reader, published, opened, edits, crashes>>

SyncFile(w) ==
    /\ writer[w] = "written"
    /\ synced' = synced \cup {w}
    /\ goTo(w, "ready")
    /\ UNCHANGED <<output, onDisk, file, reader, published, opened, edits, crashes>>

\* rename: the file replaced has one name less, which is a change of it too.
Rename(w) ==
    /\ writer[w] = "ready" /\ w \notin Absent
    /\ output' = w /\ published' = Append(published, w)
    /\ file' = IF output = Nothing THEN [file EXCEPT ![w] = touched(@)]
               ELSE [file EXCEPT ![w] = touched(@), ![output] = touched(@)]
    /\ goTo(w, "published")
    /\ UNCHANGED <<onDisk, synced, reader, opened, edits, crashes>>

\* link, which fails if the path names a file.
Link(w) ==
    /\ writer[w] = "ready" /\ w \in Absent
    /\ IF output = Nothing
       THEN /\ output' = w /\ published' = Append(published, w)
            /\ file' = [file EXCEPT ![w] = touched(@)]
            /\ goTo(w, "linked")
       ELSE /\ goTo(w, "failed")
            /\ UNCHANGED <<output, file, published>>
    /\ UNCHANGED <<onDisk, synced, reader, opened, edits, crashes>>

\* The temporary name of a linked file is removed.
Unlink(w) ==
    /\ writer[w] = "linked"
    /\ file' = [file EXCEPT ![w] = touched(@)]
    /\ goTo(w, "published")
    /\ UNCHANGED <<output, onDisk, synced, reader, published, opened, edits, crashes>>

\* Mutant: the call returns without synchronising the directory.
ReturnEarly(w) ==
    /\ writer[w] = "published"
    /\ goTo(w, "returned")
    /\ UNCHANGED <<output, onDisk, file, synced, reader, published, opened, edits, crashes>>

\* The directory is synchronised and the call returns.
ReturnWritten(w) ==
    /\ writer[w] = "published"
    /\ onDisk' = output
    /\ goTo(w, "returned")
    /\ UNCHANGED <<output, file, synced, reader, published, opened, edits, crashes>>

\* A call of the operating system fails or the process is killed.  What was published
\* stays, although the caller learns of a failure; the temporary name is removed unless
\* the process is killed.
FailWrite(w) ==
    /\ writer[w] \notin {"start", "returned", "failed"}
    /\ goTo(w, "failed")
    /\ \/ UNCHANGED file
       \/ writer[w] = "linked" /\ file' = [file EXCEPT ![w] = touched(@)]
    /\ UNCHANGED <<output, onDisk, synced, reader, published, opened, edits, crashes>>

----------------------------------------------------------------------------
OpenOutput(r) ==
    /\ reader[r].step = "start" /\ output # Nothing
    /\ reader' = [reader EXCEPT ![r] = [step |-> "reading", file |-> output,
                                        changed |-> file[output].changed, got |-> << >>]]
    /\ opened' = [opened EXCEPT ![r] = file[output].blocks]
    /\ UNCHANGED <<output, onDisk, file, synced, writer, published, edits, crashes>>

ReadBlock(r) ==
    LET f == file[reader[r].file]  n == Len(reader[r].got)
    IN /\ reader[r].step = "reading" /\ n < Blocks
       /\ reader' = [reader EXCEPT ![r].got = Append(@, f.blocks[n + 1])]
       /\ UNCHANGED <<output, onDisk, file, synced, writer, published, opened, edits, crashes>>

\* Mutant: the file is not looked at again.
unchangedSinceOpen(r) == TRUE

\* identity_before = identity_after
unchanged(r) == file[reader[r].file].changed = reader[r].changed

Close(r) ==
    /\ reader[r].step = "reading" /\ Len(reader[r].got) = Blocks
    /\ reader' = [reader EXCEPT ![r].step = IF unchanged(r) THEN "returned" ELSE "failed"]
    /\ UNCHANGED <<output, onDisk, file, synced, writer, published, opened, edits, crashes>>

----------------------------------------------------------------------------
\* Somebody overwrites a block of the file at the path.
Edit ==
    /\ edits < MaxEdits /\ output # Nothing
    /\ \E i \in 1..Blocks :
          file' = [file EXCEPT ![output] = [touched(@) EXCEPT !.blocks[i] = Edited]]
    /\ edits' = edits + 1
    /\ UNCHANGED <<output, onDisk, synced, writer, reader, published, opened, crashes>>

\* The machine stops: calls end, the path may name again what it names on disk, and any
\* block that was not synchronised may be gone.
Crash ==
    /\ crashes < MaxCrashes
    /\ crashes' = crashes + 1
    /\ output' \in {output, onDisk} /\ onDisk' = output'
    /\ \E lost \in [Writers \ synced -> SUBSET (1..Blocks)] :
          file' = [w \in Writers |->
              IF w \in synced THEN file[w]
              ELSE [touched(file[w]) EXCEPT !.blocks =
                       [i \in 1..Blocks |-> IF i \in lost[w] THEN Nothing ELSE @[i]]]]
    /\ synced' = Writers
    /\ writer' = [w \in Writers |->
          IF writer[w] \in {"start", "returned"} THEN writer[w] ELSE "failed"]
    /\ reader' = [r \in Readers |->
          IF reader[r].step = "reading" THEN [reader[r] EXCEPT !.step = "failed"]
          ELSE reader[r]]
    /\ UNCHANGED <<published, opened, edits>>

OutputNext ==
    \/ \E w \in Writers :
          \/ Create(w) \/ WriteBlock(w) \/ SyncFile(w) \/ Rename(w) \/ Link(w)
          \/ Unlink(w) \/ ReturnWritten(w) \/ FailWrite(w)
    \/ \E r \in Readers : OpenOutput(r) \/ ReadBlock(r) \/ Close(r)
    \/ Edit \/ Crash

OutputSpec == OutputInit /\ [][OutputNext]_outputVars

----------------------------------------------------------------------------
returned(w) == writer[w] = "returned"
rank(w) == CHOOSE i \in 1..Len(published) : published[i] = w

\* "Atomically publish writer output" (contractlib.py:388): whatever fails or crashes, the
\* path names a file some call wrote to the end, unless somebody edits it in place.
PathIsWhole == output # Nothing /\ edits = 0 => \A i \in 1..Blocks : file[output].blocks[i] = output

\* What a call reports stays true: after a crash the path names its file or a later one,
\* and a call with require_absent ("output path must be absent", contractlib.py:442)
\* comes before every other call that returns, so that at most one of them does.  A call
\* that reports a failure promises nothing in either direction.
ReportsStayTrue ==
    \A w \in Writers : returned(w) =>
        /\ output # Nothing /\ rank(w) <= rank(output)
        /\ w \in Absent => \A v \in Writers : returned(v) => rank(w) <= rank(v)

\* stable_read_bytes (contractlib.py:322): what a reader returns is what the file held at
\* one moment, although it is read in blocks while others publish, edit and crash.
ReadsAreSnapshots ==
    \A r \in Readers : reader[r].step = "returned" => reader[r].got = opened[r]
=============================================================================
