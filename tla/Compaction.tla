----------------------------- MODULE Compaction -----------------------------
(***************************************************************************)
(* The compact job (app/workers/jobs.py, compact_job) over one partition   *)
(* directory, next to the writers that publish files into it and to other  *)
(* compact jobs: the queue runs as many at a time as it has threads, and   *)
(* nothing keeps two of them away from the same partition.                 *)
(*                                                                         *)
(* A published file part-<run>.parquet is named by its run and holds rows  *)
(* named by the same value, so a row tells which write it came from.  The  *)
(* hidden file .compacted.parquet.tmp is one file for all compactors, and  *)
(* no query or compaction reads it: both glob *.parquet.                   *)
(* File names are numbers, since a compactor sorts them; run ids are       *)
(* random, so the order of the names says nothing about the order in which *)
(* the files were published.                                               *)
(***************************************************************************)
EXTENDS Naturals, FiniteSets

CONSTANTS
    Runs,        \* the writes that publish a file into this partition
    Compactors,  \* the compact jobs running at the same time
    Compacted,   \* the file name part-compacted.parquet
    Tmp,         \* the hidden file name .compacted.parquet.tmp
    MaxFaults    \* bound: I/O errors and crashes of a compact job

ASSUME NamesAssumption ==
    /\ Runs \subseteq Nat
    /\ Compacted \in Nat
    /\ Tmp \in Nat
    /\ Compacted \notin Runs
    /\ Tmp \notin Runs
    /\ Tmp # Compacted
ASSUME MaxFaultsAssumption == MaxFaults \in Nat

VARIABLES
    files,      \* the files in the directory and the rows in each
    pc,         \* where each compact job is
    inputs,     \* its variable files: what it listed, less what it unlinked
    table,      \* its variable table: the rows it read
    published,  \* the runs whose file has been renamed into place
    faults,     \* faults so far
    mishaps     \* auxiliary: "overlap" once two compact jobs were at work at
                \* the same time, "interrupted" once a job failed after it
                \* began to unlink its inputs

vars == <<files, pc, inputs, table, published, faults, mishaps>>

Mishaps == {"overlap", "interrupted"}

FileNames == Runs \union {Compacted, Tmp}

\* partition.glob("*.parquet"): every file but the hidden one.
Glob == DOMAIN files \ {Tmp}

\* One of the files holds the row.
Holds(names, row) == \E f \in names : row \in files[f]

\* The rows in a set of files.
RowsIn(names) == UNION {files[f] : f \in names}

\* The rows a query over the partition returns.
Visible == RowsIn(Glob)

\* The directory with the given file created, or replaced.
With(name, rows) ==
    [f \in DOMAIN files \union {name} |-> IF f = name THEN rows ELSE files[f]]

Init ==
    /\ files = [f \in {} |-> {}]
    /\ pc = [c \in Compactors |-> "idle"]
    /\ inputs = [c \in Compactors |-> {}]
    /\ table = [c \in Compactors |-> {}]
    /\ published = {}
    /\ faults = 0
    /\ mishaps = {}

\* The job is over, with its result or with an exception; what it has done to
\* the directory so far stays.
Ends(c) ==
    /\ pc' = [pc EXCEPT ![c] = "idle"]
    /\ inputs' = [inputs EXCEPT ![c] = {}]
    /\ table' = [table EXCEPT ![c] = {}]

\* A writer renames its finished file into the directory.
Publish(r) ==
    /\ r \notin published
    /\ files' = With(r, {r})
    /\ published' = published \union {r}
    /\ UNCHANGED <<pc, inputs, table, faults, mishaps>>

\* Another compact job is at work while c starts.
Overlap(c) ==
    IF \E d \in Compactors \ {c} : pc[d] # "idle" THEN {"overlap"} ELSE {}

\* The glob.  A partition with fewer than two files, or with files that are
\* large already, is left alone.
ListFiles(c) ==
    /\ pc[c] = "idle"
    /\ Cardinality(Glob) >= 2
    /\ pc' = [pc EXCEPT ![c] = "read"]
    /\ inputs' = [inputs EXCEPT ![c] = Glob]
    /\ mishaps' = mishaps \union Overlap(c)
    /\ UNCHANGED <<files, table, published, faults>>

\* stat and read_table: every listed file must still be there.
ReadTable(c) ==
    /\ pc[c] = "read"
    /\ inputs[c] \subseteq DOMAIN files
    /\ pc' = [pc EXCEPT ![c] = "write"]
    /\ table' = [table EXCEPT ![c] = RowsIn(inputs[c])]
    /\ UNCHANGED <<files, inputs, published, faults, mishaps>>

\* write_table to the hidden file, over whatever is there.
WriteTable(c) ==
    /\ pc[c] = "write"
    /\ files' = With(Tmp, table[c])
    /\ pc' = [pc EXCEPT ![c] = "unlink"]
    /\ UNCHANGED <<inputs, table, published, faults, mishaps>>

\* f is the next of the sorted files that the loop is to unlink.
IsNext(f, c) == f \in inputs[c] /\ \A g \in inputs[c] : f <= g

\* One turn of the loop that unlinks the inputs.
Unlink(c) ==
    /\ pc[c] = "unlink"
    /\ \E f \in DOMAIN files :
          /\ IsNext(f, c)
          /\ files' = [g \in DOMAIN files \ {f} |-> files[g]]
          /\ inputs' = [inputs EXCEPT ![c] = @ \ {f}]
    /\ UNCHANGED <<pc, table, published, faults, mishaps>>

\* Variant: the merged file is made visible before the inputs are gone.
Rename_first(c) ==
    /\ pc[c] = "unlink"
    /\ Tmp \in DOMAIN files
    /\ files' = [f \in Glob \union {Compacted} |->
                    IF f = Compacted THEN files[Tmp] ELSE files[f]]
    /\ Ends(c)
    /\ UNCHANGED <<published, faults, mishaps>>

\* Variant: the merged file is left under its hidden name.
Rename_forgotten(c) ==
    /\ pc[c] = "unlink"
    /\ inputs[c] = {}
    /\ Ends(c)
    /\ UNCHANGED <<files, published, faults, mishaps>>

\* The rename that makes the merged file visible.
Rename(c) ==
    /\ pc[c] = "unlink"
    /\ inputs[c] = {}
    /\ Tmp \in DOMAIN files
    /\ files' = [f \in Glob \union {Compacted} |->
                    IF f = Compacted THEN files[Tmp] ELSE files[f]]
    /\ Ends(c)
    /\ UNCHANGED <<published, faults, mishaps>>

\* Variant: a file that is gone when the inputs are read is waited for.
FileNotFound_waits(c) ==
    /\ pc[c] = "unlink"
    /\ \/ \E f \in inputs[c] \ DOMAIN files : IsNext(f, c)
       \/ inputs[c] = {} /\ Tmp \notin DOMAIN files
    /\ Ends(c)
    /\ UNCHANGED <<files, published, faults, mishaps>>

\* A file that another compactor took away ends the job: one of the listed
\* files when they are read, the next one to unlink, or the hidden one.
FileNotFound(c) ==
    /\ \/ /\ pc[c] = "read"
          /\ ~ (inputs[c] \subseteq DOMAIN files)
       \/ /\ pc[c] = "unlink"
          /\ \E f \in inputs[c] \ DOMAIN files : IsNext(f, c)
       \/ /\ pc[c] = "unlink"
          /\ inputs[c] = {}
          /\ Tmp \notin DOMAIN files
    /\ Ends(c)
    /\ UNCHANGED <<files, published, faults, mishaps>>

\* An I/O error or a crash before any step of the job.  The queue retries a
\* failed job from its start, which is a later ListFiles.  A write_table that
\* is cut short leaves a hidden file that holds no complete table.
Fault(c) ==
    /\ faults < MaxFaults
    /\ pc[c] # "idle"
    /\ faults' = faults + 1
    /\ \/ UNCHANGED files
       \/ pc[c] = "write" /\ files' = With(Tmp, {})
    /\ mishaps' = IF pc[c] = "unlink" THEN mishaps \union {"interrupted"}
                                      ELSE mishaps
    /\ Ends(c)
    /\ UNCHANGED published

Step(c) ==
    \/ ListFiles(c)
    \/ ReadTable(c)
    \/ WriteTable(c)
    \/ Unlink(c)
    \/ Rename(c)
    \/ FileNotFound(c)
    \/ Fault(c)

Next ==
    \/ \E r \in Runs : Publish(r)
    \/ \E c \in Compactors : Step(c)

Spec == Init /\ [][Next]_vars

\* A job runs in a thread of its own to its end.
FairSpec == Spec /\ \A c \in Compactors : WF_vars(Step(c))

-----------------------------------------------------------------------------
\* Every variable keeps its type: the files of the partition hold rows that
\* were written, and compact_job never takes the hidden file for an input.
TypeOK ==
    /\ DOMAIN files \subseteq FileNames
    /\ \A f \in DOMAIN files : files[f] \subseteq Runs
    /\ pc \in [Compactors -> {"idle", "read", "write", "unlink"}]
    /\ inputs \in [Compactors -> SUBSET (Runs \union {Compacted})]
    /\ table \in [Compactors -> SUBSET Runs]
    /\ published \subseteq Runs
    /\ faults \in 0..MaxFaults
    /\ mishaps \subseteq Mishaps

Disjoint == \A f, g \in Glob : f # g => files[f] \intersect files[g] = {}

\* As long as compact jobs come one after the other, a query never counts a row
\* twice, whatever fails: the merged file becomes visible only when the last of
\* its inputs is gone (compact_job unlinks before it renames).
NoRowTwice == "overlap" \notin mishaps => Disjoint

\* As long as compact jobs come one after the other, and none fails once it has
\* begun to unlink, every row that was ever published is in a visible file or
\* in the complete hidden file of the job that is replacing it.
RowsOnDisk == mishaps = {} => published \subseteq RowsIn(DOMAIN files)

\* Under the same conditions a query issued while no compact job is at work
\* returns every row that was ever published: a job that fails before it
\* unlinks does no harm.
RowsKept ==
    mishaps = {} /\ (\A c \in Compactors : pc[c] = "idle") =>
        published \subseteq Visible

\* "Merge small Parquet files within each partition": when no compact job is at
\* work, a query returns every row that was ever published.
MergeKeepsRows ==
    (\A c \in Compactors : pc[c] = "idle") => published \subseteq Visible

\* What a compact job that works alone in its partition relies on: its inputs
\* stay where they are until it unlinks them, the hidden file is the table it
\* read, and the rows of that table are in no file but its inputs.
JobInv(c) ==
    /\ pc[c] # "idle" =>
          /\ inputs[c] \subseteq Glob
          /\ Compacted \in Glob => Compacted \in inputs[c]
    /\ pc[c] = "write" =>
          \A row \in table[c] : Holds(inputs[c], row)
    /\ pc[c] \in {"write", "unlink"} =>
          \A f \in inputs[c] : files[f] \subseteq table[c]
    /\ pc[c] = "unlink" =>
          /\ Tmp \in DOMAIN files
          /\ files[Tmp] = table[c]
          /\ table[c] \subseteq published
          /\ \A f \in Glob \ inputs[c] : files[f] \intersect table[c] = {}

\* Only a published run has a file, and only published rows are visible.
FilesInv ==
    /\ DOMAIN files \intersect Runs \subseteq published
    /\ \A f \in Glob : files[f] \subseteq published

\* At most one compact job is at work.
Single ==
    \A c, d \in Compactors : pc[c] # "idle" /\ pc[d] # "idle" => c = d

\* The inductive invariant behind NoRowTwice, for compact jobs that come one
\* after the other and may fail or crash before any of their steps.
IInv ==
    /\ TypeOK
    /\ "overlap" \notin mishaps =>
          Single /\ Disjoint /\ FilesInv /\ \A c \in Compactors : JobInv(c)

\* Where the rows are until a mishap: visible, or in the table of the compact
\* job that is unlinking its inputs.
RowsInv ==
    mishaps = {} => \A row \in published :
        \/ Holds(Glob, row)
        \/ \E c \in Compactors : pc[c] = "unlink" /\ row \in table[c]

\* No compact job hangs, whatever files another one takes away from it: it ends
\* with its result or with FileNotFoundError (compact_job lines 239-261).
JobEnds == \A c \in Compactors : (pc[c] # "idle") ~> (pc[c] = "idle")
=============================================================================
