----------------------------- MODULE IngestJob -----------------------------
(***************************************************************************)
(* Ingesting one target: the ingest job of app/workers/jobs.py with its    *)
(* rows in the metadata store, the sources of app/ingestion it reads, and  *)
(* the parallel run of app/pipeline/parallel.py over a directory.          *)
(*                                                                         *)
(* A record is a pair: file and line, page and item, or 0 and timestamp.   *)
(* Parsing, validation and the steps of the store are in PipelineRun; here *)
(* every record is good, and the store publishes whole batches.            *)
(***************************************************************************)
EXTENDS Naturals, Sequences, FiniteSets, TLC, SequencesExt, FiniteSetsExt

CONSTANTS
    FileLists,      \* the directories there may be: sequences of file states
    MaxFileLines,   \* processing.max_file_bytes, counted in lines
    SampleLines,    \* processing.format_sample_lines
    Paths,          \* candidate paths, by what resolve_within looks at
    Servers,        \* paginated endpoints: sequences of pages of items
    MaxPages,       \* max_pages of ApiSource
    FetchAttempts,  \* attempts of the retry policy of ApiSource (3)
    MaxRedirects,   \* MAX_REDIRECTS
    Tables,         \* tables: sequences of distinct timestamps
    Since, Until, RowLimit,  \* bounds of DatabaseSource
    BatchSize,      \* batch_size of the store
    MaxRetries,     \* max_retries of the job queue
    Requested,      \* numbers of workers asked for
    Cpus,           \* os.cpu_count()
    MaxFaults       \* bound on failures of the environment

\* A file: what opens it, what state it is in, and its lines.
Files == [kind : {"text", "csv", "json"}, cond : {"ok", "gone", "locked", "bad", "corrupt"},
          lines : Seq({"rec", "blank", "junk"})]

ASSUME IngestAssumption ==
    /\ \A n \in {MaxFileLines, SampleLines, MaxPages, FetchAttempts, BatchSize, Cpus} : n \in Nat \ {0}
    /\ \A n \in {MaxRedirects, Since, Until, RowLimit, MaxRetries, MaxFaults} : n \in Nat
    /\ Requested \subseteq Nat
    /\ FileLists \subseteq Seq(Files)
    /\ Servers \subseteq Seq(Seq({"rec", "junk"}))
    /\ Tables \subseteq Seq(Nat)

VARIABLES
    target,     \* what is ingested, through what, constant
    files,      \* the states of the files of the directory
    pc,         \* control state of the job: see Locations
    attempt,    \* attempts of the queue so far
    rows,       \* one entry per run id: its row of job_runs
    published,  \* per run id, the records in the dataset
    src,        \* position of source.read()
    stats,      \* SourceStats
    got,        \* records yielded in this run
    result,     \* PipelineResult
    work,       \* parallel: the state of the future of each file
    redelivered, \* runs of a task Celery delivered again
    faults

vars == <<target, files, pc, attempt, rows, published, src, stats, got, result,
          work, redelivered, faults>>
jobVars == <<target, files, attempt, rows, published, work, redelivered>>

Locations == {"start", "row", "build", "sample", "read", "final", "finish", "ack", "pool",
              "done", "failed", "lost"}

-----------------------------------------------------------------------------
(* core/paths.py *)

\* What stops a path, in the order the code looks.
resolve_within(p) ==
    CASE p \in {"nul", "parent", "symlink", "device", "stream", "outside"} -> "PathTraversalError"
      [] p = "missing" -> "FileNotFoundError"
      [] OTHER -> "ok"

\* The elements of s that are in S, in their order: a SelectSeq, written as a
\* function that the proofs can expand.
Only(s, S) ==
    LET kept[i \in 0..Len(s)] ==
            IF i = 0 THEN << >>
            ELSE IF s[i] \in S THEN Append(kept[i - 1], s[i]) ELSE kept[i - 1]
    IN  kept[Len(s)]

\* The first n of them joined, one after the other.
UpTo(parts, n) ==
    LET joined[k \in 0..n] == IF k = 0 THEN << >> ELSE joined[k - 1] \o parts[k]
    IN  joined[n]

\* Those numbered in S of the first n lines of file i, or items of page i.
Entries(i, n, S) == Only([l \in 1..n |-> <<i, l>>], {i} \X S)

Min2(a, b) == IF a < b THEN a ELSE b
Max2(a, b) == IF a > b THEN a ELSE b

-----------------------------------------------------------------------------
(* ingestion/files.py: a file is [kind, cond, lines]; a line is a record,  *)
(* blank, or junk (an item of a JSON array that is not an object).         *)

Count == Len(files)
AllFiles == [i \in 1..Count |-> i]

\* open_stream caps what is read of a text file; a JSON file is read whole.
Visible(f) == IF f.kind = "json" THEN f.lines
              ELSE SubSeq(f.lines, 1, Min2(Len(f.lines), MaxFileLines))

Takes(f, line) == line = "rec" \/ (line = "junk" /\ f.kind # "json")

\* What opening a file comes to: the constructor's check, an IngestionError,
\* another exception, or an open file.
Opening(f) ==
    CASE f.cond = "gone" -> IF f.kind = "text" THEN "constructor" ELSE "other"
      [] f.cond = "locked" -> IF f.kind = "csv" THEN "other" ELSE "IngestionError"
      [] f.cond = "bad" /\ f.kind # "text" -> "IngestionError"
      [] f.cond = "corrupt" /\ f.kind = "json" -> "IngestionError"
      [] OTHER -> "open"

\* sample() opens a file to detect its format and reads it up to the last line
\* it wants: blank ones do not count, the header of a table does.  So it meets
\* the damage of a file when it wants more than stands before it.
SampleMeetsDamage(f) ==
    LET last == Len(Visible(f))
        before == IF f.kind = "csv" THEN last
                  ELSE Cardinality({l \in 1..(last - 1) : f.lines[l] # "blank"})
    IN  f.cond = "corrupt" /\ before < SampleLines

\* The first file is sampled; JSON files, endpoints and tables are not.
SampleFails ==
    /\ target.kind \in {"file", "dir"}
    /\ src.list # <<>>
    /\ LET f == files[Head(src.list)]
       IN  f.kind # "json" /\ (f.cond \in {"gone", "locked"} \/ SampleMeetsDamage(f))

-----------------------------------------------------------------------------
(* ingestion/database.py *)

\* The constructor wants a table or a query, and not both.
DatabaseConfigured(t) == t.table # t.query

\* _build_query: a half-open range, ordered, limited.  A custom query is sent
\* as it is.
Selected(t) ==
    LET inRange == {u \in Since..(Until - 1) : \E k \in 1..Len(t.rows) : t.rows[k] = u}
        ranked(k) == CHOOSE u \in inRange : Cardinality({v \in inRange : v < u}) = k - 1
    IN  IF t.query THEN t.rows
        ELSE [k \in 1..Min2(Cardinality(inRange), RowLimit) |-> ranked(k)]

-----------------------------------------------------------------------------
EmptyStats == [records |-> 0, errors |-> 0, empty |-> 0]
AtStart(list) == [list |-> list, at |-> 1, line |-> 0, child |-> 0, blank |-> 0, skipped |-> {},
                  tries |-> 0, hops |-> 0, bare |-> FALSE, strayed |-> FALSE, cursor |-> 0, page |-> 0]
Fresh == [succeeded |-> TRUE, ended |-> FALSE, written |-> 0, errors |-> 0, named |-> {}]

Spend == faults < MaxFaults /\ faults' = faults + 1

\* What can be ingested, and through what: a job queue or a command.
Targets ==
    [kind : {"file", "dir"}, backend : {"thread", "celery"}, path : Paths]
    \union [kind : {"parallel"}, backend : {"thread"}, path : {"ok"}, workers : Requested]
    \union [kind : {"api"}, backend : {"cli"}, pages : Servers,
            mode : {"single", "page", "cursor", "both"}]
    \union [kind : {"db"}, backend : {"cli"}, table : BOOLEAN, query : BOOLEAN, rows : Tables]

Init ==
    /\ files \in FileLists
    /\ target \in Targets
    /\ target.kind = "file" => files # << >>
    /\ target.kind \in {"api", "db"} => files = (CHOOSE l \in FileLists : TRUE)
    /\ pc = "start"
    /\ attempt = 1
    /\ rows = <<>> /\ published = <<>>
    /\ src = AtStart(<<>>) /\ stats = EmptyStats /\ got = <<>> /\ result = Fresh
    /\ work = [i \in 1..Count |-> "none"]
    /\ redelivered = 0
    /\ faults = 0

\* An exception leaves the handler: JobQueue._run tries again; a Celery task,
\* which declares no retries, and a command fail.
Raise ==
    IF target.backend = "thread" /\ attempt <= MaxRetries
    THEN attempt' = attempt + 1 /\ pc' = "start"
    ELSE pc' = "failed" /\ UNCHANGED attempt

-----------------------------------------------------------------------------
(* workers/jobs.py *)

\* ingest_job, up to its options with their new run id; a command has no path
\* check and no metadata.
Start ==
    /\ pc = "start"
    /\ IF target.backend # "cli" /\ resolve_within(target.path) # "ok"
       THEN /\ Raise
            /\ UNCHANGED <<rows, published, src, stats, got, result, work>>
       ELSE /\ rows' = Append(rows, [status |-> "none", written |-> 0])
            /\ published' = Append(published, <<>>)
            /\ src' = AtStart(<<>>) /\ stats' = EmptyStats /\ got' = <<>> /\ result' = Fresh
            /\ work' = [i \in 1..Count |-> "none"]
            /\ pc' = CASE target.kind = "parallel" -> "pool"
                       [] target.backend = "cli" -> "build"
                       [] OTHER -> "row"
            /\ UNCHANGED attempt
    /\ UNCHANGED <<target, files, redelivered, faults>>

Row == rows[Len(rows)]

\* create_schema and start_run
StartRun ==
    /\ pc = "row"
    /\ rows' = [rows EXCEPT ![Len(rows)].status = "RUNNING"]
    /\ pc' = "build"
    /\ UNCHANGED <<target, files, attempt, published, src, stats, got, result, work,
                   redelivered, faults>>

\* The pipeline failed: that is a result, and run() goes on to _finalise, or
\* returns when there is no source yet.
Abort(next) ==
    /\ result' = [result EXCEPT !.succeeded = FALSE]
    /\ pc' = next

\* build_source; the directory is listed here, once.
BuildSource ==
    /\ pc = "build"
    /\ IF \/ target.kind = "db" /\ ~DatabaseConfigured(target)
          \/ target.kind = "file" /\ (files[1].cond = "gone")
       THEN Abort(IF target.backend = "cli" THEN "done" ELSE "finish") /\ UNCHANGED src
       ELSE /\ src' = AtStart(CASE target.kind = "file" -> <<1>>
                                [] target.kind = "dir" ->
                                     Only(AllFiles, {i \in 1..Count : files[i].cond # "gone"})
                                [] OTHER -> <<>>)
            /\ pc' = "sample"
            /\ UNCHANGED result
    /\ UNCHANGED <<jobVars, stats, got, faults>>

\* _prepare_parser
Sample ==
    /\ pc = "sample"
    /\ IF SampleFails THEN Abort("final") ELSE pc' = "read" /\ UNCHANGED result
    /\ UNCHANGED <<jobVars, src, stats, got, faults>>

-----------------------------------------------------------------------------
(* source.read() *)

Reads(kinds) == pc = "read" /\ target.kind \in kinds

ReadEnds ==
    /\ result' = [result EXCEPT !.ended = TRUE]
    /\ pc' = "final"

Yield(x) == got' = Append(got, x)

\* The finally clause: what the child counted is added, whatever happened.
AddChild ==
    stats' = [stats EXCEPT !.records = @ + src.child, !.empty = @ + src.blank]

NextFile == [src EXCEPT !.at = @ + 1, !.line = 0, !.child = 0, !.blank = 0]

\* The next file is opened.  In a directory an IngestionError skips it, but
\* only from inside the try: the constructor's own check is outside.
OpenFile ==
    /\ Reads({"file", "dir"})
    /\ src.at <= Len(src.list)
    /\ src.line = 0
    /\ LET i == src.list[src.at] IN
         CASE Opening(files[i]) = "open" ->
                /\ src' = [src EXCEPT !.line = 1]
                /\ UNCHANGED <<pc, stats, result>>
           [] Opening(files[i]) = "IngestionError" /\ target.kind = "dir" ->
                /\ src' = [NextFile EXCEPT !.skipped = @ \union {i}]
                /\ stats' = [stats EXCEPT !.errors = @ + 1]
                /\ UNCHANGED <<pc, result>>
           [] OTHER -> Abort("final") /\ UNCHANGED <<src, stats>>
    /\ UNCHANGED <<jobVars, got, faults>>

\* One line.  A damaged archive raises where its last line should be.
ReadLine ==
    /\ Reads({"file", "dir"})
    /\ src.line > 0
    /\ LET i == src.list[src.at]
           f == files[i]
           l == src.line
       IN  /\ l <= Len(Visible(f))
           /\ IF f.cond = "corrupt" /\ l = Len(Visible(f))
              THEN Abort("final") /\ AddChild /\ UNCHANGED <<src, got>>
              ELSE /\ IF Takes(f, f.lines[l])
                      THEN Yield(<<i, l>>) /\ src' = [src EXCEPT !.line = l + 1, !.child = @ + 1]
                      ELSE UNCHANGED got /\ src' = [src EXCEPT !.line = l + 1,
                                                    !.blank = @ + (IF f.lines[l] = "blank" THEN 1 ELSE 0)]
                   /\ UNCHANGED <<pc, stats, result>>
    /\ UNCHANGED <<jobVars, faults>>

CloseFile ==
    /\ Reads({"file", "dir"})
    /\ src.line > 0
    /\ src.line > Len(Visible(files[src.list[src.at]]))
    /\ AddChild
    /\ src' = NextFile
    /\ UNCHANGED <<jobVars, pc, got, result, faults>>

FilesEnd ==
    /\ Reads({"file", "dir"})
    /\ src.at > Len(src.list)
    /\ ReadEnds
    /\ UNCHANGED <<jobVars, src, stats, got, faults>>

\* Variant: the page number is not advanced past a page already read.
Wanted_samePage ==
    IF src.cursor > 0 THEN src.cursor
    ELSE IF target.mode \in {"page", "both"} THEN Max2(src.at - 1, 1) ELSE 1

\* Variant: the page number goes before the cursor.
Wanted_numberFirst ==
    IF target.mode \in {"page", "both"} THEN src.at
    ELSE IF src.cursor > 0 THEN src.cursor ELSE 1

\* The page that is wanted: by cursor, else by number, else the only one.
Wanted ==
    IF src.cursor > 0 THEN src.cursor
    ELSE IF target.mode \in {"page", "both"} THEN src.at ELSE 1

\* The page that is asked for: a redirect may have lost the parameters.
Asked == IF src.bare THEN 1 ELSE Wanted

\* _fetch answers.  An empty page is the end.
Fetch ==
    /\ Reads({"api"})
    /\ src.line = 0
    /\ src.at <= MaxPages
    /\ IF Asked > Len(target.pages) \/ target.pages[Asked] = <<>>
       THEN ReadEnds /\ UNCHANGED src
       ELSE /\ src' = [src EXCEPT !.line = 1, !.page = Asked, !.tries = 0, !.hops = 0,
                                  !.bare = FALSE, !.strayed = @ \/ Asked # Wanted]
            /\ UNCHANGED <<pc, result>>
    /\ UNCHANGED <<jobVars, stats, got, faults>>

\* A transport error, a timeout or an error status: call_with_retry.
FetchFails ==
    /\ Reads({"api"})
    /\ src.line = 0
    /\ src.at <= MaxPages
    /\ Spend
    /\ IF src.tries + 1 < FetchAttempts
       THEN src' = [src EXCEPT !.tries = @ + 1, !.hops = 0, !.bare = FALSE] /\ UNCHANGED <<pc, result>>
       ELSE Abort("final") /\ UNCHANGED src
    /\ UNCHANGED <<jobVars, stats, got>>

\* A redirect is followed, after the checks of a new URL, or refused.  What is
\* asked for then is in the Location or not at all: params = {}.  A body that
\* is too large or not JSON is not retried.
Redirected ==
    /\ Reads({"api"})
    /\ src.line = 0
    /\ src.at <= MaxPages
    /\ Spend
    /\ \/ /\ src.hops < MaxRedirects
          /\ \E bare \in BOOLEAN : src' = [src EXCEPT !.hops = @ + 1, !.bare = bare]
          /\ UNCHANGED <<pc, result>>
       \/ Abort("final") /\ UNCHANGED src
    /\ UNCHANGED <<jobVars, stats, got>>

ReadItem ==
    /\ Reads({"api"})
    /\ src.line > 0
    /\ src.line <= Len(target.pages[src.page])
    /\ IF target.pages[src.page][src.line] = "rec"
       THEN Yield(<<src.page, src.line>>) /\ stats' = [stats EXCEPT !.records = @ + 1]
       ELSE UNCHANGED got /\ stats' = [stats EXCEPT !.errors = @ + 1]
    /\ src' = [src EXCEPT !.line = @ + 1]
    /\ UNCHANGED <<jobVars, pc, result, faults>>

\* The page is read: the server names the next one, or the pages are counted.
PageEnds ==
    /\ Reads({"api"})
    /\ src.line > 0
    /\ src.line > Len(target.pages[src.page])
    /\ LET cursor == IF target.mode \in {"cursor", "both"} /\ src.page < Len(target.pages)
                     THEN src.page + 1 ELSE 0
       IN  /\ src' = [src EXCEPT !.at = @ + 1, !.line = 0, !.cursor = cursor]
           /\ IF cursor = 0 /\ target.mode \notin {"page", "both"}
              THEN ReadEnds ELSE UNCHANGED <<pc, result>>
    /\ UNCHANGED <<jobVars, stats, got, faults>>

\* The loop stops at max_pages, without a word.
PagesEnd ==
    /\ Reads({"api"})
    /\ src.at > MaxPages
    /\ ReadEnds
    /\ UNCHANGED <<jobVars, src, stats, got, faults>>

ReadRow ==
    /\ Reads({"db"})
    /\ IF src.at <= Len(Selected(target))
       THEN /\ Yield(<<0, Selected(target)[src.at]>>)
            /\ stats' = [stats EXCEPT !.records = @ + 1]
            /\ src' = [src EXCEPT !.at = @ + 1]
            /\ UNCHANGED <<pc, result>>
       ELSE ReadEnds /\ UNCHANGED <<src, stats, got>>
    /\ UNCHANGED <<jobVars, faults>>

DatabaseFails ==
    /\ Reads({"db"})
    /\ Spend
    /\ Abort("final")
    /\ UNCHANGED <<jobVars, src, stats, got>>

-----------------------------------------------------------------------------
(* The end of the run and of the job *)

\* What reached the store: all of it, or the whole batches after a failure.
Stored(g, complete) ==
    SubSeq(g, 1, IF complete THEN Len(g) ELSE Len(g) - (Len(g) % BatchSize))

AfterRun == IF target.backend = "cli" THEN "done" ELSE "finish"

\* _finalise: flush publishes the run's file.
Finalise ==
    /\ pc = "final"
    /\ LET stored == Stored(got, result.ended)
       IN  /\ published' = [published EXCEPT ![Len(published)] = stored]
           /\ result' = [result EXCEPT !.written = Len(stored)]
    /\ pc' = AfterRun
    /\ UNCHANGED <<target, files, attempt, rows, src, stats, got, work, redelivered, faults>>

\* flush raises: noted in the result.  records_written was copied already when
\* the write had ended.
FlushFails ==
    /\ pc = "final"
    /\ Spend
    /\ result' = [result EXCEPT !.succeeded = FALSE,
                                !.written = IF result.ended THEN Len(got) ELSE 0]
    /\ pc' = AfterRun
    /\ UNCHANGED <<jobVars, src, stats, got>>

\* Variant: a failed run is recorded as a success.
FinishRun_always ==
    /\ pc = "finish"
    /\ rows' = [rows EXCEPT ![Len(rows)] =
                    [status |-> "SUCCEEDED", written |-> result.written]]
    /\ pc' = "ack"
    /\ UNCHANGED <<target, files, attempt, published, src, stats, got, result, work,
                   redelivered, faults>>

\* finish_run
FinishRun ==
    /\ pc = "finish"
    /\ rows' = [rows EXCEPT ![Len(rows)] =
                    [status |-> IF result.succeeded THEN "SUCCEEDED" ELSE "FAILED",
                     written |-> result.written]]
    /\ pc' = "ack"
    /\ UNCHANGED <<target, files, attempt, published, src, stats, got, result, work,
                   redelivered, faults>>

\* The views are invalidated and the handler returns: the job succeeded,
\* whatever the run did.
Return ==
    /\ pc = "ack"
    /\ pc' = "done"
    /\ UNCHANGED <<jobVars, src, stats, got, result, faults>>

\* The metadata store is out of reach, or the store's directory cannot be
\* made: an exception of the handler.
Outage ==
    /\ pc \in {"row", "build", "finish"}
    /\ target.backend # "cli"
    /\ Spend
    /\ Raise
    /\ UNCHANGED <<target, files, rows, published, src, stats, got, result, work, redelivered>>

\* The process dies.  Celery acknowledges late and delivers the task again;
\* the queue of threads is gone with its process.
Crash ==
    /\ pc \notin {"done", "failed", "lost"}
    /\ Spend
    /\ IF target.backend = "celery"
       THEN pc' = "start" /\ redelivered' = redelivered + 1
       ELSE pc' = "lost" /\ UNCHANGED redelivered
    /\ UNCHANGED <<target, files, attempt, rows, published, src, stats, got, result, work>>

\* Somebody removes a file that is not open.
Vanish ==
    /\ pc \in {"build", "sample", "read", "pool"}
    /\ target.kind \in {"file", "dir", "parallel"}
    /\ Spend
    /\ \E i \in 1..Count :
         /\ files[i].cond # "gone"
         /\ ~(src.line > 0 /\ src.list[src.at] = i)
         /\ work[i] \notin {"running", "published"}
         /\ files' = [files EXCEPT ![i].cond = "gone"]
    /\ UNCHANGED <<target, pc, attempt, rows, published, src, stats, got, result, work,
                   redelivered>>

-----------------------------------------------------------------------------
(* pipeline/parallel.py: one run per file, with a run id of its own *)

effective_worker_count ==
    Max2(1, Min2(Min2(target.workers, Count), Max2(1, Cpus - 1)))

Busy == {i \in 1..Count : work[i] \in {"running", "published"}}

\* The records of one file.
TakenLines(f) == {l \in 1..Len(Visible(f)) : Takes(f, f.lines[l])}
Items(i) == Entries(i, Len(Visible(files[i])), TakenLines(files[i]))

\* What a whole run over one file comes to: nothing is read of one that cannot
\* be opened or sampled.
FileRun(i) ==
    LET f == files[i]
        before == Only(Items(i), {i} \X (1..(Len(Visible(f)) - 1)))
    IN  IF Opening(f) # "open" \/ SampleMeetsDamage(f) THEN [ok |-> FALSE, stored |-> <<>>]
        ELSE IF f.cond = "corrupt" THEN [ok |-> FALSE, stored |-> Stored(before, FALSE)]
        ELSE [ok |-> TRUE, stored |-> Items(i)]

StoredOf(i) == Only(published[Len(published)], {i} \X Nat)

\* A worker takes a file; with one worker they are taken in order.
TakeFile ==
    /\ pc = "pool"
    /\ Cardinality(Busy) < effective_worker_count
    /\ \E i \in 1..Count :
         /\ work[i] = "none"
         /\ \A k \in 1..(i - 1) : work[k] # "none"
         /\ work' = [work EXCEPT ![i] = "running"]
    /\ UNCHANGED <<target, files, pc, attempt, rows, published, src, stats, got, result,
                   redelivered, faults>>

\* The run of the worker publishes its own files ...
WorkerPublishes ==
    /\ pc = "pool"
    /\ \E i \in Busy :
         /\ work[i] = "running"
         /\ published' = [published EXCEPT ![Len(published)] = @ \o FileRun(i).stored]
         /\ work' = [work EXCEPT ![i] = "published"]
    /\ UNCHANGED <<target, files, pc, attempt, rows, src, stats, got, result, redelivered, faults>>

\* ... and sends its result, which is merged as it completes.  The errors of a
\* run that failed need not name its file.
Merge ==
    /\ pc = "pool"
    /\ \E i \in Busy :
         /\ work[i] = "published"
         /\ work' = [work EXCEPT ![i] = IF FileRun(i).ok THEN "merged" ELSE "failed"]
         /\ result' = [result EXCEPT !.written = @ + Len(StoredOf(i)),
                                     !.succeeded = @ /\ FileRun(i).ok,
                                     !.errors = IF FileRun(i).ok THEN @ ELSE @ + 1]
    /\ UNCHANGED <<target, files, pc, attempt, rows, published, src, stats, got, redelivered, faults>>

\* Variant: the exception of a worker is logged and nothing more.
Note_logged(failed) == UNCHANGED result

\* The except clause: the exception of a worker is noted under its file.
Note(failed) ==
    result' = [result EXCEPT !.succeeded = FALSE, !.errors = @ + Cardinality(failed),
                             !.named = @ \union failed]

\* A worker raises.  In the pool that is noted; with one worker there is no
\* pool and no try, and the exception leaves the handler.
WorkerRaises ==
    /\ pc = "pool"
    /\ Spend
    /\ \E i \in Busy :
         IF effective_worker_count > 1
         THEN /\ work' = [work EXCEPT ![i] = "noted"]
              /\ Note({i})
              /\ UNCHANGED <<pc, attempt>>
         ELSE Raise /\ UNCHANGED <<work, result>>
    /\ UNCHANGED <<target, files, rows, published, src, stats, got, redelivered>>

\* Variant: the other futures are left as they are, and so is the dead one.
WorkerDies_alone ==
    /\ pc = "pool"
    /\ effective_worker_count > 1
    /\ Spend
    /\ \E i \in Busy : work' = [work EXCEPT ![i] = "dead"]
    /\ UNCHANGED <<target, files, pc, attempt, rows, published, src, stats, got, result, redelivered>>

\* The loop that submits the files may still be at work: none was merged, and
\* not all were taken.
Submitting ==
    /\ \A i \in 1..Count : work[i] \in {"none", "running", "published"}
    /\ \E i \in 1..Count : work[i] = "none"

\* A worker process dies and breaks the pool: no other future completes; or the
\* next submit raises, outside of the try, and the exception leaves the handler.
WorkerDies ==
    /\ pc = "pool"
    /\ effective_worker_count > 1
    /\ Busy # {}
    /\ Spend
    /\ \/ /\ LET failed == {i \in 1..Count : work[i] \in {"none", "running", "published"}}
             IN  work' = [i \in 1..Count |-> IF i \in failed THEN "noted" ELSE work[i]] /\ Note(failed)
          /\ UNCHANGED <<pc, attempt>>
       \/ Submitting /\ Raise /\ UNCHANGED <<work, result>>
    /\ UNCHANGED <<target, files, rows, published, src, stats, got, redelivered>>

PoolEnds ==
    /\ pc = "pool"
    /\ \A i \in 1..Count : work[i] \in {"merged", "failed", "noted"}
    /\ result' = [result EXCEPT !.ended = TRUE]
    /\ pc' = "done"
    /\ UNCHANGED <<jobVars, src, stats, got, faults>>

-----------------------------------------------------------------------------
Progress ==
    \/ Start \/ StartRun \/ BuildSource \/ Sample
    \/ OpenFile \/ ReadLine \/ CloseFile \/ FilesEnd
    \/ Fetch \/ ReadItem \/ PageEnds \/ PagesEnd \/ ReadRow
    \/ Finalise \/ FinishRun \/ Return
    \/ TakeFile \/ WorkerPublishes \/ Merge \/ PoolEnds

Next ==
    \/ Progress
    \/ FetchFails \/ Redirected \/ DatabaseFails \/ FlushFails \/ Outage \/ Crash \/ Vanish
    \/ WorkerRaises \/ WorkerDies

Spec == Init /\ [][Next]_vars /\ WF_vars(Progress)

-----------------------------------------------------------------------------
(* Reference: what a source holds, in order, by file, page or row *)
FileParts ==
    [k \in 1..Len(src.list) |-> IF src.list[k] \in src.skipped THEN << >> ELSE Items(src.list[k])]

\* Pages are shown up to max_pages, and up to the first empty one.
RecordsOn(page) == {l \in 1..Len(page) : page[l] = "rec"}
PageParts ==
    [k \in 1..Min2(Len(target.pages), IF target.mode = "single" THEN 1 ELSE MaxPages) |->
        IF \E m \in 1..k : target.pages[m] = << >> THEN << >>
        ELSE Entries(k, Len(target.pages[k]), RecordsOn(target.pages[k]))]

RowParts == [k \in 1..Len(Selected(target)) |-> <<<<0, Selected(target)[k]>>>>]

Parts == CASE target.kind \in {"file", "dir"} -> FileParts
           [] target.kind = "api" -> PageParts
           [] target.kind = "db" -> RowParts
           [] OTHER -> << >>

Holds == UpTo(Parts, Len(Parts))

\* A source yields what it holds in its order, each record once, through
\* retried requests, redirects, cursors and skipped files; a read that ends
\* without an exception has yielded all of it, up to max_pages.  An endpoint
\* that redirects a request to a place without its parameters, and so answers
\* with another page than the one wanted, is excepted.
ReadsInOrder ==
    target.kind # "parallel" /\ ~ src.strayed =>
        /\ IsPrefix(got, Holds)
        /\ (result.ended => got = Holds)

\* Nor does such a redirect lose a record where the server names the next page:
\* the records since the first page come again, and those behind them follow,
\* unless max_pages is reached.
CursorSkipsNothing ==
    target.kind = "api" /\ target.mode \in {"cursor", "both"} /\ result.ended /\ src.at <= MaxPages =>
        ToSet(Holds) \subseteq ToSet(got)

\* No file disappears quietly.  A directory source counts every file it
\* skipped and every record its files yielded, also when a file raised half
\* way; a parallel run reports success exactly when every file was read and
\* published, names each file whose worker raised or died with the pool, and
\* has, beside those, an error for each file of which something is missing.
FilesAccounted ==
    /\ target.kind = "dir" /\ pc = "finish" =>
         /\ stats.errors = Cardinality(src.skipped)
         /\ stats.records = Len(got)
    /\ target.kind = "parallel" /\ pc = "done" =>
         /\ Cardinality({i \in (1..Count) \ result.named : StoredOf(i) # Items(i)})
                <= result.errors - Cardinality(result.named)
         /\ result.succeeded = (result.errors = 0)
         /\ result.succeeded => result.written = Len(published[Len(published)])
         /\ result.written <= Len(published[Len(published)])

\* The audit trail of job_runs.  Records are in the dataset only under a run
\* that has a row; a SUCCEEDED row has the number of its records; one job
\* leaves two of them only when Celery delivered it again; and a job that
\* returned has closed its row.
AuditTrail ==
    target.kind \in {"file", "dir"} =>
        /\ \A r \in 1..Len(rows) :
             /\ published[r] # <<>> => rows[r].status # "none"
             /\ rows[r].status = "SUCCEEDED" => rows[r].written = Len(published[r])
        /\ Cardinality({r \in 1..Len(rows) : rows[r].status = "SUCCEEDED"}) <= 1 + redelivered
        /\ pc = "done" => Row.status \in {"SUCCEEDED", "FAILED"}

\* An ingest ends: paging stops, retries are exhausted, and a pool with a
\* dead or a failing worker does not wait for it.
IngestEnds == <>(pc \in {"done", "failed", "lost"})

-----------------------------------------------------------------------------
(* The inductive invariants behind AuditTrail, FilesAccounted and ReadsInOrder *)

SourceStats == [records : Nat, errors : Nat, empty : Nat]

Positions ==
    [list : Seq(Nat), at : Nat \ {0}, line : Nat, child : Nat, blank : Nat,
     skipped : SUBSET Nat, tries : Nat, hops : Nat, bare : BOOLEAN, strayed : BOOLEAN,
     cursor : Nat, page : Nat]

PipelineResult ==
    [succeeded : BOOLEAN, ended : BOOLEAN, written : Nat, errors : Nat, named : SUBSET Nat]

JobRun == [status : {"none", "RUNNING", "SUCCEEDED", "FAILED"}, written : Nat]

FutureStates == {"none", "running", "published", "merged", "failed", "noted", "dead"}

\* The records there can be of the target.
Records ==
    Nat \X (IF target.kind = "db"
            THEN {Selected(target)[k] : k \in 1..Len(Selected(target))} ELSE Nat)

TypeOK ==
    /\ target \in Targets
    /\ files \in Seq(Files)
    /\ pc \in Locations
    /\ attempt \in Nat
    /\ rows \in Seq(JobRun)
    /\ published \in Seq(Seq(Records))
    /\ src \in Positions
    /\ stats \in SourceStats
    /\ got \in Seq(Records)
    /\ result \in PipelineResult
    /\ work \in [1..Count -> FutureStates]
    /\ redelivered \in Nat
    /\ faults \in 0..MaxFaults

\* Where each kind of target can be, that every run has its entries, and that
\* an open file is one of the list.
ControlInv ==
    /\ target.kind = "parallel" => pc \in {"start", "pool", "done", "failed", "lost"}
    /\ pc = "pool" => target.kind = "parallel"
    /\ pc \in {"row", "finish", "ack"} => target.kind \in {"file", "dir"}
    /\ Len(rows) = Len(published)
    /\ pc \notin {"start", "failed", "lost"} => rows # << >>
    /\ pc \in {"sample", "read"} /\ target.kind \in {"file", "dir"} /\ src.line > 0 =>
           src.at <= Len(src.list)

Succeeded == {r \in 1..Len(rows) : rows[r].status = "SUCCEEDED"}

\* The row of the run in progress, and the runs a crash after finish_run leaves
\* behind as successes that Celery repeats.
RowInv ==
    target.kind \in {"file", "dir"} =>
        /\ \A r \in 1..Len(rows) :
             /\ published[r] # << >> => rows[r].status # "none"
             /\ rows[r].status = "SUCCEEDED" => rows[r].written = Len(published[r])
        /\ pc \in {"row", "build", "sample", "read", "final"} =>
               published[Len(published)] = << >>
        /\ pc \in {"build", "sample", "read", "final", "finish"} =>
               Row.status = "RUNNING"
        /\ pc = "row" => Row.status = "none"
        /\ pc = "finish" /\ result.succeeded =>
               result.written = Len(published[Len(published)])
        /\ pc \in {"ack", "done"} => Row.status \in {"SUCCEEDED", "FAILED"}
        /\ Cardinality(Succeeded)
               <= redelivered + (IF pc \in {"ack", "done", "lost"} THEN 1 ELSE 0)

\* A directory source's own counters, with those of the file that is open.
SourceInv ==
    target.kind = "dir" /\ pc \in {"row", "build", "sample", "read", "final", "finish"} =>
        /\ IsFiniteSet(src.skipped) /\ stats.errors = Cardinality(src.skipped)
        /\ Len(got) = stats.records + (IF pc = "read" THEN src.child ELSE 0)
        /\ pc \in {"row", "build", "sample"} => src.line = 0 /\ src.skipped = {}
        /\ src.line = 0 => src.child = 0
        /\ \A i \in src.skipped : \E k \in 1..Len(src.list) : k < src.at /\ src.list[k] = i
        /\ \A k, l \in 1..Len(src.list) : src.list[k] = src.list[l] => k = l

Merged == {i \in 1..Count : work[i] \in {"merged", "failed"}}

\* The futures of a parallel run: what each has published, and what of it the
\* combined result counts.
PoolInv ==
    target.kind = "parallel" /\ pc \in {"pool", "done"} =>
        /\ src.line = 0
        /\ \A i \in 1..Count :
             /\ work[i] \in {"none", "running"} => StoredOf(i) = << >>
             /\ work[i] = "published" => StoredOf(i) = FileRun(i).stored
             /\ work[i] = "merged" => StoredOf(i) = Items(i)
        /\ pc = "done" => \A i \in 1..Count : work[i] \in {"merged", "failed", "noted"}
        /\ result.errors = Cardinality({i \in 1..Count : work[i] \in {"failed", "noted"}})
        /\ result.named = {i \in 1..Count : work[i] = "noted"}
        /\ published[Len(published)] \in Seq((1..Count) \X Nat)
        /\ result.succeeded <=> result.errors = 0
        /\ result.written = Len(Only(published[Len(published)], Merged \X Nat))

\* What was read of the file or the page that is open.
OpenPart ==
    LET i == IF target.kind = "api" THEN src.at ELSE src.list[src.at]
        S == IF target.kind = "api" THEN RecordsOn(target.pages[i]) ELSE TakenLines(files[i])
    IN  IF src.line = 0 THEN << >> ELSE Entries(i, src.line - 1, S)

\* Before the read there is nothing, while it goes on the run has not ended,
\* and what was yielded is the parts gone through and a beginning of the next.
YieldInv ==
    target.kind # "parallel" =>
        /\ pc \in {"row", "build", "sample"} =>
               src.at = 1 /\ src.line = 0 /\ src.cursor = 0 /\ ~ src.strayed
        /\ pc \in {"row", "build", "sample", "read"} => ~result.ended
        /\ ~ src.strayed =>
             /\ src.at <= Len(Parts) + 1
             /\ src.line > 0 => src.at <= Len(Parts)
             /\ got = UpTo(Parts, src.at - 1) \o OpenPart
             /\ result.ended => src.line = 0 /\ \A k \in src.at..Len(Parts) : Parts[k] = << >>

\* Where the read of files, of an endpoint and of a table can be: the files
\* ahead are not skipped, and the page wanted is the next one, until a redirect
\* has led to another.
PositionInv ==
    /\ target.kind \in {"file", "dir"} =>
         /\ target.kind = "file" => Count > 0
         /\ \A k \in 1..Len(src.list) : src.list[k] \in 1..Count
         /\ \A k, l \in 1..Len(src.list) : src.list[k] = src.list[l] => k = l
         /\ \A k \in src.at..Len(src.list) : src.list[k] \notin src.skipped
         /\ src.line > 0 => src.line <= Len(Visible(files[src.list[src.at]])) + 1
    /\ target.kind \in {"file", "dir", "db"} => ~ src.bare /\ ~ src.strayed
    /\ target.kind = "api" /\ ~ src.strayed =>
         /\ \A m \in 1..(src.at - 1) : target.pages[m] # << >>
         /\ src.line > 0 => /\ src.page = src.at /\ target.pages[src.at] # << >>
                            /\ src.line <= Len(target.pages[src.at]) + 1
         /\ src.cursor \in {0, src.at}
         /\ src.cursor > 0 => target.mode \in {"cursor", "both"}
         /\ src.cursor = 0 /\ target.mode \notin {"page", "both"} /\ ~result.ended => src.at = 1
    /\ target.kind = "db" => src.line = 0

IInv == TypeOK /\ ControlInv /\ RowInv /\ SourceInv /\ PoolInv /\ YieldInv /\ PositionInv
=============================================================================
