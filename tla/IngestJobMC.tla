---------------------------- MODULE IngestJobMC ----------------------------
(* Directories, endpoints and tables for IngestJob. *)
EXTENDS IngestJob

File(kind, cond, lines) == [kind |-> kind, cond |-> cond, lines |-> lines]

MCFiles == {File("text", "ok", <<"rec", "blank", "rec", "rec">>),
            File("text", "locked", <<"rec">>),
            File("text", "corrupt", <<"rec", "rec", "rec">>),
            File("text", "corrupt", <<"blank", "rec", "rec">>),
            File("csv", "ok", <<"rec", "rec">>),
            File("csv", "bad", <<"rec">>),
            File("csv", "corrupt", <<"rec", "rec">>),
            File("json", "ok", <<"rec", "junk", "rec">>),
            File("json", "corrupt", <<"rec">>)}

MCFileLists == {<<>>} \union {<<a, b>> : a, b \in MCFiles}
               \union {<<File("text", "ok", <<"rec">>), a, File("text", "ok", <<"rec">>)>> : a \in MCFiles}

MCServers == {<<<<"rec", "junk">>, <<"rec">>, <<"rec", "rec">>>>,
              <<<<"rec">>, <<>>, <<"rec">>>>,
              <<<<"rec">>, <<"rec">>, <<"rec">>, <<"rec">>, <<"rec">>>>, <<>>}
MCTables == {<<3, 1, 2, 5, 0>>, <<>>}
=============================================================================
