---------------------------- MODULE AlgorithmsMC ----------------------------
(* Inputs of the algorithms. *)
EXTENDS Algorithms

Leaves == {Leaf("level", ":", <<<<"x">>>>),
           Leaf("level", "!=", <<<<"x">>>>),
           Leaf("level", "=", <<<<"x">>, <<"a", ":", "b">>>>),
           Leaf("level", "=", <<<<"x", "*">>>>),
           Leaf("level", "~", <<<<"%">>>>),
           Leaf("status_code", ">=", <<<<"5">>>>),
           FreeText(<<"a", ":", "b">>),
           FreeText(<<"OR">>),
           FreeText(<<"level", ":", "x">>)}

Few == {Leaf("level", ":", <<<<"x">>>>), Leaf("status_code", ">=", <<<<"5">>>>),
        FreeText(<<"a", ":", "b">>)}

Pairs(A, B) == {BoolOp(op, <<a, b>>) : op \in {"AND", "OR"}, a \in A, b \in B}
Level1 == Few \union {Not(t) : t \in Few} \union Pairs(Few, Few)
MCTrees == Leaves \union {Not(t) : t \in Leaves} \union Pairs(Leaves, Leaves)
           \union {Not(t) : t \in Level1} \union Pairs(Level1, Few) \union Pairs(Few, Level1)
           \union {Not(BoolOp("AND", <<t, u>>)) : t \in Level1, u \in Few}

MCFilters == {<<>>, <<<<"severity", <<<<"x">>, <<"y">>>>>>, <<"status", <<>>>>>>,
              <<<<"colour", <<>>>>>>}

Row(ts, level, status, message, raw) ==
    [timestamp |-> ts, level |-> level, status_code |-> status,
     message |-> message, raw_message |-> raw]

MCRows == {Row(0, <<"x">>, <<"5">>, <<"a", ":", "b">>, <<"c">>),
           Row(3, Null, <<"4">>, <<"OR">>, <<"c">>),
           Row(4, <<"x">>, Null, <<"c">>, <<"level", ":", "x">>),
           Row(5, <<"y">>, <<"5">>, <<"c">>, <<"c">>),
           Row(9, <<"x", "%">>, <<"4">>, <<"a", ":", "b">>, <<"c">>),
           Row(10, <<"a", ":", "b">>, Null, <<"a">>, <<"b">>),
           Row(14, Null, <<"5">>, <<"c">>, <<"a", ":", "b">>)}

MCMonthDays == <<2, 3>>
MCRanges == {<<0, 20>>, <<3, 4>>, <<9, 4>>, <<5, 9>>, <<10, 14>>, <<1, 2>>, <<9, 8>>, <<14, 14>>}

Trace(ts, level, status, service, latency, ip, user, bytes) ==
    [timestamp |-> ts, level |-> level, status |-> status, service |-> service,
     latency |-> latency, ip |-> ip, user |-> user, bytes |-> bytes, endpoint |-> service]

MCTraces == {Trace(0, 0, 200, 1, 3, 1, 1, 10), Trace(1, 1, 0, 2, 0, 0, 0, 0),
             Trace(3, 0, 451, 1, 2, 2, 2, 5), Trace(4, 0, 503, 2, 9, 1, 0, 1),
             Trace(9, 1, 500, 3, 1, 2, 2, 4), Trace(10, 0, 404, 0, 4, 3, 1, 0)}
MCSpans == {<<0, 20>>, <<1, 4>>, <<9, 3>>, <<2, 2>>, <<5, 8>>}
MCViewFilters == {<<>>, [service |-> {1, 3}], [service |-> {}, level |-> {1}]}

Attempt(ts, ip, status, user, endpoint, agent, masked) ==
    [timestamp |-> ts, ip |-> ip, status |-> status, user |-> user, endpoint |-> endpoint,
     agent |-> agent, masked |-> masked, service |-> 11, logger |-> user]

MCAttempts == {Attempt(0, 1, 401, 1, 1, 0, FALSE), Attempt(1, 1, 403, 2, 2, 7, FALSE),
               Attempt(9, 1, 401, 0, 1, 0, FALSE), Attempt(2, 2, 401, 1, 1, 0, FALSE),
               Attempt(2, 2, 401, 2, 5, 0, TRUE), Attempt(3, 2, 404, 0, 3, 0, FALSE),
               Attempt(3, 3, 404, 0, 4, 7, FALSE), Attempt(4, 3, 403, 3, 5, 0, FALSE),
               Attempt(5, 3, 403, 3, 1, 0, FALSE)}

KeysOfRecords == {<<"lv">>, <<"st">>, <<"req", "Id">>, <<"req", "id">>, <<"took", "ms">>, <<"took">>,
                  <<"req", "time">>, <<"x">>}
Scalars == {Empty, Txt("ERROR"), Num(404000), Num(2500), WithUnit(2000, "s")}
Flat == KeysOfRecords \X Scalars
Inner == {<<<<"lv">>, Txt("ERROR")>>, <<<<"st">>, Num(700000)>>, <<<<"req", "id">>, Num(2500)>>,
          <<<<"took", "ms">>, WithUnit(2000, "s")>>, <<<<"took", "ms">>, Num(9000000)>>}
Nested == {<<<<"x">>, Object(<<a>>)>> : a \in Inner}
          \union {<<<<"req">>, Object(<<a, <<<<"id">>, Txt("y")>>>>)>> : a \in Inner}
          \union {<<<<"x">>, Object(<<<<<<"req">>, Object(<<a, <<<<"id">>, Txt("z")>>>>)>>>>)>> : a \in Inner}
          \union {<<<<"x">>, Object(<<<<<<"y">>, Object(<<<<<<"z">>, Object(<<a>>)>>>>)>>>>)>> : a \in Inner}
Members1 == Flat \union Nested
MCDocuments == {<<>>} \union {<<a>> : a \in Members1}
               \union {s \in Members1 \X Members1 : s[1][1] # s[2][1]}
               \union {s \in Nested \X Inner \X Nested : Cardinality({s[i][1] : i \in 1..3}) = 3}

MCLines == [format : {"plaintext", "syslog", "access", "custom", "nginx_error"}, clock : {{}, {3}},
            words : {<<"a">>, <<"ERROR">>, <<"ERROR", "a">>, <<"a", "b", "INFO">>, <<"a", "WARNING", "ERROR">>},
            status : {{}, {200}, {404}, {503}, {999}}, took : {{}, {1500}}, pri : {{}, {11}, {38}}]

MCSamples == UNION {[1..n -> {"json", "access", "keyvalue", "syslog", "csv", "junk", "blank"}] : n \in 0..4}

Pieces == {"w", "sp", "nl", "ctl", "ansi", "dash", "wide", "mw", "mls", "s1", "s2", "key"}
Texts == UNION {[1..n -> Pieces] : n \in 0..3}
         \union [1..5 -> {"s1", "s2", "ctl", "key"}] \union [1..5 -> {"mw", "mls", "sp", "w"}]
ParsedRecord(message, raw, data, endpoint, status, ts) ==
    [message |-> message, raw |-> raw, agent |-> raw, metadata |-> data, endpoint |-> endpoint,
     status |-> status, timestamp |-> ts, service |-> <<"Pay", "_", "API">>, host |-> <<"test", ":", "80">>,
     environment |-> "unknown", ip |-> "private", level |-> IF status = 0 THEN "UNKNOWN" ELSE "INFO"]
Names == {<<"Pay", "_", "API">>, <<"_", "Pay", ".", "-", "API", "-">>, <<"a", "b", "c", "-", "d">>,
          <<"a", "b", "c", "d", "e", "prod">>, <<"-">>, <<>>}
Segments == {"Users", "7", "hex", "HEX", "", "x"}
Paths == UNION {[1..n -> Segments] : n \in 3..5}
         \union {<<"Users", "key", "val", "7">>, <<"key", "7", "x", "x">>, <<"V1", "key", "uuid">>,
                 <<"x", "ctl", "sp", "sp", "x">>}
MCParsings ==
    {ParsedRecord(t, t, <<>>, <<>>, 503, 5) : t \in Texts}
    \union {ParsedRecord(<<"w">>, <<"w">>, d, p, s, ts) :
              d \in {<<>>, [session |-> <<"w">>], [masked |-> <<"w">>, note |-> <<"s1", "ctl", "s2">>]},
              p \in {<<>>, <<"Users", "7", "">>, <<"V1", "uuid", "?", "w">>}, s \in {0, 404}, ts \in {5, 20}}
    \union {ParsedRecord(<<"w">>, <<"w">>, <<>>, p, 404, 5) : p \in Paths}
    \union {[ParsedRecord(<<"w">>, <<"w">>, <<>>, <<>>, 503, 5) EXCEPT !.service = n, !.host = h] :
              n \in Names, h \in {<<"test", ":", "80">>, <<"a", ":", "b", ":", "c">>, <<>>}}
=============================================================================
