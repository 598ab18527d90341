----------------------------- MODULE LogParsing -----------------------------
(***************************************************************************)
(* The parsers of app/parsers: nested records are flattened and mapped to  *)
(* the fields of a LogEvent, lines are split by their format's pattern,    *)
(* and the detector picks a parser from a sample.                          *)
(*                                                                         *)
(* A dict is a sequence of <<key, value>> pairs in insertion order.  A key *)
(* is a sequence of words that count as equally long, joined by _;         *)
(* a word that begins in upper case joins without one.  A value is tagged. *)
(* Numbers are in thousandths, durations in thousandths of a millisecond.  *)
(* An optional result is a set of at most one member.                      *)
(***************************************************************************)
EXTENDS Integers, Sequences, FiniteSets, SequencesExt

CONSTANTS
    MaxFlattenDepth,   \* MAX_FLATTEN_DEPTH
    MaxMetadataKeys,   \* MAX_METADATA_KEYS
    MaxResponseTime,   \* the upper bound of LogEvent.response_time_ms
    ExtensionBonus, ParseWeight,
    ProbeLines, TrialLines  \* lines of a sample that can_parse sees, and that are parsed

ASSUME ParsingAssumption ==
    {MaxFlattenDepth, MaxMetadataKeys, MaxResponseTime, ExtensionBonus, ParseWeight,
     ProbeLines, TrialLines} \subseteq Nat

Absent == <<"absent">>
Empty == <<"empty">>
Txt(t) == <<"text", t>>
Num(n) == <<"num", n>>
WithUnit(n, unit) == <<"unit", n, unit>>
Clock(t) == <<"clock", t>>
Object(pairs) == <<"object", pairs>>
Rejected(reason) == [ok |-> FALSE, reason |-> reason]

HasKey(dict, key) == \E i \in DOMAIN dict : dict[i][1] = key
ValueOf(dict, key) == dict[CHOOSE i \in DOMAIN dict : dict[i][1] = key][2]
SetDefault(dict, key, value) == IF HasKey(dict, key) THEN dict ELSE Append(dict, <<key, value>>)
Assign(dict, key, value) ==
    IF HasKey(dict, key) THEN [i \in DOMAIN dict |-> IF dict[i][1] = key THEN <<key, value>> ELSE dict[i]]
    ELSE Append(dict, <<key, value>>)

-----------------------------------------------------------------------------
(* Structured records *)

\* flatten.  A nested object leaves its members under their full name and under
\* the name without the object's; the latter is cut by length, also from a name
\* that a deeper level has already cut.
RECURSIVE Flatten(_, _, _)
Flatten(record, prefix, depth) ==
    LET step(out, pair) ==
            LET name == prefix \o pair[1]
                nested == Flatten(pair[2][2], name, depth + 1)
                leaf(key) == SubSeq(key, Len(name) + 1, Len(key))
                full == FoldLeft(LAMBDA o, n : SetDefault(o, n[1], n[2]), out, nested)
            IN  IF pair[2][1] = "object" /\ depth < MaxFlattenDepth
                THEN FoldLeft(LAMBDA o, n : IF leaf(n[1]) = <<>> THEN o ELSE SetDefault(o, leaf(n[1]), n[2]),
                              full, nested)
                ELSE Assign(out, name, pair[2])
    IN  FoldLeft(step, <<>>, record)

\* normalise_key
NormaliseKey(key) ==
    [i \in DOMAIN key |-> CASE key[i] = "Id" -> "id" [] key[i] = "Ms" -> "ms" [] OTHER -> key[i]]

\* FIELD_ALIASES: some of the names of some of the fields.
FieldAliases ==
    [timestamp |-> {<<"ts">>, <<"event", "time">>}, level |-> {<<"lv">>},
     message |-> {<<"msg">>}, request_id |-> {<<"req", "id">>},
     status_code |-> {<<"st">>, <<"st", "code">>},
     response_time_ms |-> {<<"took">>, <<"took", "ms">>, <<"req", "time">>},
     bytes_sent |-> {<<"size">>}]
CanonicalOf(key) == {field \in DOMAIN FieldAliases : key \in FieldAliases[field]}

\* LogLevel.coerce
CoerceLevel(value) ==
    IF value[1] = "text" /\ value[2] \in {"INFO", "WARNING", "ERROR"} THEN value[2] ELSE "UNKNOWN"

CoerceInt(value) == IF value[1] = "num" THEN {value[2] \div 1000} ELSE {}

\* duration_multiplier
UnitOfName(key) ==
    CASE key = <<"req", "time">> -> {1000}
      [] Len(key) > 1 /\ Last(key) = "ms" -> {1}
      [] Len(key) > 1 /\ Last(key) = "s" -> {1000}
      [] OTHER -> {}

Units == [ms |-> 1, s |-> 1000]

\* Variant: the unit of the name is applied to a value that has its own.
CoerceDuration_both(value, key) ==
    IF value[1] \notin {"num", "unit"} THEN {}
    ELSE LET own == IF value[1] = "unit" THEN Units[value[3]] ELSE 1
         IN  {own * value[2] * m : m \in IF UnitOfName(key) = {} THEN {1} ELSE UnitOfName(key)}

\* coerce_duration_ms: the unit of the value, else that of the name, else a
\* guess: a fraction below ten is in seconds.
CoerceDuration(value, key) ==
    CASE value[1] = "unit" -> IF value[3] \in DOMAIN Units THEN {value[2] * Units[value[3]]} ELSE {}
      [] value[1] = "num" /\ UnitOfName(key) # {} -> {value[2] * m : m \in UnitOfName(key)}
      [] value[1] = "num" /\ UnitOfName(key) = {} ->
            {IF 0 < value[2] /\ value[2] < 10000 /\ value[2] % 1000 # 0 THEN value[2] * 1000 ELSE value[2]}
      [] OTHER -> {}

\* The fields of a record that says nothing.
NoFields == [timestamp |-> {}, level |-> "UNKNOWN", message |-> {}, request_id |-> {}, status_code |-> {},
             response_time_ms |-> {}, bytes_sent |-> {}, metadata |-> <<>>]

\* map_structured_record: the first key of a field has it; a later one, and a
\* key that is no field's, is metadata.
MapStructuredRecord(flat) ==
    FoldLeft(LAMBDA acc, pair :
        LET norm == NormaliseKey(pair[1])
            fields == {f \in CanonicalOf(norm) : ~ HasKey(acc.mapped, f)}
        IN  IF fields # {}
            THEN [acc EXCEPT !.mapped = Append(@, <<CHOOSE f \in fields : TRUE, <<norm, pair[2]>>>>)]
            ELSE IF pair[2] \in {Absent, Empty} THEN acc
            ELSE [acc EXCEPT !.metadata = Assign(@, norm, pair[2])],
        [mapped |-> <<>>, metadata |-> <<>>], flat)

\* _coerce_mapped.  A status that is none is kept in the metadata.
CoerceMapped(m) ==
    LET value(f) == IF HasKey(m.mapped, f) THEN ValueOf(m.mapped, f)[2] ELSE Absent
        name(f) == IF HasKey(m.mapped, f) THEN ValueOf(m.mapped, f)[1] ELSE <<>>
        text(f) == {v \in {value(f)} : v \notin {Absent, Empty}}
        status == CoerceInt(value("status_code"))
        metadata == FoldSet(LAMBDA s, d : Assign(d, <<"st", "code", "raw">>, Num(1000 * s)), m.metadata,
                            {s \in status : s \notin 100..599})
    IN  [NoFields EXCEPT
            !.timestamp = IF value("timestamp")[1] = "clock" THEN {value("timestamp")[2]} ELSE {},
            !.level = CoerceLevel(value("level")),
            !.message = text("message"), !.request_id = text("request_id"),
            !.status_code = {s \in status : s \in 100..599},
            !.response_time_ms = CoerceDuration(value("response_time_ms"), name("response_time_ms")),
            !.bytes_sent = {n \in CoerceInt(value("bytes_sent")) : n >= 0},
            !.metadata = metadata]

\* LogEvent._bounded_metadata: the first keys.
BoundedMetadata(metadata) ==
    SubSeq(metadata, 1, IF Len(metadata) < MaxMetadataKeys THEN Len(metadata) ELSE MaxMetadataKeys)

\* LogEvent.build: what the schema refuses.
Build(fields) ==
    IF \/ \E s \in fields.status_code : s \notin 100..599
       \/ \E d \in fields.response_time_ms : d < 0 \/ d > MaxResponseTime
    THEN Rejected("schema_violation")
    ELSE [ok |-> TRUE, event |-> [fields EXCEPT !.metadata = BoundedMetadata(@)]]

\* _finalize: a record without a clock has the time of its ingest.
Finalize(fields, now) ==
    Build(IF fields.timestamp # {} THEN fields
          ELSE [fields EXCEPT !.timestamp = {now},
                              !.metadata = Assign(@, <<"time", "inferred">>, Txt("true"))])

\* StructuredParser.parse_record, with _fallback_message.
ParseRecord(record, now) ==
    LET flat == Flatten(record, <<>>, 0)
        fields == CoerceMapped(MapStructuredRecord(flat))
        shown == SelectSeq(flat, LAMBDA pair : pair[2] # Absent /\ pair[2][1] # "object")
    IN  IF record = <<>> THEN Rejected("unparseable")
        ELSE Finalize(IF fields.message # {} THEN fields
                      ELSE [fields EXCEPT !.message = {<<"pairs", shown>>}], now)

-----------------------------------------------------------------------------
(* Lines *)

\* A line is a record of its format and of what the pattern of that format
\* finds in it.  words is the free text: a sequence of words, some of which
\* name a level.
LevelToken(words, reach) ==
    LET named == {i \in DOMAIN words : i <= reach /\ words[i] \in {"INFO", "WARNING", "ERROR"}}
    IN  {i \in named : \A j \in named : i <= j}

\* PlainTextParser.parse: a time at the start, the first word that names a level
\* near it; the level's word is taken out of the text, and pairs of the text
\* that are known, such as a duration of no stated unit, are read.
ParsePlain(line, now) ==
    LET at == LevelToken(line.words, 2)
        rest == [i \in DOMAIN line.words |-> IF i \in at THEN "" ELSE line.words[i]]
    IN  IF line.words = <<>> /\ line.clock = {} THEN Rejected("unparseable")
        ELSE Finalize([NoFields EXCEPT !.timestamp = line.clock,
                          !.level = IF at = {} THEN @ ELSE line.words[CHOOSE i \in at : TRUE],
                          !.message = {Txt(SelectSeq(rest, LAMBDA w : w # ""))},
                          !.status_code = {s \in line.status : s \in 100..599},
                          !.response_time_ms = UNION {CoerceDuration(Num(t), <<>>) : t \in line.took}], now)

\* The ladder has more levels; these are the ones that errors are told by.
SyslogLevels == <<"ERROR", "ERROR", "ERROR", "ERROR", "WARNING", "INFO", "INFO", "INFO">>

\* SyslogParser.parse: the priority's last three bits, else a word of the text.
ParseSyslog(line, now) ==
    LET at == LevelToken(line.words, 2)
        level == IF line.pri # {} THEN SyslogLevels[((CHOOSE p \in line.pri : TRUE) % 8) + 1]
                 ELSE IF at = {} THEN "UNKNOWN" ELSE line.words[CHOOSE i \in at : TRUE]
    IN  IF line.format # "syslog" THEN Rejected("unparseable")
        ELSE Finalize([NoFields EXCEPT !.timestamp = line.clock, !.level = level,
                                       !.message = {Txt(line.words)}], now)

\* AccessLogParser.parse, with the times of its tail: the level follows from
\* the status, which may be any three digits.
ParseAccess(line, now) ==
    LET class == {s \div 100 : s \in line.status}
        level == CASE class = {4} -> "WARNING" [] class = {5} -> "ERROR" [] OTHER -> "INFO"
    IN  IF line.format # "access" THEN Rejected("unparseable")
        ELSE Finalize([NoFields EXCEPT !.timestamp = line.clock, !.level = level,
                          !.message = {Txt(<<"request">>)}, !.status_code = line.status,
                          !.response_time_ms = {1000 * t : t \in line.took}], now)

\* NginxErrorLogParser.parse
ParseNginxError(line, now) ==
    IF line.format # "nginx_error" THEN Rejected("unparseable")
    ELSE Finalize([NoFields EXCEPT !.timestamp = line.clock, !.level = CoerceLevel(Txt(line.words[1])),
                      !.message = {Txt(Tail(line.words))},
                      !.metadata = <<<<<<"pid">>, Txt("pid")>>>>], now)

\* RegexParser.parse and _assign: groups are fields by name, or metadata; a
\* status that is none is dropped.
ParseRegex(line, defaultLevel, now) ==
    IF line.format # "custom" THEN Rejected("unparseable")
    ELSE Finalize([NoFields EXCEPT !.timestamp = line.clock,
                      !.level = IF LevelToken(line.words, 1) = {} THEN defaultLevel ELSE line.words[1],
                      !.message = {Txt(line.words)},
                      !.status_code = {s \in line.status : s \in 100..599},
                      !.response_time_ms = UNION {CoerceDuration(Num(t), <<"took">>) : t \in line.took}], now)

ParseLine(parser, line, now) ==
    CASE parser = "syslog" -> ParseSyslog(line, now)
      [] parser = "access" -> ParseAccess(line, now)
      [] parser = "nginx_error" -> ParseNginxError(line, now)
      [] parser = "custom" -> ParseRegex(line, "INFO", now)
      [] OTHER -> ParsePlain(line, now)

-----------------------------------------------------------------------------
(* Detection *)

\* The parsers: confidence, file extensions, and the share of the sample that
\* can_parse asks for.
Parsers ==
    [access |-> [confidence |-> 95, extensions |-> {"log", "txt"}, share |-> <<2, 3>>],
     json |-> [confidence |-> 90, extensions |-> {"json", "jsonl"}, share |-> <<1, 2>>],
     nginx_error |-> [confidence |-> 85, extensions |-> {"log"}, share |-> <<1, 2>>],
     custom |-> [confidence |-> 80, extensions |-> {}, share |-> <<2, 3>>],
     syslog |-> [confidence |-> 75, extensions |-> {"log"}, share |-> <<1, 2>>],
     keyvalue |-> [confidence |-> 70, extensions |-> {}, share |-> <<1, 2>>],
     csv |-> [confidence |-> 60, extensions |-> {"csv", "tsv"}, share |-> <<1, 1>>],
     plaintext |-> [confidence |-> 10, extensions |-> {"log", "txt", "out"}, share |-> <<0, 1>>]]

\* What the pattern of a parser matches: the catch-all, any line.
Matches(parser, format) == format = parser \/ parser = "plaintext"

CanParse(parser, lines) ==
    LET probe == {i \in DOMAIN lines : i <= ProbeLines}
        hits == Cardinality({i \in probe : Matches(parser, lines[i])})
        need == (Cardinality(probe) * Parsers[parser].share[1]) \div Parsers[parser].share[2]
    IN  hits >= 1 /\ hits >= need /\ (parser = "csv" => Len(lines) >= 2)

\* Lines of the sample that parse; a CSV line does not without its header.
Parsed(parser, lines) ==
    IF parser = "csv" THEN 0 ELSE Cardinality({i \in DOMAIN lines : i <= TrialLines /\ Matches(parser, lines[i])})

Score(parser, lines, extension) ==
    LET base == (IF CanParse(parser, lines) THEN Parsers[parser].confidence ELSE 0)
                + (IF extension \in Parsers[parser].extensions THEN ExtensionBonus ELSE 0)
    IN  IF base = 0 THEN 0 ELSE base + ParseWeight * Parsed(parser, lines)

ByName == <<"access", "csv", "custom", "json", "keyvalue", "nginx_error", "plaintext", "syslog">>

\* detect_format: blank lines are left out; nothing to go by is plain text, and
\* of equal scores the first name wins.
DetectFormat(sample, extension) ==
    LET lines == SelectSeq(sample, LAMBDA format : format # "blank")
        score(p) == Score(p, lines, extension)
        best == {i \in DOMAIN ByName : score(ByName[i]) > 0
                                       /\ \A j \in DOMAIN ByName : score(ByName[j]) <= score(ByName[i])}
    IN  IF best = {} THEN "plaintext" ELSE ByName[CHOOSE i \in best : \A j \in best : i <= j]
=============================================================================
