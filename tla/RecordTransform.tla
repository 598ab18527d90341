-------------------------- MODULE RecordTransform --------------------------
(***************************************************************************)
(* What a parsed record goes through before it is stored: cleaning,        *)
(* normalisation and enrichment with masking (app/transformation,          *)
(* app/core/masking.py), then validation (app/validation/validators.py).   *)
(*                                                                         *)
(* A text is a sequence of pieces:                                         *)
(*   w     a word                        sp, nl  blanks and line ends      *)
(*   ctl   a control character           ansi    a terminal escape         *)
(*   dash  a sign for "nothing"          wide    beyond Latin-1            *)
(*   mw    a letter decoded wrongly      mls     a line end, likewise      *)
(*   s1 s2 the parts of a vendor's key   key     a sensitive name and =    *)
(*   red   REDACTED                      cut     the note on a cut text    *)
(* The empty sequence is also None.  A path is the sequence of its         *)
(* segments, the slashes left out; key and the piece after it are one.     *)
(***************************************************************************)
EXTENDS Integers, Sequences, FiniteSets, SequencesExt

CONSTANTS
    MaxMessage,      \* validation.max_message_length
    MaxField,        \* the limits RecordCleaner sets to the other texts
    MaxName,         \* the limit of the names of services and hosts (255)
    MaxSegments,     \* MAX_PATH_SEGMENTS
    MaxMaskable,     \* MAX_MASKABLE_LENGTH
    MaxValue,        \* the longest value sensitive_kv matches (512)
    RequireMessage,  \* validation.require_message
    MaxFuture        \* validation.max_future_skew_seconds

ASSUME TransformAssumption ==
    /\ {MaxMessage, MaxField, MaxName, MaxSegments, MaxMaskable, MaxValue, MaxFuture} \subseteq Nat \ {0}
    /\ RequireMessage \in BOOLEAN

Blank == {"sp", "nl", "ls"}
Within(t, i) == i \in DOMAIN t
Keep(t, n) == SubSeq(t, 1, IF Len(t) < n THEN Len(t) ELSE n)
Dropping(t, pieces) == SelectSeq(t, LAMBDA p : p \notin pieces)
Replaced(t, from, to) == [i \in DOMAIN t |-> IF t[i] \in from THEN to ELSE t[i]]

-----------------------------------------------------------------------------
(* Cleaning *)

\* clean_text: escapes go, line ends are blanks, control characters go, blanks
\* are single and not at the ends; a sign for nothing is None.
CleanText(t, limit) ==
    LET plain == Dropping(Replaced(Dropping(t, {"ansi"}), {"nl", "ls"}, "sp"), {"ctl"})
        inner(i) == \E j, k \in DOMAIN plain : j < i /\ i < k /\ plain[j] # "sp" /\ plain[k] # "sp"
        kept == {i \in DOMAIN plain : plain[i] # "sp" \/ (inner(i) /\ plain[i - 1] # "sp")}
        text == FlattenSeq([i \in DOMAIN plain |-> IF i \in kept THEN <<plain[i]>> ELSE <<>>])
    IN  IF text = <<"dash">> THEN <<>> ELSE Keep(text, limit)

\* fix_mojibake: all of the text or none, and only where a sign of it shows.
FixMojibake(t) ==
    IF "mw" \in ToSet(t) /\ "wide" \notin ToSet(t)
    THEN Replaced(Replaced(t, {"mw"}, "w"), {"mls"}, "ls") ELSE t

\* RecordCleaner.clean; raw_message is left alone, and a query string cut off.
Clean(e) ==
    LET text == CleanText(e.endpoint, MaxField)
        query == {i \in DOMAIN text : text[i] = "?"}
    IN  [e EXCEPT !.message = FixMojibake(CleanText(@, MaxMessage)),
                  !.agent = CleanText(@, MaxField),
                  !.service = CleanText(@, MaxName), !.host = CleanText(@, MaxName),
                  !.endpoint = IF query = {} THEN text
                               ELSE Keep(text, (CHOOSE i \in query : \A j \in query : i <= j) - 1),
                  !.metadata = [k \in DOMAIN @ |-> CleanText(@[k], MaxField)]]

-----------------------------------------------------------------------------
(* Normalisation *)

Separators == {".", "_", "-"}

\* normalise_service: lower case, what stands between its words one dash; the
\* limit comes last, and may leave a dash at the end.
NormaliseService(name) ==
    LET slug == Replaced(Replaced(Replaced(name, {"Pay"}, "pay"), {"API"}, "api"), Separators, "-")
        inner(i) == \E j, k \in DOMAIN slug : j < i /\ i < k /\ slug[j] # "-" /\ slug[k] # "-"
        kept == {i \in DOMAIN slug : slug[i] # "-" \/ (inner(i) /\ slug[i - 1] # "-")}
    IN  Keep(FlattenSeq([i \in DOMAIN slug |-> IF i \in kept THEN <<slug[i]>> ELSE <<>>]), MaxName)

\* normalise_hostname: a port goes, unless there are more colons (an IPv6).
NormaliseHostname(host) ==
    LET colons == {i \in DOMAIN host : host[i] = ":"}
    IN  Keep(host, IF Cardinality(colons) = 1 THEN (CHOOSE i \in colons : TRUE) - 1 ELSE MaxName)

\* infer_environment: the first word of a hint that names one.
InferEnvironment(hints) ==
    LET named == SelectSeq(FlattenSeq(hints), LAMBDA w : w \in {"prod", "test"})
    IN  IF named = <<>> THEN "unknown" ELSE named[1]

\* template_endpoint: the first segments, identifiers as placeholders, words in
\* lower case and cut, as is an identifier that is too long to be one (HEX);
\* slashes at the end go.
TemplateEndpoint(path) ==
    LET inName(i) == i > 1 /\ path[i - 1] = "key"
        segment(i) == Cardinality({j \in 1..i : ~ inName(j)})
        inLower == [V1 |-> "v1", Users |-> "users", HEX |-> "hex", red |-> "redacted"]
        placeholder == ("7" :> "{id}") @@ [uuid |-> "{uuid}", hex |-> "{hash}"]
        templated(i) == CASE path[i] \in DOMAIN placeholder /\ ~ inName(i) -> placeholder[path[i]]
                          [] path[i] \in DOMAIN inLower -> inLower[path[i]]
                          [] OTHER -> path[i]
        last == {i \in DOMAIN path : segment(i) <= MaxSegments /\ path[i] # ""}
    IN  [i \in 1..(IF last = {} THEN 0 ELSE CHOOSE n \in last : \A i \in last : i <= n) |-> templated(i)]

\* RecordNormalizer.normalise, with user_agent_family and classify_ip.
Normalise(e, defaultService) ==
    LET service == IF NormaliseService(e.service) # <<>> THEN NormaliseService(e.service) ELSE defaultService
        endpoint == TemplateEndpoint(e.endpoint)
        added == (IF endpoint # e.endpoint THEN "endpoint_raw" :> e.endpoint ELSE <<>>)
                 @@ (IF e.agent # <<>> THEN "ua_family" :> <<"w">> ELSE <<>>)
                 @@ (IF e.ip # "none" THEN "ip_class" :> <<e.ip>> ELSE <<>>)
    IN  [e EXCEPT !.service = service, !.host = NormaliseHostname(@),
                  !.environment = IF @ # "unknown" THEN @ ELSE InferEnvironment(<<NormaliseHostname(e.host), service>>),
                  !.endpoint = endpoint,
                  !.metadata = added @@ @]

-----------------------------------------------------------------------------
(* Masking and enrichment *)

SensitiveFieldNames == {"session", "token"}

\* \b of the patterns: pieces that end in a letter (an escape does), and pieces
\* that begin with one.
WordBefore(t, i) == Within(t, i - 1) /\ t[i - 1] \in {"w", "mw", "s1", "s2", "ansi"}
WordAfter(t, i) == Within(t, i + 1) /\ t[i + 1] \in {"w", "mw", "mls", "s1", "s2", "key"}

\* sensitive_kv: the name, blanks, and what follows up to the next blank, or up
\* to the longest value there may be; the rest of a longer one stays.
MaskKeyValue(t) ==
    LET step(acc, i) ==
            CASE acc.in = "name" /\ t[i] \notin Blank ->
                   [out |-> Append(acc.out, "red"), in |-> "value", size |-> 1]
              [] acc.in = "name" /\ t[i] \in Blank -> [acc EXCEPT !.out = Append(@, t[i])]
              [] acc.in = "value" /\ t[i] \notin Blank /\ acc.size < MaxValue -> [acc EXCEPT !.size = @ + 1]
              [] OTHER -> [out |-> Append(acc.out, t[i]), size |-> 0,
                           in |-> IF t[i] = "key" /\ ~ WordBefore(t, i) THEN "name" ELSE "text"]
    IN  FoldLeftDomain(step, [out |-> <<>>, in |-> "text", size |-> 0], t).out

\* vendor_key
MaskVendorKey(t) ==
    LET hit(i) == Within(t, i) /\ Within(t, i + 1) /\ t[i] = "s1" /\ t[i + 1] = "s2"
                  /\ ~ WordBefore(t, i) /\ ~ WordAfter(t, i + 1)
    IN  FlattenSeq([i \in DOMAIN t |-> IF hit(i) THEN <<"red">> ELSE IF hit(i - 1) THEN <<>> ELSE <<t[i]>>])

\* The rules one after the other, when a trigger is found.
Redact(t) ==
    IF ToSet(t) \intersect {"key", "s1"} = {} THEN t ELSE MaskVendorKey(MaskKeyValue(t))

\* Masker.mask_text
MaskText(t) == Redact(Keep(t, MaxMaskable)) \o (IF Len(t) > MaxMaskable THEN <<"cut">> ELSE <<>>)

\* Masker.mask_mapping and mask_value
MaskMapping(data) ==
    [k \in DOMAIN data |-> IF k \in SensitiveFieldNames THEN <<"red">> ELSE MaskText(data[k])]

IsErrorEvent(e) == e.level = "ERROR" \/ e.status >= 500

\* RecordEnricher.enrich
Enrich(e) ==
    LET masked == [e EXCEPT !.message = MaskText(@), !.agent = MaskText(@), !.endpoint = MaskText(@),
                            !.metadata = MaskMapping(@), !.raw = MaskText(@)]
        added == (IF e.status > 0 THEN "status_class" :> <<ToString(e.status \div 100)>> ELSE <<>>)
                 @@ (IF IsErrorEvent(e) THEN "is_error" :> <<"w">> ELSE <<>>)
                 @@ (IF masked # e THEN "masked" :> <<"w">> ELSE <<>>)
    IN  [masked EXCEPT !.metadata = added @@ @]

\* Variant: the stages in another order, masking first.
Apply_maskFirst(e, defaultService) == Normalise(Clean(Enrich(e)), defaultService)

\* TransformationChain.apply
Apply(e, defaultService) == Enrich(Normalise(Clean(e), defaultService))

-----------------------------------------------------------------------------
(* Validation *)

\* A text's length; REDACTED may be longer than what it replaces.
Width(t) == Len(t) + 2 * Len(SelectSeq(t, LAMBDA p : p = "red"))

\* The rules of RecordValidator that a record can break, in their order.
Issues(e, now) ==
    LET text == Dropping(e.message, Blank)
    IN  SelectSeq(<<[reason |-> "timestamp", fatal |-> TRUE, broken |-> e.timestamp > now + MaxFuture],
                    [reason |-> "missing_message", fatal |-> RequireMessage, broken |-> text = <<>>],
                    [reason |-> "message_too_long", fatal |-> TRUE, broken |-> Width(e.message) > MaxMessage],
                    [reason |-> "level", fatal |-> FALSE, broken |-> e.level = "UNKNOWN"],
                    [reason |-> "schema", fatal |-> FALSE, broken |-> e.endpoint # <<>> /\ e.status = 0]>>,
                  LAMBDA rule : rule.broken)

\* validate: warnings up to the first fatal issue.
Validate(e, now) ==
    LET issues == Issues(e, now)
        fatal == {i \in DOMAIN issues : issues[i].fatal}
    IN  IF fatal = {} THEN [valid |-> TRUE, issues |-> issues]
        ELSE [valid |-> FALSE, issues |-> Keep(issues, CHOOSE i \in fatal : \A j \in fatal : i <= j)]
=============================================================================
