----------------------------- MODULE HttpParser -----------------------------
(***************************************************************************)
(* http_parser_execute (http_parser.c:627-2138): the automaton that reads the   *)
(* requests and the answers of a connection, in pieces of any size.             *)
(*                                                                           *)
(* A message is a sequence of symbols: a delimiter, a digit, a letter of a        *)
(* method, or a word the code matches letter by letter ("c" "onn" "ection");       *)
(* "x" is any other character.  Lengths count symbols.                            *)
(***************************************************************************)
EXTENDS HttpUrl

CONSTANTS
  HTTP_MAX_HEADER_SIZE,   \* 80 * 1024 in the code
  ULLONG_MAX,             \* 2^64 - 1 in the code
  MaxVersion,             \* 999 in the code
  Types,                  \* what is parsed: HTTP_REQUEST, HTTP_RESPONSE
  Followed,               \* bound: the methods of which requests are read on
  UrlSymbols,             \* bound: the symbols of the URLs of requests
  MaxLead,                \* bound: empty lines before a message
  MaxOpen,                \* bound: other symbols in a piece
  MaxRun,                 \* bound: symbols of a value in a call
  MaxCuts                 \* bound: places where the text is cut between two calls

ASSUME HttpParserConstants ==
  /\ HTTP_MAX_HEADER_SIZE \in Nat \ {0} /\ ULLONG_MAX \in Nat /\ ULLONG_MAX >= 32
  /\ MaxVersion \in Nat /\ MaxVersion >= 9 /\ MaxLead \in Nat /\ MaxOpen \in Nat /\ MaxRun \in Nat /\ MaxCuts \in Nat
  /\ Types \subseteq {"HTTP_REQUEST", "HTTP_RESPONSE"}
  /\ UrlSymbols \subseteq UrlAlphabet

VARIABLES
  p,      \* the parser, with the locals of http_parser_execute
  g,      \* history: what has been read, by another definition
  eof,    \* the peer has closed: execute was called with len = 0
  cuts    \* calls so far

vars == <<p, g, eof, cuts>>

Digits == {"0", "1", "3"}
Hex == Digits \cup {"c"}
Numerals == {"100", "200", "204"}      \* three digits
Val == [d \in Hex \cup Numerals |->
          CASE d = "0" -> 0 [] d = "1" -> 1 [] d = "3" -> 3 [] d = "c" -> 12
            [] d = "100" -> 100 [] d = "200" -> 200 [] d = "204" -> 204]
Ends == {"CR", "LF"}
Comma == ","
Semicolon == ";"
Blanks == {"SP", "HT"}
NotTokens == Ends \cup Blanks \cup {":", Comma, Semicolon}

Starts == {"s_start_req", "s_start_res"}
BodyStates == {"s_chunk_data", "s_body_identity", "s_body_identity_eof"}
PARSING_HEADER(s) ==
  s \notin BodyStates \cup {"s_chunk_data_almost_done", "s_chunk_data_done", "s_message_done"}

start_state(type) == IF type = "HTTP_REQUEST" THEN "s_start_req" ELSE "s_start_res"

DELETE == <<"D", "E", "L", "E", "T", "E">>

\* http_parser_init.  run is what the loops of s_header_field and s_header_value have
\* read and not counted, marks the pieces that are open and their lengths so far, owed
\* (history) what was read of the pieces and has not been given to a callback.
http_parser_init(type) ==
  [type |-> type, state |-> start_state(type), header_state |-> "h_general", flags |-> {},
   index |-> 0, nread |-> 0, content_length |-> 0, http_major |-> 0, http_minor |-> 0,
   status_code |-> 0, method |-> DELETE, upgrade |-> FALSE, http_errno |-> "HPE_OK",
   run |-> 0, marks |-> <<>>, owed |-> 0]

Failed(q) == q.http_errno # "HPE_OK"

\* SET_ERRNO, goto error: of a parser that failed nothing but these is read again.
Fail(q, errno) ==
  [http_parser_init(q.type) EXCEPT !.http_errno = errno, !.state = q.state]

\* COUNT_HEADER_SIZE
Count(q, n) ==
  IF Failed(q) THEN q
  ELSE IF q.nread + n > HTTP_MAX_HEADER_SIZE THEN Fail(q, "HPE_HEADER_OVERFLOW")
  ELSE [q EXCEPT !.nread = @ + n]

\* MARK, CALLBACK_DATA: a callback is not called for a piece that is not open.
Mark(q, k) ==
  IF k \in DOMAIN q.marks THEN q
  ELSE [q EXCEPT !.marks = [j \in DOMAIN @ \cup {k} |-> IF j = k THEN 0 ELSE @[j]]]

Deliver(q, k, last) ==
  IF k \notin DOMAIN q.marks THEN q
  ELSE [q EXCEPT !.owed = @ - q.marks[k] - last,
                 !.marks = [j \in DOMAIN @ \ {k} |-> @[j]]]

To(q, s) == [q EXCEPT !.state = s]
-----------------------------------------------------------------------------
(* The end of a message *)

http_message_needs_eof(q) ==
  /\ q.type = "HTTP_RESPONSE"
  /\ q.status_code \div 100 # 1 /\ q.status_code \notin {204, 304}
  /\ "F_CHUNKED" \notin q.flags /\ q.content_length = ULLONG_MAX

\* Mutant: an answer of HTTP/1.0 leaves the connection open.
http_should_keep_alive_1_0(q) ==
  "F_CONNECTION_CLOSE" \notin q.flags /\ ~http_message_needs_eof(q)

http_should_keep_alive(q) ==
  /\ IF q.http_major > 0 /\ q.http_minor > 0 THEN "F_CONNECTION_CLOSE" \notin q.flags
     ELSE "F_CONNECTION_KEEP_ALIVE" \in q.flags
  /\ ~http_message_needs_eof(q)

NewMessage(q) ==
  To(q, IF http_should_keep_alive(q) THEN start_state(q.type) ELSE "s_dead")
-----------------------------------------------------------------------------
(* The line of an answer, and the version of both *)

ResLineArcs == {
  <<{"s_res_H"}, {"TTP/"}, "s_res_first_http_major">>,
  <<{"s_res_first_http_major", "s_res_http_major"}, Digits, "s_res_http_major">>,
  <<{"s_res_http_major"}, {"."}, "s_res_first_http_minor">>,
  <<{"s_res_first_http_minor", "s_res_http_minor"}, Digits, "s_res_http_minor">>,
  <<{"s_res_http_minor", "s_res_first_status_code"}, {"SP"}, "s_res_first_status_code">>,
  <<{"s_res_first_status_code"}, Digits \cup Numerals, "s_res_status_code">>,
  <<{"s_res_status_code"}, Digits, "s_res_status_code">>,
  <<{"s_res_status_code"}, {"SP"}, "s_res_status_start">>,
  <<{"s_res_status_code", "s_res_status_start", "s_res_status"}, {"CR"},
    "s_res_line_almost_done">>,
  <<{"s_res_status_code", "s_res_status_start", "s_res_status", "s_res_line_almost_done"},
    {"LF"}, "s_header_field_start">>,
  <<{"s_res_status_start", "s_res_status"}, {"x", "SP"}, "s_res_status">>}

ReqLineArcs == {
  <<{"s_req_http_start"}, {"SP"}, "s_req_http_start">>,
  <<{"s_req_http_start"}, {"H"}, "s_req_http_H">>,
  <<{"s_req_http_H"}, {"TTP/"}, "s_req_first_http_major">>,
  <<{"s_req_first_http_major"}, Digits \ {"0"}, "s_req_http_major">>,
  <<{"s_req_http_major"}, Digits, "s_req_http_major">>,
  <<{"s_req_http_major"}, {"."}, "s_req_first_http_minor">>,
  <<{"s_req_first_http_minor", "s_req_http_minor"}, Digits, "s_req_http_minor">>,
  <<{"s_req_http_minor"}, {"CR"}, "s_req_line_almost_done">>,
  <<{"s_req_http_minor", "s_req_line_almost_done"}, {"LF"}, "s_header_field_start">>}

LineArcs == ResLineArcs \cup ReqLineArcs
LineStates == UNION {arc[1] : arc \in LineArcs}

LineError(s) ==
  CASE s \in {"s_res_H", "s_req_http_H", "s_res_line_almost_done"} -> "HPE_STRICT"
    [] s = "s_req_http_start" -> "HPE_INVALID_CONSTANT"
    [] s = "s_req_line_almost_done" -> "HPE_LF_EXPECTED"
    [] s \in {"s_res_first_status_code", "s_res_status_code"} -> "HPE_INVALID_STATUS"
    [] OTHER -> "HPE_INVALID_VERSION"

\* A number's next digit.
Shift(n, ch, first) == IF first THEN Val[ch] ELSE 10 * n + Val[ch]

Version(q, ch) ==
  CASE ch \in Digits /\ q.state \in {"s_res_first_http_major", "s_res_http_major",
                                     "s_req_first_http_major", "s_req_http_major"} ->
         [q EXCEPT !.http_major = Shift(@, ch, q.state \in {"s_res_first_http_major",
                                                            "s_req_first_http_major"})]
    [] ch \in Digits /\ q.state \in {"s_res_first_http_minor", "s_res_http_minor",
                                     "s_req_first_http_minor", "s_req_http_minor"} ->
         [q EXCEPT !.http_minor = Shift(@, ch, q.state \in {"s_res_first_http_minor",
                                                            "s_req_first_http_minor"})]
    [] OTHER -> q

StatusCode(q, ch) ==
  IF q.state \in {"s_res_first_status_code", "s_res_status_code"} /\ ch \in DOMAIN Val
  THEN [q EXCEPT !.status_code = Shift(@, ch, q.state = "s_res_first_status_code")]
  ELSE q

StatusText(q, s) ==
  IF q.state = "s_res_status_start" /\ s = "s_res_status" THEN Mark(q, "status")
  ELSE IF q.state = "s_res_status" /\ s # "s_res_status" THEN Deliver(q, "status", 0)
  ELSE q

LineStep(q, ch) ==
  LET s == Follow(LineArcs, q.state, ch, "s_dead")
      r == StatusText(StatusCode(Version(q, ch), ch), s)
  IN  IF s = "s_dead" THEN Fail(q, LineError(q.state))
      ELSE IF r.http_major > MaxVersion \/ r.http_minor > MaxVersion
           THEN Fail(q, "HPE_INVALID_VERSION")
      ELSE IF r.status_code > 999 THEN Fail(q, "HPE_INVALID_STATUS")
      ELSE To(r, s)

Reset(q) == [q EXCEPT !.flags = {}, !.content_length = ULLONG_MAX]

StartRes(q, ch) ==
  IF ch = "H" THEN To(Reset(q), "s_res_H")
  ELSE IF ch \in Ends THEN Reset(q)
  ELSE Fail(q, "HPE_INVALID_CONSTANT")

-----------------------------------------------------------------------------
(* The line of a request: method and URL *)

CONNECT == <<"C", "O", "N", "N", "E", "C", "T">>
COPY == <<"C", "O", "P", "Y">>
CHECKOUT == <<"C", "H", "E", "C", "K", "O", "U", "T">>
GET == <<"G", "E", "T">>
HEAD == <<"H", "E", "A", "D">>
LOCK == <<"L", "O", "C", "K">>
MKCOL == <<"M", "K", "C", "O", "L">>
MKACTIVITY == <<"M", "K", "A", "C", "T", "I", "V", "I", "T", "Y">>
MKCALENDAR == <<"M", "K", "C", "A", "L", "E", "N", "D", "A", "R">>
MOVE == <<"M", "O", "V", "E">>
MERGE == <<"M", "E", "R", "G", "E">>
MSEARCH == <<"M", "-", "S", "E", "A", "R", "C", "H">>
NOTIFY == <<"N", "O", "T", "I", "F", "Y">>
OPTIONS == <<"O", "P", "T", "I", "O", "N", "S">>
PATCH == <<"P", "A", "T", "C", "H">>
POST == <<"P", "O", "S", "T">>
PROPFIND == <<"P", "R", "O", "P", "F", "I", "N", "D">>
PROPPATCH == <<"P", "R", "O", "P", "P", "A", "T", "C", "H">>
PURGE == <<"P", "U", "R", "G", "E">>
PUT == <<"P", "U", "T">>
REPORT == <<"R", "E", "P", "O", "R", "T">>
SEARCH == <<"S", "E", "A", "R", "C", "H">>
SUBSCRIBE == <<"S", "U", "B", "S", "C", "R", "I", "B", "E">>
TRACE == <<"T", "R", "A", "C", "E">>
UNLOCK == <<"U", "N", "L", "O", "C", "K">>
UNSUBSCRIBE == <<"U", "N", "S", "U", "B", "S", "C", "R", "I", "B", "E">>

method_strings == {
  DELETE, GET, HEAD, POST, PUT, CONNECT, OPTIONS, TRACE, COPY, LOCK, MKCOL, MOVE, PROPFIND,
  PROPPATCH, SEARCH, UNLOCK, REPORT, MKACTIVITY, CHECKOUT, MERGE, MSEARCH, NOTIFY, SUBSCRIBE,
  UNSUBSCRIBE, PATCH, PURGE, MKCALENDAR}

\* The method a first letter stands for, until another letter tells otherwise.
FirstMethods == {CONNECT, DELETE, GET, HEAD, LOCK, MKCOL, NOTIFY, OPTIONS, POST, REPORT,
                 SUBSCRIBE, TRACE, UNLOCK}

StartReq(q, ch) ==
  LET methods == {m \in FirstMethods : m[1] = ch}
  IN  IF ch \in Ends THEN q
      ELSE IF methods = {} THEN Fail(Reset(q), "HPE_INVALID_METHOD")
      ELSE [Reset(q) EXCEPT !.method = CHOOSE m \in methods : TRUE, !.index = 1,
                            !.state = "s_req_method"]

\* At the index-th letter, a letter that makes one method another.
MethodArcs == {
  <<CONNECT, 1, "H", CHECKOUT>>, <<CONNECT, 2, "P", COPY>>, <<MKCOL, 1, "O", MOVE>>,
  <<MKCOL, 1, "E", MERGE>>, <<MKCOL, 1, "-", MSEARCH>>, <<MKCOL, 2, "A", MKACTIVITY>>,
  <<MKCOL, 3, "A", MKCALENDAR>>, <<SUBSCRIBE, 1, "E", SEARCH>>, <<POST, 1, "R", PROPFIND>>,
  <<POST, 1, "U", PUT>>, <<POST, 1, "A", PATCH>>, <<PUT, 2, "R", PURGE>>,
  <<UNLOCK, 2, "S", UNSUBSCRIBE>>, <<PROPFIND, 4, "P", PROPPATCH>>}

Turns(q, ch) ==
  {arc \in MethodArcs : arc[1] = q.method /\ arc[2] = q.index /\ arc[3] = ch}

ReqMethod(q, ch) ==
  LET Next1 == [q EXCEPT !.index = @ + 1]
  IN  IF q.index = Len(q.method)
      THEN IF ch = "SP" THEN To(Next1, "s_req_spaces_before_url")
           ELSE Fail(q, "HPE_INVALID_METHOD")
      ELSE IF ch = q.method[q.index + 1] THEN Next1
      ELSE IF Turns(q, ch) # {}
           THEN [Next1 EXCEPT !.method = (CHOOSE arc \in Turns(q, ch) : TRUE)[4]]
      ELSE Fail(q, "HPE_INVALID_METHOD")

\* The states where a URL may end.
UrlMayEnd == UrlStates \ {"s_req_spaces_before_url", "s_req_schema", "s_req_schema_slash",
                          "s_req_schema_slash_slash", "s_req_server_start"}

UrlChar(q, ch) ==
  LET s == parse_url_char(q.state, ch)
  IN  IF s = "s_dead" THEN Fail(q, "HPE_INVALID_URL") ELSE To(q, s)

SpacesBeforeUrl(q, ch) ==
  IF ch = "SP" THEN q
  ELSE UrlChar(Mark(IF q.method = CONNECT THEN To(q, "s_req_server_start") ELSE q, "url"), ch)

ReqUrl(q, ch) ==
  CASE q.state \in UrlMayEnd /\ ch = "SP" -> Deliver(To(q, "s_req_http_start"), "url", 0)
    [] q.state \in UrlMayEnd /\ ch \in Ends ->
         Deliver([q EXCEPT !.http_major = 0, !.http_minor = 9,
                           !.state = IF ch = "CR" THEN "s_req_line_almost_done"
                                     ELSE "s_header_field_start"], "url", 0)
    [] OTHER -> UrlChar(q, ch)
-----------------------------------------------------------------------------
(* The end of the headers *)

Chunked(q) == "F_CHUNKED" \in q.flags

\* Mutant: the bytes of the headers are not forgotten.
HeadersDoneCounted(q) ==
  IF Failed(q) THEN q
  ELSE IF q.upgrade THEN NewMessage(q)
  ELSE IF Chunked(q) THEN To(q, "s_chunk_size_start")
  ELSE IF q.content_length = 0 THEN NewMessage(q)
  ELSE IF q.content_length # ULLONG_MAX THEN To(q, "s_body_identity")
  ELSE IF http_message_needs_eof(q) THEN To(q, "s_body_identity_eof")
  ELSE NewMessage(q)

\* The caller is to read no more of what follows an upgrade (http_parser.h:70-75).
HeadersDone(q) ==
  LET r == [q EXCEPT !.nread = 0]
  IN  IF Failed(q) THEN q
      ELSE IF q.upgrade THEN NewMessage(r)
      ELSE IF Chunked(q) THEN To(r, "s_chunk_size_start")
      ELSE IF q.content_length = 0 THEN NewMessage(r)
      ELSE IF q.content_length # ULLONG_MAX THEN To(r, "s_body_identity")
      ELSE IF http_message_needs_eof(q) THEN To(r, "s_body_identity_eof")
      ELSE NewMessage(r)

\* on_headers_complete returns 0 (http_parser_ext.cpp:80-91).
HeadersAlmostDone(q, ch) ==
  CASE Failed(q) -> q
    [] ~Failed(q) /\ ch # "LF" -> Fail(q, "HPE_STRICT")
    [] ~Failed(q) /\ ch = "LF" /\ "F_TRAILING" \in q.flags -> NewMessage(q)
    [] OTHER ->
         HeadersDone(Count([q EXCEPT !.state = "s_headers_done",
                              !.upgrade = \/ {"F_UPGRADE", "F_CONNECTION_UPGRADE"} \subseteq q.flags
                                          \/ q.method = CONNECT], 1))
-----------------------------------------------------------------------------
(* Headers.  The bytes of a name or a value are counted when the loop over them   *)
(* ends, the first one twice.                                                     *)

FirstNameArcs == {
  <<{"h_general"}, {"c"}, "h_C">>,
  <<{"h_general"}, {"p"}, "h_matching_proxy_connection">>,
  <<{"h_general"}, {"t"}, "h_matching_transfer_encoding">>,
  <<{"h_general"}, {"u"}, "h_matching_upgrade">>}

NameArcs == {
  <<{"h_C"}, {"onn"}, "h_matching_connection">>,
  <<{"h_C"}, {"ont"}, "h_matching_content_length">>,
  <<{"h_matching_connection"}, {"ection"}, "h_connection">>,
  <<{"h_matching_proxy_connection"}, {"roxy-connection"}, "h_connection">>,
  <<{"h_matching_content_length"}, {"ent-length"}, "h_content_length">>,
  <<{"h_matching_transfer_encoding"}, {"ransfer-encoding"}, "h_transfer_encoding">>,
  <<{"h_matching_upgrade"}, {"pgrade"}, "h_upgrade">>}

HeaderFieldStart(q, ch) ==
  IF Failed(q) THEN q
  ELSE IF ch = "CR" THEN To(q, "s_headers_almost_done")
  ELSE IF ch = "LF" THEN HeadersAlmostDone(Count(To(q, "s_headers_almost_done"), 1), ch)
  ELSE IF ch \in NotTokens THEN Fail(q, "HPE_INVALID_HEADER_TOKEN")
  ELSE [Mark(q, "field") EXCEPT
          !.state = "s_header_field",
          !.header_state = Follow(FirstNameArcs, "h_general", ch, "h_general")]

\* Mutant: what the loop has read is not counted.
HeaderFieldFree(q, ch) ==
  IF ch \notin NotTokens
  THEN [q EXCEPT !.run = @ + 1,
                 !.header_state = Follow(NameArcs, q.header_state, ch, "h_general")]
  ELSE IF ch # ":" THEN Fail(q, "HPE_INVALID_HEADER_TOKEN")
  ELSE Deliver([q EXCEPT !.run = 0, !.state = "s_header_value_discard_ws"], "field", 0)

HeaderField(q, ch) ==
  LET r == Count(q, q.run)
  IN  IF ch \notin NotTokens
      THEN [q EXCEPT !.run = @ + 1,
                     !.header_state = Follow(NameArcs, q.header_state, ch, "h_general")]
      ELSE IF Failed(r) THEN r
      ELSE IF ch # ":" THEN Fail(r, "HPE_INVALID_HEADER_TOKEN")
      ELSE Deliver([r EXCEPT !.run = 0, !.state = "s_header_value_discard_ws"], "field", 0)

Matched == {"h_connection_keep_alive", "h_connection_close", "h_connection_upgrade"}

Connecting == Matched \cup {"h_matching_connection_token", "h_matching_connection_keep_alive",
                           "h_matching_connection_close", "h_matching_connection_upgrade"}

ValueStartArcs == {
  <<{"h_transfer_encoding"}, {"c"}, "h_matching_transfer_encoding_chunked">>,
  <<{"h_content_length"}, Digits, "h_content_length">>,
  <<{"h_connection"}, {"k"}, "h_matching_connection_keep_alive">>,
  <<{"h_connection"}, {"c"}, "h_matching_connection_close">>,
  <<{"h_connection"}, {"u"}, "h_matching_connection_upgrade">>,
  <<{"h_matching_connection_token_start"}, Blanks, "h_matching_connection_token_start">>}

ValueArcs == {
  <<{"h_matching_transfer_encoding_chunked"}, {"hunked"}, "h_transfer_encoding_chunked">>,
  <<{"h_transfer_encoding_chunked"}, {"SP"}, "h_transfer_encoding_chunked">>,
  <<{"h_matching_connection_token_start"}, Blanks, "h_matching_connection_token_start">>,
  <<{"h_matching_connection_token_start"}, {"k"}, "h_matching_connection_keep_alive">>,
  <<{"h_matching_connection_token_start"}, {"c"}, "h_matching_connection_close">>,
  <<{"h_matching_connection_token_start"}, {"u"}, "h_matching_connection_upgrade">>,
  <<{"h_matching_connection_keep_alive"}, {"eep-alive"}, "h_connection_keep_alive">>,
  <<{"h_matching_connection_close"}, {"lose"}, "h_connection_close">>,
  <<{"h_matching_connection_upgrade"}, {"pgrade"}, "h_connection_upgrade">>,
  <<{"h_connection_keep_alive"}, {"SP"}, "h_connection_keep_alive">>,
  <<{"h_connection_close"}, {"SP"}, "h_connection_close">>,
  <<{"h_connection_upgrade"}, {"SP"}, "h_connection_upgrade">>,
  <<Matched \cup {"h_matching_connection_token"}, {Comma}, "h_matching_connection_token_start">>}

\* What is not a word to follow: a comma too, where a word has begun.
Unmatched(h, ch) ==
  IF h \in Connecting \/ (h = "h_matching_connection_token_start" /\ ch \notin NotTokens)
  THEN "h_matching_connection_token" ELSE "h_general"

ValueStarts(h, ch) ==
  Follow(ValueStartArcs, h, ch,
         IF h = "h_connection" THEN "h_matching_connection_token" ELSE "h_general")

ValueGoesOn(h, ch) == Follow(ValueArcs, h, ch, Unmatched(h, ch))

\* The flag a value stands for when it, or an element of it, ends.
FlagOf == [h_connection_keep_alive |-> "F_CONNECTION_KEEP_ALIVE",
           h_connection_close |-> "F_CONNECTION_CLOSE",
           h_connection_upgrade |-> "F_CONNECTION_UPGRADE",
           h_transfer_encoding_chunked |-> "F_CHUNKED"]

Flag(q) == [q EXCEPT !.flags = @ \cup {FlagOf[h] : h \in {q.header_state} \cap DOMAIN FlagOf}]

HeaderValueStart(q, ch) ==
  LET r == [Mark(q, "value") EXCEPT
              !.state = "s_header_value",
              !.header_state = ValueStarts(q.header_state, ch)]
  IN  IF Failed(q) THEN q
      ELSE CASE q.header_state = "h_upgrade" -> [r EXCEPT !.flags = @ \cup {"F_UPGRADE"}]
             [] q.header_state = "h_content_length" ->
                  IF ch \in Digits THEN [r EXCEPT !.content_length = Val[ch]]
                  ELSE Fail(r, "HPE_INVALID_CONTENT_LENGTH")
             [] OTHER -> r

HeaderAlmostDone(q, ch) ==
  IF Failed(q) THEN q
  ELSE IF ch # "LF" THEN Fail(q, "HPE_STRICT") ELSE To(q, "s_header_value_lws")

\* Mutant: only the product is tested.
ContentLengthDigitWraps(q, ch) ==
  IF ch \notin Digits \cup {"SP"} \/ (ch # "SP" /\ ULLONG_MAX \div 10 < q.content_length)
  THEN Fail(q, "HPE_INVALID_CONTENT_LENGTH")
  ELSE [q EXCEPT !.run = @ + 1,
                 !.content_length = IF ch = "SP" THEN @
                                    ELSE (10 * @ + Val[ch]) % (ULLONG_MAX + 1)]

ContentLengthDigit(q, ch) ==
  IF ch \notin Digits \cup {"SP"} \/ (ch # "SP" /\ (ULLONG_MAX - 10) \div 10 < q.content_length)
  THEN Fail(q, "HPE_INVALID_CONTENT_LENGTH")
  ELSE [q EXCEPT !.run = @ + 1,
                 !.content_length = IF ch = "SP" THEN @
                                    ELSE (10 * @ + Val[ch]) % (ULLONG_MAX + 1)]

\* A value that ends with a line feed alone: the break of REEXECUTE leaves the loop over
\* the value only, so that what it has read is counted again, less one.
HeaderValueEnds(q, ch) ==
  LET done == [q EXCEPT !.state = "s_header_almost_done", !.run = 0]
      again == Deliver(Count(done, q.run), "value", 0)
  IN  IF ch = "CR" THEN Count(Deliver(done, "value", 0), q.run)
      ELSE HeaderAlmostDone(Count(Count(again, q.run - 1), 1), ch)

\* Mutant: an element that another follows is forgotten.
HeaderValueLast(q, ch) ==
  CASE ch \in Ends -> HeaderValueEnds(q, ch)
    [] ch \notin Ends /\ q.header_state = "h_content_length" -> ContentLengthDigit(q, ch)
    [] OTHER -> [q EXCEPT !.run = @ + 1,
                          !.header_state = ValueGoesOn(q.header_state, ch)]

HeaderValue(q, ch) ==
  CASE ch \in Ends -> HeaderValueEnds(q, ch)
    [] ch \notin Ends /\ q.header_state = "h_content_length" -> ContentLengthDigit(q, ch)
    [] OTHER ->
         [(IF ch = Comma /\ q.header_state \in Matched THEN Flag(q) ELSE q) EXCEPT
            !.run = @ + 1,
            !.header_state = ValueGoesOn(q.header_state, ch)]

DiscardWs(q, ch) ==
  IF ch \in Blanks THEN q
  ELSE IF ch = "CR" THEN To(q, "s_header_value_discard_ws_almost_done")
  ELSE IF ch = "LF" THEN To(q, "s_header_value_discard_lws")
  ELSE HeaderValueStart(q, ch)

DiscardWsAlmostDone(q, ch) ==
  IF ch = "LF" THEN To(q, "s_header_value_discard_lws") ELSE Fail(q, "HPE_STRICT")

\* The next line goes on with the value, or is another.
HeaderValueLws(q, ch) ==
  IF ch \in Blanks THEN HeaderValueStart(Count(To(q, "s_header_value_start"), 1), ch)
  ELSE HeaderFieldStart(Count(To(Flag(q), "s_header_field_start"), 1), ch)

DiscardLws(q, ch) ==
  IF ch \in Blanks THEN To(q, "s_header_value_discard_ws")
  ELSE LET empty == Mark(To(Flag(q), "s_header_field_start"), "value")
       IN  HeaderFieldStart(Count(Deliver(empty, "value", 0), 1), ch)
-----------------------------------------------------------------------------
(* Bodies *)

MessageDone(q) == NewMessage(q)

BodyIdentity(q) ==
  LET r == [Mark(q, "body") EXCEPT !.content_length = @ - 1]
  IN  IF r.content_length = 0 THEN MessageDone(Deliver(To(r, "s_message_done"), "body", 1))
      ELSE r

ChunkArcs == {
  <<{"s_chunk_size_start", "s_chunk_size"}, Hex, "s_chunk_size">>,
  <<{"s_chunk_size", "s_chunk_parameters"}, {"CR"}, "s_chunk_size_almost_done">>,
  <<{"s_chunk_size"}, {Semicolon, "SP"}, "s_chunk_parameters">>,
  <<{"s_chunk_parameters"}, {"x", "LF"}, "s_chunk_parameters">>,
  <<{"s_chunk_size_almost_done"}, {"LF"}, "s_chunk_data">>,
  <<{"s_chunk_data"}, {"x"}, "s_chunk_data">>,
  <<{"s_chunk_data_almost_done"}, {"CR"}, "s_chunk_data_done">>,
  <<{"s_chunk_data_done"}, {"LF"}, "s_chunk_size_start">>}

ChunkStates == UNION {arc[1] : arc \in ChunkArcs}

ChunkSize(q, ch) ==
  CASE ch \notin Hex -> q
    [] ch \in Hex /\ q.state = "s_chunk_size_start" -> [q EXCEPT !.content_length = Val[ch]]
    [] ch \in Hex /\ q.state = "s_chunk_size" /\ (ULLONG_MAX - 16) \div 16 < q.content_length ->
         Fail(q, "HPE_INVALID_CONTENT_LENGTH")
    [] OTHER -> [q EXCEPT !.content_length = (16 * @ + Val[ch]) % (ULLONG_MAX + 1)]

ChunkSizeAlmostDone(q) ==
  IF q.content_length = 0
  THEN [q EXCEPT !.nread = 0, !.flags = @ \cup {"F_TRAILING"}, !.state = "s_header_field_start"]
  ELSE [q EXCEPT !.nread = 0, !.state = "s_chunk_data"]

ChunkData(q) ==
  LET r == [Mark(q, "body") EXCEPT !.content_length = @ - 1]
  IN  IF r.content_length = 0 THEN To(r, "s_chunk_data_almost_done") ELSE r

ChunkStep(q, ch) ==
  LET s == Follow(ChunkArcs, q.state, ch, "s_dead")
  IN  CASE s = "s_dead" /\ q.state # "s_chunk_data" ->
             Fail(q, IF q.state \in {"s_chunk_size_start", "s_chunk_size"}
                     THEN "HPE_INVALID_CHUNK_SIZE" ELSE "HPE_STRICT")
        [] s = "s_chunk_size" ->
             LET r == ChunkSize(q, ch) IN IF Failed(r) THEN r ELSE To(r, s)
        [] q.state = "s_chunk_size_almost_done" /\ s # "s_dead" -> ChunkSizeAlmostDone(q)
        [] q.state = "s_chunk_data" -> ChunkData(q)
        [] s = "s_chunk_data_done" -> Deliver(To(q, s), "body", 0)
        [] s = "s_chunk_size_start" -> [q EXCEPT !.nread = 0, !.state = s]
        [] OTHER -> To(q, s)
-----------------------------------------------------------------------------
(* http_parser_execute *)

Dead(q, ch) == IF ch \in Ends THEN q ELSE Fail(q, "HPE_CLOSED_CONNECTION")

Handle(q, ch) ==
  IF Failed(q) THEN q
  ELSE CASE q.state = "s_dead" -> Dead(q, ch)
         [] q.state = "s_start_res" -> StartRes(q, ch)
         [] q.state = "s_start_req" -> StartReq(q, ch)
         [] q.state = "s_req_method" -> ReqMethod(q, ch)
         [] q.state = "s_req_spaces_before_url" -> SpacesBeforeUrl(q, ch)
         [] q.state \in UrlStates \ {"s_req_spaces_before_url"} -> ReqUrl(q, ch)
         [] q.state \in LineStates -> LineStep(q, ch)
         [] q.state = "s_header_field_start" -> HeaderFieldStart(q, ch)
         [] q.state = "s_header_field" -> HeaderField(q, ch)
         [] q.state = "s_header_value_discard_ws" -> DiscardWs(q, ch)
         [] q.state = "s_header_value_discard_ws_almost_done" -> DiscardWsAlmostDone(q, ch)
         [] q.state = "s_header_value_discard_lws" -> DiscardLws(q, ch)
         [] q.state = "s_header_value" -> HeaderValue(q, ch)
         [] q.state = "s_header_almost_done" -> HeaderAlmostDone(q, ch)
         [] q.state = "s_header_value_lws" -> HeaderValueLws(q, ch)
         [] q.state = "s_headers_almost_done" -> HeadersAlmostDone(q, ch)
         [] q.state \in ChunkStates -> ChunkStep(q, ch)
         [] q.state = "s_body_identity" -> BodyIdentity(q)
         [] q.state = "s_body_identity_eof" -> Mark(q, "body")

InLoop(q) == q.state \in {"s_header_field", "s_header_value"} /\ q.run > 0

Pieces == {"s_header_field", "s_header_value", "s_res_status"} \cup
          (UrlStates \ {"s_req_spaces_before_url"})

\* Whether the symbol read between q and r is of a piece.
InPiece(q, r) == ~Failed(r) /\ (q.state \in BodyStates \/ r.state \in Pieces)

\* One turn of the loop of http_parser_execute.
Feed(q, ch) ==
  LET r == Handle(IF PARSING_HEADER(q.state) /\ ~InLoop(q) THEN Count(q, 1) ELSE q, ch)
  IN  [r EXCEPT !.marks = [k \in DOMAIN @ |-> @[k] + 1],
                !.owed = IF InPiece(q, r) THEN @ + 1 ELSE @]

\* Mutant: the state after the scheme is forgotten.
ReopenedButOne(q) ==
  CASE q.state = "s_header_field" -> {"field"}
    [] q.state = "s_header_value" -> {"value"}
    [] q.state \in UrlStates \ {"s_req_spaces_before_url", "s_req_schema_slash"} -> {"url"}
    [] q.state = "s_res_status" -> {"status"}
    [] OTHER -> {}

\* The end of a call and the beginning of the next: the pieces are delivered, and one is
\* opened again where the state says so.
Reopened(q) ==
  CASE q.state = "s_header_field" -> {"field"}
    [] q.state = "s_header_value" -> {"value"}
    [] q.state \in UrlStates \ {"s_req_spaces_before_url"} -> {"url"}
    [] q.state = "s_res_status" -> {"status"}
    [] OTHER -> {}

Kinds == {"field", "value", "url", "body", "status"}

Flush(q) ==
  LET names == Deliver(Deliver(q, "field", 0), "value", 0)
  IN  Deliver(Deliver(Deliver(names, "url", 0), "body", 0), "status", 0)

NextExecute(q) ==
  LET r == IF InLoop(q) THEN Count([q EXCEPT !.run = 0], q.run) ELSE q
  IN  IF Failed(r) THEN r
      ELSE [Flush(r) EXCEPT !.marks = [k \in Reopened(q) |-> 0]]

\* execute with len = 0
AtEof(q) ==
  IF q.state \in Starts \cup {"s_dead", "s_body_identity_eof"} THEN q
  ELSE Fail(q, "HPE_INVALID_EOF_STATE")
-----------------------------------------------------------------------------
(* History: what has been read, by a definition that knows lines and lists only. *)

KnownNames == {<<"c", "onn", "ection">>, <<"p", "roxy-connection">>,
               <<"c", "ont", "ent-length">>, <<"t", "ransfer-encoding">>, <<"u", "pgrade">>}
KnownElements == {<<"k", "eep-alive">>, <<"c", "lose">>, <<"u", "pgrade">>, <<"c", "hunked">>}

Connection == {<<"c", "onn", "ection">>, <<"p", "roxy-connection">>}
Encoding == <<"t", "ransfer-encoding">>
Length == <<"c", "ont", "ent-length">>
Upgrade == <<"u", "pgrade">>

\* A text that can still become one of a set, and one that cannot.
Extend(texts, t, ch) ==
  IF \E k \in texts : IsPrefix(Append(t, ch), k) THEN Append(t, ch) ELSE <<"?">>

NoHistory == [size |-> 0, name |-> <<>>, el |-> <<>>, odd |-> FALSE, listed |-> {}, plain |-> {},
              declared |-> -1, taken |-> 0, done |-> FALSE]

InLine(s) == s \in {"s_header_value_discard_ws", "s_header_value_discard_ws_almost_done",
                   "s_header_value_discard_lws", "s_header_value", "s_header_almost_done",
                   "s_header_value_lws"}

\* An element of a list grows: blanks around it are not of it, blanks in it are.
Grow(el, ch) ==
  IF ch \in Blanks THEN (IF el = <<>> \/ Last(el) = "SP" THEN el ELSE Append(el, "SP"))
  ELSE Extend(KnownElements, el, ch)

Element(el) == IF el # <<>> /\ Last(el) = "SP" THEN Front(el) ELSE el

\* Of a known element the beginning, or nothing.
Beginning(el) == \E k \in KnownElements : el # k /\ IsPrefix(el, k)

\* What a value lists: elements of Connection, the one Transfer-Encoding, an Upgrade.
Listed(name, el) ==
  IF name \in Connection THEN {Element(el)} \cap (KnownElements \ {<<"c", "hunked">>})
  ELSE IF name = Encoding THEN {Element(el)} \cap {<<"c", "hunked">>}
  ELSE {}

Begins(q, r) == q.state \in Starts /\ r.state \in {"s_res_H", "s_req_method"}
Completes(q, r) == q.state \notin Starts \cup {"s_dead"} /\ r.state \in Starts \cup {"s_dead"}

\* A symbol of a value is read.  A list is odd from where the parser gives up on it: a tab,
\* a new line, an element that is empty or begins with a delimiter, and one that is only the
\* beginning of a known one (its comma is taken for a letter, http_parser.c:1625-1659).
ValueRead(h, q, ch) ==
  LET comma == ch = Comma /\ h.name \in Connection
      ended == IF comma THEN Listed(h.name, h.el) ELSE {}
      asked == IF h.name = Upgrade THEN {Upgrade \o <<"x">>} ELSE {}
  IN  [h EXCEPT
         !.el = IF comma THEN <<>> ELSE Grow(@, ch),
         !.listed = @ \cup ended \cup asked,
         !.plain = @ \cup (IF h.odd THEN {} ELSE ended) \cup asked,
         !.odd = @ \/ ch = "HT" \/ q.state = "s_header_value_lws"
                   \/ (comma /\ Beginning(h.el))
                   \/ (h.name \in Connection /\ h.el = <<>> /\ ch \in NotTokens \ Blanks),
         !.declared = IF h.name # Length \/ "F_TRAILING" \in q.flags \/ ch \notin Digits THEN @
                      ELSE IF q.state = "s_header_value" THEN 10 * @ + Val[ch] ELSE Val[ch]]

\* A symbol of a chunk's size.
SizeRead(h, q, ch) ==
  [h EXCEPT !.declared = IF ch \notin Hex THEN @
                         ELSE IF q.state = "s_chunk_size_start" THEN Val[ch]
                         ELSE 16 * @ + Val[ch],
            !.taken = 0]

After(h, q, ch, r) ==
  LET size == IF \/ ~PARSING_HEADER(r.state) \/ q.state = "s_chunk_size_almost_done"
                 \/ r.state \in Starts \cup {"s_dead", "s_chunk_size_start"}
              THEN 0 ELSE h.size + 1
      over == q.state = "s_header_value_lws" /\ ~InLine(r.state)
      last == IF over THEN Listed(h.name, h.el) ELSE {}
      counted == [(IF Begins(q, r) THEN NoHistory ELSE h) EXCEPT !.size = size]
      line == [counted EXCEPT
                 !.name = IF r.state = "s_header_field"
                          THEN Extend(KnownNames, IF q.state = "s_header_field" THEN @ ELSE <<>>, ch)
                          ELSE IF InLine(r.state) THEN @ ELSE <<>>,
                 !.el = IF InLine(r.state) THEN @ ELSE <<>>,
                 !.odd = InLine(r.state) /\ @,
                 !.listed = @ \cup last,
                 !.plain = @ \cup (IF h.odd THEN {} ELSE last),
                 !.taken = IF q.state \in {"s_body_identity", "s_chunk_data"} THEN @ + 1 ELSE @]
      read == CASE r.state = "s_header_value" -> ValueRead(line, q, ch)
                [] r.state = "s_chunk_size" -> SizeRead(line, q, ch)
                [] OTHER -> line
  IN  IF Failed(r) THEN NoHistory ELSE [read EXCEPT !.done = @ \/ Completes(q, r)]
-----------------------------------------------------------------------------
(* Bounds: the symbols a state tells apart, and one other. *)

Lead(q) == IF q.nread < MaxLead THEN Ends ELSE {}

LineSymbols ==
  [s_res_H |-> {"TTP/", "x"}, s_req_http_H |-> {"TTP/", "x"}, s_req_http_start |-> {"H", "x"},
   s_res_first_http_major |-> {"1", "x"}, s_req_first_http_major |-> {"0", "1"},
   s_res_http_major |-> {"0", ".", "x"}, s_req_http_major |-> {"0", ".", "x"},
   s_res_first_http_minor |-> {"0", "1", "x"}, s_req_first_http_minor |-> {"0", "1", "x"},
   s_res_http_minor |-> {"1", "SP", "x"}, s_req_http_minor |-> {"1", "CR", "LF", "x"},
   s_res_first_status_code |-> {"200", "204", "x"}, s_res_status_code |-> {"0", "SP", "CR", "LF"},
   s_res_status_start |-> {"CR", "x"}, s_res_status |-> {"CR", "LF"},
   s_res_line_almost_done |-> {"LF", "x"}, s_req_line_almost_done |-> {"LF", "x"}]

NameSymbols == [h_general |-> {"x"}, h_C |-> {"onn", "ont"},
  h_matching_connection |-> {"ection"}, h_matching_proxy_connection |-> {"roxy-connection"},
  h_matching_content_length |-> {"ent-length"},
  h_matching_transfer_encoding |-> {"ransfer-encoding"}, h_matching_upgrade |-> {"pgrade"},
  h_connection |-> {"x"}, h_content_length |-> {}, h_transfer_encoding |-> {}, h_upgrade |-> {}]

ValueSymbols(h) ==
  CASE h = "h_general" -> {"x"}
    [] h = "h_content_length" -> Digits \cup {"SP", "x"}
    [] h = "h_matching_connection_close" -> {"lose", "x"}
    [] h = "h_matching_connection_keep_alive" -> {"eep-alive", Comma}
    [] h = "h_matching_connection_upgrade" -> {"pgrade"}
    [] h = "h_matching_transfer_encoding_chunked" -> {"hunked", "x"}
    [] h = "h_transfer_encoding_chunked" -> {"SP", "HT", "x"}
    [] h = "h_matching_connection_token_start" -> {"c", "k", "u", Comma, "SP"}
    [] h = "h_matching_connection_token" -> {"c", "lose", Comma}
    [] OTHER -> {Comma, "SP", "HT", "x"}

ValueStartSymbols(h) ==
  CASE h = "h_connection" -> {"c", "k", "u", "x", Comma}
    [] h = "h_content_length" -> Digits \cup {"x"}
    [] h = "h_transfer_encoding" -> {"c", "x"}
    [] OTHER -> {"x"}

\* After the chunks comes one line at most.
NextLine(q) ==
  {"CR", "LF"} \cup (IF "F_TRAILING" \in q.flags /\ q.nread > 1 THEN {}
                     ELSE {"c", "t", "u", "x"})

Offered(q) ==
  CASE Failed(q) -> {}
    [] q.state = "s_start_res" -> {"H", "x"} \cup Lead(q)
    [] q.state = "s_start_req" -> {m[1] : m \in FirstMethods} \cup {"x"} \cup Lead(q)
    [] q.state = "s_dead" -> {"x"} \cup Lead(q)
    [] q.state = "s_req_method" ->
         (IF q.index = Len(q.method) THEN {"SP", "x"} ELSE {q.method[q.index + 1], "x"})
           \cup {arc[3] : arc \in {a \in MethodArcs : a[2] = q.index}}
    [] q.state = "s_req_spaces_before_url" ->
         IF q.method \in Followed THEN UrlSymbols ELSE {}
    [] q.state \in UrlStates \ {"s_req_spaces_before_url"} ->
         {"SP", "CR"} \cup (IF q.owed <= MaxRun THEN UrlSymbols ELSE {})
    [] q.state = "s_res_status" /\ q.owed < MaxOpen -> {"x", "CR", "LF"}
    [] q.state \in LineStates /\ ~(q.state = "s_res_status" /\ q.owed < MaxOpen) ->
         LineSymbols[q.state]
    [] q.state = "s_header_field_start" -> NextLine(q) \cup {Comma}
    [] q.state = "s_header_field" ->
         {":", Comma} \cup (IF q.run < MaxOpen THEN NameSymbols[q.header_state] ELSE {})
    [] q.state = "s_header_value_discard_ws" ->
         ValueStartSymbols(q.header_state) \cup {"SP", "CR"}
    [] q.state = "s_header_value" ->
         {"CR", "LF"} \cup (IF q.run >= (IF q.header_state = "h_general" THEN MaxOpen ELSE MaxRun)
                             THEN {} ELSE ValueSymbols(q.header_state))
    [] q.state \in {"s_header_value_lws", "s_header_value_discard_lws"} ->
         NextLine(q) \cup {"SP"}
    [] q.state \in {"s_chunk_size_start", "s_chunk_size"} -> Digits \cup {"CR", Semicolon, "x"}
    [] q.state = "s_chunk_parameters" -> {"x", "CR"}
    [] q.state \in ChunkStates \ {"s_chunk_size_start", "s_chunk_size", "s_chunk_parameters"} ->
         {"x", "CR", "LF"}
    [] q.state \in BodyStates -> {"x"}
    [] OTHER -> {"LF", "x"}

-----------------------------------------------------------------------------
Init ==
  /\ \E type \in Types : p = http_parser_init(type)
  /\ g = NoHistory
  /\ eof = FALSE
  /\ cuts = 0

\* A failed parser reads nothing (http_parser.c:642-645), and after an upgrade the
\* caller must not call it.
Stopped == Failed(p) \/ (g.done /\ p.upgrade) \/ eof

Read(ch) ==
  /\ ~Stopped
  /\ p.state = "s_body_identity_eof" => p.owed < MaxOpen
  /\ p' = Feed(p, ch)
  /\ g' = After(g, p, ch, p')
  /\ UNCHANGED <<eof, cuts>>

NextCall ==
  /\ ~Stopped /\ cuts < MaxCuts
  /\ cuts' = cuts + 1
  /\ p' = NextExecute(p)
  /\ g' = IF Failed(p') THEN NoHistory ELSE g
  /\ UNCHANGED eof

Eof ==
  /\ ~Stopped /\ cuts < MaxCuts
  /\ p' = LET r == NextExecute(p) IN IF Failed(r) THEN r ELSE AtEof(r)
  /\ g' = IF Failed(p') THEN NoHistory ELSE [g EXCEPT !.done = @ \/ p.state = "s_body_identity_eof"]
  /\ eof' = TRUE
  /\ cuts' = cuts + 1

Next == (\E ch \in Offered(p) : Read(ch)) \/ NextCall \/ Eof

Spec == Init /\ [][Next]_vars
-----------------------------------------------------------------------------
Flags == {"F_CHUNKED", "F_CONNECTION_KEEP_ALIVE", "F_CONNECTION_CLOSE", "F_CONNECTION_UPGRADE",
          "F_TRAILING", "F_UPGRADE"}

\* The parser's counters keep their ranges, and a state that fails is a state that is left.
TypeOK ==
  /\ p.nread \in 0 .. HTTP_MAX_HEADER_SIZE /\ p.content_length \in 0 .. ULLONG_MAX
  /\ p.http_major <= MaxVersion /\ p.http_minor <= MaxVersion /\ p.status_code <= 999
  /\ p.flags \subseteq Flags /\ p.method \in method_strings /\ p.index <= Len(p.method) + 1
  /\ p.run >= 0 /\ DOMAIN p.marks \subseteq Kinds /\ cuts \in 0 .. MaxCuts

NameStates == DOMAIN NameSymbols

\* No assertion of http_parser_execute fails: at most one piece is open (http_parser.c:2055),
\* a name has a state of names (1423) and a value one of values (1569), a chunk begins with
\* nothing counted (1922) in a message that is chunked (1923-2032), and there is a length
\* to read by where one is read (1877, 2006, 2025).
NoAssertFails ==
  /\ TypeOK
  /\ ~Failed(p) =>
       /\ Cardinality(DOMAIN p.marks) <= 1
       /\ p.state = "s_header_field" => p.header_state \in NameStates
       /\ p.state = "s_header_value" => p.header_state \notin {"h_connection", "h_transfer_encoding"}
       /\ p.state = "s_chunk_size_start" => p.nread = 0
       /\ p.state \in ChunkStates => Chunked(p)
       /\ p.state \in {"s_body_identity", "s_chunk_data"} => p.content_length \notin {0, ULLONG_MAX}
       /\ p.state = "s_chunk_data_almost_done" => p.content_length = 0

\* Nothing of a URL, a header, a status or a body is lost or given twice, wherever the text
\* is cut: what was read of it is in the piece that is open or has gone to a callback.
PiecesWhole ==
  ~Failed(p) => /\ DOMAIN p.marks = {} => p.owed = 0
                /\ \A k \in DOMAIN p.marks : p.owed = p.marks[k]

\* A length is what its digits say, never what is left of an overflow and never the one
\* that stands for no length (http_parser.c:1588-1593, 1963-1967); a body ends where its
\* length says, neither before nor after.
LengthIsExact ==
  ~Failed(p) =>
    /\ p.state \in {"s_body_identity", "s_chunk_data"} => p.content_length + g.taken = g.declared
    /\ p.state = "s_chunk_data_almost_done" => g.taken = g.declared
    /\ p.state = "s_headers_almost_done" /\ g.declared # -1 /\ "F_TRAILING" \notin p.flags
         => p.content_length = g.declared
    /\ g.done /\ ~p.upgrade => g.declared \in {-1, g.taken}

\* "Don't allow the total size of the HTTP headers (including the status line) to exceed
\* HTTP_MAX_HEADER_SIZE" (http_parser.c:144-145): a line that has been read to its end was
\* counted, though parts of it are counted when a loop over them ends, if ever, and what
\* has been counted is within the limit.
HeaderLimitKept ==
  ~Failed(p) => g.size <= p.nread + p.run /\ p.nread <= HTTP_MAX_HEADER_SIZE

FlagListed ==
  [F_CHUNKED |-> <<"c", "hunked">>, F_CONNECTION_KEEP_ALIVE |-> <<"k", "eep-alive">>,
   F_CONNECTION_CLOSE |-> <<"c", "lose">>, F_CONNECTION_UPGRADE |-> Upgrade,
   F_UPGRADE |-> Upgrade \o <<"x">>]

\* Where no line is being read, the flags are those the headers list: no flag is set for
\* what is not listed, one that only begins like it included, and what is listed in a place
\* the parser still follows (see ValueRead) sets its flag wherever it stands in the list, and
\* in whatever header.  What comes after such a place, in the same header, may lose its flag
\* (http_parser.c:1590-1686).
FlagsAsListed ==
  ~Failed(p) /\ p.state \in {"s_header_field", "s_headers_almost_done"} \cup BodyStates
    => \A f \in DOMAIN FlagListed :
         /\ f \in p.flags => FlagListed[f] \in g.listed
         /\ FlagListed[f] \in g.plain => f \in p.flags

\* A connection is read on after a message only if both sides see where the message ended,
\* with HTTP/1.0 only if keep-alive was listed, and with HTTP/1.1 only if no list has a close
\* where the parser still follows the list.  A close that the parser does not see is no
\* obstacle: with a tab behind it, or in a list that goes on in the next line, the code does
\* read on (http_parser.c:1629-1686).  The chunks of an answer that changes the protocol are
\* not read.
ReuseIsAgreed ==
  ~Failed(p) /\ g.done /\ p.state \in Starts =>
    /\ IF p.http_major >= 1 /\ p.http_minor >= 1 THEN <<"c", "lose">> \notin g.plain
       ELSE <<"k", "eep-alive">> \in g.listed
    /\ p.type = "HTTP_RESPONSE" =>
         \/ g.declared # -1
         \/ p.upgrade /\ <<"c", "hunked">> \in g.listed
         \/ p.status_code \in 100 .. 199 \cup {204, 304}
=============================================================================
