-------------------------- MODULE HttpParserProofs --------------------------
(***************************************************************************)
(* Proofs about http_parser_execute, for every limit on headers, every largest *)
(* number and every text, cut anywhere: no assertion fails, no piece of the     *)
(* text is lost or given twice, what is read of a header is counted, and at the *)
(* end of the headers the length, the flags and the reuse of the connection are *)
(* what the text read so far says.                                              *)
(***************************************************************************)
EXTENDS HttpParser, FiniteSetTheorems, TLAPS

-----------------------------------------------------------------------------
(* The inductive invariant *)

Parts == {"type", "state", "header_state", "flags", "index", "nread", "content_length",
          "http_major", "http_minor", "status_code", "method", "upgrade", "http_errno",
          "run", "marks", "owed"}

\* A parser, failed or not.
Shape(q) ==
  /\ DOMAIN q = Parts
  /\ q.nread \in 0 .. HTTP_MAX_HEADER_SIZE /\ q.content_length \in 0 .. ULLONG_MAX
  /\ q.http_major \in 0 .. MaxVersion /\ q.http_minor \in 0 .. MaxVersion
  /\ q.status_code \in 0 .. 999
  /\ q.flags \subseteq Flags /\ q.method \in method_strings
  /\ q.index \in Nat /\ q.index <= Len(q.method) + 1
  /\ q.run \in Nat /\ q.owed \in Int /\ DOMAIN q.marks \subseteq Kinds

HeaderStates ==
  {"s_header_field_start", "s_header_field", "s_header_value_discard_ws",
   "s_header_value_discard_ws_almost_done", "s_header_value_discard_lws", "s_header_value",
   "s_header_almost_done", "s_header_value_lws", "s_headers_almost_done"}

HeadStates == {"s_req_method"} \cup UrlStates \cup LineStates \cup HeaderStates
SizeStates == {"s_chunk_size", "s_chunk_parameters", "s_chunk_size_almost_done"}
MayHoldBody == BodyStates \cup {"s_chunk_data_almost_done"}
States == {"s_dead"} \cup Starts \cup HeadStates \cup ChunkStates \cup BodyStates

\* The piece that is open, and a body between its first symbol and its end.
Opened(q) ==
  /\ Reopened(q) \subseteq DOMAIN q.marks
  /\ DOMAIN q.marks \subseteq Reopened(q) \cup (IF q.state \in MayHoldBody THEN {"body"} ELSE {})

\* What the assertions of http_parser_execute rest on.
Sane(q) ==
  /\ q.state \in States
  /\ Opened(q)
  /\ q.run > 0 => q.state \in {"s_header_field", "s_header_value"}
  /\ q.state = "s_req_method" => q.index <= Len(q.method)
  /\ q.state = "s_header_field" => q.header_state \in NameStates
  /\ q.state = "s_header_value" => q.header_state \notin {"h_connection", "h_transfer_encoding"}
  /\ q.state \in ChunkStates => Chunked(q)
  /\ q.state \in SizeStates => q.content_length < ULLONG_MAX
  /\ q.state \in {"s_body_identity", "s_chunk_data"} => q.content_length \notin {0, ULLONG_MAX}
  /\ q.state = "s_chunk_data_almost_done" => q.content_length = 0

\* Nothing has been counted where a chunk begins.
Unread(q) == q.state = "s_chunk_size_start" => q.nread = 0

Whole(q) ==
  /\ DOMAIN q.marks = {} => q.owed = 0
  /\ \A k \in DOMAIN q.marks : q.owed = q.marks[k]

\* In a loop over a name or a value one symbol was counted twice, its first.
Sized(q, h) == h.size <= q.nread + q.run /\ (q.run > 0 => h.size < q.nread + q.run)

Remembered == {"size", "name", "el", "odd", "listed", "plain", "declared", "taken", "done"}

History(h) == DOMAIN h = Remembered /\ h.size \in Nat

Kept(q, h) ==
  /\ Shape(q) /\ History(h)
  /\ ~Failed(q) => Sane(q) /\ Whole(q) /\ Unread(q) /\ Sized(q, h)

IInv == Kept(p, g) /\ cuts \in 0 .. MaxCuts

-----------------------------------------------------------------------------
(* Tables *)

LEMMA UrlStatesAre ==
  UrlStates = {"s_req_spaces_before_url", "s_req_schema", "s_req_schema_slash",
               "s_req_schema_slash_slash", "s_req_server_start", "s_req_server",
               "s_req_server_with_at", "s_req_path", "s_req_query_string_start",
               "s_req_query_string", "s_req_fragment_start", "s_req_fragment"}
BY DEF UrlStates, UrlArcs

LEMMA LineStatesAre ==
  LineStates = {"s_res_H", "s_res_first_http_major", "s_res_http_major",
                "s_res_first_http_minor", "s_res_http_minor", "s_res_first_status_code",
                "s_res_status_code", "s_res_status_start", "s_res_status",
                "s_res_line_almost_done", "s_req_http_start", "s_req_http_H",
                "s_req_first_http_major", "s_req_http_major", "s_req_first_http_minor",
                "s_req_http_minor", "s_req_line_almost_done"}
BY DEF LineStates, LineArcs, ResLineArcs, ReqLineArcs

LEMMA ChunkStatesAre ==
  ChunkStates = {"s_chunk_size_start", "s_chunk_size", "s_chunk_parameters",
                 "s_chunk_size_almost_done", "s_chunk_data", "s_chunk_data_almost_done",
                 "s_chunk_data_done"}
BY DEF ChunkStates, ChunkArcs

\* A table leads along one of its arcs, or says that it has none.
LEMMA Arc ==
  ASSUME NEW arcs, NEW s, NEW ch, NEW dead
  PROVE  \/ Follow(arcs, s, ch, dead) = dead /\ \A arc \in arcs : s \notin arc[1] \/ ch \notin arc[2]
         \/ \E arc \in arcs : s \in arc[1] /\ ch \in arc[2] /\ Follow(arcs, s, ch, dead) = arc[3]
BY DEF Follow

LEMMA UrlArc ==
  ASSUME NEW s \in UrlStates, NEW ch
  PROVE  parse_url_char(s, ch) \in (UrlStates \ {"s_req_spaces_before_url"}) \cup {"s_dead"}
<1> DEFINE r == Follow(UrlArcs, s, ch, "s_dead")
<1>1. r = "s_dead" \/ \E arc \in UrlArcs : r = arc[3]
  BY Arc
<1>2. r \in (UrlStates \ {"s_req_spaces_before_url"}) \cup {"s_dead"}
  BY <1>1, UrlStatesAre DEF UrlArcs
<1>3. ch \in UrlAlphabet => UrlTable[s][ch] = r
  BY DEF UrlTable
<1>4. parse_url_char(s, ch) \in {r, "s_dead"}
  BY <1>3 DEF parse_url_char
<1> QED BY <1>2, <1>4

LEMMA LineArc ==
  ASSUME NEW s \in LineStates, NEW ch, NEW r, r = Follow(LineArcs, s, ch, "s_dead"), r # "s_dead"
  PROVE  /\ r \in LineStates \cup {"s_header_field_start"}
         /\ r = "s_res_status" => s \in {"s_res_status_start", "s_res_status"}
<1>1. \E arc \in LineArcs : s \in arc[1] /\ r = arc[3]
  BY Arc
<1>2. CASE \E arc \in ResLineArcs : s \in arc[1] /\ r = arc[3]
  BY <1>2, LineStatesAre DEF ResLineArcs
<1>3. CASE \E arc \in ReqLineArcs : s \in arc[1] /\ r = arc[3]
  BY <1>3, LineStatesAre DEF ReqLineArcs
<1> QED BY <1>1, <1>2, <1>3 DEF LineArcs

LEMMA FirstNameArc ==
  ASSUME NEW ch
  PROVE  Follow(FirstNameArcs, "h_general", ch, "h_general") \in NameStates
<1>1. \/ Follow(FirstNameArcs, "h_general", ch, "h_general") = "h_general"
      \/ \E arc \in FirstNameArcs : Follow(FirstNameArcs, "h_general", ch, "h_general") = arc[3]
  BY Arc
<1> QED BY <1>1 DEF FirstNameArcs, NameStates, NameSymbols

LEMMA NameArc ==
  ASSUME NEW s, NEW ch
  PROVE  Follow(NameArcs, s, ch, "h_general") \in NameStates
<1>1. \/ Follow(NameArcs, s, ch, "h_general") = "h_general"
      \/ \E arc \in NameArcs : Follow(NameArcs, s, ch, "h_general") = arc[3]
  BY Arc
<1> QED BY <1>1 DEF NameArcs, NameStates, NameSymbols

NotInValues == {"h_connection", "h_transfer_encoding"}

LEMMA ValueStartArc ==
  ASSUME NEW s, NEW ch, NEW r, r = ValueStarts(s, ch)
  PROVE  /\ r \notin NotInValues
         /\ r = "h_content_length" => s = "h_content_length"
<1>1. \/ r \in {"h_general", "h_matching_connection_token"}
      \/ \E arc \in ValueStartArcs : s \in arc[1] /\ r = arc[3]
  BY Arc DEF ValueStarts
<1> QED BY <1>1 DEF ValueStartArcs, NotInValues

LEMMA ValueArc ==
  ASSUME NEW s, NEW ch, NEW r, r = ValueGoesOn(s, ch)
  PROVE  /\ r \notin NotInValues
         /\ r = "h_content_length" => s = "h_content_length"
<1>1. Unmatched(s, ch) \in {"h_general", "h_matching_connection_token"}
  BY DEF Unmatched
<1>2. r = Unmatched(s, ch) \/ \E arc \in ValueArcs : s \in arc[1] /\ r = arc[3]
  BY Arc DEF ValueGoesOn
<1> QED BY <1>1, <1>2 DEF ValueArcs, NotInValues, Matched

LEMMA ChunkArc ==
  ASSUME NEW s \in ChunkStates, NEW ch, NEW r, r = Follow(ChunkArcs, s, ch, "s_dead"),
         r # "s_dead"
  PROVE  /\ r \in ChunkStates
         /\ r = "s_chunk_size" => ch \in Hex /\ s \in {"s_chunk_size_start", "s_chunk_size"}
         /\ s \in {"s_chunk_size_start"} => r = "s_chunk_size"
         /\ s = "s_chunk_size" =>
              r \in {"s_chunk_size", "s_chunk_size_almost_done", "s_chunk_parameters"}
         /\ s = "s_chunk_parameters" => r \in {"s_chunk_size_almost_done", "s_chunk_parameters"}
         /\ s = "s_chunk_size_almost_done" => r = "s_chunk_data"
         /\ s = "s_chunk_data" => r = "s_chunk_data"
         /\ s = "s_chunk_data_almost_done" => r = "s_chunk_data_done"
         /\ s = "s_chunk_data_done" => r = "s_chunk_size_start"
<1>1. \E arc \in ChunkArcs : s \in arc[1] /\ ch \in arc[2] /\ r = arc[3]
  BY Arc
<1> QED BY <1>1, ChunkStatesAre DEF ChunkArcs

LEMMA Values ==
  /\ \A ch \in Hex : Val[ch] \in 0 .. 12
  /\ \A ch \in Digits : Val[ch] \in 0 .. 3
  /\ DOMAIN Val = Hex \cup Numerals /\ \A ch \in DOMAIN Val : Val[ch] \in Nat
BY DEF Val, Hex, Digits, Numerals

LEMMA MethodLengths ==
  /\ Len(DELETE) = 6
  /\ Len(GET) = 3
  /\ Len(HEAD) = 4
  /\ Len(POST) = 4
  /\ Len(PUT) = 3
  /\ Len(CONNECT) = 7
  /\ Len(OPTIONS) = 7
  /\ Len(TRACE) = 5
  /\ Len(COPY) = 4
  /\ Len(LOCK) = 4
  /\ Len(MKCOL) = 5
  /\ Len(MOVE) = 4
  /\ Len(PROPFIND) = 8
  /\ Len(PROPPATCH) = 9
  /\ Len(SEARCH) = 6
  /\ Len(UNLOCK) = 6
  /\ Len(REPORT) = 6
  /\ Len(MKACTIVITY) = 10
  /\ Len(CHECKOUT) = 8
  /\ Len(MERGE) = 5
  /\ Len(MSEARCH) = 8
  /\ Len(NOTIFY) = 6
  /\ Len(SUBSCRIBE) = 9
  /\ Len(UNSUBSCRIBE) = 11
  /\ Len(PATCH) = 5
  /\ Len(PURGE) = 5
  /\ Len(MKCALENDAR) = 10
BY DEF DELETE, GET, HEAD, POST, PUT, CONNECT, OPTIONS, TRACE, COPY, LOCK, MKCOL, MOVE,
       PROPFIND, PROPPATCH, SEARCH, UNLOCK, REPORT, MKACTIVITY, CHECKOUT, MERGE, MSEARCH,
       NOTIFY, SUBSCRIBE, UNSUBSCRIBE, PATCH, PURGE, MKCALENDAR

LEMMA SomeLetters == ASSUME NEW m \in method_strings PROVE Len(m) \in Nat /\ Len(m) >= 3
<1>1. \A n \in 3 .. 11 : n \in Nat /\ n >= 3
  OBVIOUS
<1>2. Len(m) \in 3 .. 11
  BY MethodLengths DEF method_strings
<1> QED BY <1>1, <1>2

-----------------------------------------------------------------------------
(* What the parts of a handler do *)

\* r is q but for these parts.
But(q, r, S) == DOMAIN r = Parts /\ \A f \in Parts \ S : r[f] = q[f]

LEMMA ButParts ==
  ASSUME NEW q, NEW r, NEW S, But(q, r, S)
  PROVE  /\ "type" \notin S => r.type = q.type
         /\ "state" \notin S => r.state = q.state
         /\ "header_state" \notin S => r.header_state = q.header_state
         /\ "flags" \notin S => r.flags = q.flags
         /\ "index" \notin S => r.index = q.index
         /\ "nread" \notin S => r.nread = q.nread
         /\ "content_length" \notin S => r.content_length = q.content_length
         /\ "http_major" \notin S => r.http_major = q.http_major
         /\ "http_minor" \notin S => r.http_minor = q.http_minor
         /\ "status_code" \notin S => r.status_code = q.status_code
         /\ "method" \notin S => r.method = q.method
         /\ "upgrade" \notin S => r.upgrade = q.upgrade
         /\ "http_errno" \notin S => r.http_errno = q.http_errno
         /\ "run" \notin S => r.run = q.run
         /\ "marks" \notin S => r.marks = q.marks
         /\ "owed" \notin S => r.owed = q.owed
BY DEF But, Parts

LEMMA Failing ==
  ASSUME NEW q, Shape(q), NEW errno, errno # "HPE_OK", NEW r, r = Fail(q, errno)
  PROVE  /\ Shape(r) /\ Failed(r)
         /\ DOMAIN r.marks = {} /\ r.run = 0 /\ r.owed = 0
<1> DEFINE i == http_parser_init(q.type)
<1>1. i.method = DELETE /\ Len(DELETE) = 6 /\ DELETE \in method_strings
  BY MethodLengths DEF http_parser_init, method_strings
<1>2. /\ r.method = i.method /\ r.http_errno = errno /\ DOMAIN r = Parts
      /\ r.nread = 0 /\ r.content_length = 0 /\ r.http_major = 0 /\ r.http_minor = 0
      /\ r.status_code = 0 /\ r.flags = {} /\ r.index = 0 /\ r.run = 0 /\ r.owed = 0
      /\ r.marks = <<>>
  BY DEF Fail, http_parser_init, Parts
<1> QED BY <1>1, <1>2, HttpParserConstants DEF Shape, Failed

LEMMA Counting ==
  ASSUME NEW q, Shape(q), ~Failed(q), NEW n \in Int, q.nread + n >= 0, NEW r, r = Count(q, n)
  PROVE  /\ Shape(r)
         /\ ~Failed(r) => But(q, r, {"nread"}) /\ r.nread = q.nread + n
         /\ Failed(r) => DOMAIN r.marks = {} /\ r.run = 0 /\ r.owed = 0
<1>1. CASE q.nread + n > HTTP_MAX_HEADER_SIZE
  BY <1>1, Failing DEF Count
<1>2. CASE q.nread + n <= HTTP_MAX_HEADER_SIZE
  <2>1. r = [q EXCEPT !.nread = @ + n]
    BY <1>2, HttpParserConstants DEF Count, Shape
  <2>2. q.nread + n \in 0 .. HTTP_MAX_HEADER_SIZE
    BY <1>2, HttpParserConstants DEF Shape
  <2>3. ~Failed(r)
    BY SMTT(30), <2>1 DEF Failed, Shape, Parts
  <2> QED BY SMTT(30), <2>1, <2>2, <2>3 DEF Shape, But, Parts
<1>3. q.nread + n \in Int /\ HTTP_MAX_HEADER_SIZE \in Int
  BY HttpParserConstants DEF Shape
<1>4. q.nread + n > HTTP_MAX_HEADER_SIZE \/ q.nread + n <= HTTP_MAX_HEADER_SIZE
  BY <1>3
<1> QED BY <1>1, <1>2, <1>4

LEMMA Moving ==
  ASSUME NEW q, Shape(q), NEW s, NEW r, r = To(q, s)
  PROVE  Shape(r) /\ But(q, r, {"state"}) /\ r.state = s
BY SMTT(30) DEF To, Shape, But, Parts

LEMMA Marking ==
  ASSUME NEW q, Shape(q), NEW k \in Kinds, NEW r, r = Mark(q, k)
  PROVE  /\ Shape(r) /\ But(q, r, {"marks"})
         /\ DOMAIN r.marks = DOMAIN q.marks \cup {k}
         /\ \A j \in DOMAIN r.marks : r.marks[j] = IF j \in DOMAIN q.marks THEN q.marks[j] ELSE 0
BY SMTT(30) DEF Mark, Shape, But, Parts

LEMMA Delivering ==
  ASSUME NEW q, Shape(q), Whole(q), NEW k, NEW last \in Int, NEW r, r = Deliver(q, k, last)
  PROVE  /\ Shape(r) /\ But(q, r, {"marks", "owed"})
         /\ DOMAIN r.marks = DOMAIN q.marks \ {k}
         /\ r.owed = IF k \in DOMAIN q.marks THEN 0 - last ELSE q.owed
         /\ \A j \in DOMAIN r.marks : r.marks[j] = q.marks[j]
<1>1. CASE k \in DOMAIN q.marks
  <2>1. q.owed - q.marks[k] - last = 0 - last
    BY <1>1 DEF Whole, Shape
  <2>2. r = [q EXCEPT !.owed = @ - q.marks[k] - last, !.marks = [j \in DOMAIN @ \ {k} |-> @[j]]]
    BY <1>1 DEF Deliver
  <2>3. But(q, r, {"marks", "owed"}) /\ r.owed = 0 - last
    BY ZenonT(30), <2>1, <2>2 DEF Shape, But, Parts
  <2>4. r.marks = [j \in DOMAIN q.marks \ {k} |-> q.marks[j]]
    BY SMTT(30), <2>2 DEF Shape, Parts
  <2>5. Shape(r)
    <3>1. DOMAIN r = Parts /\ 0 - last \in Int /\ DOMAIN r.marks \subseteq Kinds
      BY SMTT(30), <2>3, <2>4 DEF But, Shape
    <3>2. /\ r.nread = q.nread /\ r.content_length = q.content_length
          /\ r.http_major = q.http_major /\ r.http_minor = q.http_minor
          /\ r.status_code = q.status_code /\ r.flags = q.flags /\ r.method = q.method
          /\ r.index = q.index /\ r.run = q.run
      BY <2>3 DEF But, Parts
    <3> QED BY <2>3, <3>1, <3>2 DEF Shape
  <2> QED BY <1>1, <2>3, <2>4, <2>5
<1>2. CASE k \notin DOMAIN q.marks
  BY SMTT(30), <1>2 DEF Deliver, Shape, But, Parts
<1> QED BY <1>1, <1>2

LEMMA DeliveringAll ==
  ASSUME NEW q, Shape(q), Whole(q), NEW k, DOMAIN q.marks = {k}, NEW r, r = Deliver(q, k, 0)
  PROVE  Shape(r) /\ But(q, r, {"marks", "owed"}) /\ DOMAIN r.marks = {} /\ r.owed = 0
BY Delivering

Measured(q, c) == [q EXCEPT !.content_length = c]

LEMMA Measuring ==
  ASSUME NEW q, Shape(q), NEW c \in 0 .. ULLONG_MAX, NEW r, r = Measured(q, c)
  PROVE  Shape(r) /\ But(q, r, {"content_length"}) /\ r.content_length = c
BY SMTT(30) DEF Measured, Shape, But, Parts

LEMMA Ending ==
  ASSUME NEW q, Shape(q), NEW r, r = NewMessage(q)
  PROVE  Shape(r) /\ But(q, r, {"state"}) /\ r.state \in Starts \cup {"s_dead"}
BY Moving DEF NewMessage, start_state, Starts

-----------------------------------------------------------------------------
(* One symbol keeps the parser sane *)

\* States in which no piece is open.
QuietHead == {"s_req_spaces_before_url"} \cup (LineStates \ {"s_res_status"})
               \cup (HeaderStates \ {"s_header_field", "s_header_value"})
Quiet == {"s_dead"} \cup Starts \cup QuietHead

UrlOpen == UrlStates \ {"s_req_spaces_before_url"}

\* What a handler is given, and what it makes of it: a piece is open just as long as its
\* symbols are read, and what is read of a header is counted, the first symbol of a loop
\* twice, unless the count ends here.
Fit(q) == Shape(q) /\ ~Failed(q) /\ Sane(q) /\ Whole(q)

Pieced(q, r) ==
  IF q.state \in BodyStates
  THEN IF DOMAIN r.marks = {} THEN r.owed = -1 ELSE Whole(r)
  ELSE Whole(r) /\ (r.state \in Pieces \/ DOMAIN r.marks = {})

Forgets(q, r) ==
  \/ ~PARSING_HEADER(r.state) \/ q.state = "s_chunk_size_almost_done"
  \/ r.state \in Starts \cup {"s_dead", "s_chunk_size_start"}

Counted(q, r) ==
  Forgets(q, r) \/ r.nread + r.run >= q.nread + q.run + (IF r.run > 0 THEN 1 ELSE 0)

Good(q, r) ==
  /\ Shape(r)
  /\ ~Failed(r) => Sane(r) /\ Unread(r) /\ Pieced(q, r) /\ Counted(q, r)

LEMMA IsQuiet ==
  ASSUME NEW r, r.state \in Quiet, r.run = 0, DOMAIN r.marks = {}
  PROVE  Sane(r) /\ Unread(r)
<1>1. /\ r.state \in States /\ r.state \notin ChunkStates /\ r.state \notin BodyStates
      /\ r.state \notin {"s_req_method", "s_header_field", "s_header_value", "s_res_status"}
      /\ r.state \notin UrlOpen
  BY UrlStatesAre, LineStatesAre, ChunkStatesAre
     DEF Quiet, QuietHead, States, HeadStates, HeaderStates, UrlOpen, Starts, BodyStates
<1>2. Reopened(r) = {}
  BY <1>1 DEF Reopened, UrlOpen
<1> QED BY <1>1, <1>2, ChunkStatesAre DEF Sane, Unread, Opened, SizeStates, BodyStates

LEMMA QuietIs ==
  ASSUME NEW q, Fit(q), q.state \in Quiet
  PROVE  q.run = 0 /\ DOMAIN q.marks = {} /\ q.owed = 0 /\ q.state \notin BodyStates
<1>1. /\ q.state \notin MayHoldBody
      /\ q.state \notin {"s_req_method", "s_header_field", "s_header_value", "s_res_status"}
      /\ q.state \notin UrlOpen
  BY UrlStatesAre, LineStatesAre, ChunkStatesAre
     DEF Quiet, QuietHead, States, HeadStates, HeaderStates, UrlOpen, Starts, BodyStates, MayHoldBody
<1>2. Reopened(q) = {}
  BY <1>1 DEF Reopened, UrlOpen
<1> QED BY <1>1, <1>2 DEF Fit, Sane, Opened, Whole, MayHoldBody, Shape

LEMMA IsUrl ==
  ASSUME NEW r, r.state \in UrlOpen, r.run = 0, DOMAIN r.marks = {"url"}
  PROVE  Sane(r) /\ Unread(r)
<1>1. /\ r.state \in States /\ r.state \notin ChunkStates /\ r.state \notin BodyStates
      /\ r.state \notin {"s_req_method", "s_header_field", "s_header_value", "s_res_status"}
  BY UrlStatesAre, LineStatesAre, ChunkStatesAre
     DEF States, HeadStates, HeaderStates, UrlOpen, Starts, BodyStates
<1>2. Reopened(r) = {"url"}
  BY <1>1 DEF Reopened, UrlOpen
<1> QED BY <1>1, <1>2, ChunkStatesAre DEF Sane, Unread, Opened, SizeStates, BodyStates

LEMMA UrlIs ==
  ASSUME NEW q, Fit(q), q.state \in UrlOpen
  PROVE  /\ q.run = 0 /\ DOMAIN q.marks = {"url"} /\ q.owed = q.marks["url"]
         /\ q.state \notin BodyStates /\ q.state \in Pieces
<1>1. /\ q.state \notin MayHoldBody
      /\ q.state \notin {"s_req_method", "s_header_field", "s_header_value", "s_res_status"}
  BY UrlStatesAre, LineStatesAre, ChunkStatesAre
     DEF States, HeadStates, HeaderStates, UrlOpen, Starts, BodyStates, MayHoldBody
<1>2. Reopened(q) = {"url"}
  BY <1>1 DEF Reopened, UrlOpen
<1> QED BY <1>1, <1>2 DEF Fit, Sane, Opened, Whole, MayHoldBody, Shape, Pieces, UrlOpen

LEMMA IsStatus ==
  ASSUME NEW r, r.state = "s_res_status", r.run = 0, DOMAIN r.marks = {"status"}
  PROVE  Sane(r) /\ Unread(r)
<1>1. r.state \in States /\ r.state \notin ChunkStates /\ r.state \notin BodyStates
  BY UrlStatesAre, LineStatesAre, ChunkStatesAre
     DEF States, HeadStates, HeaderStates, UrlOpen, Starts, BodyStates
<1>2. Reopened(r) = {"status"}
  BY UrlStatesAre DEF Reopened
<1> QED BY <1>1, <1>2, ChunkStatesAre DEF Sane, Unread, Opened, SizeStates, BodyStates

LEMMA StatusIs ==
  ASSUME NEW q, Fit(q), q.state = "s_res_status"
  PROVE  q.run = 0 /\ DOMAIN q.marks = {"status"} /\ q.owed = q.marks["status"]
<1>1. Reopened(q) = {"status"}
  BY UrlStatesAre DEF Reopened
<1> QED BY <1>1 DEF Fit, Sane, Opened, Whole, MayHoldBody, Shape, BodyStates

LEMMA IsField ==
  ASSUME NEW r, r.state = "s_header_field", DOMAIN r.marks = {"field"},
         r.header_state \in NameStates
  PROVE  Sane(r) /\ Unread(r)
<1>1. r.state \in States /\ r.state \notin ChunkStates /\ r.state \notin BodyStates
  BY UrlStatesAre, LineStatesAre, ChunkStatesAre
     DEF States, HeadStates, HeaderStates, UrlOpen, Starts, BodyStates
<1>2. Reopened(r) = {"field"}
  BY UrlStatesAre DEF Reopened
<1> QED BY <1>1, <1>2, ChunkStatesAre DEF Sane, Unread, Opened, SizeStates, BodyStates

LEMMA FieldIs ==
  ASSUME NEW q, Fit(q), q.state = "s_header_field"
  PROVE  /\ DOMAIN q.marks = {"field"} /\ q.owed = q.marks["field"] /\ q.run \in Nat
         /\ q.header_state \in NameStates
<1>1. Reopened(q) = {"field"}
  BY UrlStatesAre DEF Reopened
<1> QED BY <1>1 DEF Fit, Sane, Opened, Whole, MayHoldBody, Shape, BodyStates

LEMMA IsValue ==
  ASSUME NEW r, r.state = "s_header_value", DOMAIN r.marks = {"value"},
         r.header_state \notin NotInValues
  PROVE  Sane(r) /\ Unread(r)
<1>1. r.state \in States /\ r.state \notin ChunkStates /\ r.state \notin BodyStates
  BY UrlStatesAre, LineStatesAre, ChunkStatesAre
     DEF States, HeadStates, HeaderStates, UrlOpen, Starts, BodyStates
<1>2. Reopened(r) = {"value"}
  BY UrlStatesAre DEF Reopened
<1> QED BY <1>1, <1>2, ChunkStatesAre DEF Sane, Unread, Opened, SizeStates, BodyStates, NotInValues

LEMMA ValueIs ==
  ASSUME NEW q, Fit(q), q.state = "s_header_value"
  PROVE  /\ DOMAIN q.marks = {"value"} /\ q.owed = q.marks["value"] /\ q.run \in Nat
         /\ q.header_state \notin NotInValues
<1>1. Reopened(q) = {"value"}
  BY UrlStatesAre DEF Reopened
<1> QED BY <1>1 DEF Fit, Sane, Opened, Whole, MayHoldBody, Shape, BodyStates, NotInValues

\* From a state that is no body's to one without a piece.
LEMMA ToQuiet ==
  ASSUME NEW q, Shape(q), q.state \notin BodyStates, NEW r, Shape(r), r.state \in Quiet,
         r.run = 0, DOMAIN r.marks = {}, r.owed = 0, q.run = 0, r.nread \in Nat,
         q.nread \in Nat, r.nread >= q.nread
  PROVE  Good(q, r)
<1>1. Sane(r) /\ Unread(r)
  BY IsQuiet
<1>2. Pieced(q, r) /\ Counted(q, r)
  BY DEF Pieced, Counted, Whole, Shape
<1> QED BY <1>1, <1>2 DEF Good

LEMMA ToQuietAtOnce ==
  ASSUME NEW q, Shape(q), q.state \notin BodyStates, NEW r, Shape(r), r.state \in Quiet,
         r.run = 0, DOMAIN r.marks = {}, r.owed = 0, q.run = 0, r.nread = q.nread
  PROVE  Good(q, r)
<1>1. r.nread \in Nat /\ q.nread \in Nat /\ r.nread >= q.nread
  BY DEF Shape
<1> QED BY <1>1, ToQuiet

LEMMA MoveToQuiet ==
  ASSUME NEW q, Shape(q), q.state \notin BodyStates, q.run = 0, DOMAIN q.marks = {},
         q.owed = 0, NEW s \in Quiet, NEW r, r = To(q, s)
  PROVE  Good(q, r)
<1>1. Shape(r) /\ But(q, r, {"state"}) /\ r.state = s
  BY Moving
<1>2. r.run = 0 /\ r.marks = q.marks /\ r.owed = 0 /\ r.nread = q.nread
  BY <1>1, ButParts
<1> QED BY <1>1, <1>2, ToQuietAtOnce

LEMMA AtDead ==
  ASSUME NEW q, Fit(q), q.state = "s_dead", NEW ch, NEW r, r = Dead(q, ch)
  PROVE  Good(q, r)
<1>1. CASE r = q
  <2>1. q.state \in Quiet
    BY DEF Quiet
  <2> QED BY <1>1, <2>1, QuietIs, ToQuietAtOnce DEF Fit
<1>2. CASE r # q
  BY <1>2, Failing DEF Dead, Good, Fit
<1> QED BY <1>1, <1>2

LEMMA Resetting ==
  ASSUME NEW q, Shape(q), NEW r, r = Reset(q)
  PROVE  /\ Shape(r) /\ But(q, r, {"flags", "content_length"})
         /\ r.flags = {} /\ r.content_length = ULLONG_MAX
<1>1. ULLONG_MAX \in 0 .. ULLONG_MAX
  BY HttpParserConstants
<1>2. DOMAIN r = Parts /\ r.flags = {} /\ r.content_length = ULLONG_MAX
  BY SMTT(30) DEF Reset, Shape, Parts
<1>3. But(q, r, {"flags", "content_length"})
  BY ZenonT(30) DEF Reset, Shape, But, Parts
<1>4. Shape(r)
  BY SMTT(30), <1>1, <1>2 DEF Reset, Shape, Parts
<1> QED BY <1>2, <1>3, <1>4

LEMMA AtStartRes ==
  ASSUME NEW q, Fit(q), q.state = "s_start_res", NEW ch, NEW r, r = StartRes(q, ch)
  PROVE  Good(q, r)
<1> DEFINE z == Reset(q)
<1>1. q.state \in Quiet /\ "s_res_H" \in Quiet
  BY LineStatesAre DEF Quiet, Starts, QuietHead
<1>2. q.run = 0 /\ DOMAIN q.marks = {} /\ q.owed = 0 /\ q.state \notin BodyStates /\ Shape(q)
  BY <1>1, QuietIs DEF Fit
<1>3. Shape(z) /\ But(q, z, {"flags", "content_length"})
  BY <1>2, Resetting
<1>4. z.run = 0 /\ z.marks = q.marks /\ z.owed = 0 /\ z.nread = q.nread /\ z.state = q.state
  BY <1>2, <1>3, ButParts
<1>5. CASE ch = "H"
  <2>1. r = To(z, "s_res_H")
    BY <1>5 DEF StartRes
  <2>2. Shape(r) /\ But(z, r, {"state"}) /\ r.state = "s_res_H"
    BY <1>3, <2>1, Moving
  <2>3. r.run = 0 /\ r.marks = z.marks /\ r.owed = 0 /\ r.nread = q.nread
    BY <1>4, <2>2, ButParts
  <2> QED BY <1>1, <1>2, <1>4, <2>2, <2>3, ToQuietAtOnce
<1>6. CASE ch # "H" /\ ch \in Ends
  <2>1. r = z
    BY <1>6 DEF StartRes
  <2> QED BY <1>1, <1>2, <1>3, <1>4, <2>1, ToQuietAtOnce
<1>7. CASE ch # "H" /\ ch \notin Ends
  BY <1>2, <1>7, Failing DEF StartRes, Good
<1> QED BY <1>5, <1>6, <1>7

LEMMA IsMethod ==
  ASSUME NEW r, r.state = "s_req_method", r.run = 0, DOMAIN r.marks = {},
         r.index <= Len(r.method)
  PROVE  Sane(r) /\ Unread(r)
<1>1. r.state \in States /\ r.state \notin ChunkStates /\ r.state \notin BodyStates
  BY UrlStatesAre, LineStatesAre, ChunkStatesAre
     DEF States, HeadStates, HeaderStates, UrlOpen, Starts, BodyStates
<1>2. Reopened(r) = {}
  BY UrlStatesAre DEF Reopened
<1> QED BY <1>1, <1>2, ChunkStatesAre DEF Sane, Unread, Opened, SizeStates, BodyStates

LEMMA MethodIs ==
  ASSUME NEW q, Fit(q), q.state = "s_req_method"
  PROVE  /\ q.run = 0 /\ DOMAIN q.marks = {} /\ q.owed = 0 /\ q.state \notin BodyStates
         /\ q.index \in Nat /\ q.index <= Len(q.method) /\ q.method \in method_strings
<1>1. Reopened(q) = {}
  BY UrlStatesAre DEF Reopened
<1> QED BY <1>1 DEF Fit, Sane, Opened, Whole, MayHoldBody, Shape, BodyStates

LEMMA FirstMethod ==
  ASSUME NEW m \in FirstMethods
  PROVE  m \in method_strings
BY DEF FirstMethods, method_strings

LEMMA AtStartReq ==
  ASSUME NEW q, Fit(q), q.state = "s_start_req", NEW ch, NEW r, r = StartReq(q, ch)
  PROVE  Good(q, r)
<1> DEFINE z == Reset(q)
           methods == {m \in FirstMethods : m[1] = ch}
<1>1. q.state \in Quiet
  BY DEF Quiet, Starts
<1>2. q.run = 0 /\ DOMAIN q.marks = {} /\ q.owed = 0 /\ q.state \notin BodyStates /\ Shape(q)
  BY <1>1, QuietIs DEF Fit
<1>3. Shape(z) /\ But(q, z, {"flags", "content_length"})
  BY <1>2, Resetting
<1>4. z.run = 0 /\ z.marks = q.marks /\ z.owed = 0 /\ z.nread = q.nread /\ z.state = q.state
  BY <1>2, <1>3, ButParts
<1>5. CASE ch \in Ends
  BY <1>1, <1>2, <1>5, ToQuietAtOnce DEF StartReq
<1>6. CASE ch \notin Ends /\ methods = {}
  BY <1>3, <1>6, Failing DEF StartReq, Good
<1>7. CASE ch \notin Ends /\ methods # {}
  <2>1. PICK m : m = CHOOSE x \in methods : TRUE
    OBVIOUS
  <2>2. m \in method_strings
    BY <1>7, <2>1, FirstMethod
  <2>3. r = [z EXCEPT !.method = m, !.index = 1, !.state = "s_req_method"]
    BY <1>7, <2>1 DEF StartReq
  <2>4. /\ Shape(r) /\ r.state = "s_req_method" /\ r.run = 0 /\ r.marks = q.marks /\ r.owed = 0
        /\ r.nread = q.nread /\ r.index = 1 /\ r.method = m
    BY SMTT(30), <1>3, <1>4, <2>2, <2>3, SomeLetters DEF Shape, Parts
  <2>5. Sane(r) /\ Unread(r)
    BY <1>2, <2>2, <2>4, IsMethod, SomeLetters
  <2>6. Pieced(q, r) /\ Counted(q, r)
    BY <1>2, <2>4 DEF Pieced, Counted, Whole, Shape
  <2> QED BY <2>4, <2>5, <2>6 DEF Good
<1> QED BY <1>5, <1>6, <1>7

\* The arcs of methods fit their letters.
LEMMA Turning ==
  ASSUME NEW q, NEW ch, NEW arc \in Turns(q, ch)
  PROVE  arc[4] \in method_strings /\ q.index + 1 <= Len(arc[4])
<1>1. arc \in MethodArcs /\ arc[2] = q.index
  BY DEF Turns
<1>2. arc[4] \in method_strings
  BY <1>1 DEF MethodArcs, method_strings
<1>3. arc[2] \in {1, 2} \/ (arc[2] = 3 /\ arc[4] = MKCALENDAR) \/ (arc[2] = 4 /\ arc[4] = PROPPATCH)
  BY <1>1 DEF MethodArcs
<1>a. PICK n, a : n = Len(arc[4]) /\ a = arc[2]
  OBVIOUS
<1>b. n \in Nat /\ n >= 3
  BY <1>2, <1>a, SomeLetters
<1>c. a \in {1, 2} \/ (a = 3 /\ n = 10) \/ (a = 4 /\ n = 9)
  BY Zenon, <1>3, <1>a, MethodLengths
<1>d. a + 1 <= n
  BY <1>b, <1>c
<1>4. arc[2] + 1 <= Len(arc[4])
  BY <1>a, <1>d
<1> QED BY <1>1, <1>2, <1>4

LEMMA AtMethod ==
  ASSUME NEW q, Fit(q), q.state = "s_req_method", NEW ch, NEW r, r = ReqMethod(q, ch)
  PROVE  Good(q, r)
<1>1. /\ q.run = 0 /\ DOMAIN q.marks = {} /\ q.owed = 0 /\ q.state \notin BodyStates
      /\ q.index \in Nat /\ q.index <= Len(q.method) /\ q.method \in method_strings /\ Shape(q)
      /\ Len(q.method) \in Nat
  BY MethodIs, SomeLetters DEF Fit
<1> DEFINE z == [q EXCEPT !.index = @ + 1]
<1>2. /\ But(q, z, {"index"}) /\ z.index = q.index + 1
  BY SMTT(30) DEF Shape, But, Parts, Fit
<1>3. CASE q.index = Len(q.method) /\ ch = "SP"
  <2>1. Shape(z)
    BY SMTT(30), <1>1, <1>3 DEF Shape, Parts
  <2>2. r = To(z, "s_req_spaces_before_url")
    BY <1>3 DEF ReqMethod
  <2>3. Shape(r) /\ But(z, r, {"state"}) /\ r.state = "s_req_spaces_before_url"
    BY <2>1, <2>2, Moving
  <2>4. z.run = 0 /\ z.marks = q.marks /\ z.owed = 0 /\ z.nread = q.nread
    BY <1>1, <1>2, ButParts
  <2> HIDE DEF z
  <2>5. r.run = 0 /\ r.marks = q.marks /\ r.owed = 0 /\ r.nread = q.nread
    BY <2>3, <2>4, ButParts
  <2>6. r.state \in Quiet
    BY <2>3 DEF Quiet, QuietHead
  <2> QED BY <1>1, <2>3, <2>5, <2>6, ToQuietAtOnce
<1>4. ASSUME q.index < Len(q.method), NEW m \in method_strings, q.index + 1 <= Len(m),
             r = [z EXCEPT !.method = m]
      PROVE  Good(q, r)
  <2>1. /\ Shape(r) /\ r.state = "s_req_method" /\ r.run = 0 /\ r.marks = q.marks /\ r.owed = 0
        /\ r.nread = q.nread /\ r.index = q.index + 1 /\ r.method = m
    <3>1. /\ DOMAIN r = Parts /\ r.state = "s_req_method" /\ r.run = 0 /\ r.marks = q.marks
          /\ r.owed = 0 /\ r.nread = q.nread /\ r.index = q.index + 1 /\ r.method = m
      BY SMTT(30), <1>1, <1>4 DEF Shape, Parts
    <3>2. r.index \in Nat /\ r.index <= Len(r.method) + 1
      BY <1>1, <1>4, <3>1, SomeLetters
    <3> QED BY SMTT(30), <1>1, <1>4, <3>1, <3>2 DEF Shape, Parts
  <2>2. Sane(r) /\ Unread(r)
    BY <1>1, <1>4, <2>1, IsMethod
  <2>3. Pieced(q, r) /\ Counted(q, r)
    BY <1>1, <2>1 DEF Pieced, Counted, Whole, Shape
  <2> QED BY <2>1, <2>2, <2>3 DEF Good
<1>5. CASE q.index # Len(q.method) /\ ch = q.method[q.index + 1]
  <2>1. r = [z EXCEPT !.method = q.method]
    <3>1. r = z
      BY <1>5 DEF ReqMethod
    <3> QED BY ZenonT(30), <1>1, <3>1 DEF Shape, Parts
  <2>2. q.index < Len(q.method) /\ q.index + 1 <= Len(q.method)
    BY <1>1, <1>5
  <2> QED BY <1>1, <1>4, <2>1, <2>2
<1>6. CASE q.index # Len(q.method) /\ ch # q.method[q.index + 1] /\ Turns(q, ch) # {}
  <2>1. PICK arc : arc = CHOOSE x \in Turns(q, ch) : TRUE
    OBVIOUS
  <2>2. arc \in Turns(q, ch)
    BY <1>6, <2>1
  <2>3. r = [z EXCEPT !.method = arc[4]]
    BY <1>6, <2>1 DEF ReqMethod
  <2>4. q.index < Len(q.method)
    BY <1>1, <1>6
  <2>5. arc[4] \in method_strings /\ q.index + 1 <= Len(arc[4])
    BY <2>2, Turning
  <2> HIDE DEF z
  <2> QED BY <1>4, <2>3, <2>4, <2>5
<1>7. CASE /\ \/ q.index = Len(q.method) /\ ch # "SP"
              \/ q.index # Len(q.method) /\ ch # q.method[q.index + 1] /\ Turns(q, ch) = {}
  BY <1>1, <1>7, Failing DEF ReqMethod, Good
<1> QED BY <1>3, <1>5, <1>6, <1>7

LEMMA AtUrl ==
  ASSUME NEW q, Shape(q), NEW s, s \in UrlStates, q.state = s, q.run = 0,
         DOMAIN q.marks = {"url"}, q.owed = q.marks["url"], NEW ch, NEW r, r = UrlChar(q, ch)
  PROVE  /\ Shape(r)
         /\ ~Failed(r) => /\ r.state \in UrlOpen /\ r.run = 0 /\ DOMAIN r.marks = {"url"}
                          /\ Whole(r) /\ r.nread = q.nread
<1> DEFINE t == parse_url_char(q.state, ch)
<1>1. t \in UrlOpen \cup {"s_dead"}
  BY UrlArc DEF UrlOpen
<1>2. CASE t = "s_dead"
  BY <1>2, Failing DEF UrlChar
<1>3. CASE t # "s_dead"
  <2>1. r = To(q, t)
    BY <1>3 DEF UrlChar
  <2>2. Shape(r) /\ But(q, r, {"state"}) /\ r.state = t
    BY <2>1, Moving
  <2>3. r.run = 0 /\ r.marks = q.marks /\ r.owed = q.owed /\ r.nread = q.nread
    BY <2>2, ButParts
  <2> QED BY <1>1, <1>3, <2>2, <2>3 DEF Whole
<1> QED BY <1>2, <1>3

LEMMA UrlGood ==
  ASSUME NEW q, Shape(q), q.run = 0, q.state \notin BodyStates, NEW r, Shape(r),
         ~Failed(r) => /\ r.state \in UrlOpen /\ r.run = 0 /\ DOMAIN r.marks = {"url"}
                       /\ Whole(r) /\ r.nread = q.nread
  PROVE  Good(q, r)
<1> SUFFICES ASSUME ~Failed(r) PROVE Good(q, r)
  BY DEF Good
<1>1. Sane(r) /\ Unread(r)
  BY IsUrl
<1>2. r.state \in Pieces
  BY DEF Pieces, UrlOpen
<1>3. Pieced(q, r) /\ Counted(q, r)
  BY <1>2 DEF Pieced, Counted, Shape
<1> QED BY <1>1, <1>3 DEF Good

LEMMA AtSpaces ==
  ASSUME NEW q, Fit(q), q.state = "s_req_spaces_before_url", NEW ch, NEW r,
         r = SpacesBeforeUrl(q, ch)
  PROVE  Good(q, r)
<1>1. q.state \in Quiet
  BY DEF Quiet, QuietHead
<1>2. q.run = 0 /\ DOMAIN q.marks = {} /\ q.owed = 0 /\ q.state \notin BodyStates /\ Shape(q)
  BY <1>1, QuietIs DEF Fit
<1>3. CASE ch = "SP"
  BY <1>1, <1>2, <1>3, ToQuietAtOnce DEF SpacesBeforeUrl
<1>4. CASE ch # "SP"
  <2> DEFINE y == IF q.method = CONNECT THEN To(q, "s_req_server_start") ELSE q
             z == Mark(y, "url")
  <2>1. r = UrlChar(z, ch)
    BY <1>4 DEF SpacesBeforeUrl
  <2>2. /\ Shape(y) /\ y.state \in UrlStates /\ y.run = 0 /\ y.marks = q.marks /\ y.owed = 0
        /\ y.nread = q.nread
    <3>1. CASE q.method = CONNECT
      <4>1. Shape(y) /\ But(q, y, {"state"}) /\ y.state = "s_req_server_start"
        BY <1>2, <3>1, Moving
      <4> QED BY <1>2, <4>1, UrlStatesAre, ButParts
    <3>2. CASE q.method # CONNECT
      BY <1>2, <3>2, UrlStatesAre
    <3> QED BY <3>1, <3>2
  <2> HIDE DEF y
  <2>3. /\ Shape(z) /\ But(y, z, {"marks"}) /\ DOMAIN z.marks = {"url"} /\ z.marks["url"] = 0
    BY <1>2, <2>2, Marking DEF Kinds
  <2>4. z.state = y.state /\ z.run = 0 /\ z.owed = 0 /\ z.nread = q.nread
    BY <2>2, <2>3, ButParts
  <2> HIDE DEF z
  <2>5. /\ Shape(r)
        /\ ~Failed(r) => /\ r.state \in UrlOpen /\ r.run = 0 /\ DOMAIN r.marks = {"url"}
                         /\ Whole(r) /\ r.nread = z.nread
    BY <2>1, <2>2, <2>3, <2>4, AtUrl
  <2> QED BY <1>2, <2>4, <2>5, UrlGood
<1> QED BY <1>3, <1>4

\* A state in which the next piece has not begun, when the last one is delivered.
LEMMA DeliverToQuiet ==
  ASSUME NEW q, Shape(q), q.state \notin BodyStates, q.run = 0,
         NEW y, Shape(y), Whole(y), y.state \in Quiet, y.run = 0, y.nread = q.nread,
         NEW k, DOMAIN y.marks = {k}, NEW r, r = Deliver(y, k, 0)
  PROVE  Good(q, r)
<1>1. /\ Shape(r) /\ But(y, r, {"marks", "owed"}) /\ DOMAIN r.marks = {} /\ r.owed = 0
  BY Delivering
<1>2. r.state \in Quiet /\ r.run = 0 /\ r.nread = q.nread
  BY <1>1, ButParts
<1> QED BY <1>1, <1>2, ToQuietAtOnce

LEMMA AtUrlOpen ==
  ASSUME NEW q, Fit(q), q.state \in UrlOpen, NEW ch, NEW r, r = ReqUrl(q, ch)
  PROVE  Good(q, r)
<1>1. /\ q.run = 0 /\ DOMAIN q.marks = {"url"} /\ q.owed = q.marks["url"]
      /\ q.state \notin BodyStates /\ Shape(q) /\ Whole(q)
  BY UrlIs DEF Fit
<1>2. CASE q.state \in UrlMayEnd /\ ch = "SP"
  <2> DEFINE y == To(q, "s_req_http_start")
  <2>1. r = Deliver(y, "url", 0)
    BY Zenon, <1>2 DEF ReqUrl, Ends
  <2>2. Shape(y) /\ But(q, y, {"state"}) /\ y.state = "s_req_http_start"
    BY <1>1, Moving
  <2> HIDE DEF y
  <2>3. y.run = 0 /\ y.nread = q.nread /\ y.marks = q.marks /\ y.owed = q.owed
    BY <1>1, <2>2, ButParts
  <2>4. y.state \in Quiet /\ Whole(y)
    BY <1>1, <2>2, <2>3, LineStatesAre DEF Quiet, QuietHead, Whole
  <2> QED BY <1>1, <2>1, <2>2, <2>3, <2>4, DeliverToQuiet
<1>3. CASE q.state \in UrlMayEnd /\ ch \in Ends
  <2> DEFINE s == IF ch = "CR" THEN "s_req_line_almost_done" ELSE "s_header_field_start"
             y == [q EXCEPT !.http_major = 0, !.http_minor = 9, !.state = s]
  <2>1. r = Deliver(y, "url", 0)
    <3>1. ch # "SP"
      BY <1>3 DEF Ends
    <3> QED BY Zenon, <1>3, <3>1 DEF ReqUrl
  <2>2. s \in Quiet
    BY LineStatesAre DEF Quiet, QuietHead, HeaderStates
  <2>3. 9 \in 0 .. MaxVersion /\ 0 \in 0 .. MaxVersion
    BY HttpParserConstants
  <2>4. /\ Shape(y) /\ y.state \in Quiet /\ y.run = 0 /\ y.nread = q.nread /\ y.marks = q.marks
        /\ y.owed = q.owed
    BY SMTT(30), <1>1, <2>2, <2>3 DEF Shape, Parts
  <2> HIDE DEF y
  <2>5. Whole(y)
    BY <1>1, <2>4 DEF Whole
  <2> QED BY <1>1, <2>1, <2>4, <2>5, DeliverToQuiet
<1>4. CASE q.state \notin UrlMayEnd \/ (ch # "SP" /\ ch \notin Ends)
  <2>1. r = UrlChar(q, ch)
    BY Zenon, <1>4 DEF ReqUrl
  <2>2. /\ Shape(r)
        /\ ~Failed(r) => /\ r.state \in UrlOpen /\ r.run = 0 /\ DOMAIN r.marks = {"url"}
                         /\ Whole(r) /\ r.nread = q.nread
    BY <1>1, <2>1, AtUrl DEF UrlOpen
  <2> QED BY <1>1, <2>2, UrlGood
<1> QED BY <1>2, <1>3, <1>4

\* The numbers of a line.
LEMMA Numbers ==
  ASSUME NEW q, Shape(q), NEW ch, NEW r, r = StatusCode(Version(q, ch), ch)
  PROVE  /\ But(q, r, {"http_major", "http_minor", "status_code"})
         /\ r.http_major \in Nat /\ r.http_minor \in Nat /\ r.status_code \in Nat
<1> DEFINE v == Version(q, ch)
<1>1. /\ But(q, v, {"http_major", "http_minor"}) /\ v.http_major \in Nat /\ v.http_minor \in Nat
  <2> DEFINE M == {"s_res_first_http_major", "s_res_http_major", "s_req_first_http_major",
                   "s_req_http_major"}
             N == {"s_res_first_http_minor", "s_res_http_minor", "s_req_first_http_minor",
                   "s_req_http_minor"}
  <2>1. CASE ch \in Digits /\ q.state \in M
    <3>1. PICK n : n = Shift(q.http_major, ch, q.state \in {"s_res_first_http_major",
                                                            "s_req_first_http_major"})
      OBVIOUS
    <3>2. n \in Nat
      BY SMTT(30), <2>1, <3>1, Values, HttpParserConstants DEF Shift, Shape
    <3>3. q.state \notin N
      BY <2>1
    <3>4. v = [q EXCEPT !.http_major = n]
      BY Zenon, <2>1, <3>1, <3>3 DEF Version
    <3>5. q.http_minor \in Nat
      BY HttpParserConstants DEF Shape
    <3> QED BY SMTT(30), <3>2, <3>4, <3>5 DEF Shape, But, Parts
  <2>2. CASE ch \in Digits /\ q.state \in N
    <3>1. PICK n : n = Shift(q.http_minor, ch, q.state \in {"s_res_first_http_minor",
                                                            "s_req_first_http_minor"})
      OBVIOUS
    <3>2. n \in Nat
      BY SMTT(30), <2>2, <3>1, Values, HttpParserConstants DEF Shift, Shape
    <3>3. q.state \notin M
      BY <2>2
    <3>4. v = [q EXCEPT !.http_minor = n]
      BY Zenon, <2>2, <3>1, <3>3 DEF Version
    <3>5. q.http_major \in Nat
      BY HttpParserConstants DEF Shape
    <3> QED BY SMTT(30), <3>2, <3>4, <3>5 DEF Shape, But, Parts
  <2>3. CASE ch \notin Digits \/ q.state \notin M \cup N
    <3>1. v = q
      BY Zenon, <2>3 DEF Version
    <3>2. q.http_minor \in Nat /\ q.http_major \in Nat
      BY HttpParserConstants DEF Shape
    <3> QED BY SMTT(30), <3>1, <3>2 DEF But, Shape
  <2> QED BY <2>1, <2>2, <2>3
<1> HIDE DEF v
<1>2. CASE v.state \in {"s_res_first_status_code", "s_res_status_code"} /\ ch \in DOMAIN Val
  <2>1. PICK n : n = Shift(v.status_code, ch, v.state = "s_res_first_status_code")
    OBVIOUS
  <2>2. v.status_code \in Nat
    <3>1. v.status_code = q.status_code
      BY <1>1 DEF But, Parts
    <3>2. q.status_code \in 0 .. 999
      BY DEF Shape
    <3> QED BY ONLY <3>1, <3>2
  <2>3. n \in Nat
    BY <1>2, <2>1, <2>2, Values DEF Shift
  <2>4. r = [v EXCEPT !.status_code = n]
    BY <1>2, <2>1 DEF StatusCode, v
  <2> QED BY <1>1, <2>3, <2>4 DEF But, Parts
<1>3. CASE ~(v.state \in {"s_res_first_status_code", "s_res_status_code"} /\ ch \in DOMAIN Val)
  <2>1. r = v
    BY <1>3 DEF StatusCode, v
  <2>2. v.status_code \in Nat
    <3>1. v.status_code = q.status_code
      BY <1>1 DEF But, Parts
    <3>2. q.status_code \in 0 .. 999
      BY DEF Shape
    <3> QED BY ONLY <3>1, <3>2
  <2> QED BY <1>1, <2>1, <2>2 DEF But, Parts
<1> QED BY <1>2, <1>3

LEMMA TextKeeps ==
  ASSUME NEW q, DOMAIN q = Parts, NEW s, NEW r, r = StatusText(q, s)
  PROVE  But(q, r, {"marks", "owed"})
BY DEF StatusText, Mark, Deliver, But, Parts

LEMMA LineErrors == ASSUME NEW s PROVE LineError(s) # "HPE_OK"
<1>1. LineError(s) \in {"HPE_STRICT", "HPE_INVALID_CONSTANT", "HPE_LF_EXPECTED",
                       "HPE_INVALID_STATUS", "HPE_INVALID_VERSION"}
  BY Zenon DEF LineError
<1> QED BY <1>1

LEMMA AtLine ==
  ASSUME NEW q, Fit(q), q.state \in LineStates, NEW ch, NEW r, r = LineStep(q, ch)
  PROVE  Good(q, r)
<1> DEFINE s == Follow(LineArcs, q.state, ch, "s_dead")
           v == StatusCode(Version(q, ch), ch)
           w == StatusText(v, s)
<1>1. /\ q.run = 0 /\ q.state \notin BodyStates /\ Shape(q) /\ Whole(q)
      /\ DOMAIN q.marks = IF q.state = "s_res_status" THEN {"status"} ELSE {}
  <2>1. CASE q.state = "s_res_status"
    BY <2>1, StatusIs DEF Fit, BodyStates
  <2>2. CASE q.state # "s_res_status"
    <3>1. q.state \in Quiet
      BY <2>2 DEF Quiet, QuietHead
    <3> QED BY <2>2, <3>1, QuietIs DEF Fit
  <2> QED BY <2>1, <2>2
<1>2. CASE s = "s_dead"
  <2>1. r = Fail(q, LineError(q.state)) /\ LineError(q.state) # "HPE_OK"
    BY <1>2, LineErrors DEF LineStep
  <2> QED BY <1>1, <2>1, Failing DEF Good
<1>3. CASE s # "s_dead" /\ (w.http_major > MaxVersion \/ w.http_minor > MaxVersion \/ w.status_code > 999)
  <2>1. r \in {Fail(q, "HPE_INVALID_VERSION"), Fail(q, "HPE_INVALID_STATUS")}
    BY <1>3 DEF LineStep
  <2> QED BY <1>1, <2>1, Failing DEF Good
<1>4. CASE /\ s # "s_dead"
           /\ ~(w.http_major > MaxVersion \/ w.http_minor > MaxVersion \/ w.status_code > 999)
  <2>1. r = To(w, s)
    BY <1>4 DEF LineStep
  <2>2. /\ s \in LineStates \cup {"s_header_field_start"}
        /\ s = "s_res_status" => q.state \in {"s_res_status_start", "s_res_status"}
    BY <1>4, LineArc
  <2>3. /\ But(q, v, {"http_major", "http_minor", "status_code"})
        /\ v.http_major \in Nat /\ v.http_minor \in Nat /\ v.status_code \in Nat
    BY <1>1, Numbers
  <2>4. /\ v.state = q.state /\ v.run = 0 /\ v.nread = q.nread /\ v.marks = q.marks
        /\ v.owed = q.owed
    BY <1>1, <2>3, ButParts
  <2> HIDE DEF s, v
  <2>5. But(v, w, {"marks", "owed"})
    BY <2>3, TextKeeps DEF But
  <2>6. /\ w.http_major = v.http_major /\ w.http_minor = v.http_minor
        /\ w.status_code = v.status_code /\ w.run = 0 /\ w.nread = q.nread
    BY <2>4, <2>5, ButParts
  <2>7. v.http_major \in 0 .. MaxVersion /\ v.http_minor \in 0 .. MaxVersion /\ v.status_code \in 0 .. 999
    BY <1>4, <2>3, <2>6, HttpParserConstants
  <2>8. Shape(v)
    <3>1. /\ v.nread = q.nread /\ v.content_length = q.content_length
          /\ v.flags = q.flags /\ v.method = q.method
          /\ v.index = q.index /\ v.run = q.run
      BY <2>3 DEF But, Parts
    <3> QED BY SMTT(30), <1>1, <2>3, <2>4, <2>7, <3>1 DEF Shape, But
  <2>9. Whole(v)
    BY <1>1, <2>4 DEF Whole
  <2> DEFINE Right == /\ Shape(w) /\ Whole(w)
                      /\ DOMAIN w.marks = IF s = "s_res_status" THEN {"status"} ELSE {}
  <2>10. ASSUME q.state = "s_res_status_start", s = "s_res_status" PROVE Right
    <3>1. w = Mark(v, "status")
      BY <2>4, <2>10 DEF StatusText
    <3>2. /\ Shape(w) /\ But(v, w, {"marks"}) /\ DOMAIN w.marks = {"status"}
          /\ w.marks["status"] = 0
      BY <1>1, <2>4, <2>8, <2>10, <3>1, Marking DEF Kinds
    <3>3. w.owed = 0
      BY <1>1, <2>4, <2>10, <3>2, ButParts DEF Whole
    <3> QED BY <2>10, <3>2, <3>3 DEF Whole
  <2>11. ASSUME q.state = "s_res_status", s # "s_res_status" PROVE Right
    <3>1. w = Deliver(v, "status", 0)
      BY <2>4, <2>11 DEF StatusText
    <3>2. /\ Shape(w) /\ DOMAIN w.marks = {} /\ w.owed = 0
      BY <1>1, <2>4, <2>8, <2>9, <2>11, <3>1, Delivering
    <3> QED BY <2>11, <3>2 DEF Whole
  <2>12. ASSUME q.state = "s_res_status" <=> s = "s_res_status" PROVE Right
    <3>1. w = v
      BY <2>4, <2>12 DEF StatusText
    <3> QED BY <1>1, <2>4, <2>8, <2>9, <2>12, <3>1
  <2>13. Right
    BY <2>2, <2>10, <2>11, <2>12
  <2> HIDE DEF w
  <2>14. Shape(r) /\ But(w, r, {"state"}) /\ r.state = s
    BY <2>1, <2>13, Moving
  <2>15. r.run = 0 /\ r.nread = q.nread /\ r.marks = w.marks /\ r.owed = w.owed
    BY <2>6, <2>14, ButParts
  <2>16. Whole(r)
    BY <2>13, <2>15 DEF Whole
  <2>17. CASE s = "s_res_status"
    <3>1. Sane(r) /\ Unread(r)
      BY <2>13, <2>14, <2>15, <2>17, IsStatus
    <3>2. Pieced(q, r) /\ Counted(q, r)
      BY <1>1, <2>14, <2>15, <2>16, <2>17 DEF Pieced, Counted, Pieces, Shape
    <3> QED BY <2>14, <3>1, <3>2 DEF Good
  <2>18. CASE s # "s_res_status"
    <3>1. s \in Quiet
      BY <2>2, <2>18 DEF Quiet, QuietHead, HeaderStates
    <3>2. DOMAIN r.marks = {} /\ r.owed = 0
      BY <2>13, <2>15, <2>18 DEF Whole
    <3> QED BY <1>1, <2>14, <2>15, <3>1, <3>2, ToQuietAtOnce
  <2> QED BY <2>17, <2>18
<1> QED BY <1>2, <1>3, <1>4

LEMMA IsLater ==
  ASSUME NEW r, r.state \in ChunkStates \cup BodyStates, r.run = 0,
         DOMAIN r.marks \subseteq (IF r.state \in MayHoldBody THEN {"body"} ELSE {}),
         r.state \in ChunkStates => Chunked(r),
         r.state \in SizeStates => r.content_length < ULLONG_MAX,
         r.state \in {"s_body_identity", "s_chunk_data"} => r.content_length \notin {0, ULLONG_MAX},
         r.state = "s_chunk_data_almost_done" => r.content_length = 0
  PROVE  Sane(r)
<1>1. /\ r.state \in States /\ r.state \notin UrlStates
      /\ r.state \notin {"s_req_method", "s_header_field", "s_header_value", "s_res_status"}
  BY UrlStatesAre, ChunkStatesAre DEF States, BodyStates
<1>2. Reopened(r) = {}
  BY <1>1 DEF Reopened
<1> QED BY <1>1, <1>2 DEF Sane, Opened

LEMMA ToLater ==
  ASSUME NEW q, q.state \notin BodyStates, NEW r, Shape(r), r.run = 0, DOMAIN r.marks = {},
         r.owed = 0, r.nread = 0, Forgets(q, r), r.state \in ChunkStates \cup BodyStates,
         r.state \in ChunkStates => Chunked(r),
         r.state \in SizeStates => r.content_length < ULLONG_MAX,
         r.state \in {"s_body_identity", "s_chunk_data"} => r.content_length \notin {0, ULLONG_MAX},
         r.state = "s_chunk_data_almost_done" => r.content_length = 0
  PROVE  Good(q, r)
<1>1. Sane(r) /\ Unread(r)
  BY IsLater DEF Unread
<1>2. Pieced(q, r) /\ Counted(q, r)
  BY DEF Pieced, Counted, Whole
<1> QED BY <1>1, <1>2 DEF Good

LEMMA ToStart ==
  ASSUME NEW q, q.state \notin BodyStates, NEW y, Shape(y), y.run = 0, DOMAIN y.marks = {},
         y.owed = 0, NEW r, r = NewMessage(y)
  PROVE  Good(q, r)
<1>1. Shape(r) /\ But(y, r, {"state"}) /\ r.state \in Starts \cup {"s_dead"}
  BY Ending
<1>2. r.run = 0 /\ r.marks = y.marks /\ r.owed = 0
  BY <1>1, ButParts
<1>3. Sane(r) /\ Unread(r)
  BY <1>1, <1>2, IsQuiet DEF Quiet
<1>4. Pieced(q, r) /\ Counted(q, r)
  BY <1>1, <1>2 DEF Pieced, Counted, Whole, Forgets
<1> QED BY <1>1, <1>3, <1>4 DEF Good

LEMMA AtHeadersDone ==
  ASSUME NEW x, x.state \notin BodyStates,
         NEW q, Shape(q), q.run = 0, DOMAIN q.marks = {}, q.owed = 0,
         NEW r, r = HeadersDone(q)
  PROVE  Good(x, r)
<1> DEFINE y == [q EXCEPT !.nread = 0]
<1>1. /\ Shape(y) /\ y.run = 0 /\ DOMAIN y.marks = {} /\ y.owed = 0 /\ y.nread = 0
      /\ y.content_length = q.content_length /\ y.flags = q.flags
  BY SMTT(30), HttpParserConstants DEF Shape, Parts
<1>2. CASE r = q /\ Failed(q)
  BY <1>2 DEF Good
<1>3. CASE r = NewMessage(y)
  BY <1>1, <1>3, ToStart
<1>4. ASSUME NEW s, s \in {"s_chunk_size_start", "s_body_identity", "s_body_identity_eof"},
             r = To(y, s), s = "s_chunk_size_start" => Chunked(q),
             s = "s_body_identity" => q.content_length \notin {0, ULLONG_MAX}
      PROVE  Good(x, r)
  <2>1. Shape(r) /\ But(y, r, {"state"}) /\ r.state = s
    BY <1>1, <1>4, Moving
  <2> HIDE DEF y
  <2>2. /\ r.run = 0 /\ DOMAIN r.marks = {} /\ r.owed = 0 /\ r.nread = 0
        /\ r.content_length = q.content_length /\ r.flags = q.flags
    BY <1>1, <2>1, ButParts
  <2>3. Forgets(x, r)
    BY <1>4, <2>1 DEF Forgets, PARSING_HEADER, BodyStates
  <2>4. /\ r.state \in ChunkStates \cup BodyStates /\ r.state \notin SizeStates
        /\ r.state \notin {"s_chunk_data", "s_chunk_data_almost_done"}
        /\ r.state \in ChunkStates => r.state = "s_chunk_size_start"
    BY <1>4, <2>1, ChunkStatesAre DEF BodyStates, SizeStates
  <2>5. r.state \in ChunkStates => Chunked(r)
    BY <1>4, <2>1, <2>2, <2>4 DEF Chunked
  <2> QED BY <1>4, <2>1, <2>2, <2>3, <2>4, <2>5, ToLater
<1>5. CASE ~Failed(q)
  <2>1. \/ r = NewMessage(y)
        \/ Chunked(q) /\ r = To(y, "s_chunk_size_start")
        \/ q.content_length \notin {0, ULLONG_MAX} /\ r = To(y, "s_body_identity")
        \/ r = To(y, "s_body_identity_eof")
    BY <1>5 DEF HeadersDone
  <2> HIDE DEF y
  <2> QED BY <1>3, <1>4, <2>1
<1>6. Failed(q) => r = q
  BY DEF HeadersDone
<1> QED BY <1>2, <1>5, <1>6

LEMMA EndOfHeaders ==
  ASSUME NEW x, x.state \notin BodyStates,
         NEW q, Shape(q), q.run = 0, DOMAIN q.marks = {}, q.owed = 0,
         NEW ch, NEW r, r = HeadersAlmostDone(q, ch)
  PROVE  Good(x, r)
<1>1. CASE Failed(q)
  <2>1. r = q
    BY Zenon, <1>1 DEF HeadersAlmostDone
  <2> QED BY <1>1, <2>1 DEF Good
<1>2. CASE ~Failed(q) /\ ch # "LF"
  <2>1. r = Fail(q, "HPE_STRICT")
    BY Zenon, <1>2 DEF HeadersAlmostDone
  <2> QED BY <2>1, Failing DEF Good
<1>3. CASE ~Failed(q) /\ ch = "LF" /\ "F_TRAILING" \in q.flags
  <2>1. r = NewMessage(q)
    BY Zenon, <1>3 DEF HeadersAlmostDone
  <2> QED BY <2>1, ToStart
<1>4. CASE ~Failed(q) /\ ch = "LF" /\ "F_TRAILING" \notin q.flags
  <2> DEFINE up == \/ {"F_UPGRADE", "F_CONNECTION_UPGRADE"} \subseteq q.flags
                   \/ q.method = CONNECT
             y == [q EXCEPT !.state = "s_headers_done", !.upgrade = up]
             z == Count(y, 1)
  <2>1. r = HeadersDone(z)
    BY Zenon, <1>4 DEF HeadersAlmostDone
  <2>2. /\ Shape(y) /\ ~Failed(y) /\ y.run = 0 /\ y.marks = q.marks /\ y.owed = 0
        /\ y.nread = q.nread
    BY SMTT(30), <1>4 DEF Shape, Parts, Failed
  <2> HIDE DEF y
  <2>3. y.nread + 1 >= 0
    BY <2>2 DEF Shape
  <2>4. Shape(z) /\ (~Failed(z) => But(y, z, {"nread"}))
    BY <2>2, <2>3, Counting
  <2> HIDE DEF z
  <2>5. CASE Failed(z)
    BY <2>1, <2>4, <2>5 DEF HeadersDone, Good
  <2>6. CASE ~Failed(z)
    <3>1. z.run = 0 /\ z.marks = q.marks /\ z.owed = 0
      BY <2>2, <2>4, <2>6, ButParts
    <3> QED BY <2>1, <2>4, <3>1, AtHeadersDone
  <2> QED BY <2>5, <2>6
<1> QED BY <1>1, <1>2, <1>3, <1>4

LEMMA AtFieldStart ==
  ASSUME NEW x, Shape(x), x.run = 0, x.state \notin BodyStates,
         NEW q, Shape(q), q.run = 0, DOMAIN q.marks = {}, q.owed = 0,
         ~Failed(q) => q.nread >= x.nread,
         NEW ch, NEW r, r = HeaderFieldStart(q, ch)
  PROVE  Good(x, r)
<1>1. CASE Failed(q)
  BY <1>1 DEF HeaderFieldStart, Good
<1>2. CASE ~Failed(q) /\ ch = "CR"
  <2>1. r = To(q, "s_headers_almost_done")
    BY <1>2 DEF HeaderFieldStart
  <2>2. Shape(r) /\ But(q, r, {"state"}) /\ r.state = "s_headers_almost_done"
    BY <2>1, Moving
  <2>3. r.run = 0 /\ r.marks = q.marks /\ r.owed = 0 /\ r.nread = q.nread
    BY <2>2, ButParts
  <2>4. r.state \in Quiet
    BY <2>2 DEF Quiet, QuietHead, HeaderStates
  <2>5. r.nread \in Nat /\ x.nread \in Nat
    BY <2>2 DEF Shape
  <2> QED BY <1>2, <2>2, <2>3, <2>4, <2>5, ToQuiet
<1>3. CASE ~Failed(q) /\ ch = "LF"
  <2> DEFINE y == To(q, "s_headers_almost_done")
             z == Count(y, 1)
  <2>1. r = HeadersAlmostDone(z, ch)
    BY <1>3 DEF HeaderFieldStart
  <2>2. Shape(y) /\ But(q, y, {"state"})
    BY Moving
  <2> HIDE DEF y
  <2>3. /\ y.run = 0 /\ y.marks = q.marks /\ y.owed = 0 /\ y.nread = q.nread
        /\ y.http_errno = q.http_errno
    BY <2>2, ButParts
  <2>4. y.nread + 1 >= 0 /\ ~Failed(y)
    BY <1>3, <2>2, <2>3 DEF Shape, Failed
  <2>5. Shape(z) /\ (~Failed(z) => But(y, z, {"nread"}))
    BY <2>2, <2>4, Counting
  <2> HIDE DEF z
  <2>6. CASE Failed(z)
    <3>1. r = z
      BY Zenon, <2>1, <2>6 DEF HeadersAlmostDone
    <3> QED BY <2>5, <2>6, <3>1 DEF Good
  <2>7. CASE ~Failed(z)
    <3>1. z.run = 0 /\ z.marks = q.marks /\ z.owed = 0
      BY <2>3, <2>5, <2>7, ButParts
    <3> QED BY <2>1, <2>5, <3>1, EndOfHeaders
  <2> QED BY <2>6, <2>7
<1>4. CASE ~Failed(q) /\ ch \notin Ends /\ ch \in NotTokens
  <2>1. r = Fail(q, "HPE_INVALID_HEADER_TOKEN")
    BY <1>4 DEF HeaderFieldStart, Ends
  <2> QED BY <2>1, Failing DEF Good
<1>5. CASE ~Failed(q) /\ ch \notin Ends /\ ch \notin NotTokens
  <2> DEFINE y == Mark(q, "field")
  <2>1. PICK s \in NameStates : s = Follow(FirstNameArcs, "h_general", ch, "h_general")
    BY FirstNameArc
  <2>2. r = [y EXCEPT !.state = "s_header_field", !.header_state = s]
    BY <1>5, <2>1 DEF HeaderFieldStart, Ends
  <2>3. /\ Shape(y) /\ But(q, y, {"marks"}) /\ DOMAIN y.marks = {"field"}
        /\ y.marks["field"] = 0
    BY Marking DEF Kinds
  <2> HIDE DEF y
  <2>4. y.run = 0 /\ y.owed = 0 /\ y.nread = q.nread
    BY <2>3, ButParts
  <2>5. /\ Shape(r) /\ r.state = "s_header_field" /\ r.header_state = s /\ r.marks = y.marks
        /\ r.run = 0 /\ r.owed = 0 /\ r.nread = q.nread
    BY SMTT(30), <2>2, <2>3, <2>4 DEF Shape, Parts
  <2>6. Sane(r) /\ Unread(r)
    BY <2>3, <2>5, IsField
  <2>7. Pieced(x, r)
    BY <2>3, <2>5 DEF Pieced, Whole, Pieces
  <2>8. r.nread + r.run >= x.nread + x.run
    <3>1. r.nread >= x.nread /\ r.nread \in Int /\ x.nread \in Int
      BY <1>5, <2>5 DEF Shape
    <3> QED BY <2>5, <3>1
  <2>9. Counted(x, r)
    BY <2>5, <2>8 DEF Counted, Shape
  <2> QED BY <2>5, <2>6, <2>7, <2>9 DEF Good
<1> QED BY <1>1, <1>2, <1>3, <1>4, <1>5 DEF Ends

LEMMA AtHeaderFieldStart ==
  ASSUME NEW q, Fit(q), q.state = "s_header_field_start", NEW ch, NEW r,
         r = HeaderFieldStart(q, ch)
  PROVE  Good(q, r)
<1>1. q.state \in Quiet
  BY DEF Quiet, QuietHead, HeaderStates
<1>2. q.nread >= q.nread
  BY DEF Fit, Shape
<1> QED BY <1>1, <1>2, QuietIs, AtFieldStart DEF Fit

\* The symbols of a loop are counted when it ends.
LEMMA LoopGoesOn ==
  ASSUME NEW q, Shape(q), q.state \notin BodyStates, NEW r, Shape(r), Whole(r),
         r.state \in Pieces, r.nread = q.nread, r.run = q.run + 1
  PROVE  Pieced(q, r) /\ Counted(q, r)
BY DEF Pieced, Counted, Shape

LEMMA AtField ==
  ASSUME NEW q, Fit(q), q.state = "s_header_field", NEW ch, NEW r, r = HeaderField(q, ch)
  PROVE  Good(q, r)
<1>1. /\ DOMAIN q.marks = {"field"} /\ q.owed = q.marks["field"] /\ q.run \in Nat
      /\ Shape(q) /\ Whole(q) /\ ~Failed(q) /\ q.nread \in Nat
  BY FieldIs DEF Fit, Shape
<1>2. q.state \notin BodyStates
  BY DEF BodyStates
<1>3. CASE ch \notin NotTokens
  <2>1. PICK s \in NameStates : s = Follow(NameArcs, q.header_state, ch, "h_general")
    BY NameArc
  <2>2. r = [q EXCEPT !.run = @ + 1, !.header_state = s]
    BY <1>3, <2>1 DEF HeaderField
  <2>3. /\ Shape(r) /\ r.state = "s_header_field" /\ r.header_state = s /\ r.marks = q.marks
        /\ r.run = q.run + 1 /\ r.owed = q.owed /\ r.nread = q.nread
    BY SMTT(30), <1>1, <2>2 DEF Shape, Parts
  <2>4. Sane(r) /\ Unread(r)
    BY <1>1, <2>3, IsField
  <2>5. Whole(r) /\ r.state \in Pieces
    BY <1>1, <2>3 DEF Whole, Pieces
  <2> QED BY <1>1, <1>2, <2>3, <2>4, <2>5, LoopGoesOn DEF Good
<1>4. CASE ch \in NotTokens
  <2> DEFINE y == Count(q, q.run)
  <2>1. q.run \in Int /\ q.nread + q.run >= 0
    BY <1>1
  <2>2. Shape(y) /\ (~Failed(y) => But(q, y, {"nread"}) /\ y.nread = q.nread + q.run)
    BY <1>1, <2>1, Counting
  <2>3. \/ Failed(y) /\ r = y
        \/ r = Fail(y, "HPE_INVALID_HEADER_TOKEN")
        \/ ~Failed(y) /\ r = Deliver([y EXCEPT !.run = 0, !.state = "s_header_value_discard_ws"],
                                     "field", 0)
    BY <1>4 DEF HeaderField
  <2> HIDE DEF y
  <2>4. CASE Failed(y) /\ r = y
    BY <2>2, <2>4 DEF Good
  <2>5. CASE r = Fail(y, "HPE_INVALID_HEADER_TOKEN")
    BY <2>2, <2>5, Failing DEF Good
  <2>6. ASSUME ~Failed(y), NEW z, z = [y EXCEPT !.run = 0, !.state = "s_header_value_discard_ws"],
               r = Deliver(z, "field", 0)
        PROVE  Good(q, r)
    <3>1. /\ y.marks = q.marks /\ y.owed = q.owed
      BY <2>2, <2>6, ButParts
    <3>2. /\ Shape(z) /\ z.state = "s_header_value_discard_ws" /\ z.run = 0 /\ z.marks = q.marks
          /\ z.owed = q.owed /\ z.nread = q.nread + q.run
      BY SMTT(30), <2>2, <2>6, <3>1 DEF Shape, Parts
    <3>3. Whole(z)
      BY <1>1, <3>2 DEF Whole
    <3>4. Shape(r) /\ But(z, r, {"marks", "owed"}) /\ DOMAIN r.marks = {} /\ r.owed = 0
      <4>1. r = Deliver(z, "field", 0)
        BY <2>6
      <4>2. DOMAIN z.marks = {"field"}
        BY <1>1, <3>2
      <4>3. Shape(z)
        BY <3>2
      <4> QED BY <3>3, <4>1, <4>2, <4>3, DeliveringAll
    <3>5. r.state = "s_header_value_discard_ws" /\ r.run = 0 /\ r.nread = q.nread + q.run
      BY <3>2, <3>4, ButParts
    <3>6. Sane(r) /\ Unread(r)
      <4>1. r.state \in Quiet
        BY <3>5 DEF Quiet, QuietHead, HeaderStates
      <4> QED BY <3>4, <3>5, <4>1, IsQuiet
    <3>7. Pieced(q, r) /\ Counted(q, r)
      BY <1>1, <1>2, <3>4, <3>5 DEF Pieced, Counted, Whole
    <3> QED BY <3>4, <3>6, <3>7 DEF Good
  <2> QED BY <2>3, <2>4, <2>5, <2>6
<1> QED BY <1>3, <1>4

-----------------------------------------------------------------------------
(* Values of headers *)

LEMMA Remainder ==
  ASSUME NEW a \in Nat, NEW m \in Nat
  PROVE  a % (m + 1) \in 0 .. m /\ (a <= m => a % (m + 1) = a)
OBVIOUS

LEMMA Flagging ==
  ASSUME NEW q, Shape(q), NEW r, r = Flag(q)
  PROVE  Shape(r) /\ But(q, r, {"flags"}) /\ r.flags \in SUBSET Flags
<1> DEFINE more == {FlagOf[h] : h \in {q.header_state} \cap DOMAIN FlagOf}
<1>1. more \subseteq Flags
  BY DEF FlagOf, Flags
<1>2. r = [q EXCEPT !.flags = @ \cup more]
  BY DEF Flag
<1> HIDE DEF more
<1> QED BY SMTT(30), <1>1, <1>2 DEF Shape, But, Parts

\* A value has begun.
LEMMA ValueBegun ==
  ASSUME NEW x, Shape(x), x.run = 0, x.state \notin BodyStates, NEW q, q.nread >= x.nread,
         NEW r, Shape(r), r.state = "s_header_value", r.header_state \notin NotInValues,
         DOMAIN r.marks = {"value"}, r.marks["value"] = 0, r.run = 0, r.owed = 0,
         r.nread = q.nread
  PROVE  Good(x, r)
<1>1. Sane(r) /\ Unread(r)
  BY IsValue
<1>2. Pieced(x, r)
  BY DEF Pieced, Whole, Pieces
<1>3. r.nread >= x.nread /\ r.nread \in Int /\ x.nread \in Int
  BY DEF Shape
<1>4. r.nread + r.run >= x.nread + x.run
  BY <1>3
<1>5. Counted(x, r)
  BY <1>4, <1>3 DEF Counted
<1> QED BY <1>1, <1>2, <1>5 DEF Good

LEMMA AtValueStart ==
  ASSUME NEW x, Shape(x), x.run = 0, x.state \notin BodyStates,
         NEW q, Shape(q), q.run = 0, DOMAIN q.marks = {}, q.owed = 0,
         ~Failed(q) => q.nread >= x.nread,
         NEW ch, NEW r, r = HeaderValueStart(q, ch)
  PROVE  Good(x, r)
<1> DEFINE y == Mark(q, "value")
<1>1. PICK s : s = ValueStarts(q.header_state, ch)
  OBVIOUS
<1> DEFINE z == [y EXCEPT !.state = "s_header_value", !.header_state = s]
<1>2. s \notin NotInValues
  BY <1>1, ValueStartArc
<1>3. \/ Failed(q) /\ r = q
      \/ ~Failed(q) /\ r = Fail(z, "HPE_INVALID_CONTENT_LENGTH")
      \/ ~Failed(q) /\ r = z
      \/ ~Failed(q) /\ r = [z EXCEPT !.flags = @ \cup {"F_UPGRADE"}]
      \/ ~Failed(q) /\ ch \in Digits /\ r = [z EXCEPT !.content_length = Val[ch]]
  <2>1. z = [y EXCEPT !.state = "s_header_value",
                      !.header_state = ValueStarts(q.header_state, ch)]
    BY <1>1
  <2> HIDE DEF z
  <2>2. CASE Failed(q)
    <3>1. r = q
      BY <2>2 DEF HeaderValueStart
    <3> QED BY <2>2, <3>1
  <2>3. CASE ~Failed(q) /\ q.header_state = "h_upgrade"
    BY Zenon, <2>1, <2>3 DEF HeaderValueStart
  <2>4. CASE ~Failed(q) /\ q.header_state = "h_content_length"
    <3>1. q.header_state # "h_upgrade"
      BY <2>4
    <3>2. r = IF ch \in Digits THEN [z EXCEPT !.content_length = Val[ch]]
              ELSE Fail(z, "HPE_INVALID_CONTENT_LENGTH")
      BY Zenon, <2>1, <2>4, <3>1 DEF HeaderValueStart
    <3> QED BY <2>4, <3>2
  <2>5. CASE ~Failed(q) /\ q.header_state # "h_content_length" /\ q.header_state # "h_upgrade"
    BY Zenon, <2>1, <2>5 DEF HeaderValueStart
  <2> QED BY <2>2, <2>3, <2>4, <2>5
<1>4. /\ Shape(y) /\ But(q, y, {"marks"}) /\ DOMAIN y.marks = {"value"} /\ y.marks["value"] = 0
  BY Marking DEF Kinds
<1> HIDE DEF y
<1>5. y.run = 0 /\ y.owed = 0 /\ y.nread = q.nread
  BY <1>4, ButParts
<1>6. /\ Shape(z) /\ z.state = "s_header_value" /\ z.header_state = s /\ z.marks = y.marks
      /\ z.run = 0 /\ z.owed = 0 /\ z.nread = q.nread
  BY SMTT(30), <1>4, <1>5 DEF Shape, Parts
<1> HIDE DEF z
<1>7. CASE Failed(q) /\ r = q
  BY <1>7 DEF Good
<1>8. CASE r = Fail(z, "HPE_INVALID_CONTENT_LENGTH")
  BY <1>6, <1>8, Failing DEF Good
<1>9. CASE ~Failed(q) /\ r = z
  BY <1>2, <1>4, <1>6, <1>9, ValueBegun
<1>10. CASE ~Failed(q) /\ r = [z EXCEPT !.flags = @ \cup {"F_UPGRADE"}]
  <2>1. /\ Shape(r) /\ r.state = "s_header_value" /\ r.header_state = s /\ r.marks = y.marks
        /\ r.run = 0 /\ r.owed = 0 /\ r.nread = q.nread
    BY SMTT(30), <1>6, <1>10 DEF Shape, Parts, Flags
  <2> QED BY <1>2, <1>4, <1>10, <2>1, ValueBegun
<1>11. CASE ~Failed(q) /\ ch \in Digits /\ r = [z EXCEPT !.content_length = Val[ch]]
  <2>1. PICK c \in 0 .. ULLONG_MAX : c = Val[ch]
    BY <1>11, Values, HttpParserConstants
  <2>2. /\ Shape(r) /\ r.state = "s_header_value" /\ r.header_state = s /\ r.marks = y.marks
        /\ r.run = 0 /\ r.owed = 0 /\ r.nread = q.nread
    <3>1. r = Measured(z, c)
      BY <1>11, <2>1 DEF Measured
    <3>2. Shape(r) /\ But(z, r, {"content_length"})
      BY <1>6, <3>1, Measuring
    <3>3. /\ r.state = z.state /\ r.header_state = z.header_state /\ r.marks = z.marks
          /\ r.run = z.run /\ r.owed = z.owed /\ r.nread = z.nread
      BY <3>2, ButParts
    <3> QED BY <1>6, <3>2, <3>3
  <2> QED BY <1>2, <1>4, <1>11, <2>2, ValueBegun
<1> QED BY <1>3, <1>7, <1>8, <1>9, <1>10, <1>11

LEMMA AtDiscardWs ==
  ASSUME NEW q, Fit(q), q.state = "s_header_value_discard_ws", NEW ch, NEW r,
         r = DiscardWs(q, ch)
  PROVE  Good(q, r)
<1>1. q.state \in Quiet
  BY DEF Quiet, QuietHead, HeaderStates
<1>2. q.run = 0 /\ DOMAIN q.marks = {} /\ q.owed = 0 /\ q.state \notin BodyStates /\ Shape(q)
  BY <1>1, QuietIs DEF Fit
<1>3. CASE ch \in Blanks
  BY <1>1, <1>2, <1>3, ToQuietAtOnce DEF DiscardWs
<1>4. CASE ch \notin Blanks /\ ch \in Ends
  <2>1. PICK s \in {"s_header_value_discard_ws_almost_done", "s_header_value_discard_lws"} :
          r = To(q, s)
    BY <1>4 DEF DiscardWs, Ends
  <2> QED BY <1>2, <2>1, MoveToQuiet DEF Quiet, QuietHead, HeaderStates
<1>5. CASE ch \notin Blanks /\ ch \notin Ends
  <2>1. r = HeaderValueStart(q, ch)
    BY <1>5 DEF DiscardWs, Ends
  <2>2. q.nread >= q.nread
    BY <1>2 DEF Shape
  <2> QED BY <1>2, <2>1, <2>2, AtValueStart
<1> QED BY <1>3, <1>4, <1>5

LEMMA AtDiscardWsAlmostDone ==
  ASSUME NEW q, Fit(q), q.state = "s_header_value_discard_ws_almost_done", NEW ch, NEW r,
         r = DiscardWsAlmostDone(q, ch)
  PROVE  Good(q, r)
<1>1. q.state \in Quiet
  BY DEF Quiet, QuietHead, HeaderStates
<1>2. q.run = 0 /\ DOMAIN q.marks = {} /\ q.owed = 0 /\ q.state \notin BodyStates /\ Shape(q)
  BY <1>1, QuietIs DEF Fit
<1>3. CASE ch = "LF"
  <2>1. r = To(q, "s_header_value_discard_lws")
    BY <1>3 DEF DiscardWsAlmostDone
  <2> QED BY <1>2, <2>1, MoveToQuiet DEF Quiet, QuietHead, HeaderStates
<1>4. CASE ch # "LF"
  BY <1>2, <1>4, Failing DEF DiscardWsAlmostDone, Good
<1> QED BY <1>3, <1>4

\* The line ends, or goes on in the next.
LEMMA AtHeaderAlmostDone ==
  ASSUME NEW q, Fit(q), q.state = "s_header_almost_done", NEW ch, NEW r,
         r = HeaderAlmostDone(q, ch)
  PROVE  Good(q, r)
<1>1. q.state \in Quiet
  BY DEF Quiet, QuietHead, HeaderStates
<1>2. /\ q.run = 0 /\ DOMAIN q.marks = {} /\ q.owed = 0 /\ q.state \notin BodyStates /\ Shape(q)
      /\ ~Failed(q)
  BY <1>1, QuietIs DEF Fit
<1>3. CASE ch = "LF"
  <2>1. r = To(q, "s_header_value_lws")
    BY <1>2, <1>3 DEF HeaderAlmostDone
  <2> QED BY <1>2, <2>1, MoveToQuiet DEF Quiet, QuietHead, HeaderStates
<1>4. CASE ch # "LF"
  BY <1>2, <1>4, Failing DEF HeaderAlmostDone, Good
<1> QED BY <1>3, <1>4

LEMMA NothingToDeliver ==
  ASSUME NEW q, DOMAIN q.marks = {}, NEW k, NEW last
  PROVE  Deliver(q, k, last) = q
BY DEF Deliver

\* Counting a parser that may have failed.
LEMMA CountingOn ==
  ASSUME NEW q, Shape(q), NEW n \in Int, ~Failed(q) => q.nread + n >= 0, NEW r, r = Count(q, n)
  PROVE  /\ Shape(r)
         /\ Failed(q) => Failed(r)
         /\ ~Failed(r) => But(q, r, {"nread"}) /\ r.nread = q.nread + n
<1>1. CASE Failed(q)
  BY <1>1 DEF Count
<1>2. CASE ~Failed(q)
  BY <1>2, Counting
<1> QED BY <1>1, <1>2

LEMMA AtValueEnds ==
  ASSUME NEW q, Fit(q), q.state = "s_header_value", q.run = 0 => q.nread >= 1, NEW ch, NEW r,
         r = HeaderValueEnds(q, ch)
  PROVE  Good(q, r)
<1>1. /\ DOMAIN q.marks = {"value"} /\ q.owed = q.marks["value"] /\ q.run \in Nat
      /\ Shape(q) /\ Whole(q) /\ ~Failed(q) /\ q.nread \in Nat
  BY SMTT(30), ValueIs DEF Fit, Shape
<1>2. q.state \notin BodyStates
  BY DEF BodyStates
<1> DEFINE done == [q EXCEPT !.state = "s_header_almost_done", !.run = 0]
<1>3. /\ Shape(done) /\ done.state = "s_header_almost_done" /\ done.run = 0
      /\ done.marks = q.marks /\ done.owed = q.owed /\ done.nread = q.nread /\ ~Failed(done)
  BY SMTT(30), <1>1 DEF Shape, Parts, Failed
<1>4. Whole(done)
  BY <1>1, <1>3 DEF Whole
<1>5. q.run \in Int /\ q.nread + q.run >= 0 /\ q.nread + q.run \in Int
  BY <1>1
<1>6. ASSUME NEW z, z = r, Shape(z), ~Failed(z) => /\ z.state \in Quiet /\ z.run = 0
                                          /\ DOMAIN z.marks = {} /\ z.owed = 0
                                          /\ z.nread >= q.nread + q.run
      PROVE  Good(q, r)
  <2> SUFFICES ASSUME ~Failed(r) PROVE Good(q, r)
    BY <1>6 DEF Good
  <2>1. Sane(r) /\ Unread(r)
    BY <1>6, IsQuiet
  <2>2. r.nread + r.run >= q.nread + q.run
    <3>1. r.nread \in Int /\ r.nread >= q.nread + q.run /\ r.run = 0
      BY <1>6 DEF Shape
    <3> QED BY <1>5, <3>1
  <2>3. Pieced(q, r)
    BY <1>2, <1>6 DEF Pieced, Whole
  <2>4. Counted(q, r)
    BY <1>5, <1>6, <2>2 DEF Counted
  <2> QED BY <1>6, <2>1, <2>3, <2>4 DEF Good
<1>7. CASE ch = "CR"
  <2> DEFINE y == Deliver(done, "value", 0)
  <2>1. r = Count(y, q.run)
    BY <1>7 DEF HeaderValueEnds
  <2> HIDE DEF done
  <2>2. Shape(y) /\ But(done, y, {"marks", "owed"}) /\ DOMAIN y.marks = {} /\ y.owed = 0
    BY <1>1, <1>3, <1>4, DeliveringAll
  <2> HIDE DEF y
  <2>3. /\ y.state = "s_header_almost_done" /\ y.run = 0 /\ y.nread = q.nread
        /\ y.http_errno = done.http_errno
    BY <1>3, <2>2, ButParts
  <2>4. Shape(r) /\ (~Failed(r) => But(y, r, {"nread"}) /\ r.nread = q.nread + q.run)
    BY <1>5, <2>1, <2>2, <2>3, CountingOn
  <2>5. ~Failed(r) => /\ r.state = "s_header_almost_done" /\ r.run = 0 /\ r.marks = y.marks
                      /\ r.owed = 0
    BY <2>2, <2>3, <2>4, ButParts
  <2>6. "s_header_almost_done" \in Quiet
    BY DEF Quiet, QuietHead, HeaderStates
  <2>7. ~Failed(r) => r.nread >= q.nread + q.run
    BY <1>5, <2>4
  <2> QED BY <1>6, <2>2, <2>4, <2>5, <2>6, <2>7
<1>8. CASE ch # "CR"
  <2> DEFINE y == Count(done, q.run)
             again == Deliver(y, "value", 0)
             v == Count(again, q.run - 1)
             w == Count(v, 1)
  <2>1. r = HeaderAlmostDone(w, ch)
    BY <1>8 DEF HeaderValueEnds
  <2> HIDE DEF done
  <2>2. /\ Shape(y) /\ (~Failed(y) => But(done, y, {"nread"}) /\ y.nread = q.nread + q.run)
        /\ Failed(y) => DOMAIN y.marks = {}
    BY <1>3, <1>5, Counting
  <2>3. ~Failed(y) => y.run = 0 /\ y.marks = q.marks /\ y.owed = q.owed
    BY <1>3, <2>2, ButParts
  <2> HIDE DEF y
  <2>4. Shape(again) /\ (~Failed(again) => /\ again.run = 0 /\ DOMAIN again.marks = {}
                                         /\ again.owed = 0 /\ again.nread = q.nread + q.run)
    <3>1. CASE Failed(y)
      BY <2>2, <3>1, NothingToDeliver
    <3>2. CASE ~Failed(y)
      <4>1. Whole(y)
        BY <1>1, <2>3, <3>2 DEF Whole
      <4>2. /\ Shape(again) /\ But(y, again, {"marks", "owed"}) /\ DOMAIN again.marks = {}
            /\ again.owed = 0
        BY <1>1, <2>2, <2>3, <3>2, <4>1, DeliveringAll
      <4> QED BY <2>2, <2>3, <3>2, <4>2, ButParts
    <3> QED BY <3>1, <3>2
  <2> HIDE DEF again
  <2>5. q.run - 1 \in Int /\ 1 \in Int /\ q.nread + q.run + (q.run - 1) >= 0
    BY <1>1
  <2>6. Shape(v) /\ (~Failed(v) => /\ ~Failed(again) /\ But(again, v, {"nread"})
                                   /\ v.nread = q.nread + q.run + (q.run - 1))
    BY <2>4, <2>5, CountingOn
  <2>7. ~Failed(v) => /\ v.run = 0 /\ v.marks = again.marks /\ v.owed = 0
    BY <2>4, <2>6, ButParts
  <2> HIDE DEF v
  <2>8. q.nread + q.run + (q.run - 1) + 1 >= q.nread + q.run
    BY <1>1
  <2>9. ~Failed(v) => v.nread + 1 >= 0
    BY <2>6 DEF Shape
  <2>10. Shape(w) /\ (~Failed(w) => ~Failed(v) /\ But(v, w, {"nread"}) /\ w.nread = v.nread + 1)
    BY <2>5, <2>6, <2>9, CountingOn
  <2>11. ~Failed(w) => w.run = 0 /\ w.marks = v.marks /\ w.owed = 0
    BY <2>7, <2>10, ButParts
  <2> HIDE DEF w
  <2>12. CASE Failed(w)
    BY <2>1, <2>10, <2>12 DEF HeaderAlmostDone, Good
  <2>13. CASE ~Failed(w) /\ ch # "LF"
    BY <2>1, <2>10, <2>13, Failing DEF HeaderAlmostDone, Good
  <2>14. CASE ~Failed(w) /\ ch = "LF"
    <3>1. r = To(w, "s_header_value_lws")
      BY <2>1, <2>14 DEF HeaderAlmostDone
    <3>2. Shape(r) /\ But(w, r, {"state"}) /\ r.state = "s_header_value_lws"
      BY <2>10, <3>1, Moving
    <3>3. r.run = 0 /\ r.marks = w.marks /\ r.owed = 0 /\ r.nread = w.nread
      BY <2>11, <2>14, <3>2, ButParts
    <3>4. DOMAIN r.marks = {}
      BY <2>4, <2>6, <2>7, <2>10, <2>11, <2>14, <3>3
    <3>5. r.nread >= q.nread + q.run
      BY <2>6, <2>8, <2>10, <2>14, <3>3
    <3>6. r.state \in Quiet
      BY <3>2 DEF Quiet, QuietHead, HeaderStates
    <3> QED BY <1>6, <3>2, <3>3, <3>4, <3>5, <3>6
  <2> QED BY <2>12, <2>13, <2>14
<1> QED BY <1>7, <1>8

\* A digit of a length is taken in full, or refused.
LEMMA LengthDigit ==
  ASSUME NEW n \in 0 .. ULLONG_MAX, ~((ULLONG_MAX - 10) \div 10 < n), NEW d \in 0 .. 3
  PROVE  /\ (10 * n + d) % (ULLONG_MAX + 1) = 10 * n + d
         /\ 10 * n + d \in 0 .. ULLONG_MAX - 1
<1>1. ULLONG_MAX \in Nat /\ ULLONG_MAX >= 32
  BY HttpParserConstants
<1>2. 10 * n <= ULLONG_MAX - 10
  BY <1>1
<1>3. 10 * n + d \in Nat /\ 10 * n + d <= ULLONG_MAX - 1
  BY <1>1, <1>2
<1> QED BY <1>1, <1>3, Remainder

LEMMA AtValue ==
  ASSUME NEW q, Fit(q), q.state = "s_header_value", q.run = 0 => q.nread >= 1, NEW ch, NEW r,
         r = HeaderValue(q, ch)
  PROVE  Good(q, r)
<1>1. /\ DOMAIN q.marks = {"value"} /\ q.owed = q.marks["value"] /\ q.run \in Nat
      /\ Shape(q) /\ Whole(q) /\ ~Failed(q) /\ q.nread \in Nat
      /\ q.header_state \notin NotInValues
  BY SMTT(30), ValueIs DEF Fit, Shape
<1>2. q.state \notin BodyStates
  BY DEF BodyStates
<1>3. ASSUME NEW x, x = r, Shape(x), x.state = "s_header_value", x.header_state \notin NotInValues,
             x.marks = q.marks, x.run = q.run + 1, x.owed = q.owed, x.nread = q.nread
      PROVE  Good(q, r)
  <2>1. Sane(r) /\ Unread(r)
    BY <1>1, <1>3, IsValue
  <2>2. Whole(r) /\ r.state \in Pieces
    BY <1>1, <1>3 DEF Whole, Pieces
  <2> QED BY <1>1, <1>2, <1>3, <2>1, <2>2, LoopGoesOn DEF Good
<1>4. CASE ch \in Ends
  <2>1. r = HeaderValueEnds(q, ch)
    BY Zenon, <1>4 DEF HeaderValue
  <2> QED BY <2>1, AtValueEnds
<1>5. CASE ch \notin Ends /\ q.header_state = "h_content_length"
  <2>1. r = ContentLengthDigit(q, ch)
    BY Zenon, <1>5 DEF HeaderValue
  <2>2. CASE r = Fail(q, "HPE_INVALID_CONTENT_LENGTH")
    BY <1>1, <2>2, Failing DEF Good
  <2>3. CASE r # Fail(q, "HPE_INVALID_CONTENT_LENGTH")
    <3>1. PICK c : c = IF ch = "SP" THEN q.content_length
                       ELSE (10 * q.content_length + Val[ch]) % (ULLONG_MAX + 1)
      OBVIOUS
    <3>2. c \in 0 .. ULLONG_MAX
      <4>1. CASE ch = "SP"
        BY <1>1, <3>1, <4>1 DEF Shape
      <4>2. CASE ch # "SP"
        <5>1. ch \in Digits
          BY <2>1, <2>3, <4>2 DEF ContentLengthDigit
        <5>2. PICK v \in Nat : v = Val[ch]
          BY <5>1, Values
        <5>3. PICK n \in Nat : n = q.content_length
          BY <1>1, HttpParserConstants DEF Shape
        <5>4. 10 * n + v \in Nat
          OBVIOUS
        <5>5. c = (10 * n + v) % (ULLONG_MAX + 1)
          BY <3>1, <4>2, <5>2, <5>3
        <5> QED BY <5>4, <5>5, Remainder, HttpParserConstants
      <4> QED BY <4>1, <4>2
    <3>3. r = [q EXCEPT !.run = @ + 1, !.content_length = c]
      BY <2>1, <2>3, <3>1 DEF ContentLengthDigit
    <3>4. /\ Shape(r) /\ r.state = "s_header_value" /\ r.header_state = q.header_state
          /\ r.marks = q.marks /\ r.run = q.run + 1 /\ r.owed = q.owed /\ r.nread = q.nread
      BY SMTT(30), <1>1, <3>2, <3>3 DEF Shape, Parts
    <3> QED BY <1>1, <1>3, <3>4
  <2> QED BY <2>2, <2>3
<1>6. CASE ch \notin Ends /\ q.header_state # "h_content_length"
  <2> DEFINE y == IF ch = Comma /\ q.header_state \in Matched THEN Flag(q) ELSE q
  <2>1. PICK s : s = ValueGoesOn(q.header_state, ch)
    OBVIOUS
  <2>2. s \notin NotInValues
    BY <2>1, ValueArc
  <2>3. r = [y EXCEPT !.run = @ + 1, !.header_state = s]
    BY Zenon, <1>6, <2>1 DEF HeaderValue
  <2>4. Shape(y) /\ But(q, y, {"flags"})
    <3>1. CASE y = Flag(q)
      BY <1>1, <3>1, Flagging
    <3>2. CASE y = q
      <4>1. But(q, q, {"flags"})
        BY SMTT(30), <1>1 DEF But, Shape
      <4> QED BY <1>1, <3>2, <4>1
    <3> QED BY <3>1, <3>2
  <2> HIDE DEF y
  <2>5. /\ y.state = "s_header_value" /\ y.marks = q.marks /\ y.run = q.run /\ y.owed = q.owed
        /\ y.nread = q.nread
    BY <2>4, ButParts
  <2>6. /\ Shape(r) /\ r.state = "s_header_value" /\ r.header_state = s
        /\ r.marks = q.marks /\ r.run = q.run + 1 /\ r.owed = q.owed /\ r.nread = q.nread
    BY SMTT(30), <1>1, <2>3, <2>4, <2>5 DEF Shape, Parts
  <2> QED BY <1>3, <2>2, <2>6
<1> QED BY <1>4, <1>5, <1>6

LEMMA AtValueLws ==
  ASSUME NEW q, Fit(q), q.state = "s_header_value_lws", NEW ch, NEW r,
         r = HeaderValueLws(q, ch)
  PROVE  Good(q, r)
<1>1. q.state \in Quiet
  BY DEF Quiet, QuietHead, HeaderStates
<1>2. /\ q.run = 0 /\ DOMAIN q.marks = {} /\ q.owed = 0 /\ q.state \notin BodyStates /\ Shape(q)
      /\ ~Failed(q) /\ q.nread \in Nat
  BY <1>1, QuietIs DEF Fit, Shape
<1>3. ASSUME NEW y, Shape(y), But(q, y, {"state", "flags"}), NEW z, z = Count(y, 1)
      PROVE  /\ Shape(z) /\ z.run = 0 /\ DOMAIN z.marks = {} /\ z.owed = 0
             /\ ~Failed(z) => z.nread >= q.nread
  <2>1. /\ y.run = 0 /\ y.marks = q.marks /\ y.owed = 0 /\ y.nread = q.nread
        /\ y.http_errno = q.http_errno
    BY <1>2, <1>3, ButParts
  <2>2. 1 \in Int /\ y.nread + 1 >= 0 /\ q.nread + 1 >= q.nread /\ ~Failed(y)
    BY <1>2, <2>1 DEF Failed
  <2>3. /\ Shape(z) /\ (~Failed(z) => But(y, z, {"nread"}) /\ z.nread = q.nread + 1)
    BY <1>3, <2>1, <2>2, Counting
  <2>4. CASE Failed(z)
    BY <1>3, <2>1, <2>2, <2>4, Counting
  <2>5. CASE ~Failed(z)
    BY <1>2, <2>1, <2>2, <2>3, <2>5, ButParts
  <2> QED BY <2>4, <2>5
<1>4. CASE ch \in Blanks
  <2> DEFINE y == To(q, "s_header_value_start")
             z == Count(y, 1)
  <2>1. r = HeaderValueStart(z, ch)
    BY <1>4 DEF HeaderValueLws
  <2>2. Shape(y) /\ But(q, y, {"state"})
    BY <1>2, Moving
  <2>3. But(q, y, {"state", "flags"})
    BY <2>2 DEF But
  <2> HIDE DEF y
  <2>4. /\ Shape(z) /\ z.run = 0 /\ DOMAIN z.marks = {} /\ z.owed = 0
        /\ ~Failed(z) => z.nread >= q.nread
    BY <1>3, <2>2, <2>3
  <2> HIDE DEF z
  <2> QED BY <1>2, <2>1, <2>4, AtValueStart
<1>5. CASE ch \notin Blanks
  <2> DEFINE x == Flag(q)
             y == To(x, "s_header_field_start")
             z == Count(y, 1)
  <2>1. r = HeaderFieldStart(z, ch)
    BY <1>5 DEF HeaderValueLws
  <2>2. Shape(x) /\ But(q, x, {"flags"})
    BY <1>2, Flagging
  <2> HIDE DEF x
  <2>3. Shape(y) /\ But(x, y, {"state"})
    BY <2>2, Moving
  <2>4. But(q, y, {"state", "flags"})
    BY <2>2, <2>3 DEF But
  <2> HIDE DEF y
  <2>5. /\ Shape(z) /\ z.run = 0 /\ DOMAIN z.marks = {} /\ z.owed = 0
        /\ ~Failed(z) => z.nread >= q.nread
    BY <1>3, <2>3, <2>4
  <2> HIDE DEF z
  <2> QED BY <1>2, <2>1, <2>5, AtFieldStart
<1> QED BY <1>4, <1>5

LEMMA AtDiscardLws ==
  ASSUME NEW q, Fit(q), q.state = "s_header_value_discard_lws", NEW ch, NEW r,
         r = DiscardLws(q, ch)
  PROVE  Good(q, r)
<1>1. q.state \in Quiet
  BY DEF Quiet, QuietHead, HeaderStates
<1>2. /\ q.run = 0 /\ DOMAIN q.marks = {} /\ q.owed = 0 /\ q.state \notin BodyStates /\ Shape(q)
      /\ ~Failed(q) /\ q.nread \in Nat
  BY <1>1, QuietIs DEF Fit, Shape
<1>3. CASE ch \in Blanks
  <2>1. r = To(q, "s_header_value_discard_ws")
    BY <1>3 DEF DiscardLws
  <2> QED BY <1>2, <2>1, MoveToQuiet DEF Quiet, QuietHead, HeaderStates
<1>4. CASE ch \notin Blanks
  <2> DEFINE x == Flag(q)
             y == To(x, "s_header_field_start")
             empty == Mark(y, "value")
             w == Deliver(empty, "value", 0)
             z == Count(w, 1)
  <2>1. r = HeaderFieldStart(z, ch)
    BY <1>4 DEF DiscardLws
  <2>2. Shape(x) /\ But(q, x, {"flags"})
    BY <1>2, Flagging
  <2> HIDE DEF x
  <2>3. Shape(y) /\ But(x, y, {"state"})
    BY <2>2, Moving
  <2>4. But(q, y, {"state", "flags"})
    BY <2>2, <2>3 DEF But
  <2>5. /\ y.run = 0 /\ y.marks = q.marks /\ y.owed = 0 /\ y.nread = q.nread
        /\ y.http_errno = q.http_errno
    BY <1>2, <2>4, ButParts
  <2> HIDE DEF y
  <2>6. /\ Shape(empty) /\ But(y, empty, {"marks"}) /\ DOMAIN empty.marks = {"value"}
        /\ empty.marks["value"] = 0
    BY <1>2, <2>3, <2>5, Marking DEF Kinds
  <2>7. /\ empty.run = 0 /\ empty.owed = 0 /\ empty.nread = q.nread
        /\ empty.http_errno = q.http_errno
    BY <2>5, <2>6, ButParts
  <2>8. Whole(empty)
    BY <2>6, <2>7 DEF Whole
  <2> HIDE DEF empty
  <2>9. Shape(w) /\ But(empty, w, {"marks", "owed"}) /\ DOMAIN w.marks = {} /\ w.owed = 0
    BY <2>6, <2>8, DeliveringAll
  <2>10. /\ w.run = 0 /\ w.nread = q.nread /\ w.http_errno = q.http_errno
    BY <2>7, <2>9, ButParts
  <2> HIDE DEF w
  <2>11. 1 \in Int /\ w.nread + 1 >= 0 /\ q.nread + 1 >= q.nread /\ ~Failed(w)
    BY <1>2, <2>10 DEF Failed
  <2>12. /\ Shape(z) /\ (~Failed(z) => But(w, z, {"nread"}) /\ z.nread = q.nread + 1)
         /\ Failed(z) => z.run = 0 /\ DOMAIN z.marks = {} /\ z.owed = 0
    BY <2>9, <2>10, <2>11, Counting
  <2>13. ~Failed(z) => z.run = 0 /\ z.marks = w.marks /\ z.owed = 0
    BY <2>9, <2>10, <2>12, ButParts
  <2> HIDE DEF z
  <2> QED BY <1>2, <2>1, <2>9, <2>11, <2>12, <2>13, AtFieldStart
<1> QED BY <1>3, <1>4

LEMMA AtHeadersAlmostDone ==
  ASSUME NEW q, Fit(q), q.state = "s_headers_almost_done", NEW ch, NEW r,
         r = HeadersAlmostDone(q, ch)
  PROVE  Good(q, r)
<1>1. q.state \in Quiet
  BY DEF Quiet, QuietHead, HeaderStates
<1> QED BY <1>1, QuietIs, EndOfHeaders DEF Fit

-----------------------------------------------------------------------------
(* Chunks and bodies *)

LEMMA LaterIs ==
  ASSUME NEW q, Fit(q), q.state \in ChunkStates \cup BodyStates
  PROVE  /\ q.run = 0 /\ Shape(q) /\ Whole(q) /\ ~Failed(q)
         /\ DOMAIN q.marks \subseteq (IF q.state \in MayHoldBody THEN {"body"} ELSE {})
         /\ q.state \in ChunkStates => Chunked(q)
         /\ q.state \in SizeStates => q.content_length < ULLONG_MAX
         /\ q.state \in {"s_body_identity", "s_chunk_data"} =>
              q.content_length \notin {0, ULLONG_MAX}
         /\ q.state = "s_chunk_data_almost_done" => q.content_length = 0
         /\ q.content_length \in 0 .. ULLONG_MAX
<1>1. /\ q.state \notin {"s_header_field", "s_header_value", "s_res_status"}
      /\ q.state \notin UrlStates
  BY UrlStatesAre, ChunkStatesAre DEF BodyStates
<1>2. Reopened(q) = {}
  BY <1>1 DEF Reopened
<1>3. q.run = 0
  BY <1>1 DEF Fit, Sane, Shape
<1> QED BY <1>2, <1>3 DEF Fit, Sane, Opened, Shape

\* A body's piece is opened with its first symbol in a call.
LEMMA BodyMarked ==
  ASSUME NEW q, Shape(q), Whole(q), DOMAIN q.marks \subseteq {"body"}, NEW r, r = Mark(q, "body")
  PROVE  /\ Shape(r) /\ But(q, r, {"marks"}) /\ DOMAIN r.marks = {"body"} /\ Whole(r)
<1>1. /\ Shape(r) /\ But(q, r, {"marks"}) /\ DOMAIN r.marks = {"body"}
      /\ \A j \in DOMAIN r.marks : r.marks[j] = IF j \in DOMAIN q.marks THEN q.marks[j] ELSE 0
  BY Marking DEF Kinds
<1>2. r.owed = q.owed
  BY <1>1, ButParts
<1>3. CASE DOMAIN q.marks = {}
  BY <1>1, <1>2, <1>3 DEF Whole
<1>4. CASE DOMAIN q.marks # {}
  <2>1. DOMAIN q.marks = {"body"}
    BY <1>4
  <2> QED BY <1>1, <1>2, <2>1 DEF Whole
<1> QED BY <1>1, <1>3, <1>4

Marked(q, r) ==
  /\ Shape(r) /\ But(q, r, {"marks"}) /\ DOMAIN r.marks = {"body"} /\ Whole(r)

LEMMA BodyIsMarked ==
  ASSUME NEW q, Fit(q), q.state \in BodyStates, NEW r, r = Mark(q, "body")
  PROVE  Marked(q, r)
<1>1. Shape(q) /\ Whole(q) /\ DOMAIN q.marks \subseteq {"body"}
  BY LaterIs, ChunkStatesAre DEF BodyStates, MayHoldBody
<1> QED BY <1>1, BodyMarked DEF Marked

\* One symbol of a body is read.
LEMMA BodyRead ==
  ASSUME NEW q, Fit(q), q.state \in {"s_body_identity", "s_chunk_data"},
         NEW y, Marked(q, y), NEW r, r = Measured(y, y.content_length - 1)
  PROVE  /\ Shape(r) /\ Whole(r) /\ DOMAIN r.marks = {"body"} /\ r.run = 0
         /\ r.state = q.state /\ r.flags = q.flags
         /\ r.content_length \in Nat /\ r.content_length = q.content_length - 1
         /\ r.content_length < ULLONG_MAX
<1>1. /\ q.run = 0 /\ Shape(q) /\ Whole(q) /\ DOMAIN q.marks \subseteq {"body"}
      /\ q.content_length \notin {0, ULLONG_MAX} /\ q.content_length \in 0 .. ULLONG_MAX
  BY LaterIs, ChunkStatesAre DEF BodyStates, MayHoldBody
<1>3. /\ Shape(y) /\ But(q, y, {"marks"}) /\ DOMAIN y.marks = {"body"} /\ Whole(y)
  BY DEF Marked
<1>4. /\ y.run = 0 /\ y.state = q.state /\ y.flags = q.flags
      /\ y.content_length = q.content_length
  BY <1>1, <1>3, ButParts
<1>6. PICK c \in 0 .. ULLONG_MAX : c = q.content_length - 1 /\ c < ULLONG_MAX
  BY <1>1, HttpParserConstants
<1>5. r = Measured(y, c)
  BY <1>4, <1>6
<1>d. Shape(r) /\ But(y, r, {"content_length"}) /\ r.content_length = c
  BY <1>3, <1>5, <1>6, Measuring
<1>7. r.marks = y.marks /\ r.run = 0 /\ r.state = q.state /\ r.flags = q.flags /\ r.owed = y.owed
  BY <1>4, <1>d, ButParts
<1>8. Whole(r)
  BY <1>3, <1>7 DEF Whole
<1> QED BY <1>3, <1>6, <1>7, <1>8, <1>d, HttpParserConstants

LEMMA AtIdentity ==
  ASSUME NEW q, Fit(q), q.state = "s_body_identity", NEW r, r = BodyIdentity(q)
  PROVE  Good(q, r)
<1>m. PICK m : m = Mark(q, "body")
  OBVIOUS
<1>n. PICK y : y = Measured(m, m.content_length - 1)
  OBVIOUS
<1>2. q.state \in BodyStates
  BY DEF BodyStates
<1>1. /\ Shape(y) /\ Whole(y) /\ DOMAIN y.marks = {"body"} /\ y.run = 0
      /\ y.state = q.state /\ y.content_length \in Nat /\ y.content_length < ULLONG_MAX
  <2>1. Marked(q, m)
    BY <1>2, <1>m, BodyIsMarked
  <2>2. q.state \in {"s_body_identity", "s_chunk_data"}
    OBVIOUS
  <2> QED BY <1>n, <2>1, <2>2, BodyRead
<1>3. CASE y.content_length = 0
  <2> DEFINE z == To(y, "s_message_done")
             w == Deliver(z, "body", 1)
  <2>1. r = NewMessage(w)
    BY <1>m, <1>n, <1>3 DEF BodyIdentity, MessageDone, Measured
  <2>2. Shape(z) /\ But(y, z, {"state"})
    BY <1>1, Moving
  <2>3. z.marks = y.marks /\ z.owed = y.owed /\ z.run = 0
    BY <1>1, <2>2, ButParts
  <2>4. Whole(z)
    BY <1>1, <2>3 DEF Whole
  <2> HIDE DEF z
  <2>5. 1 \in Int /\ 0 - 1 = -1
    OBVIOUS
  <2>6. Shape(w) /\ But(z, w, {"marks", "owed"}) /\ DOMAIN w.marks = {} /\ w.owed = 0 - 1
    BY <1>1, <2>2, <2>3, <2>4, <2>5, Delivering
  <2>7. w.run = 0
    BY <2>3, <2>6, ButParts
  <2> HIDE DEF w
  <2>8. Shape(r) /\ But(w, r, {"state"}) /\ r.state \in Starts \cup {"s_dead"}
    BY <2>1, <2>6, Ending
  <2>9. r.run = 0 /\ r.marks = w.marks /\ r.owed = -1
    BY <2>5, <2>6, <2>7, <2>8, ButParts
  <2>10. Sane(r) /\ Unread(r)
    BY <2>6, <2>8, <2>9, IsQuiet DEF Quiet
  <2>11. Pieced(q, r) /\ Counted(q, r)
    BY <1>2, <2>6, <2>8, <2>9 DEF Pieced, Counted, Forgets
  <2> QED BY <2>8, <2>10, <2>11 DEF Good
<1>4. CASE y.content_length # 0
  <2>1. r = y
    BY <1>m, <1>n, <1>4 DEF BodyIdentity, Measured
  <2>2. r.state \notin ChunkStates /\ r.state \notin SizeStates /\ r.state \in BodyStates
    BY <1>1, <2>1, ChunkStatesAre DEF SizeStates, BodyStates
  <2>3. r.content_length \notin {0, ULLONG_MAX}
    BY <1>1, <1>4, <2>1, HttpParserConstants
  <2>4. Sane(r) /\ Unread(r)
    BY <1>1, <2>1, <2>2, <2>3, IsLater DEF MayHoldBody, BodyStates, Unread
  <2>5. Pieced(q, r) /\ Counted(q, r)
    BY <1>1, <1>2, <2>1 DEF Pieced, Counted, Forgets, PARSING_HEADER
  <2> QED BY <1>1, <2>1, <2>4, <2>5 DEF Good
<1> QED BY <1>3, <1>4

LEMMA AtIdentityEof ==
  ASSUME NEW q, Fit(q), q.state = "s_body_identity_eof", NEW r, r = Mark(q, "body")
  PROVE  Good(q, r)
<1>1. /\ q.run = 0 /\ Shape(q) /\ Whole(q) /\ DOMAIN q.marks \subseteq {"body"}
  BY LaterIs, ChunkStatesAre DEF BodyStates, MayHoldBody
<1>2. /\ Shape(r) /\ But(q, r, {"marks"}) /\ DOMAIN r.marks = {"body"} /\ Whole(r)
  BY <1>1, BodyMarked
<1>3. r.state = "s_body_identity_eof" /\ r.run = 0
  BY <1>1, <1>2, ButParts
<1>4. r.state \notin ChunkStates /\ r.state \notin SizeStates /\ r.state \in BodyStates
  BY <1>3, ChunkStatesAre DEF SizeStates, BodyStates
<1>5. Sane(r) /\ Unread(r)
  BY <1>2, <1>3, <1>4, IsLater DEF MayHoldBody, Unread
<1>6. Pieced(q, r) /\ Counted(q, r)
  BY <1>2, <1>3, <1>4 DEF Pieced, Counted, Forgets, PARSING_HEADER, BodyStates
<1> QED BY <1>2, <1>5, <1>6 DEF Good

\* A chunk's size is taken in full, or refused.
LEMMA SizeDigit ==
  ASSUME NEW n \in 0 .. ULLONG_MAX, ~((ULLONG_MAX - 16) \div 16 < n), NEW d \in 0 .. 12
  PROVE  /\ (16 * n + d) % (ULLONG_MAX + 1) = 16 * n + d
         /\ 16 * n + d \in 0 .. ULLONG_MAX - 1
<1>1. ULLONG_MAX \in Nat /\ ULLONG_MAX >= 32
  BY HttpParserConstants
<1>2. 16 * n <= ULLONG_MAX - 16
  BY <1>1
<1>3. 16 * n + d \in Nat /\ 16 * n + d <= ULLONG_MAX - 1
  BY <1>1, <1>2
<1> QED BY <1>1, <1>3, Remainder

\* Between chunks and in their lines no piece is open.
LEMMA ToChunkLine ==
  ASSUME NEW q, Shape(q), q.state \notin BodyStates, q.run = 0, NEW r, Shape(r), r.run = 0,
         DOMAIN r.marks = {}, r.owed = 0, Chunked(r),
         r.state \in ChunkStates \ {"s_chunk_data", "s_chunk_data_almost_done"},
         r.state \in SizeStates => r.content_length < ULLONG_MAX,
         r.state = "s_chunk_size_start" => r.nread = 0,
         Forgets(q, r) \/ r.nread = q.nread
  PROVE  Good(q, r)
<1>1. r.state \notin {"s_chunk_data", "s_chunk_data_almost_done", "s_body_identity"}
  BY ChunkStatesAre
<1>2. Sane(r) /\ Unread(r)
  BY <1>1, IsLater DEF Unread
<1>3. Pieced(q, r) /\ Counted(q, r)
  BY DEF Pieced, Counted, Whole, Shape
<1> QED BY <1>2, <1>3 DEF Good

LEMMA AtChunkSize ==
  ASSUME NEW q, Fit(q), q.state \in {"s_chunk_size_start", "s_chunk_size"}, NEW ch \in Hex,
         NEW y, y = ChunkSize(q, ch), ~Failed(y), NEW r, r = To(y, "s_chunk_size")
  PROVE  Good(q, r)
<1>1. /\ q.run = 0 /\ Shape(q) /\ DOMAIN q.marks = {} /\ q.owed = 0 /\ q.state \notin BodyStates
      /\ Chunked(q) /\ q.content_length \in 0 .. ULLONG_MAX
  BY LaterIs, ChunkStatesAre DEF BodyStates, MayHoldBody, Whole
<1>2. PICK v \in 0 .. 12 : v = Val[ch]
  BY Values
<1>3. ULLONG_MAX \in Nat /\ ULLONG_MAX >= 32
  BY HttpParserConstants
<1>4. PICK c \in 0 .. ULLONG_MAX : c < ULLONG_MAX /\ y = Measured(q, c)
  <2>1. CASE q.state = "s_chunk_size_start"
    <3>1. y = [q EXCEPT !.content_length = Val[ch]]
      BY Zenon, <2>1 DEF ChunkSize
    <3>2. y = Measured(q, v)
      BY <1>2, <3>1 DEF Measured
    <3>3. v \in 0 .. ULLONG_MAX /\ v < ULLONG_MAX
      BY <1>2, <1>3
    <3> QED BY <3>2, <3>3
  <2>2. CASE q.state = "s_chunk_size"
    <3>1. q.state # "s_chunk_size_start"
      BY <2>2
    <3>2. CASE (ULLONG_MAX - 16) \div 16 < q.content_length
      <4>1. y = Fail(q, "HPE_INVALID_CONTENT_LENGTH")
        BY Zenon, <2>2, <3>1, <3>2 DEF ChunkSize
      <4> QED BY <1>1, <4>1, Failing
    <3>3. CASE ~((ULLONG_MAX - 16) \div 16 < q.content_length)
      <4>1. y = [q EXCEPT !.content_length = (16 * @ + Val[ch]) % (ULLONG_MAX + 1)]
        BY Zenon, <2>2, <3>1, <3>3 DEF ChunkSize
      <4>2. PICK n \in 0 .. ULLONG_MAX : n = q.content_length
        BY <1>1
      <4>3. /\ (16 * n + v) % (ULLONG_MAX + 1) = 16 * n + v
            /\ 16 * n + v \in 0 .. ULLONG_MAX - 1
        BY <1>2, <3>3, <4>2, SizeDigit
      <4>4. PICK c : c = 16 * n + v
        OBVIOUS
      <4>5. y = Measured(q, c)
        BY <1>2, <4>1, <4>2, <4>3, <4>4 DEF Measured
      <4>6. c \in 0 .. ULLONG_MAX /\ c < ULLONG_MAX
        BY <1>3, <4>3, <4>4
      <4> QED BY <4>5, <4>6
    <3> QED BY <3>2, <3>3
  <2> QED BY <2>1, <2>2
<1>5. Shape(y) /\ But(q, y, {"content_length"}) /\ y.content_length < ULLONG_MAX
  BY <1>1, <1>4, Measuring
<1>6. Shape(r) /\ But(y, r, {"state"}) /\ r.state = "s_chunk_size"
  BY <1>5, Moving
<1>7. /\ y.run = 0 /\ y.marks = q.marks /\ y.owed = 0 /\ y.nread = q.nread /\ y.flags = q.flags
  BY <1>1, <1>5, ButParts
<1>8. /\ r.run = 0 /\ r.marks = q.marks /\ r.owed = 0 /\ r.nread = q.nread /\ r.flags = q.flags
      /\ r.content_length < ULLONG_MAX
  BY <1>5, <1>6, <1>7, ButParts
<1>9. Chunked(r) /\ r.state \in ChunkStates \ {"s_chunk_data", "s_chunk_data_almost_done"}
  BY <1>1, <1>6, <1>8, ChunkStatesAre DEF Chunked
<1> QED BY <1>1, <1>6, <1>8, <1>9, ToChunkLine

LEMMA AtChunkSizeAlmostDone ==
  ASSUME NEW q, Fit(q), q.state = "s_chunk_size_almost_done", NEW r, r = ChunkSizeAlmostDone(q)
  PROVE  Good(q, r)
<1>1. /\ q.run = 0 /\ Shape(q) /\ DOMAIN q.marks = {} /\ q.owed = 0 /\ q.state \notin BodyStates
      /\ Chunked(q) /\ q.content_length \in 0 .. ULLONG_MAX /\ q.content_length < ULLONG_MAX
  BY LaterIs, ChunkStatesAre DEF BodyStates, MayHoldBody, SizeStates, Whole
<1>2. CASE q.content_length = 0
  <2>1. r = [q EXCEPT !.nread = 0, !.flags = @ \cup {"F_TRAILING"},
                      !.state = "s_header_field_start"]
    BY <1>2 DEF ChunkSizeAlmostDone
  <2>2. /\ Shape(r) /\ r.run = 0 /\ r.marks = q.marks /\ r.owed = 0
        /\ r.state = "s_header_field_start"
    BY SMTT(30), <1>1, <2>1, HttpParserConstants DEF Shape, Parts, Flags
  <2>3. r.state \in Quiet
    BY <2>2 DEF Quiet, QuietHead, HeaderStates
  <2>4. Sane(r) /\ Unread(r)
    BY <1>1, <2>2, <2>3, IsQuiet
  <2>5. Pieced(q, r) /\ Counted(q, r)
    BY <1>1, <2>2 DEF Pieced, Counted, Forgets, Whole
  <2> QED BY <2>2, <2>4, <2>5 DEF Good
<1>3. CASE q.content_length # 0
  <2>1. r = [q EXCEPT !.nread = 0, !.state = "s_chunk_data"]
    BY <1>3 DEF ChunkSizeAlmostDone
  <2>2. /\ Shape(r) /\ r.run = 0 /\ r.marks = q.marks /\ r.owed = 0
        /\ r.state = "s_chunk_data" /\ r.nread = 0 /\ r.flags = q.flags
        /\ r.content_length = q.content_length
    BY SMTT(30), <1>1, <2>1, HttpParserConstants DEF Shape, Parts
  <2>3. Forgets(q, r)
    BY DEF Forgets
  <2>4. /\ r.state \in ChunkStates \cup BodyStates /\ r.state \notin SizeStates
        /\ r.state # "s_chunk_data_almost_done" /\ Chunked(r)
        /\ r.content_length \notin {0, ULLONG_MAX}
    BY <1>1, <1>3, <2>2, HttpParserConstants DEF BodyStates, SizeStates, Chunked
  <2> QED BY <1>1, <2>2, <2>3, <2>4, ToLater
<1> QED BY <1>2, <1>3

LEMMA AtChunkData ==
  ASSUME NEW q, Fit(q), q.state = "s_chunk_data", NEW r, r = ChunkData(q)
  PROVE  Good(q, r)
<1>m. PICK m : m = Mark(q, "body")
  OBVIOUS
<1>n. PICK y : y = Measured(m, m.content_length - 1)
  OBVIOUS
<1>2. q.state \in BodyStates /\ q.state \in ChunkStates
  BY ChunkStatesAre DEF BodyStates
<1>1. /\ Shape(y) /\ Whole(y) /\ DOMAIN y.marks = {"body"} /\ y.run = 0
      /\ y.state = q.state /\ y.content_length \in Nat /\ y.content_length < ULLONG_MAX
      /\ y.flags = q.flags
  <2>1. Marked(q, m)
    BY <1>2, <1>m, BodyIsMarked
  <2>2. q.state \in {"s_body_identity", "s_chunk_data"}
    OBVIOUS
  <2> QED BY <1>n, <2>1, <2>2, BodyRead
<1>3. Chunked(q)
  BY <1>2, LaterIs
<1>4. CASE y.content_length = 0
  <2>1. r = To(y, "s_chunk_data_almost_done")
    BY <1>m, <1>n, <1>4 DEF ChunkData, Measured
  <2>2. Shape(r) /\ But(y, r, {"state"}) /\ r.state = "s_chunk_data_almost_done"
    BY <1>1, <2>1, Moving
  <2>3. /\ r.marks = y.marks /\ r.owed = y.owed /\ r.run = 0 /\ r.flags = q.flags
        /\ r.content_length = 0
    BY <1>1, <1>4, <2>2, ButParts
  <2>4. Whole(r) /\ Chunked(r)
    BY <1>1, <1>3, <2>3 DEF Whole, Chunked
  <2>5. Sane(r) /\ Unread(r)
    BY <1>1, <2>2, <2>3, <2>4, IsLater, ChunkStatesAre DEF MayHoldBody, SizeStates, Unread
  <2>6. Pieced(q, r) /\ Counted(q, r)
    BY <1>1, <1>2, <2>2, <2>3, <2>4 DEF Pieced, Counted, Forgets, PARSING_HEADER
  <2> QED BY <2>2, <2>5, <2>6 DEF Good
<1>5. CASE y.content_length # 0
  <2>1. r = y
    BY <1>m, <1>n, <1>5 DEF ChunkData, Measured
  <2>2. r.state \in ChunkStates /\ r.state \notin SizeStates /\ r.state \in BodyStates
    BY <1>1, <1>2, <2>1 DEF SizeStates
  <2>3. r.content_length \notin {0, ULLONG_MAX}
    BY <1>1, <1>5, <2>1, HttpParserConstants
  <2>4. Chunked(r)
    BY <1>1, <1>3, <2>1 DEF Chunked
  <2>5. Sane(r) /\ Unread(r)
    BY <1>1, <2>1, <2>2, <2>3, <2>4, IsLater DEF MayHoldBody, BodyStates, Unread
  <2>6. Pieced(q, r) /\ Counted(q, r)
    BY <1>1, <1>2, <2>1 DEF Pieced, Counted, Forgets, PARSING_HEADER
  <2> QED BY <1>1, <2>1, <2>5, <2>6 DEF Good
<1> QED BY <1>4, <1>5

LEMMA AtChunk ==
  ASSUME NEW q, Fit(q), q.state \in ChunkStates, NEW ch, NEW r, r = ChunkStep(q, ch)
  PROVE  Good(q, r)
<1>1. PICK s : s = Follow(ChunkArcs, q.state, ch, "s_dead")
  OBVIOUS
<1>2. /\ q.run = 0 /\ Shape(q) /\ Whole(q) /\ ~Failed(q) /\ Chunked(q)
      /\ DOMAIN q.marks \subseteq {"body"}
      /\ q.state \notin {"s_chunk_data", "s_chunk_data_almost_done"} => DOMAIN q.marks = {}
      /\ q.state \in SizeStates => q.content_length < ULLONG_MAX
  <2>1. q.state # "s_body_identity" /\ q.state # "s_body_identity_eof"
    BY ChunkStatesAre
  <2>2. /\ q.run = 0 /\ Shape(q) /\ Whole(q) /\ ~Failed(q)
        /\ DOMAIN q.marks \subseteq (IF q.state \in MayHoldBody THEN {"body"} ELSE {})
        /\ q.state \in ChunkStates => Chunked(q)
        /\ q.state \in SizeStates => q.content_length < ULLONG_MAX
    BY LaterIs
  <2> QED BY <2>1, <2>2 DEF MayHoldBody, BodyStates
<1>3. s # "s_dead" =>
         /\ s \in ChunkStates
         /\ s = "s_chunk_size" => ch \in Hex /\ q.state \in {"s_chunk_size_start", "s_chunk_size"}
         /\ q.state \in {"s_chunk_size_start"} => s = "s_chunk_size"
         /\ q.state = "s_chunk_size" =>
              s \in {"s_chunk_size", "s_chunk_size_almost_done", "s_chunk_parameters"}
         /\ q.state = "s_chunk_parameters" =>
              s \in {"s_chunk_size_almost_done", "s_chunk_parameters"}
         /\ q.state = "s_chunk_size_almost_done" => s = "s_chunk_data"
         /\ q.state = "s_chunk_data" => s = "s_chunk_data"
         /\ q.state = "s_chunk_data_almost_done" => s = "s_chunk_data_done"
         /\ q.state = "s_chunk_data_done" => s = "s_chunk_size_start"
  BY <1>1, ChunkArc
<1>4. CASE q.state = "s_chunk_data"
  <2>1. s \in {"s_dead", "s_chunk_data"}
    BY <1>3, <1>4
  <2>2. /\ s # "s_chunk_size" /\ q.state # "s_chunk_size_almost_done"
        /\ s # "s_chunk_data_done" /\ s # "s_chunk_size_start"
        /\ ~(s = "s_dead" /\ q.state # "s_chunk_data")
    BY <1>4, <2>1
  <2>3. r = ChunkData(q)
    BY Zenon, <1>1, <1>4, <2>2 DEF ChunkStep
  <2> QED BY <1>4, <2>3, AtChunkData
<1>5. CASE q.state # "s_chunk_data" /\ s = "s_dead"
  <2>1. PICK e \in {"HPE_INVALID_CHUNK_SIZE", "HPE_STRICT"} : r = Fail(q, e)
    <3>1. /\ s # "s_chunk_size" /\ s # "s_chunk_data_done" /\ s # "s_chunk_size_start"
          /\ ~(q.state = "s_chunk_size_almost_done" /\ s # "s_dead")
      BY <1>5
    <3>2. r = Fail(q, IF q.state \in {"s_chunk_size_start", "s_chunk_size"}
                      THEN "HPE_INVALID_CHUNK_SIZE" ELSE "HPE_STRICT")
      BY Zenon, <1>1, <1>5, <3>1 DEF ChunkStep
    <3> QED BY <3>2
  <2> QED BY <1>2, <2>1, Failing DEF Good
<1>6. CASE s = "s_chunk_size"
  <2>1. ch \in Hex /\ q.state \in {"s_chunk_size_start", "s_chunk_size"}
    BY <1>3, <1>6
  <2>2. /\ s # "s_dead" /\ q.state # "s_chunk_size_almost_done" /\ q.state # "s_chunk_data"
        /\ s # "s_chunk_data_done" /\ s # "s_chunk_size_start"
    BY <1>6, <2>1
  <2>3. PICK y : y = ChunkSize(q, ch)
    OBVIOUS
  <2>4. r = IF Failed(y) THEN y ELSE To(y, s)
    BY Zenon, <1>1, <1>6, <2>2, <2>3 DEF ChunkStep
  <2>5. CASE Failed(y)
    <3>1. y \in {q, Fail(q, "HPE_INVALID_CONTENT_LENGTH")} \/
          \E c : y = Measured(q, c)
      BY <2>3 DEF ChunkSize, Measured
    <3>2. ~Failed(q) /\ \A c : ~Failed(Measured(q, c))
      BY SMTT(30), <1>2 DEF Failed, Measured, Shape, Parts
    <3>3. y = Fail(q, "HPE_INVALID_CONTENT_LENGTH")
      BY <2>5, <3>1, <3>2
    <3> QED BY <1>2, <2>4, <2>5, <3>3, Failing DEF Good
  <2>6. CASE ~Failed(y)
    BY <1>6, <2>1, <2>3, <2>4, <2>6, AtChunkSize
  <2> QED BY <2>5, <2>6
<1>7. CASE q.state = "s_chunk_size_almost_done" /\ s # "s_dead"
  <2>1. /\ s # "s_chunk_size" /\ q.state # "s_chunk_data"
        /\ s # "s_chunk_data_done" /\ s # "s_chunk_size_start"
    BY <1>3, <1>7
  <2>2. r = ChunkSizeAlmostDone(q)
    BY Zenon, <1>1, <1>7, <2>1 DEF ChunkStep
  <2> QED BY <1>7, <2>2, AtChunkSizeAlmostDone
<1>8. CASE q.state = "s_chunk_data_almost_done" /\ s # "s_dead"
  <2>1. s = "s_chunk_data_done"
    BY <1>3, <1>8
  <2>2. /\ s # "s_chunk_size" /\ q.state # "s_chunk_data" /\ s # "s_chunk_size_start"
        /\ q.state # "s_chunk_size_almost_done"
    BY <1>8, <2>1
  <2>3. PICK y : y = To(q, s)
    OBVIOUS
  <2>4. r = Deliver(y, "body", 0)
    BY Zenon, <1>1, <1>8, <2>1, <2>2, <2>3 DEF ChunkStep
  <2>5. Shape(y) /\ But(q, y, {"state"}) /\ y.state = s
    BY <1>2, <2>3, Moving
  <2>6. y.marks = q.marks /\ y.owed = q.owed /\ y.run = 0 /\ y.flags = q.flags
    BY <1>2, <2>5, ButParts
  <2>7. Whole(y)
    BY <1>2, <2>6 DEF Whole
  <2>8. Shape(r) /\ But(y, r, {"marks", "owed"}) /\ DOMAIN r.marks = {} /\ r.owed = 0
    <3>1. CASE DOMAIN q.marks = {"body"}
      BY <2>4, <2>5, <2>6, <2>7, <3>1, DeliveringAll
    <3>2. CASE DOMAIN q.marks = {}
      <4>1. r = y
        BY <2>4, <2>6, <3>2, NothingToDeliver
      <4>2. But(y, y, {"marks", "owed"})
        BY <2>5 DEF But
      <4> QED BY <2>5, <2>6, <2>7, <3>2, <4>1, <4>2 DEF Whole
    <3>3. DOMAIN q.marks = {} \/ DOMAIN q.marks = {"body"}
      BY <1>2
    <3> QED BY <3>1, <3>2, <3>3
  <2>9. r.state = s /\ r.run = 0 /\ r.flags = q.flags
    BY <2>5, <2>6, <2>8, ButParts
  <2>10. Forgets(q, r) /\ Chunked(r)
    BY <1>2, <2>1, <2>9 DEF Forgets, PARSING_HEADER, Chunked
  <2>11. r.state \in ChunkStates \ {"s_chunk_data", "s_chunk_data_almost_done"}
         /\ r.state \notin SizeStates /\ q.state \notin BodyStates
    BY <1>8, <2>1, <2>9, ChunkStatesAre DEF SizeStates, BodyStates
  <2> QED BY <1>2, <2>1, <2>8, <2>9, <2>10, <2>11, ToChunkLine
<1>9. CASE q.state = "s_chunk_data_done" /\ s # "s_dead"
  <2>1. s = "s_chunk_size_start"
    BY <1>3, <1>9
  <2>2. /\ s # "s_chunk_size" /\ q.state # "s_chunk_data" /\ s # "s_chunk_data_done"
        /\ q.state # "s_chunk_size_almost_done"
    BY <1>9, <2>1
  <2>3. r = [q EXCEPT !.nread = 0, !.state = s]
    BY Zenon, <1>1, <1>9, <2>1, <2>2 DEF ChunkStep
  <2>4. /\ Shape(r) /\ r.state = s /\ r.nread = 0 /\ r.run = 0 /\ r.marks = q.marks
        /\ r.owed = q.owed /\ r.flags = q.flags
    BY SMTT(30), <1>2, <2>3, HttpParserConstants DEF Shape, Parts
  <2>5. Forgets(q, r) /\ Chunked(r) /\ DOMAIN r.marks = {} /\ r.owed = 0
    BY <1>2, <1>9, <2>1, <2>4 DEF Forgets, Chunked, Whole
  <2>6. r.state \in ChunkStates \ {"s_chunk_data", "s_chunk_data_almost_done"}
        /\ r.state \notin SizeStates /\ q.state \notin BodyStates
    BY <1>9, <2>1, <2>4, ChunkStatesAre DEF SizeStates, BodyStates
  <2> QED BY <1>2, <2>4, <2>5, <2>6, ToChunkLine
<1>10. CASE /\ q.state \in {"s_chunk_size", "s_chunk_parameters"}
            /\ s \in {"s_chunk_size_almost_done", "s_chunk_parameters"}
  <2>1. /\ s # "s_chunk_size" /\ q.state # "s_chunk_data" /\ s # "s_chunk_data_done"
        /\ q.state # "s_chunk_size_almost_done" /\ s # "s_dead" /\ s # "s_chunk_size_start"
    BY <1>10
  <2>2. r = To(q, s)
    BY Zenon, <1>1, <2>1 DEF ChunkStep
  <2>3. Shape(r) /\ But(q, r, {"state"}) /\ r.state = s
    BY <1>2, <2>2, Moving
  <2>4. /\ r.marks = q.marks /\ r.owed = q.owed /\ r.run = 0 /\ r.flags = q.flags
        /\ r.nread = q.nread /\ r.content_length = q.content_length
    BY <1>2, <2>3, ButParts
  <2>5. Chunked(r) /\ DOMAIN r.marks = {} /\ r.owed = 0
    BY <1>2, <1>10, <2>4 DEF Chunked, Whole
  <2>6. /\ r.state \in ChunkStates \ {"s_chunk_data", "s_chunk_data_almost_done"}
        /\ r.content_length < ULLONG_MAX /\ q.state \notin BodyStates
        /\ r.state # "s_chunk_size_start"
    BY <1>2, <1>10, <2>3, <2>4, ChunkStatesAre DEF SizeStates, BodyStates
  <2> QED BY <1>2, <2>3, <2>4, <2>5, <2>6, ToChunkLine
<1> QED BY <1>3, <1>4, <1>5, <1>6, <1>7, <1>8, <1>9, <1>10, ChunkStatesAre

-----------------------------------------------------------------------------
(* Every state, every symbol *)

LEMMA Handling ==
  ASSUME NEW q, Fit(q), PARSING_HEADER(q.state) /\ q.run = 0 => q.nread >= 1, NEW ch,
         NEW r, r = Handle(q, ch)
  PROVE  Good(q, r)
<1>1. ~Failed(q) /\ q.state \in States
  BY DEF Fit, Sane
<1> DEFINE Single == {"s_dead", "s_start_res", "s_start_req", "s_req_method",
                      "s_req_spaces_before_url", "s_header_field_start", "s_header_field",
                      "s_header_value_discard_ws", "s_header_value_discard_ws_almost_done",
                      "s_header_value_discard_lws", "s_header_value", "s_header_almost_done",
                      "s_header_value_lws", "s_headers_almost_done", "s_body_identity",
                      "s_body_identity_eof"}
<1>2. q.state \in Single \cup UrlOpen \cup LineStates \cup ChunkStates
  BY <1>1, ChunkStatesAre
     DEF States, Starts, HeadStates, HeaderStates, BodyStates, UrlOpen
<1>3. /\ UrlOpen \cap Single = {} /\ LineStates \cap Single = {} /\ ChunkStates \cap Single = {}
      /\ UrlOpen \cap LineStates = {} /\ UrlOpen \cap ChunkStates = {}
      /\ LineStates \cap ChunkStates = {}
  BY UrlStatesAre, LineStatesAre, ChunkStatesAre DEF UrlOpen
<1>4. CASE q.state = "s_dead"
  <2>1. q.state \notin UrlOpen /\ q.state \notin LineStates /\ q.state \notin ChunkStates
    BY <1>3, <1>4
  <2>2. r = Dead(q, ch)
    BY Zenon, <1>1, <1>4, <2>1 DEF Handle, UrlOpen
  <2> QED BY <1>4, <2>2, AtDead
<1>5. CASE q.state = "s_start_res"
  <2>1. q.state \notin UrlOpen /\ q.state \notin LineStates /\ q.state \notin ChunkStates
    BY <1>3, <1>5
  <2>2. r = StartRes(q, ch)
    BY Zenon, <1>1, <1>5, <2>1 DEF Handle, UrlOpen
  <2> QED BY <1>5, <2>2, AtStartRes
<1>6. CASE q.state = "s_start_req"
  <2>1. q.state \notin UrlOpen /\ q.state \notin LineStates /\ q.state \notin ChunkStates
    BY <1>3, <1>6
  <2>2. r = StartReq(q, ch)
    BY Zenon, <1>1, <1>6, <2>1 DEF Handle, UrlOpen
  <2> QED BY <1>6, <2>2, AtStartReq
<1>7. CASE q.state = "s_req_method"
  <2>1. q.state \notin UrlOpen /\ q.state \notin LineStates /\ q.state \notin ChunkStates
    BY <1>3, <1>7
  <2>2. r = ReqMethod(q, ch)
    BY Zenon, <1>1, <1>7, <2>1 DEF Handle, UrlOpen
  <2> QED BY <1>7, <2>2, AtMethod
<1>8. CASE q.state = "s_req_spaces_before_url"
  <2>1. q.state \notin UrlOpen /\ q.state \notin LineStates /\ q.state \notin ChunkStates
    BY <1>3, <1>8
  <2>2. r = SpacesBeforeUrl(q, ch)
    BY Zenon, <1>1, <1>8, <2>1 DEF Handle, UrlOpen
  <2> QED BY <1>8, <2>2, AtSpaces
<1>9. CASE q.state = "s_header_field_start"
  <2>1. q.state \notin UrlOpen /\ q.state \notin LineStates /\ q.state \notin ChunkStates
    BY <1>3, <1>9
  <2>2. r = HeaderFieldStart(q, ch)
    BY Zenon, <1>1, <1>9, <2>1 DEF Handle, UrlOpen
  <2> QED BY <1>9, <2>2, AtHeaderFieldStart
<1>10. CASE q.state = "s_header_field"
  <2>1. q.state \notin UrlOpen /\ q.state \notin LineStates /\ q.state \notin ChunkStates
    BY <1>3, <1>10
  <2>2. r = HeaderField(q, ch)
    BY Zenon, <1>1, <1>10, <2>1 DEF Handle, UrlOpen
  <2> QED BY <1>10, <2>2, AtField
<1>11. CASE q.state = "s_header_value_discard_ws"
  <2>1. q.state \notin UrlOpen /\ q.state \notin LineStates /\ q.state \notin ChunkStates
    BY <1>3, <1>11
  <2>2. r = DiscardWs(q, ch)
    BY Zenon, <1>1, <1>11, <2>1 DEF Handle, UrlOpen
  <2> QED BY <1>11, <2>2, AtDiscardWs
<1>12. CASE q.state = "s_header_value_discard_ws_almost_done"
  <2>1. q.state \notin UrlOpen /\ q.state \notin LineStates /\ q.state \notin ChunkStates
    BY <1>3, <1>12
  <2>2. r = DiscardWsAlmostDone(q, ch)
    BY Zenon, <1>1, <1>12, <2>1 DEF Handle, UrlOpen
  <2> QED BY <1>12, <2>2, AtDiscardWsAlmostDone
<1>13. CASE q.state = "s_header_value_discard_lws"
  <2>1. q.state \notin UrlOpen /\ q.state \notin LineStates /\ q.state \notin ChunkStates
    BY <1>3, <1>13
  <2>2. r = DiscardLws(q, ch)
    BY Zenon, <1>1, <1>13, <2>1 DEF Handle, UrlOpen
  <2> QED BY <1>13, <2>2, AtDiscardLws
<1>14. CASE q.state = "s_header_value"
  <2>1. q.state \notin UrlOpen /\ q.state \notin LineStates /\ q.state \notin ChunkStates
    BY <1>3, <1>14
  <2>2. r = HeaderValue(q, ch)
    BY Zenon, <1>1, <1>14, <2>1 DEF Handle, UrlOpen
  <2>3. PARSING_HEADER(q.state)
    BY <1>14 DEF PARSING_HEADER, BodyStates
  <2> QED BY <1>14, <2>2, <2>3, AtValue
<1>15. CASE q.state = "s_header_almost_done"
  <2>1. q.state \notin UrlOpen /\ q.state \notin LineStates /\ q.state \notin ChunkStates
    BY <1>3, <1>15
  <2>2. r = HeaderAlmostDone(q, ch)
    BY Zenon, <1>1, <1>15, <2>1 DEF Handle, UrlOpen
  <2> QED BY <1>15, <2>2, AtHeaderAlmostDone
<1>16. CASE q.state = "s_header_value_lws"
  <2>1. q.state \notin UrlOpen /\ q.state \notin LineStates /\ q.state \notin ChunkStates
    BY <1>3, <1>16
  <2>2. r = HeaderValueLws(q, ch)
    BY Zenon, <1>1, <1>16, <2>1 DEF Handle, UrlOpen
  <2> QED BY <1>16, <2>2, AtValueLws
<1>17. CASE q.state = "s_headers_almost_done"
  <2>1. q.state \notin UrlOpen /\ q.state \notin LineStates /\ q.state \notin ChunkStates
    BY <1>3, <1>17
  <2>2. r = HeadersAlmostDone(q, ch)
    BY Zenon, <1>1, <1>17, <2>1 DEF Handle, UrlOpen
  <2> QED BY <1>17, <2>2, AtHeadersAlmostDone
<1>18. CASE q.state = "s_body_identity"
  <2>1. q.state \notin UrlOpen /\ q.state \notin LineStates /\ q.state \notin ChunkStates
    BY <1>3, <1>18
  <2>2. r = BodyIdentity(q)
    BY Zenon, <1>1, <1>18, <2>1 DEF Handle, UrlOpen
  <2> QED BY <1>18, <2>2, AtIdentity
<1>19. CASE q.state = "s_body_identity_eof"
  <2>1. q.state \notin UrlOpen /\ q.state \notin LineStates /\ q.state \notin ChunkStates
    BY <1>3, <1>19
  <2>2. r = Mark(q, "body")
    BY Zenon, <1>1, <1>19, <2>1 DEF Handle, UrlOpen
  <2> QED BY <1>19, <2>2, AtIdentityEof
<1>20. CASE q.state \in UrlOpen
  <2>1. /\ q.state \notin LineStates /\ q.state \notin ChunkStates
        /\ q.state # "s_dead" /\ q.state # "s_start_res"
        /\ q.state # "s_start_req" /\ q.state # "s_req_method"
        /\ q.state # "s_req_spaces_before_url" /\ q.state # "s_header_field_start"
        /\ q.state # "s_header_field" /\ q.state # "s_header_value_discard_ws"
        /\ q.state # "s_header_value_discard_ws_almost_done" /\ q.state # "s_header_value_discard_lws"
        /\ q.state # "s_header_value" /\ q.state # "s_header_almost_done"
        /\ q.state # "s_header_value_lws" /\ q.state # "s_headers_almost_done"
        /\ q.state # "s_body_identity" /\ q.state # "s_body_identity_eof"
    BY <1>3, <1>20
  <2>2. r = ReqUrl(q, ch)
    BY Zenon, <1>1, <1>20, <2>1 DEF Handle, UrlOpen
  <2> QED BY <1>20, <2>2, AtUrlOpen
<1>21. CASE q.state \in LineStates
  <2>1. /\ q.state \notin UrlOpen /\ q.state \notin ChunkStates
        /\ q.state # "s_dead" /\ q.state # "s_start_res"
        /\ q.state # "s_start_req" /\ q.state # "s_req_method"
        /\ q.state # "s_req_spaces_before_url" /\ q.state # "s_header_field_start"
        /\ q.state # "s_header_field" /\ q.state # "s_header_value_discard_ws"
        /\ q.state # "s_header_value_discard_ws_almost_done" /\ q.state # "s_header_value_discard_lws"
        /\ q.state # "s_header_value" /\ q.state # "s_header_almost_done"
        /\ q.state # "s_header_value_lws" /\ q.state # "s_headers_almost_done"
        /\ q.state # "s_body_identity" /\ q.state # "s_body_identity_eof"
    BY <1>3, <1>21
  <2>2. r = LineStep(q, ch)
    BY Zenon, <1>1, <1>21, <2>1 DEF Handle, UrlOpen
  <2> QED BY <1>21, <2>2, AtLine
<1>22. CASE q.state \in ChunkStates
  <2>1. /\ q.state \notin UrlOpen /\ q.state \notin LineStates
        /\ q.state # "s_dead" /\ q.state # "s_start_res"
        /\ q.state # "s_start_req" /\ q.state # "s_req_method"
        /\ q.state # "s_req_spaces_before_url" /\ q.state # "s_header_field_start"
        /\ q.state # "s_header_field" /\ q.state # "s_header_value_discard_ws"
        /\ q.state # "s_header_value_discard_ws_almost_done" /\ q.state # "s_header_value_discard_lws"
        /\ q.state # "s_header_value" /\ q.state # "s_header_almost_done"
        /\ q.state # "s_header_value_lws" /\ q.state # "s_headers_almost_done"
        /\ q.state # "s_body_identity" /\ q.state # "s_body_identity_eof"
    BY <1>3, <1>22
  <2>2. r = ChunkStep(q, ch)
    BY Zenon, <1>1, <1>22, <2>1 DEF Handle, UrlOpen
  <2> QED BY <1>22, <2>2, AtChunk
<1> QED BY <1>2, <1>4, <1>5, <1>6, <1>7, <1>8, <1>9, <1>10, <1>11, <1>12, <1>13, <1>14, <1>15,
           <1>16, <1>17, <1>18, <1>19, <1>20, <1>21, <1>22

-----------------------------------------------------------------------------
(* One turn of the loop *)

\* What is read outside of a header is not counted.
LEMMA BodyForgets ==
  ASSUME NEW q, Fit(q), ~PARSING_HEADER(q.state), NEW ch, NEW r, r = Handle(q, ch), ~Failed(r)
  PROVE  Forgets(q, r)
<1>1. /\ ~Failed(q) /\ DOMAIN q = Parts /\ q.state \in States /\ q.content_length \in Int
  BY HttpParserConstants DEF Fit, Sane, Shape
<1>2. q.state \in BodyStates \cup {"s_chunk_data_almost_done", "s_chunk_data_done"}
  BY <1>1, UrlStatesAre, LineStatesAre, ChunkStatesAre
     DEF PARSING_HEADER, States, Starts, HeadStates, HeaderStates
<1>3. PICK y : y = Mark(q, "body")
  OBVIOUS
<1>4. Shape(y) /\ y.state = q.state
  <2>1. Shape(y) /\ But(q, y, {"marks"})
    BY <1>3, Marking DEF Fit, Kinds
  <2> QED BY <2>1, ButParts
<1>5. q.state \notin UrlStates /\ q.state \notin LineStates
  BY <1>2, UrlStatesAre, LineStatesAre DEF BodyStates
<1>6. CASE q.state = "s_body_identity"
  <2>1. r = BodyIdentity(q)
    <3>1. q.state \notin ChunkStates
      BY <1>6, ChunkStatesAre
    <3> QED BY Zenon, <1>1, <1>5, <1>6, <3>1 DEF Handle
  <2>2. PICK m : m = [y EXCEPT !.content_length = @ - 1]
    OBVIOUS
  <2>3. m.state = q.state
    BY SMTT(30), <1>4, <2>2 DEF Shape, Parts
  <2>4. r = m \/ \E z : DOMAIN z = Parts /\ r = NewMessage(z)
    <3>1. PICK z : z = Deliver(To(m, "s_message_done"), "body", 1)
      OBVIOUS
    <3>2. DOMAIN z = Parts
      BY <1>4, <2>2, <3>1 DEF Deliver, To, Shape
    <3>3. r = m \/ r = NewMessage(z)
      BY <1>3, <2>1, <2>2, <3>1 DEF BodyIdentity, MessageDone
    <3> QED BY <3>2, <3>3
  <2>5. r = m \/ r.state \in Starts \cup {"s_dead"}
    BY <2>4 DEF NewMessage, To, Starts, start_state, Parts
  <2> QED BY <1>6, <2>3, <2>5 DEF Forgets, PARSING_HEADER, BodyStates
<1>7. CASE q.state = "s_body_identity_eof"
  <2>1. q.state \notin ChunkStates
    BY <1>7, ChunkStatesAre
  <2>2. r = Mark(q, "body")
    BY Zenon, <1>1, <1>5, <1>7, <2>1 DEF Handle
  <2> QED BY <1>3, <1>4, <1>7, <2>2 DEF Forgets, PARSING_HEADER, BodyStates
<1>8. CASE q.state \in {"s_chunk_data", "s_chunk_data_almost_done", "s_chunk_data_done"}
  <2>1. PICK s : s = Follow(ChunkArcs, q.state, ch, "s_dead")
    OBVIOUS
  <2>2. q.state \in ChunkStates
    BY <1>8, ChunkStatesAre
  <2>3. /\ q.state = "s_chunk_data" => s \in {"s_dead", "s_chunk_data"}
        /\ q.state = "s_chunk_data_almost_done" => s \in {"s_dead", "s_chunk_data_done"}
        /\ q.state = "s_chunk_data_done" => s \in {"s_dead", "s_chunk_size_start"}
    BY <2>1, <2>2, ChunkArc
  <2>4. r = ChunkStep(q, ch)
    <3>1. /\ q.state # "s_dead" /\ q.state # "s_start_res" /\ q.state # "s_start_req"
          /\ q.state # "s_req_method"
          /\ q.state # "s_req_spaces_before_url" /\ q.state # "s_header_field_start"
          /\ q.state # "s_header_field" /\ q.state # "s_header_value_discard_ws"
          /\ q.state # "s_header_value_discard_ws_almost_done"
          /\ q.state # "s_header_value_discard_lws"
          /\ q.state # "s_header_value" /\ q.state # "s_header_almost_done"
          /\ q.state # "s_header_value_lws" /\ q.state # "s_headers_almost_done"
          /\ q.state # "s_body_identity" /\ q.state # "s_body_identity_eof"
      BY <1>8
    <3> QED BY Zenon, <1>1, <1>5, <2>2, <3>1 DEF Handle
  <2>5. CASE q.state = "s_chunk_data"
    <3>1. /\ s # "s_chunk_size" /\ q.state # "s_chunk_size_almost_done"
          /\ s # "s_chunk_data_done" /\ s # "s_chunk_size_start"
          /\ ~(s = "s_dead" /\ q.state # "s_chunk_data")
      BY <2>3, <2>5
    <3>2. r = ChunkData(q)
      BY Zenon, <2>1, <2>4, <2>5, <3>1 DEF ChunkStep
    <3>3. PICK m : m = [y EXCEPT !.content_length = @ - 1]
      OBVIOUS
    <3>4. m.state = q.state
      BY SMTT(30), <1>4, <3>3 DEF Shape, Parts
    <3>5. r = m \/ r = To(m, "s_chunk_data_almost_done")
      BY <1>3, <3>2, <3>3 DEF ChunkData
    <3>6. DOMAIN m = Parts
      BY <1>4, <3>3 DEF Shape
    <3>7. r.state \in {"s_chunk_data", "s_chunk_data_almost_done"}
      BY <2>5, <3>4, <3>5, <3>6 DEF To, Parts
    <3> QED BY <3>7 DEF Forgets, PARSING_HEADER, BodyStates
  <2>6. CASE q.state # "s_chunk_data" /\ s = "s_dead"
    <3>1. PICK e \in {"HPE_INVALID_CHUNK_SIZE", "HPE_STRICT"} : r = Fail(q, e)
      <4>1. /\ s # "s_chunk_size" /\ s # "s_chunk_data_done" /\ s # "s_chunk_size_start"
            /\ ~(q.state = "s_chunk_size_almost_done" /\ s # "s_dead")
        BY <2>6
      <4>2. r = Fail(q, IF q.state \in {"s_chunk_size_start", "s_chunk_size"}
                        THEN "HPE_INVALID_CHUNK_SIZE" ELSE "HPE_STRICT")
        BY Zenon, <2>1, <2>4, <2>6, <4>1 DEF ChunkStep
      <4> QED BY <4>2
    <3> QED BY <3>1, Failing DEF Fit
  <2>7. CASE q.state = "s_chunk_data_almost_done" /\ s = "s_chunk_data_done"
    <3>1. /\ s # "s_chunk_size" /\ q.state # "s_chunk_data" /\ s # "s_chunk_size_start"
          /\ q.state # "s_chunk_size_almost_done" /\ s # "s_dead"
      BY <2>7
    <3>2. PICK z : z = To(q, s)
      OBVIOUS
    <3>3. r = Deliver(z, "body", 0)
      BY Zenon, <2>1, <2>4, <2>7, <3>1, <3>2 DEF ChunkStep
    <3>4. z.state = s /\ DOMAIN z = Parts
      BY <1>1, <3>2 DEF To, Parts
    <3>5. r.state = s
      BY <3>3, <3>4 DEF Deliver, Parts
    <3> QED BY <2>7, <3>5 DEF Forgets, PARSING_HEADER
  <2>8. CASE q.state = "s_chunk_data_done" /\ s = "s_chunk_size_start"
    <3>1. /\ s # "s_chunk_size" /\ q.state # "s_chunk_data" /\ s # "s_chunk_data_done"
          /\ q.state # "s_chunk_size_almost_done" /\ s # "s_dead"
      BY <2>8
    <3>2. r = [q EXCEPT !.nread = 0, !.state = s]
      BY Zenon, <2>1, <2>4, <2>8, <3>1 DEF ChunkStep
    <3>3. r.state = s
      BY <1>1, <3>2 DEF Parts
    <3> QED BY <2>8, <3>3 DEF Forgets
  <2> QED BY <1>8, <2>3, <2>5, <2>6, <2>7, <2>8
<1> QED BY <1>2, <1>6, <1>7, <1>8 DEF BodyStates

\* A symbol of a header is counted first, unless a loop counts what it has read.
LEMMA CountedFirst ==
  ASSUME NEW q, Fit(q), NEW c, c = IF PARSING_HEADER(q.state) /\ ~InLoop(q) THEN Count(q, 1) ELSE q,
         ~Failed(c)
  PROVE  /\ Fit(c) /\ c.state = q.state /\ c.run = q.run
         /\ PARSING_HEADER(c.state) /\ c.run = 0 => c.nread >= 1
         /\ c.nread = IF PARSING_HEADER(q.state) /\ q.run = 0 THEN q.nread + 1 ELSE q.nread
<1>1. /\ Shape(q) /\ ~Failed(q) /\ Sane(q) /\ Whole(q)
      /\ q.nread \in Nat /\ q.run \in Nat
  BY SMTT(30), HttpParserConstants DEF Fit, Shape
<1>2. InLoop(q) <=> q.run > 0
  BY <1>1 DEF InLoop, Sane
<1>3. CASE PARSING_HEADER(q.state) /\ ~InLoop(q)
  <2>1. c = Count(q, 1)
    BY <1>3
  <2>2. 1 \in Int /\ q.nread + 1 >= 0
    BY <1>1
  <2>3. Shape(c) /\ But(q, c, {"nread"}) /\ c.nread = q.nread + 1
    BY <1>1, <2>1, <2>2, Counting
  <2>4. /\ c.state = q.state /\ c.run = q.run /\ c.marks = q.marks /\ c.owed = q.owed
        /\ c.header_state = q.header_state /\ c.flags = q.flags /\ c.index = q.index
        /\ c.content_length = q.content_length /\ c.method = q.method
    BY <2>3, ButParts
  <2>5. Sane(c) /\ Whole(c)
    BY <1>1, <2>4 DEF Sane, Opened, Reopened, Chunked, Whole
  <2>6. q.run = 0
    BY <1>1, <1>2, <1>3
  <2>7. c.nread >= 1
    BY <1>1, <2>3
  <2> QED BY <1>3, <2>3, <2>4, <2>5, <2>6, <2>7 DEF Fit
<1>4. CASE ~(PARSING_HEADER(q.state) /\ ~InLoop(q))
  <2>1. c = q
    BY <1>4
  <2> QED BY <1>1, <1>2, <1>4, <2>1 DEF Fit
<1> QED BY <1>3, <1>4

\* What one symbol makes of a parser that has not failed.
LEMMA Feeding ==
  ASSUME NEW q, Fit(q), NEW ch, NEW r, r = Feed(q, ch)
  PROVE  /\ Shape(r)
         /\ ~Failed(r) => /\ Sane(r) /\ Whole(r) /\ Unread(r)
                          /\ \/ Forgets(q, r)
                             \/ q.run = 0 /\ r.nread + r.run >= q.nread + 1 + (IF r.run > 0 THEN 1 ELSE 0)
                             \/ q.run > 0 /\ r.nread + r.run >= q.nread + q.run + (IF r.run > 0 THEN 1 ELSE 0)
<1>1. /\ Shape(q) /\ ~Failed(q) /\ Sane(q) /\ Whole(q)
      /\ q.nread \in Nat /\ q.run \in Nat
  BY SMTT(30), HttpParserConstants DEF Fit, Shape
<1>2. PICK c : c = IF PARSING_HEADER(q.state) /\ ~InLoop(q) THEN Count(q, 1) ELSE q
  OBVIOUS
<1>3. PICK h : h = Handle(c, ch)
  OBVIOUS
<1>4. r = [h EXCEPT !.marks = [k \in DOMAIN @ |-> @[k] + 1],
                    !.owed = IF InPiece(q, h) THEN @ + 1 ELSE @]
  BY <1>2, <1>3 DEF Feed
<1>5. Shape(h) => /\ But(h, r, {"marks", "owed"}) /\ DOMAIN r.marks = DOMAIN h.marks
                  /\ \A k \in DOMAIN h.marks : r.marks[k] = h.marks[k] + 1
                  /\ r.owed = IF InPiece(q, h) THEN h.owed + 1 ELSE h.owed
  <2> SUFFICES ASSUME Shape(h)
               PROVE  /\ But(h, r, {"marks", "owed"}) /\ DOMAIN r.marks = DOMAIN h.marks
                      /\ \A k \in DOMAIN h.marks : r.marks[k] = h.marks[k] + 1
                      /\ r.owed = IF InPiece(q, h) THEN h.owed + 1 ELSE h.owed
    OBVIOUS
  <2>1. PICK m : m = [k \in DOMAIN h.marks |-> h.marks[k] + 1]
    OBVIOUS
  <2>2. PICK o : o = IF InPiece(q, h) THEN h.owed + 1 ELSE h.owed
    OBVIOUS
  <2>3. r = [h EXCEPT !.marks = m, !.owed = o]
    BY <1>4, <2>1, <2>2
  <2>4. But(h, r, {"marks", "owed"}) /\ r.marks = m /\ r.owed = o
    BY ZenonT(30), <2>3 DEF Shape, But, Parts
  <2> QED BY <2>1, <2>2, <2>4
<1>6. Shape(h) => Shape(r) /\ (Failed(r) <=> Failed(h))
  <2> SUFFICES ASSUME Shape(h) PROVE Shape(r) /\ (Failed(r) <=> Failed(h))
    OBVIOUS
  <2>1. /\ DOMAIN r = Parts /\ r.nread = h.nread /\ r.content_length = h.content_length
        /\ r.http_major = h.http_major /\ r.http_minor = h.http_minor
        /\ r.status_code = h.status_code /\ r.flags = h.flags /\ r.method = h.method
        /\ r.index = h.index /\ r.run = h.run /\ r.http_errno = h.http_errno
    BY <1>5 DEF But, Parts
  <2>2. r.owed \in Int
    BY <1>5 DEF Shape
  <2> QED BY <1>5, <2>1, <2>2 DEF Shape, Failed
<1>7. CASE Failed(c)
  <2>1. c = Count(q, 1)
    BY <1>1, <1>2, <1>7
  <2>2. Shape(c)
    <3>1. 1 \in Int /\ q.nread + 1 >= 0
      BY <1>1
    <3> QED BY <1>1, <2>1, <3>1, Counting
  <2>3. h = c
    BY <1>3, <1>7 DEF Handle
  <2> QED BY <1>6, <1>7, <2>2, <2>3
<1>8. CASE ~Failed(c)
  <2>1. /\ Fit(c) /\ c.state = q.state /\ c.run = q.run
        /\ PARSING_HEADER(c.state) /\ c.run = 0 => c.nread >= 1
        /\ c.nread = IF PARSING_HEADER(q.state) /\ q.run = 0 THEN q.nread + 1 ELSE q.nread
    BY <1>2, <1>8, CountedFirst
  <2>2. Good(c, h)
    BY <1>3, <2>1, Handling
  <2>3. CASE Failed(h)
    BY <1>6, <2>2, <2>3 DEF Good
  <2>4. CASE ~Failed(h)
    <3>1. /\ Shape(h) /\ Sane(h) /\ Unread(h) /\ Pieced(c, h) /\ Counted(c, h)
      BY <2>2, <2>4 DEF Good
    <3>2. /\ r.state = h.state /\ r.run = h.run /\ r.header_state = h.header_state
          /\ r.flags = h.flags /\ r.index = h.index /\ r.nread = h.nread
          /\ r.content_length = h.content_length /\ r.method = h.method
      BY <1>5, <3>1, ButParts
    <3>3. Sane(r) /\ Unread(r)
      BY <1>5, <3>1, <3>2 DEF Sane, Opened, Reopened, Chunked, Unread
    <3>4. Whole(r)
      <4>1. h.owed \in Int
        BY <3>1 DEF Shape
      <4>2. CASE q.state \in BodyStates
        <5>1. r.owed = h.owed + 1
          BY <1>5, <2>4, <3>1, <4>2 DEF InPiece
        <5>2. IF DOMAIN h.marks = {} THEN h.owed = -1 ELSE Whole(h)
          BY <2>1, <3>1, <4>2 DEF Pieced
        <5> QED BY <1>5, <3>1, <4>1, <5>1, <5>2 DEF Whole
      <4>3. CASE q.state \notin BodyStates /\ h.state \in Pieces
        <5>1. r.owed = h.owed + 1
          BY <1>5, <2>4, <3>1, <4>3 DEF InPiece
        <5>2. Whole(h)
          BY <2>1, <3>1, <4>3 DEF Pieced
        <5>3. DOMAIN h.marks # {}
          <6>1. Reopened(h) # {}
            BY <4>3, UrlStatesAre DEF Reopened, Pieces
          <6> QED BY <3>1, <6>1 DEF Sane, Opened
        <5> QED BY <1>5, <3>1, <4>1, <5>1, <5>2, <5>3 DEF Whole
      <4>4. CASE q.state \notin BodyStates /\ h.state \notin Pieces
        <5>1. r.owed = h.owed
          BY <1>5, <3>1, <4>4 DEF InPiece
        <5>2. Whole(h) /\ DOMAIN h.marks = {}
          BY <2>1, <3>1, <4>4 DEF Pieced
        <5> QED BY <1>5, <3>1, <5>1, <5>2 DEF Whole
      <4> QED BY <4>2, <4>3, <4>4
    <3>5. Forgets(c, h) => Forgets(q, r)
      BY <2>1, <3>2 DEF Forgets
    <3>6. CASE ~PARSING_HEADER(q.state)
      <4>1. Forgets(c, h)
        BY <1>3, <2>1, <2>4, <3>6, BodyForgets
      <4> QED BY <1>6, <3>1, <3>3, <3>4, <3>5, <4>1
    <3>7. CASE PARSING_HEADER(q.state)
      <4>1. Forgets(c, h) \/ h.nread + h.run >= c.nread + c.run + (IF h.run > 0 THEN 1 ELSE 0)
        BY <3>1 DEF Counted
      <4>2. CASE q.run = 0
        <5>1. c.nread + c.run = q.nread + 1
          BY <1>1, <2>1, <3>7, <4>2
        <5> QED BY <1>6, <3>1, <3>2, <3>3, <3>4, <3>5, <4>1, <4>2, <5>1
      <4>3. CASE q.run > 0
        <5>1. c.nread + c.run = q.nread + q.run
          BY <1>1, <2>1, <4>3
        <5> QED BY <1>6, <3>1, <3>2, <3>3, <3>4, <3>5, <4>1, <4>3, <5>1
      <4> QED BY <1>1, <4>2, <4>3
    <3> QED BY <3>6, <3>7
  <2> QED BY <2>3, <2>4
<1> QED BY <1>7, <1>8

\* The history remembers how much was read of a header.
LEMMA Remembering ==
  ASSUME NEW h, History(h), NEW q, NEW ch, NEW r, ~Failed(r), NEW n, n = After(h, q, ch, r)
  PROVE  /\ History(n)
         /\ n.size = IF Forgets(q, r) THEN 0 ELSE h.size + 1
<1> DEFINE size == IF Forgets(q, r) THEN 0 ELSE h.size + 1
           base == IF Begins(q, r) THEN NoHistory ELSE h
           over == q.state = "s_header_value_lws" /\ ~InLine(r.state)
           last == IF over THEN Listed(h.name, h.el) ELSE {}
           counted == [base EXCEPT !.size = size]
           line == [counted EXCEPT
                      !.name = IF r.state = "s_header_field"
                               THEN Extend(KnownNames, IF q.state = "s_header_field" THEN @ ELSE <<>>, ch)
                               ELSE IF InLine(r.state) THEN @ ELSE <<>>,
                      !.el = IF InLine(r.state) THEN @ ELSE <<>>,
                      !.odd = InLine(r.state) /\ @,
                      !.listed = @ \cup last,
                      !.plain = @ \cup (IF h.odd THEN {} ELSE last),
                      !.taken = IF q.state \in {"s_body_identity", "s_chunk_data"} THEN @ + 1 ELSE @]
           read == CASE r.state = "s_header_value" -> ValueRead(line, q, ch)
                     [] r.state = "s_chunk_size" -> SizeRead(line, q, ch)
                     [] OTHER -> line
<1>1. n = [read EXCEPT !.done = @ \/ Completes(q, r)]
  BY DEF After, Forgets
<1>2. size \in Nat
  BY DEF History
<1>3. read \in {ValueRead(line, q, ch), SizeRead(line, q, ch), line}
  BY Zenon
<1> HIDE DEF size, read, over, last
<1>4. DOMAIN base = Remembered
  BY DEF History, NoHistory, Remembered
<1> HIDE DEF base
<1>5. DOMAIN counted = Remembered /\ counted.size = size
  BY <1>4 DEF Remembered
<1> HIDE DEF counted
<1>6. DOMAIN line = Remembered /\ line.size = size
  BY <1>5 DEF Remembered
<1> HIDE DEF line
<1>7. DOMAIN read = Remembered /\ read.size = size
  <2>1. CASE read = ValueRead(line, q, ch)
    BY <1>6, <2>1 DEF ValueRead, Remembered
  <2>3. CASE read = SizeRead(line, q, ch)
    BY <1>6, <2>3 DEF SizeRead, Remembered
  <2>4. CASE read = line
    BY <1>6, <2>4
  <2> QED BY <1>3, <2>1, <2>3, <2>4
<1>8. DOMAIN n = Remembered /\ n.size = size
  BY <1>1, <1>7 DEF Remembered
<1> QED BY <1>2, <1>8 DEF History, size

-----------------------------------------------------------------------------
(* The end of a call *)

\* At most one piece is open.
LEMMA OnePiece ==
  ASSUME NEW q, Sane(q), Shape(q)
  PROVE  DOMAIN q.marks = {} \/ \E k \in Kinds : DOMAIN q.marks = {k}
<1>1. DOMAIN q.marks \subseteq Kinds
  BY DEF Shape
<1>2. CASE q.state \in MayHoldBody
  <2>1. Reopened(q) = {}
    BY <1>2, UrlStatesAre DEF MayHoldBody, BodyStates, Reopened
  <2> QED BY <1>1, <1>2, <2>1 DEF Sane, Opened
<1>3. CASE q.state \notin MayHoldBody
  <2>1. Reopened(q) = {} \/ \E k : Reopened(q) = {k}
    BY DEF Reopened
  <2> QED BY <1>1, <1>3, <2>1 DEF Sane, Opened
<1> QED BY <1>2, <1>3

\* A piece that is open is given away, or none is.
Alone(q) ==
  /\ Shape(q) /\ Whole(q)
  /\ DOMAIN q.marks = {} \/ \E k \in Kinds : DOMAIN q.marks = {k}

LEMMA DeliveringOne ==
  ASSUME NEW q, Alone(q), NEW k, NEW r, r = Deliver(q, k, 0)
  PROVE  /\ Alone(r) /\ But(q, r, {"marks", "owed"})
         /\ DOMAIN r.marks = DOMAIN q.marks \ {k}
<1>1. CASE k \notin DOMAIN q.marks
  <2>1. r = q
    BY <1>1 DEF Deliver
  <2> QED BY SMTT(30), <1>1, <2>1 DEF Alone, But, Shape
<1>2. CASE k \in DOMAIN q.marks
  <2>1. DOMAIN q.marks = {k}
    BY <1>2 DEF Alone
  <2>2. Shape(r) /\ But(q, r, {"marks", "owed"}) /\ DOMAIN r.marks = {} /\ r.owed = 0
    BY <2>1, DeliveringAll DEF Alone
  <2> QED BY <2>1, <2>2 DEF Alone, Whole
<1> QED BY <1>1, <1>2

LEMMA Flushing ==
  ASSUME NEW q, Alone(q), NEW r, r = Flush(q)
  PROVE  Shape(r) /\ But(q, r, {"marks", "owed"}) /\ r.owed = 0
<1>1. PICK a : a = Deliver(q, "field", 0)
  OBVIOUS
<1>2. PICK b : b = Deliver(a, "value", 0)
  OBVIOUS
<1>3. PICK c : c = Deliver(b, "url", 0)
  OBVIOUS
<1>4. PICK d : d = Deliver(c, "body", 0)
  OBVIOUS
<1>5. r = Deliver(d, "status", 0)
  BY <1>1, <1>2, <1>3, <1>4 DEF Flush
<1>6. Alone(a) /\ But(q, a, {"marks", "owed"}) /\ DOMAIN a.marks = DOMAIN q.marks \ {"field"}
  BY <1>1, DeliveringOne
<1>7. Alone(b) /\ But(a, b, {"marks", "owed"}) /\ DOMAIN b.marks = DOMAIN a.marks \ {"value"}
  BY <1>2, <1>6, DeliveringOne
<1>8. Alone(c) /\ But(b, c, {"marks", "owed"}) /\ DOMAIN c.marks = DOMAIN b.marks \ {"url"}
  BY <1>3, <1>7, DeliveringOne
<1>9. Alone(d) /\ But(c, d, {"marks", "owed"}) /\ DOMAIN d.marks = DOMAIN c.marks \ {"body"}
  BY <1>4, <1>8, DeliveringOne
<1>10. Alone(r) /\ But(d, r, {"marks", "owed"}) /\ DOMAIN r.marks = DOMAIN d.marks \ {"status"}
  BY <1>5, <1>9, DeliveringOne
<1>11. But(q, r, {"marks", "owed"})
  BY <1>6, <1>7, <1>8, <1>9, <1>10 DEF But
<1>12. DOMAIN r.marks = {}
  <2>1. DOMAIN q.marks \subseteq Kinds
    BY DEF Alone, Shape
  <2> QED BY <1>6, <1>7, <1>8, <1>9, <1>10, <2>1 DEF Kinds
<1> QED BY <1>10, <1>11, <1>12 DEF Alone, Whole

\* What the end of a call makes of a parser that has not failed.
LEMMA Calling ==
  ASSUME NEW q, Fit(q), Unread(q), NEW r, r = NextExecute(q)
  PROVE  /\ Shape(r)
         /\ ~Failed(r) => /\ Sane(r) /\ Whole(r) /\ Unread(r)
                          /\ r.nread + r.run = q.nread + q.run /\ r.run = 0
                          /\ But(q, r, {"nread", "run", "marks", "owed"})
<1>1. /\ Shape(q) /\ ~Failed(q) /\ Sane(q) /\ Whole(q)
      /\ q.nread \in Nat /\ q.run \in Nat
  BY SMTT(30), HttpParserConstants DEF Fit, Shape
<1>2. InLoop(q) <=> q.run > 0
  BY <1>1 DEF InLoop, Sane
<1>3. PICK c : c = IF InLoop(q) THEN Count([q EXCEPT !.run = 0], q.run) ELSE q
  OBVIOUS
<1>4. /\ Shape(c)
      /\ ~Failed(c) => /\ But(q, c, {"nread", "run"})
                       /\ c.nread = q.nread + q.run /\ c.run = 0
  <2>1. CASE InLoop(q)
    <3>1. PICK z : z = [q EXCEPT !.run = 0]
      OBVIOUS
    <3>2. /\ DOMAIN z = Parts /\ z.run = 0 /\ \A f \in Parts \ {"run"} : z[f] = q[f]
      BY <1>1, <3>1 DEF Shape
    <3>3. But(q, z, {"run"})
      BY <3>2 DEF But
    <3>4. /\ z.nread = q.nread /\ z.content_length = q.content_length
          /\ z.http_major = q.http_major /\ z.http_minor = q.http_minor
          /\ z.status_code = q.status_code /\ z.flags = q.flags /\ z.method = q.method
          /\ z.index = q.index /\ z.marks = q.marks /\ z.owed = q.owed
          /\ z.http_errno = q.http_errno
      BY <3>3, ButParts
    <3>5. Shape(z) /\ ~Failed(z)
      BY <1>1, <3>2, <3>4 DEF Shape, Failed
    <3>6. c = Count(z, q.run)
      BY <1>3, <2>1, <3>1
    <3>7. q.run \in Int /\ z.nread + q.run >= 0
      BY <1>1, <3>4
    <3>8. Shape(c) /\ (~Failed(c) => But(z, c, {"nread"}) /\ c.nread = z.nread + q.run)
      BY <3>5, <3>6, <3>7, Counting
    <3>9. ~Failed(c) => But(q, c, {"nread", "run"}) /\ c.run = 0
      BY <3>2, <3>3, <3>8 DEF But, Parts
    <3> QED BY <3>4, <3>8, <3>9
  <2>2. CASE ~InLoop(q)
    <3>1. c = q /\ q.run = 0
      BY <1>1, <1>2, <1>3, <2>2
    <3> QED BY SMTT(30), <1>1, <3>1 DEF But, Shape
  <2> QED BY <2>1, <2>2
<1>5. r = IF Failed(c) THEN c ELSE [Flush(c) EXCEPT !.marks = [k \in Reopened(q) |-> 0]]
  BY <1>3 DEF NextExecute
<1>6. CASE Failed(c)
  BY <1>4, <1>5, <1>6
<1>7. CASE ~Failed(c)
  <2>1. /\ But(q, c, {"nread", "run"}) /\ Shape(c) /\ c.nread = q.nread + q.run /\ c.run = 0
    BY <1>4, <1>7
  <2>2. c.marks = q.marks /\ c.owed = q.owed
    BY <2>1, ButParts
  <2>3. Alone(c)
    <3>1. DOMAIN q.marks = {} \/ \E k \in Kinds : DOMAIN q.marks = {k}
      BY <1>1, OnePiece
    <3> QED BY <1>1, <2>1, <2>2, <3>1 DEF Alone, Whole
  <2>4. PICK f : f = Flush(c)
    OBVIOUS
  <2>5. Shape(f) /\ But(c, f, {"marks", "owed"}) /\ f.owed = 0
    BY <2>3, <2>4, Flushing
  <2>6. PICK m : m = [k \in Reopened(q) |-> 0]
    OBVIOUS
  <2>7. r = [f EXCEPT !.marks = m]
    BY <1>5, <1>7, <2>4, <2>6
  <2>8. DOMAIN r = Parts /\ r.marks = m /\ But(f, r, {"marks"})
    BY SMTT(30), <2>5, <2>7 DEF Shape, But, Parts
  <2>9. But(q, r, {"nread", "run", "marks", "owed"})
    BY <2>1, <2>5, <2>8 DEF But
  <2>10. /\ r.nread = q.nread + q.run /\ r.run = 0 /\ r.owed = 0
    BY <2>1, <2>5, <2>8, ButParts
  <2>11. /\ r.state = q.state /\ r.header_state = q.header_state /\ r.flags = q.flags
         /\ r.index = q.index /\ r.content_length = q.content_length /\ r.method = q.method
         /\ r.http_major = q.http_major /\ r.http_minor = q.http_minor
         /\ r.status_code = q.status_code
    BY <2>9, ButParts
  <2>12. DOMAIN r.marks = Reopened(q) /\ \A k \in DOMAIN r.marks : r.marks[k] = 0
    BY <2>6, <2>8
  <2>13. Whole(r)
    BY <2>10, <2>12 DEF Whole
  <2>14. Sane(r) /\ Unread(r)
    <3>1. q.run = 0 \/ q.state # "s_chunk_size_start"
      BY <1>1 DEF Sane
    <3>2. Unread(r)
      BY <1>1, <2>10, <2>11, <3>1 DEF Unread
    <3>3. Reopened(r) = Reopened(q)
      BY <2>11 DEF Reopened
    <3>4. Opened(r)
      BY <2>11, <2>12, <3>3 DEF Opened
    <3> QED BY <1>1, <2>10, <2>11, <3>2, <3>4 DEF Sane, Chunked
  <2>15. Shape(r)
    <3>1. r.nread \in 0 .. HTTP_MAX_HEADER_SIZE
      BY <2>1, <2>10 DEF Shape
    <3>2. DOMAIN r.marks \subseteq Kinds
      BY <2>12 DEF Reopened, Kinds
    <3> QED BY <1>1, <2>8, <2>10, <2>11, <3>1, <3>2 DEF Shape
  <2> QED BY <1>1, <2>9, <2>10, <2>13, <2>14, <2>15
<1> QED BY <1>6, <1>7

-----------------------------------------------------------------------------
(* The steps *)

LEMMA Begun == ASSUME Init PROVE IInv
<1>1. PICK type \in Types : p = http_parser_init(type)
  BY DEF Init
<1>2. p.state \in Starts
  BY <1>1 DEF http_parser_init, start_state, Starts
<1>3. /\ DOMAIN p = Parts /\ p.method = DELETE
      /\ p.nread = 0 /\ p.content_length = 0 /\ p.http_major = 0 /\ p.http_minor = 0
      /\ p.status_code = 0 /\ p.flags = {} /\ p.index = 0 /\ p.run = 0 /\ p.owed = 0
      /\ p.marks = <<>>
  BY <1>1 DEF http_parser_init, Parts
<1>4. DELETE \in method_strings /\ Len(DELETE) = 6
  BY MethodLengths DEF method_strings
<1>5. Shape(p)
  BY <1>3, <1>4, HttpParserConstants DEF Shape
<1>6. Sane(p) /\ Unread(p) /\ Whole(p)
  BY <1>2, <1>3, IsQuiet DEF Quiet, Whole
<1>7. History(g) /\ g.size = 0 /\ cuts \in 0 .. MaxCuts
  BY HttpParserConstants DEF Init, History, NoHistory, Remembered
<1>8. Sized(p, g)
  BY <1>3, <1>7 DEF Sized
<1> QED BY <1>5, <1>6, <1>7, <1>8 DEF IInv, Kept

LEMMA Forgotten == ASSUME NEW q, Shape(q), Failed(q) PROVE Kept(q, NoHistory)
BY DEF Kept, History, NoHistory, Remembered

LEMMA ReadKeeps ==
  ASSUME NEW q, NEW h, Kept(q, h), ~Failed(q), NEW ch,
         NEW r, r = Feed(q, ch), NEW n, n = After(h, q, ch, r)
  PROVE  Kept(r, n)
<1>1. Fit(q) /\ History(h) /\ Sized(q, h)
  BY DEF Kept, Fit
<1>2. /\ Shape(r)
      /\ ~Failed(r) => /\ Sane(r) /\ Whole(r) /\ Unread(r)
                       /\ \/ Forgets(q, r)
                          \/ q.run = 0 /\ r.nread + r.run >= q.nread + 1 + (IF r.run > 0 THEN 1 ELSE 0)
                          \/ q.run > 0 /\ r.nread + r.run >= q.nread + q.run + (IF r.run > 0 THEN 1 ELSE 0)
  BY <1>1, Feeding
<1>3. CASE Failed(r)
  <2>1. n = NoHistory
    BY <1>3 DEF After
  <2> QED BY <1>2, <1>3, <2>1, Forgotten
<1>4. CASE ~Failed(r)
  <2>1. History(n) /\ n.size = IF Forgets(q, r) THEN 0 ELSE h.size + 1
    BY <1>1, <1>4, Remembering
  <2>2. /\ r.nread \in Nat /\ r.run \in Nat /\ q.nread \in Nat /\ q.run \in Nat
        /\ h.size \in Nat /\ n.size \in Nat
    BY <1>1, <1>2, <2>1, HttpParserConstants DEF Shape, History, Fit
  <2>3. Sized(r, n)
    <3>1. CASE Forgets(q, r)
      BY <2>1, <2>2, <3>1 DEF Sized
    <3>2. CASE ~Forgets(q, r) /\ r.run > 0
      <4>1. n.size = h.size + 1
        BY <2>1, <3>2
      <4>2. r.nread + r.run >= q.nread + q.run + 1 /\ (q.run = 0 => r.nread + r.run >= q.nread + 2)
        BY <1>2, <1>4, <2>2, <3>2
      <4>3. h.size <= q.nread + q.run /\ (q.run > 0 => h.size < q.nread + q.run)
        BY <1>1 DEF Sized
      <4> QED BY <2>2, <3>2, <4>1, <4>2, <4>3 DEF Sized
    <3>3. CASE ~Forgets(q, r) /\ ~(r.run > 0)
      <4>1. n.size = h.size + 1
        BY <2>1, <3>3
      <4>2. \/ q.run = 0 /\ r.nread + r.run >= q.nread + 1
            \/ q.run > 0 /\ r.nread + r.run >= q.nread + q.run
        BY <1>2, <1>4, <2>2, <3>3
      <4>3. h.size <= q.nread + q.run /\ (q.run > 0 => h.size < q.nread + q.run)
        BY <1>1 DEF Sized
      <4> QED BY <2>2, <3>3, <4>1, <4>2, <4>3 DEF Sized
    <3> QED BY <3>1, <3>2, <3>3
  <2> QED BY <1>2, <1>4, <2>1, <2>3 DEF Kept
<1> QED BY <1>3, <1>4

LEMMA CallKeeps ==
  ASSUME NEW q, NEW h, Kept(q, h), ~Failed(q), NEW r, r = NextExecute(q)
  PROVE  Shape(r) /\ (~Failed(r) => Kept(r, h))
<1>1. Fit(q) /\ Unread(q) /\ History(h) /\ Sized(q, h)
  BY DEF Kept, Fit
<1>2. /\ Shape(r)
      /\ ~Failed(r) => /\ Sane(r) /\ Whole(r) /\ Unread(r)
                       /\ r.nread + r.run = q.nread + q.run /\ r.run = 0
  BY <1>1, Calling
<1>3. ~Failed(r) => Sized(r, h)
  BY <1>1, <1>2 DEF Sized
<1> QED BY <1>1, <1>2, <1>3 DEF Kept

LEMMA KeptByRead == ASSUME IInv, NEW ch, Read(ch) PROVE IInv'
<1>1. Kept(p, g) /\ ~Failed(p) /\ p' = Feed(p, ch) /\ g' = After(g, p, ch, p')
  BY DEF IInv, Read, Stopped
<1>2. PICK r, n : r = p' /\ n = g'
  OBVIOUS
<1>3. Kept(r, n)
  BY <1>1, <1>2, ReadKeeps
<1>4. cuts' = cuts /\ cuts \in 0 .. MaxCuts
  BY DEF IInv, Read
<1>5. Kept(p', g')
  BY <1>2, <1>3
<1> QED BY <1>4, <1>5 DEF IInv

LEMMA KeptByCall == ASSUME IInv, NextCall PROVE IInv'
<1>1. Kept(p, g) /\ ~Failed(p) /\ p' = NextExecute(p)
      /\ g' = IF Failed(p') THEN NoHistory ELSE g
  BY DEF IInv, NextCall, Stopped
<1>2. PICK r, n : r = p' /\ n = g'
  OBVIOUS
<1>3. Shape(r) /\ (~Failed(r) => Kept(r, g))
  BY <1>1, <1>2, CallKeeps
<1>4. Kept(r, n)
  BY <1>1, <1>2, <1>3, Forgotten
<1>5. cuts' \in 0 .. MaxCuts
  BY HttpParserConstants DEF IInv, NextCall
<1>6. Kept(p', g')
  BY <1>2, <1>4
<1> QED BY <1>5, <1>6 DEF IInv

LEMMA KeptByEof == ASSUME IInv, Eof PROVE IInv'
<1>1. Kept(p, g) /\ ~Failed(p)
  BY DEF IInv, Eof, Stopped
<1>2. PICK r : r = NextExecute(p)
  OBVIOUS
<1>3. PICK e, n : e = p' /\ n = g'
  OBVIOUS
<1>4. Shape(r) /\ (~Failed(r) => Kept(r, g))
  BY <1>1, <1>2, CallKeeps
<1>5. /\ e = IF Failed(r) THEN r ELSE AtEof(r)
      /\ n = IF Failed(e) THEN NoHistory
             ELSE [g EXCEPT !.done = @ \/ p.state = "s_body_identity_eof"]
  BY <1>2, <1>3 DEF Eof
<1>6. e = r \/ (Shape(e) /\ Failed(e))
  <2>1. e = r \/ e = Fail(r, "HPE_INVALID_EOF_STATE")
    BY <1>5 DEF AtEof
  <2> QED BY <1>4, <2>1, Failing
<1>7. ASSUME Failed(e) PROVE Kept(e, n)
  BY <1>4, <1>5, <1>6, <1>7, Forgotten
<1>8. ASSUME ~Failed(e) PROVE Kept(e, n)
  <2>1. e = r /\ Kept(r, g)
    BY <1>4, <1>6, <1>8
  <2>2. DOMAIN n = DOMAIN g /\ n.size = g.size
    BY <1>5, <1>8, <2>1 DEF Kept, History, Remembered
  <2> QED BY <1>8, <2>1, <2>2 DEF Kept, History, Sized
<1>9. Kept(e, n)
  BY <1>7, <1>8
<1>10. cuts' \in 0 .. MaxCuts
  BY HttpParserConstants DEF IInv, Eof
<1>11. Kept(p', g')
  BY <1>3, <1>9
<1> QED BY <1>10, <1>11 DEF IInv

THEOREM Invariance == Spec => []IInv
<1>1. Init => IInv
  BY Begun
<1>2. IInv /\ [Next]_vars => IInv'
  <2> SUFFICES ASSUME IInv, [Next]_vars PROVE IInv'
    OBVIOUS
  <2>1. ASSUME NEW ch \in Offered(p), Read(ch) PROVE IInv'
    BY <2>1, KeptByRead
  <2>2. CASE NextCall
    BY <2>2, KeptByCall
  <2>3. CASE Eof
    BY <2>3, KeptByEof
  <2>4. CASE UNCHANGED vars
    BY <2>4 DEF vars, IInv
  <2> QED BY <2>1, <2>2, <2>3, <2>4 DEF Next
<1> QED BY <1>1, <1>2, PTL DEF Spec

-----------------------------------------------------------------------------
(* What the parser keeps *)

\* NoAssertFails: whatever the text and wherever it is cut, no assertion of
\* http_parser_execute fails and every number of the parser keeps its range: a name is
\* matched in a state of names, a chunk begins with nothing counted, a body is read by a
\* length that is neither nothing nor unknown, at most one piece is open.
THEOREM Assertions == Spec => []NoAssertFails
<1>1. IInv => NoAssertFails
  <2> SUFFICES ASSUME IInv PROVE NoAssertFails
    OBVIOUS
  <2>1. Shape(p) /\ cuts \in 0 .. MaxCuts
    BY DEF IInv, Kept
  <2>2. TypeOK
    <3>1. p.http_major <= MaxVersion /\ p.http_minor <= MaxVersion /\ p.status_code <= 999
      <4>1. /\ p.http_major \in 0 .. MaxVersion /\ p.http_minor \in 0 .. MaxVersion
            /\ p.status_code \in 0 .. 999
        BY <2>1 DEF Shape
      <4>2. MaxVersion \in Nat
        BY HttpParserConstants
      <4> QED BY <4>1, <4>2
    <3>2. p.run >= 0
      BY <2>1 DEF Shape
    <3> QED BY <2>1, <3>1, <3>2 DEF TypeOK, Shape
  <2>3. ASSUME ~Failed(p) PROVE Cardinality(DOMAIN p.marks) <= 1
    <3>1. Sane(p)
      BY <2>3 DEF IInv, Kept
    <3>2. DOMAIN p.marks = {} \/ \E k \in Kinds : DOMAIN p.marks = {k}
      BY <2>1, <3>1, OnePiece
    <3>3. Cardinality(DOMAIN p.marks) \in {0, 1}
      BY <3>2, FS_EmptySet, FS_Singleton
    <3> QED BY <3>3
  <2>4. ASSUME ~Failed(p)
        PROVE  /\ p.state = "s_header_field" => p.header_state \in NameStates
               /\ p.state = "s_header_value"
                    => p.header_state \notin {"h_connection", "h_transfer_encoding"}
               /\ p.state = "s_chunk_size_start" => p.nread = 0
               /\ p.state \in ChunkStates => Chunked(p)
               /\ p.state \in {"s_body_identity", "s_chunk_data"}
                    => p.content_length \notin {0, ULLONG_MAX}
               /\ p.state = "s_chunk_data_almost_done" => p.content_length = 0
    BY <2>4 DEF IInv, Kept, Sane, Unread
  <2> QED BY <2>2, <2>3, <2>4 DEF NoAssertFails
<1> QED BY <1>1, Invariance, PTL

\* PiecesWhole: what was read of a URL, a header, a status or a body is in the piece that
\* is open or has gone to a callback, once, however the text is cut into calls
\* (http_parser.c:669-692, 2045-2065).
THEOREM NothingLost == Spec => []PiecesWhole
<1>1. IInv => PiecesWhole
  BY DEF IInv, Kept, Whole, PiecesWhole
<1> QED BY <1>1, Invariance, PTL

\* HeaderLimitKept: no header goes on beyond HTTP_MAX_HEADER_SIZE (http_parser.c:140-156),
\* whatever that limit is: the symbols the loops over names and values have not counted yet
\* are few enough to be told from what they have read.
THEOREM Limited == Spec => []HeaderLimitKept
<1>1. IInv => HeaderLimitKept
  BY HttpParserConstants DEF IInv, Kept, Sized, Shape, HeaderLimitKept
<1> QED BY <1>1, Invariance, PTL


-----------------------------------------------------------------------------
(* What a parser has read of a message *)

\* The part of a parser that its headers and lengths decide about.
Core(q) ==
  [type |-> q.type, state |-> q.state, header_state |-> q.header_state, flags |-> q.flags,
   content_length |-> q.content_length, http_major |-> q.http_major,
   http_minor |-> q.http_minor, status_code |-> q.status_code, upgrade |-> q.upgrade]

\* The lines of a header, until its value begins and from there on.
FieldLines == {"s_header_field", "s_header_value_discard_ws",
               "s_header_value_discard_ws_almost_done", "s_header_value_discard_lws"}
ValueEnds == {"s_header_almost_done", "s_header_value_lws"}

\* The names, read so far, that a state of names stands for.
NamesOf ==
  [h_general |-> {<<"?">>}, h_C |-> {<<"c">>}, h_matching_connection |-> {<<"c", "onn">>},
   h_matching_content_length |-> {<<"c", "ont">>}, h_matching_proxy_connection |-> {<<"p">>},
   h_matching_transfer_encoding |-> {<<"t">>}, h_matching_upgrade |-> {<<"u">>},
   h_connection |-> Connection, h_content_length |-> {Length},
   h_transfer_encoding |-> {Encoding}, h_upgrade |-> {Upgrade}]

\* The elements, read so far, of a state that matches or has matched one.
ElementsOf ==
  [h_matching_connection_token_start |-> {<<>>},
   h_matching_connection_keep_alive |-> {<<"k">>}, h_matching_connection_close |-> {<<"c">>},
   h_matching_connection_upgrade |-> {<<"u">>},
   h_connection_keep_alive |-> {<<"k", "eep-alive">>, <<"k", "eep-alive", "SP">>},
   h_connection_close |-> {<<"c", "lose">>, <<"c", "lose", "SP">>},
   h_connection_upgrade |-> {<<"u", "pgrade">>, <<"u", "pgrade", "SP">>}]

Chunks == {<<"c", "hunked">>, <<"c", "hunked", "SP">>}

\* Elements that are none the parser knows, and never become one.
Unknown == {<<"?">>, <<"?", "SP">>, <<"k", "SP">>, <<"c", "SP">>, <<"u", "SP">>}
NotConnection == Unknown \cup Chunks
NotChunked == Unknown \cup {<<"k">>, <<"u">>}
                \cup UNION {ElementsOf[s] : s \in Matched}

\* What has been read of a value and the state it is matched in.
Reading(name, s, el, odd) ==
  \/ /\ s = "h_general" /\ name # Length
     /\ name \in Connection => odd
     /\ name = Encoding => odd \/ el \in NotChunked
  \/ s = "h_content_length" /\ name = Length
  \/ name = Encoding /\ s = "h_matching_transfer_encoding_chunked" /\ el = <<"c">>
  \/ name = Encoding /\ s = "h_transfer_encoding_chunked" /\ el \in Chunks
  \/ name \in Connection /\ s \in DOMAIN ElementsOf /\ el \in ElementsOf[s]
  \/ name \in Connection /\ s = "h_matching_connection_token" /\ (odd \/ el \in NotConnection)

\* The states in which a value may be that the next line may go on with.
Left(name, s) ==
  \/ s = "h_content_length"
  \/ /\ name # Length /\ s \notin NotInValues \cup {"h_upgrade"}
     /\ s = "h_matching_connection_token_start" => name \in Connection

Named(c, h) ==
  /\ c.state \in FieldLines
       => c.header_state \in NameStates /\ h.name \in NamesOf[c.header_state]
  /\ c.state \in ValueEnds \cup {"s_header_value"}
       => Reading(h.name, c.header_state, h.el, h.odd)
  /\ c.state \notin ValueEnds \cup {"s_header_value"} => h.el = <<>>

\* What is declared where no length is.
NoLength == NoHistory.declared

\* What the headers say of a length, until they end; after the chunks they say no more.
Promised(flags, length, declared) ==
  IF "F_TRAILING" \in flags THEN declared = 0
  ELSE \/ declared = NoLength /\ length = ULLONG_MAX
       \/ declared = length /\ length < ULLONG_MAX

\* What has been read of a length, and of a body.
Told(c, h) ==
  /\ h.declared \in Int /\ h.taken \in Nat
  /\ c.state \in HeadStates =>
       h.taken = 0 /\ Promised(c.flags, c.content_length, h.declared)
  /\ c.state \in SizeStates => h.taken = 0 /\ h.declared = c.content_length
  /\ c.state \in {"s_body_identity", "s_chunk_data"} => c.content_length + h.taken = h.declared
  /\ c.state = "s_chunk_data_almost_done" => h.taken = h.declared
  /\ c.state = "s_body_identity_eof" => h.declared = NoLength
  /\ h.done => c.state \in Starts \cup {"s_dead", "s_body_identity_eof"}
  /\ h.done /\ ~c.upgrade => h.declared \in {NoLength, h.taken}

\* The flags with the one a state stands for.
Flagged(c) == c.flags \cup {FlagOf[h] : h \in {c.header_state} \cap DOMAIN FlagOf}

\* The flag of the element that comes last in a value is set when the next line begins.
Due(c) == IF c.state = "s_header_value_lws" THEN Flagged(c) ELSE c.flags

\* Flags that say what was listed.
Heard(flags, h) ==
  \A f \in DOMAIN FlagListed :
    /\ f \in flags => FlagListed[f] \in h.listed
    /\ FlagListed[f] \in h.plain => f \in flags

FlagsRead(c, h) ==
  c.state \notin Starts \cup {"s_dead"} =>
    /\ Heard(c.flags, h)
    /\ c.state \in ValueEnds \cup {"s_header_value"} /\ h.name = Upgrade => "F_UPGRADE" \in c.flags

\* What both sides have agreed on when a connection is read on.
Agreed(c, h) ==
  h.done /\ c.state \in Starts =>
    /\ IF c.http_major >= 1 /\ c.http_minor >= 1 THEN <<"c", "lose">> \notin h.plain
       ELSE <<"k", "eep-alive">> \in h.listed
    /\ c.type = "HTTP_RESPONSE" =>
         \/ h.declared # NoLength
         \/ c.upgrade /\ <<"c", "hunked">> \in h.listed
         \/ c.status_code \in 100 .. 199 \cup {204, 304}

Recorded(c, h) == Named(c, h) /\ Told(c, h) /\ FlagsRead(c, h) /\ Agreed(c, h)

RInv == ~Failed(p) => Recorded(Core(p), g)

-----------------------------------------------------------------------------
(* Names and elements, symbol by symbol *)

LEMMA Append1 ==
  ASSUME NEW a
  PROVE  Append(<<>>, a) = <<a>>
OBVIOUS

LEMMA Append2 ==
  ASSUME NEW a, NEW b
  PROVE  Append(<<a>>, b) = <<a, b>>
<1>1. PICK s : s = Append(<<a>>, b)
  OBVIOUS
<1>2. s \in Seq({a, b}) /\ Len(s) = 2 /\ s[1] = a /\ s[2] = b
  BY <1>1
<1>3. s = <<a, b>>
  BY <1>2
<1> QED BY <1>1, <1>3

LEMMA Append3 ==
  ASSUME NEW a, NEW b, NEW c
  PROVE  Append(<<a, b>>, c) = <<a, b, c>>
<1>1. PICK s : s = Append(<<a, b>>, c)
  OBVIOUS
<1>2. s \in Seq({a, b, c}) /\ Len(s) = 3 /\ s[1] = a /\ s[2] = b /\ s[3] = c
  BY <1>1
<1>3. s = <<a, b, c>>
  BY <1>2
<1> QED BY <1>1, <1>3

LEMMA Append4 ==
  ASSUME NEW a, NEW b, NEW c, NEW d
  PROVE  Append(<<a, b, c>>, d) = <<a, b, c, d>>
<1>1. PICK s : s = Append(<<a, b, c>>, d)
  OBVIOUS
<1>2. s \in Seq({a, b, c, d}) /\ Len(s) = 4 /\ s[1] = a /\ s[2] = b /\ s[3] = c /\ s[4] = d
  BY <1>1
<1>3. s = <<a, b, c, d>>
  BY <1>2
<1> QED BY <1>1, <1>3

LEMMA FirstWords ==
  ASSUME NEW a
  PROVE  (\E k \in KnownNames : IsPrefix(<<a>>, k)) <=> a \in {"c", "p", "t", "u"}
<1>1. IsPrefix(<<a>>, <<"c", "onn", "ection">>) <=> a = "c"
  BY SMTT(30) DEF IsPrefix
<1>2. IsPrefix(<<a>>, <<"p", "roxy-connection">>) <=> a = "p"
  BY SMTT(30) DEF IsPrefix
<1>3. IsPrefix(<<a>>, <<"c", "ont", "ent-length">>) <=> a = "c"
  BY SMTT(30) DEF IsPrefix
<1>4. IsPrefix(<<a>>, <<"t", "ransfer-encoding">>) <=> a = "t"
  BY SMTT(30) DEF IsPrefix
<1>5. IsPrefix(<<a>>, <<"u", "pgrade">>) <=> a = "u"
  BY SMTT(30) DEF IsPrefix
<1> QED BY <1>1, <1>2, <1>3, <1>4, <1>5 DEF KnownNames

MakeName(a, b) ==
  \/ a = "c" /\ (b = "onn" \/ b = "ont")
  \/ a = "p" /\ b = "roxy-connection"
  \/ a = "t" /\ b = "ransfer-encoding"
  \/ a = "u" /\ b = "pgrade"

LEMMA SecondWords ==
  ASSUME NEW a, NEW b
  PROVE  (\E k \in KnownNames : IsPrefix(<<a, b>>, k)) <=> MakeName(a, b)
<1>1. IsPrefix(<<a, b>>, <<"c", "onn", "ection">>) <=> a = "c" /\ b = "onn"
  BY SMTT(30) DEF IsPrefix
<1>2. IsPrefix(<<a, b>>, <<"p", "roxy-connection">>) <=> a = "p" /\ b = "roxy-connection"
  BY SMTT(30) DEF IsPrefix
<1>3. IsPrefix(<<a, b>>, <<"c", "ont", "ent-length">>) <=> a = "c" /\ b = "ont"
  BY SMTT(30) DEF IsPrefix
<1>4. IsPrefix(<<a, b>>, <<"t", "ransfer-encoding">>) <=> a = "t" /\ b = "ransfer-encoding"
  BY SMTT(30) DEF IsPrefix
<1>5. IsPrefix(<<a, b>>, <<"u", "pgrade">>) <=> a = "u" /\ b = "pgrade"
  BY SMTT(30) DEF IsPrefix
<1> QED BY <1>1, <1>2, <1>3, <1>4, <1>5 DEF KnownNames, MakeName

LEMMA ThirdWords ==
  ASSUME NEW a, NEW b, NEW x
  PROVE  (\E k \in KnownNames : IsPrefix(<<a, b, x>>, k))
           <=> a = "c" /\ ((b = "onn" /\ x = "ection") \/ (b = "ont" /\ x = "ent-length"))
<1>1. IsPrefix(<<a, b, x>>, <<"c", "onn", "ection">>) <=> a = "c" /\ b = "onn" /\ x = "ection"
  BY SMTT(30) DEF IsPrefix
<1>2. ~IsPrefix(<<a, b, x>>, <<"p", "roxy-connection">>)
  BY SMTT(30) DEF IsPrefix
<1>3. IsPrefix(<<a, b, x>>, <<"c", "ont", "ent-length">>) <=> a = "c" /\ b = "ont" /\ x = "ent-length"
  BY SMTT(30) DEF IsPrefix
<1>4. ~IsPrefix(<<a, b, x>>, <<"t", "ransfer-encoding">>)
  BY SMTT(30) DEF IsPrefix
<1>5. ~IsPrefix(<<a, b, x>>, <<"u", "pgrade">>)
  BY SMTT(30) DEF IsPrefix
<1> QED BY <1>1, <1>2, <1>3, <1>4, <1>5 DEF KnownNames

LEMMA NoFourthWord ==
  ASSUME NEW a, NEW b, NEW x, NEW y
  PROVE  ~\E k \in KnownNames : IsPrefix(<<a, b, x, y>>, k)
<1>1. ~IsPrefix(<<a, b, x, y>>, <<"c", "onn", "ection">>)
  BY SMTT(30) DEF IsPrefix
<1>2. ~IsPrefix(<<a, b, x, y>>, <<"p", "roxy-connection">>)
  BY SMTT(30) DEF IsPrefix
<1>3. ~IsPrefix(<<a, b, x, y>>, <<"c", "ont", "ent-length">>)
  BY SMTT(30) DEF IsPrefix
<1>4. ~IsPrefix(<<a, b, x, y>>, <<"t", "ransfer-encoding">>)
  BY SMTT(30) DEF IsPrefix
<1>5. ~IsPrefix(<<a, b, x, y>>, <<"u", "pgrade">>)
  BY SMTT(30) DEF IsPrefix
<1> QED BY <1>1, <1>2, <1>3, <1>4, <1>5 DEF KnownNames

\* A text that has grown to be another.
LEMMA Extended ==
  ASSUME NEW texts, NEW t, NEW ch, NEW u, u = Append(t, ch)
  PROVE  /\ (\E k \in texts : IsPrefix(u, k)) => Extend(texts, t, ch) = u
         /\ ~(\E k \in texts : IsPrefix(u, k)) => Extend(texts, t, ch) = <<"?">>
BY DEF Extend

LEMMA NameBegins ==
  ASSUME NEW ch, NEW s, s = Follow(FirstNameArcs, "h_general", ch, "h_general")
  PROVE  s \in NameStates /\ Extend(KnownNames, <<>>, ch) \in NamesOf[s]
<1>1. PICK v : v = <<ch>> /\ v = Append(<<>>, ch)
  BY Append1
<1>2. \/ Extend(KnownNames, <<>>, ch) = <<ch>> /\ ch \in {"c", "p", "t", "u"}
      \/ Extend(KnownNames, <<>>, ch) = <<"?">> /\ ch \notin {"c", "p", "t", "u"}
  BY <1>1, Extended, FirstWords
<1>3. \/ s = "h_general" /\ \A arc \in FirstNameArcs : "h_general" \notin arc[1] \/ ch \notin arc[2]
      \/ \E arc \in FirstNameArcs : ch \in arc[2] /\ s = arc[3]
  BY Arc
<1>4. /\ ch = "c" => s = "h_C"
      /\ ch = "p" => s = "h_matching_proxy_connection"
      /\ ch = "t" => s = "h_matching_transfer_encoding"
      /\ ch = "u" => s = "h_matching_upgrade"
      /\ ch \notin {"c", "p", "t", "u"} => s = "h_general"
  BY <1>3 DEF FirstNameArcs
<1>5. s \in NameStates
  BY FirstNameArc
<1> QED BY <1>2, <1>4, <1>5 DEF NamesOf

\* The first words of names, and what they become.
LEMMA SecondName ==
  ASSUME NEW a, NEW ch, NEW u, u = Extend(KnownNames, <<a>>, ch)
  PROVE  u = IF MakeName(a, ch) THEN <<a, ch>> ELSE <<"?">>
<1>1. PICK v : v = <<a, ch>> /\ v = Append(<<a>>, ch)
  BY Append2
<1>2. \/ u = v /\ \E k \in KnownNames : IsPrefix(v, k)
      \/ u = <<"?">> /\ ~\E k \in KnownNames : IsPrefix(v, k)
  BY <1>1, Extended
<1> QED BY <1>1, <1>2, SecondWords

LEMMA ThirdName ==
  ASSUME NEW a, NEW b, NEW ch, NEW u, u = Extend(KnownNames, <<a, b>>, ch)
  PROVE  u = IF a = "c" /\ ((b = "onn" /\ ch = "ection") \/ (b = "ont" /\ ch = "ent-length"))
             THEN <<a, b, ch>> ELSE <<"?">>
<1>1. PICK v : v = <<a, b, ch>> /\ v = Append(<<a, b>>, ch)
  BY Append3
<1>2. \/ u = v /\ \E k \in KnownNames : IsPrefix(v, k)
      \/ u = <<"?">> /\ ~\E k \in KnownNames : IsPrefix(v, k)
  BY <1>1, Extended
<1> QED BY <1>1, <1>2, ThirdWords

LEMMA FourthName ==
  ASSUME NEW a, NEW b, NEW c, NEW ch, NEW u, u = Extend(KnownNames, <<a, b, c>>, ch)
  PROVE  u = <<"?">>
<1>1. PICK v : v = <<a, b, c, ch>> /\ v = Append(<<a, b, c>>, ch)
  BY Append4
<1>2. \/ u = v /\ \E k \in KnownNames : IsPrefix(v, k)
      \/ u = <<"?">>
  BY <1>1, Extended
<1> QED BY <1>1, <1>2, NoFourthWord

LEMMA NextNameArc ==
  ASSUME NEW s, NEW ch, NEW r, r = Follow(NameArcs, s, ch, "h_general")
  PROVE  \/ s = "h_C" /\ ch = "onn" /\ r = "h_matching_connection"
         \/ s = "h_C" /\ ch = "ont" /\ r = "h_matching_content_length"
         \/ s = "h_matching_connection" /\ ch = "ection" /\ r = "h_connection"
         \/ s = "h_matching_proxy_connection" /\ ch = "roxy-connection" /\ r = "h_connection"
         \/ s = "h_matching_content_length" /\ ch = "ent-length" /\ r = "h_content_length"
         \/ s = "h_matching_transfer_encoding" /\ ch = "ransfer-encoding"
               /\ r = "h_transfer_encoding"
         \/ s = "h_matching_upgrade" /\ ch = "pgrade" /\ r = "h_upgrade"
         \/ /\ r = "h_general"
            /\ s = "h_C" => ch # "onn" /\ ch # "ont"
            /\ s = "h_matching_connection" => ch # "ection"
            /\ s = "h_matching_proxy_connection" => ch # "roxy-connection"
            /\ s = "h_matching_content_length" => ch # "ent-length"
            /\ s = "h_matching_transfer_encoding" => ch # "ransfer-encoding"
            /\ s = "h_matching_upgrade" => ch # "pgrade"
<1>1. \/ r = "h_general" /\ \A arc \in NameArcs : s \notin arc[1] \/ ch \notin arc[2]
      \/ \E arc \in NameArcs : s \in arc[1] /\ ch \in arc[2] /\ r = arc[3]
  BY Arc
<1> QED BY <1>1 DEF NameArcs

LEMMA NameGrows ==
  ASSUME NEW s \in NameStates, NEW name \in NamesOf[s], NEW ch, NEW r,
         r = Follow(NameArcs, s, ch, "h_general"), NEW u, u = Extend(KnownNames, name, ch)
  PROVE  r \in NameStates /\ u \in NamesOf[r]
<1>1. r \in NameStates
  BY NameArc
<1>2. CASE s = "h_C"
  <2>1. u = Extend(KnownNames, <<"c">>, ch)
    BY <1>2 DEF NamesOf
  <2>2. \/ u = <<"c", ch>> /\ (ch = "onn" \/ ch = "ont")
        \/ u = <<"?">> /\ ch # "onn" /\ ch # "ont"
    BY <2>1, SecondName DEF MakeName
  <2> QED BY <1>1, <1>2, <2>2, NextNameArc DEF NamesOf
<1>3. CASE s = "h_matching_connection"
  <2>1. u = Extend(KnownNames, <<"c", "onn">>, ch)
    BY <1>3 DEF NamesOf
  <2>2. \/ u = <<"c", "onn", "ection">> /\ ch = "ection"
        \/ u = <<"?">> /\ ch # "ection"
    BY <2>1, ThirdName
  <2> QED BY <1>1, <1>3, <2>2, NextNameArc DEF NamesOf, Connection
<1>4. CASE s = "h_matching_content_length"
  <2>1. u = Extend(KnownNames, <<"c", "ont">>, ch)
    BY <1>4 DEF NamesOf
  <2>2. \/ u = <<"c", "ont", "ent-length">> /\ ch = "ent-length"
        \/ u = <<"?">> /\ ch # "ent-length"
    BY <2>1, ThirdName
  <2> QED BY <1>1, <1>4, <2>2, NextNameArc DEF NamesOf, Length
<1>5. CASE s = "h_matching_proxy_connection"
  <2>1. u = Extend(KnownNames, <<"p">>, ch)
    BY <1>5 DEF NamesOf
  <2>2. \/ u = <<"p", "roxy-connection">> /\ ch = "roxy-connection"
        \/ u = <<"?">> /\ ch # "roxy-connection"
    BY <2>1, SecondName DEF MakeName
  <2> QED BY <1>1, <1>5, <2>2, NextNameArc DEF NamesOf, Connection
<1>6. CASE s = "h_matching_transfer_encoding"
  <2>1. u = Extend(KnownNames, <<"t">>, ch)
    BY <1>6 DEF NamesOf
  <2>2. \/ u = <<"t", "ransfer-encoding">> /\ ch = "ransfer-encoding"
        \/ u = <<"?">> /\ ch # "ransfer-encoding"
    BY <2>1, SecondName DEF MakeName
  <2> QED BY <1>1, <1>6, <2>2, NextNameArc DEF NamesOf, Encoding
<1>7. CASE s = "h_matching_upgrade"
  <2>1. u = Extend(KnownNames, <<"u">>, ch)
    BY <1>7 DEF NamesOf
  <2>2. \/ u = <<"u", "pgrade">> /\ ch = "pgrade"
        \/ u = <<"?">> /\ ch # "pgrade"
    BY <2>1, SecondName DEF MakeName
  <2> QED BY <1>1, <1>7, <2>2, NextNameArc DEF NamesOf, Upgrade
<1>8. CASE s \in {"h_general", "h_connection", "h_content_length", "h_transfer_encoding",
                  "h_upgrade"}
  <2>1. r = "h_general"
    BY <1>8, NextNameArc
  <2>2. \/ name = <<"?">> \/ name = <<"p", "roxy-connection">>
        \/ name = <<"t", "ransfer-encoding">> \/ name = <<"u", "pgrade">>
        \/ name = <<"c", "onn", "ection">> \/ name = <<"c", "ont", "ent-length">>
    BY <1>8 DEF NamesOf, Connection, Encoding, Upgrade, Length
  <2>3. \/ u = Extend(KnownNames, <<"?">>, ch)
        \/ u = Extend(KnownNames, <<"p", "roxy-connection">>, ch)
        \/ u = Extend(KnownNames, <<"t", "ransfer-encoding">>, ch)
        \/ u = Extend(KnownNames, <<"u", "pgrade">>, ch)
        \/ u = Extend(KnownNames, <<"c", "onn", "ection">>, ch)
        \/ u = Extend(KnownNames, <<"c", "ont", "ent-length">>, ch)
    BY <2>2
  <2>4. u = <<"?">>
    BY <2>3, SecondName, ThirdName, FourthName DEF MakeName
  <2> QED BY <1>1, <2>1, <2>4 DEF NamesOf
<1> QED BY <1>2, <1>3, <1>4, <1>5, <1>6, <1>7, <1>8 DEF NameStates, NameSymbols

\* The words of elements.
MakeElement(a, b) ==
  \/ a = "k" /\ b = "eep-alive"
  \/ a = "c" /\ (b = "lose" \/ b = "hunked")
  \/ a = "u" /\ b = "pgrade"

LEMMA FirstOfElement ==
  ASSUME NEW a
  PROVE  (\E k \in KnownElements : IsPrefix(<<a>>, k)) <=> a \in {"k", "c", "u"}
<1>1. IsPrefix(<<a>>, <<"k", "eep-alive">>) <=> a = "k"
  BY SMTT(30) DEF IsPrefix
<1>2. IsPrefix(<<a>>, <<"c", "lose">>) <=> a = "c"
  BY SMTT(30) DEF IsPrefix
<1>3. IsPrefix(<<a>>, <<"u", "pgrade">>) <=> a = "u"
  BY SMTT(30) DEF IsPrefix
<1>4. IsPrefix(<<a>>, <<"c", "hunked">>) <=> a = "c"
  BY SMTT(30) DEF IsPrefix
<1> QED BY <1>1, <1>2, <1>3, <1>4 DEF KnownElements

LEMMA SecondOfElement ==
  ASSUME NEW a, NEW b
  PROVE  (\E k \in KnownElements : IsPrefix(<<a, b>>, k)) <=> MakeElement(a, b)
<1>1. IsPrefix(<<a, b>>, <<"k", "eep-alive">>) <=> a = "k" /\ b = "eep-alive"
  BY SMTT(30) DEF IsPrefix
<1>2. IsPrefix(<<a, b>>, <<"c", "lose">>) <=> a = "c" /\ b = "lose"
  BY SMTT(30) DEF IsPrefix
<1>3. IsPrefix(<<a, b>>, <<"u", "pgrade">>) <=> a = "u" /\ b = "pgrade"
  BY SMTT(30) DEF IsPrefix
<1>4. IsPrefix(<<a, b>>, <<"c", "hunked">>) <=> a = "c" /\ b = "hunked"
  BY SMTT(30) DEF IsPrefix
<1> QED BY <1>1, <1>2, <1>3, <1>4 DEF KnownElements, MakeElement

LEMMA NoThirdOfElement ==
  ASSUME NEW a, NEW b, NEW x
  PROVE  ~\E k \in KnownElements : IsPrefix(<<a, b, x>>, k)
<1>1. ~IsPrefix(<<a, b, x>>, <<"k", "eep-alive">>)
  BY SMTT(30) DEF IsPrefix
<1>2. ~IsPrefix(<<a, b, x>>, <<"c", "lose">>)
  BY SMTT(30) DEF IsPrefix
<1>3. ~IsPrefix(<<a, b, x>>, <<"u", "pgrade">>)
  BY SMTT(30) DEF IsPrefix
<1>4. ~IsPrefix(<<a, b, x>>, <<"c", "hunked">>)
  BY SMTT(30) DEF IsPrefix
<1> QED BY <1>1, <1>2, <1>3, <1>4 DEF KnownElements

LEMMA NoFourthOfElement ==
  ASSUME NEW a, NEW b, NEW x, NEW y
  PROVE  ~\E k \in KnownElements : IsPrefix(<<a, b, x, y>>, k)
<1>1. ~IsPrefix(<<a, b, x, y>>, <<"k", "eep-alive">>)
  BY SMTT(30) DEF IsPrefix
<1>2. ~IsPrefix(<<a, b, x, y>>, <<"c", "lose">>)
  BY SMTT(30) DEF IsPrefix
<1>3. ~IsPrefix(<<a, b, x, y>>, <<"u", "pgrade">>)
  BY SMTT(30) DEF IsPrefix
<1>4. ~IsPrefix(<<a, b, x, y>>, <<"c", "hunked">>)
  BY SMTT(30) DEF IsPrefix
<1> QED BY <1>1, <1>2, <1>3, <1>4 DEF KnownElements

LEMMA GrowFirst ==
  ASSUME NEW ch, NEW u, ch \notin Blanks, u = Grow(<<>>, ch)
  PROVE  u = IF ch \in {"k", "c", "u"} THEN <<ch>> ELSE <<"?">>
<1>1. PICK v : v = <<ch>> /\ v = Append(<<>>, ch)
  BY Append1
<1>2. u = Extend(KnownElements, <<>>, ch)
  BY DEF Grow
<1>3. \/ u = v /\ \E k \in KnownElements : IsPrefix(v, k)
      \/ u = <<"?">> /\ ~\E k \in KnownElements : IsPrefix(v, k)
  BY <1>1, <1>2, Extended
<1> QED BY <1>1, <1>3, FirstOfElement

LEMMA GrowSecond ==
  ASSUME NEW a, NEW ch, NEW u, ch \notin Blanks, u = Grow(<<a>>, ch)
  PROVE  u = IF MakeElement(a, ch) THEN <<a, ch>> ELSE <<"?">>
<1>1. PICK v : v = <<a, ch>> /\ v = Append(<<a>>, ch)
  BY Append2
<1>2. u = Extend(KnownElements, <<a>>, ch)
  BY DEF Grow
<1>3. \/ u = v /\ \E k \in KnownElements : IsPrefix(v, k)
      \/ u = <<"?">> /\ ~\E k \in KnownElements : IsPrefix(v, k)
  BY <1>1, <1>2, Extended
<1> QED BY <1>1, <1>3, SecondOfElement

LEMMA GrowThird ==
  ASSUME NEW a, NEW b, NEW ch, NEW u, ch \notin Blanks, u = Grow(<<a, b>>, ch)
  PROVE  u = <<"?">>
<1>1. PICK v : v = <<a, b, ch>> /\ v = Append(<<a, b>>, ch)
  BY Append3
<1>2. u = Extend(KnownElements, <<a, b>>, ch)
  BY DEF Grow
<1>3. \/ u = v /\ \E k \in KnownElements : IsPrefix(v, k)
      \/ u = <<"?">> /\ ~\E k \in KnownElements : IsPrefix(v, k)
  BY <1>1, <1>2, Extended
<1> QED BY <1>1, <1>3, NoThirdOfElement

LEMMA GrowFourth ==
  ASSUME NEW a, NEW b, NEW c, NEW ch, NEW u, ch \notin Blanks, u = Grow(<<a, b, c>>, ch)
  PROVE  u = <<"?">>
<1>1. PICK v : v = <<a, b, c, ch>> /\ v = Append(<<a, b, c>>, ch)
  BY Append4
<1>2. u = Extend(KnownElements, <<a, b, c>>, ch)
  BY DEF Grow
<1>3. \/ u = v /\ \E k \in KnownElements : IsPrefix(v, k)
      \/ u = <<"?">> /\ ~\E k \in KnownElements : IsPrefix(v, k)
  BY <1>1, <1>2, Extended
<1> QED BY <1>1, <1>3, NoFourthOfElement

LEMMA Last1 == ASSUME NEW a PROVE <<a>> # <<>> /\ Last(<<a>>) = a
BY DEF Last

LEMMA Last2 ==
  ASSUME NEW a, NEW b
  PROVE  <<a, b>> # <<>> /\ Last(<<a, b>>) = b /\ Front(<<a, b>>) = <<a>>
<1>1. PICK f : f = Front(<<a, b>>)
  OBVIOUS
<1>2. f \in Seq({a, b}) /\ Len(f) = 1 /\ f[1] = a
  BY <1>1 DEF Front
<1>3. f = <<a>>
  BY <1>2
<1> QED BY <1>1, <1>3 DEF Last

LEMMA Last3 ==
  ASSUME NEW a, NEW b, NEW c
  PROVE  <<a, b, c>> # <<>> /\ Last(<<a, b, c>>) = c /\ Front(<<a, b, c>>) = <<a, b>>
<1>1. PICK f : f = Front(<<a, b, c>>)
  OBVIOUS
<1>2. f \in Seq({a, b, c}) /\ Len(f) = 2 /\ f[1] = a /\ f[2] = b
  BY <1>1 DEF Front
<1>3. f = <<a, b>>
  BY <1>2
<1> QED BY <1>1, <1>3 DEF Last

LEMMA GrowsBlank ==
  ASSUME NEW el, NEW ch \in Blanks
  PROVE  /\ el = <<>> \/ Last(el) = "SP" => Grow(el, ch) = el
         /\ el # <<>> /\ Last(el) # "SP" => Grow(el, ch) = Append(el, "SP")
BY DEF Grow

LEMMA GrowBlank ==
  ASSUME NEW ch \in Blanks, NEW a, NEW b
  PROVE  /\ Grow(<<>>, ch) = <<>>
         /\ a # "SP" => Grow(<<a>>, ch) = <<a, "SP">>
         /\ Grow(<<a, "SP">>, ch) = <<a, "SP">>
         /\ b # "SP" => Grow(<<a, b>>, ch) = <<a, b, "SP">>
         /\ Grow(<<a, b, "SP">>, ch) = <<a, b, "SP">>
<1>1. Grow(<<>>, ch) = <<>>
  BY GrowsBlank
<1>2. a # "SP" => Grow(<<a>>, ch) = <<a, "SP">>
  <2>1. <<a>> # <<>> /\ Last(<<a>>) = a /\ Append(<<a>>, "SP") = <<a, "SP">>
    BY Last1, Append2
  <2> QED BY <2>1, GrowsBlank
<1>3. Grow(<<a, "SP">>, ch) = <<a, "SP">>
  <2>1. Last(<<a, "SP">>) = "SP"
    BY Last2
  <2> QED BY <2>1, GrowsBlank
<1>4. b # "SP" => Grow(<<a, b>>, ch) = <<a, b, "SP">>
  <2>1. <<a, b>> # <<>> /\ Last(<<a, b>>) = b /\ Append(<<a, b>>, "SP") = <<a, b, "SP">>
    BY Last2, Append3
  <2> QED BY <2>1, GrowsBlank
<1>5. Grow(<<a, b, "SP">>, ch) = <<a, b, "SP">>
  <2>1. Last(<<a, b, "SP">>) = "SP"
    BY Last3
  <2> QED BY <2>1, GrowsBlank
<1> QED BY <1>1, <1>2, <1>3, <1>4, <1>5

LEMMA ElementIs ==
  ASSUME NEW el
  PROVE  /\ el = <<>> \/ Last(el) # "SP" => Element(el) = el
         /\ el # <<>> /\ Last(el) = "SP" => Element(el) = Front(el)
BY DEF Element

LEMMA Elements ==
  ASSUME NEW a, NEW b
  PROVE  /\ Element(<<>>) = <<>>
         /\ a # "SP" => Element(<<a>>) = <<a>>
         /\ Element(<<a, "SP">>) = <<a>>
         /\ b # "SP" => Element(<<a, b>>) = <<a, b>>
         /\ Element(<<a, b, "SP">>) = <<a, b>>
<1>1. Element(<<>>) = <<>>
  BY ElementIs
<1>2. a # "SP" => Element(<<a>>) = <<a>>
  <2>1. Last(<<a>>) = a
    BY Last1
  <2> QED BY <2>1, ElementIs
<1>3. Element(<<a, "SP">>) = <<a>>
  <2>1. <<a, "SP">> # <<>> /\ Last(<<a, "SP">>) = "SP" /\ Front(<<a, "SP">>) = <<a>>
    BY Last2
  <2> QED BY <2>1, ElementIs
<1>4. b # "SP" => Element(<<a, b>>) = <<a, b>>
  <2>1. Last(<<a, b>>) = b
    BY Last2
  <2> QED BY <2>1, ElementIs
<1>5. Element(<<a, b, "SP">>) = <<a, b>>
  <2>1. /\ <<a, b, "SP">> # <<>> /\ Last(<<a, b, "SP">>) = "SP"
        /\ Front(<<a, b, "SP">>) = <<a, b>>
    BY Last3
  <2> QED BY <2>1, ElementIs
<1> QED BY <1>1, <1>2, <1>3, <1>4, <1>5

\* Two words are an element or the beginning of none.
LEMMA GrowPair ==
  ASSUME NEW a, NEW b, b # "SP", NEW ch, NEW u, u = Grow(<<a, b>>, ch)
  PROVE  u = IF ch \in Blanks THEN <<a, b, "SP">> ELSE <<"?">>
<1>1. CASE ch \in Blanks
  BY <1>1, GrowBlank
<1>2. CASE ch \notin Blanks
  BY <1>2, GrowThird
<1> QED BY <1>1, <1>2

LEMMA GrowPairOn ==
  ASSUME NEW a, NEW b, NEW ch, NEW u, u = Grow(<<a, b, "SP">>, ch)
  PROVE  u = IF ch \in Blanks THEN <<a, b, "SP">> ELSE <<"?">>
<1>1. CASE ch \in Blanks
  BY <1>1, GrowBlank
<1>2. CASE ch \notin Blanks
  BY <1>2, GrowFourth
<1> QED BY <1>1, <1>2

LEMMA GrowWordOn ==
  ASSUME NEW a, NEW ch, NEW u, u = Grow(<<a, "SP">>, ch)
  PROVE  u = IF ch \in Blanks THEN <<a, "SP">> ELSE <<"?">>
<1>1. CASE ch \in Blanks
  BY <1>1, GrowBlank
<1>2. CASE ch \notin Blanks
  BY <1>2, GrowThird
<1> QED BY <1>1, <1>2

LEMMA GrowWord ==
  ASSUME NEW a, a # "SP", NEW ch, NEW u, u = Grow(<<a>>, ch)
  PROVE  u = IF ch \in Blanks THEN <<a, "SP">> ELSE IF MakeElement(a, ch) THEN <<a, ch>> ELSE <<"?">>
<1>1. CASE ch \in Blanks
  BY <1>1, GrowBlank
<1>2. CASE ch \notin Blanks
  BY <1>2, GrowSecond
<1> QED BY <1>1, <1>2

LEMMA UnknownGrows ==
  ASSUME NEW el \in Unknown, NEW ch, NEW u, u = Grow(el, ch)
  PROVE  u \in Unknown
<1>1. CASE el = <<"?">>
  BY <1>1, GrowWord DEF MakeElement, Unknown
<1>2. CASE \E a \in {"?", "k", "c", "u"} : el = <<a, "SP">>
  <2>1. PICK a \in {"?", "k", "c", "u"} : el = <<a, "SP">>
    BY <1>2
  <2>2. u = IF ch \in Blanks THEN <<a, "SP">> ELSE <<"?">>
    BY <2>1, GrowWordOn
  <2> QED BY <2>2 DEF Unknown
<1> QED BY <1>1, <1>2 DEF Unknown

LEMMA NotConnectionGrows ==
  ASSUME NEW el \in NotConnection, NEW ch, NEW u, u = Grow(el, ch)
  PROVE  u \in NotConnection
<1>1. CASE el \in Unknown
  BY <1>1, UnknownGrows DEF NotConnection
<1>2. CASE el \in Chunks
  <2>1. u = Grow(<<"c", "hunked">>, ch) \/ u = Grow(<<"c", "hunked", "SP">>, ch)
    BY <1>2 DEF Chunks
  <2>2. u = <<"c", "hunked", "SP">> \/ u = <<"?">>
    BY <2>1, GrowPair, GrowPairOn
  <2> QED BY <2>2 DEF NotConnection, Unknown, Chunks
<1> QED BY <1>1, <1>2 DEF NotConnection

\* The elements of Connection, as pairs of words.
ConnectionWords == {<<"k", "eep-alive">>, <<"c", "lose">>, <<"u", "pgrade">>}

LEMMA NotChunkedIs ==
  NotChunked = Unknown \cup {<<"k">>, <<"u">>} \cup ConnectionWords
                 \cup {<<"k", "eep-alive", "SP">>, <<"c", "lose", "SP">>, <<"u", "pgrade", "SP">>}
BY DEF NotChunked, ElementsOf, Matched, ConnectionWords

LEMMA NotChunkedGrows ==
  ASSUME NEW el \in NotChunked, NEW ch, NEW u, u = Grow(el, ch)
  PROVE  u \in NotChunked
<1>1. CASE el \in Unknown
  BY <1>1, UnknownGrows, NotChunkedIs
<1>2. CASE el = <<"k">> \/ el = <<"u">>
  <2>1. u = Grow(<<"k">>, ch) \/ u = Grow(<<"u">>, ch)
    BY <1>2
  <2>2. \/ u = <<"k", "SP">> \/ u = <<"u", "SP">> \/ u = <<"?">> \/ u = <<"k", "eep-alive">>
        \/ u = <<"u", "pgrade">>
    BY <2>1, GrowWord DEF MakeElement
  <2> QED BY <2>2, NotChunkedIs DEF Unknown, ConnectionWords
<1>3. CASE \E a, b : el \in {<<a, b>>, <<a, b, "SP">>} /\ <<a, b>> \in ConnectionWords
  <2>1. PICK a, b : el \in {<<a, b>>, <<a, b, "SP">>} /\ <<a, b>> \in ConnectionWords
    BY <1>3
  <2>2. b # "SP"
    BY <2>1 DEF ConnectionWords
  <2>3. u = <<a, b, "SP">> \/ u = <<"?">>
    BY <2>1, <2>2, GrowPair, GrowPairOn
  <2>4. <<a, b, "SP">> \in NotChunked
    BY <2>1, NotChunkedIs DEF ConnectionWords
  <2> QED BY <2>3, <2>4, NotChunkedIs DEF Unknown
<1> QED BY <1>1, <1>2, <1>3, NotChunkedIs DEF ConnectionWords

LEMMA Differ ==
  /\ Length \notin Connection /\ Encoding \notin Connection /\ Upgrade \notin Connection
  /\ Length # Encoding /\ Length # Upgrade /\ Encoding # Upgrade
BY DEF Length, Encoding, Upgrade, Connection

\* Where a value begins.
LEMMA StartArc ==
  ASSUME NEW s, NEW ch, NEW r, r = ValueStarts(s, ch)
  PROVE  /\ s = "h_transfer_encoding"
              => r = IF ch = "c" THEN "h_matching_transfer_encoding_chunked" ELSE "h_general"
         /\ s = "h_content_length" /\ ch \in Digits => r = "h_content_length"
         /\ s = "h_connection"
              => r = IF ch = "k" THEN "h_matching_connection_keep_alive"
                     ELSE IF ch = "c" THEN "h_matching_connection_close"
                     ELSE IF ch = "u" THEN "h_matching_connection_upgrade"
                     ELSE "h_matching_connection_token"
         /\ s = "h_matching_connection_token_start" /\ ch \in Blanks => r = s
         /\ s \notin {"h_transfer_encoding", "h_content_length", "h_connection",
                      "h_matching_connection_token_start"} => r = "h_general"
<1> DEFINE dead == IF s = "h_connection" THEN "h_matching_connection_token" ELSE "h_general"
<1>1. \/ r = dead /\ \A arc \in ValueStartArcs : s \notin arc[1] \/ ch \notin arc[2]
      \/ \E arc \in ValueStartArcs : s \in arc[1] /\ ch \in arc[2] /\ r = arc[3]
  BY Arc DEF ValueStarts
<1> QED BY <1>1 DEF ValueStartArcs

\* The table of values, at a state and a symbol.
LEMMA OnArc ==
  ASSUME NEW s, NEW ch, NEW r, r = ValueGoesOn(s, ch)
  PROVE  \/ r = Unmatched(s, ch) /\ \A arc \in ValueArcs : s \notin arc[1] \/ ch \notin arc[2]
         \/ \E arc \in ValueArcs : s \in arc[1] /\ ch \in arc[2] /\ r = arc[3]
BY Arc DEF ValueGoesOn

LEMMA EncodingArc ==
  ASSUME NEW s, NEW ch, NEW r, r = ValueGoesOn(s, ch)
  PROVE  /\ s = "h_matching_transfer_encoding_chunked"
              => r = IF ch = "hunked" THEN "h_transfer_encoding_chunked" ELSE "h_general"
         /\ s = "h_transfer_encoding_chunked" => r = IF ch = "SP" THEN s ELSE "h_general"
         /\ s = "h_general" => r = s
<1>1. CASE s = "h_matching_transfer_encoding_chunked"
  BY <1>1, OnArc DEF ValueArcs, Unmatched, Connecting, Matched
<1>2. CASE s = "h_transfer_encoding_chunked"
  BY <1>2, OnArc DEF ValueArcs, Unmatched, Connecting, Matched
<1>3. CASE s = "h_general"
  BY <1>3, OnArc DEF ValueArcs, Unmatched, Connecting, Matched
<1> QED BY <1>1, <1>2, <1>3

LEMMA TokenStartArc ==
  ASSUME NEW s, s = "h_matching_connection_token_start", NEW ch, NEW r, r = ValueGoesOn(s, ch)
  PROVE  \/ ch \in Blanks /\ r = s
         \/ ch = "k" /\ r = "h_matching_connection_keep_alive"
         \/ ch = "c" /\ r = "h_matching_connection_close"
         \/ ch = "u" /\ r = "h_matching_connection_upgrade"
         \/ ch \in NotTokens \ Blanks /\ r = "h_general"
         \/ ch \notin NotTokens \cup {"k", "c", "u"} /\ r = "h_matching_connection_token"
<1>1. Unmatched(s, ch) = IF ch \in NotTokens THEN "h_general" ELSE "h_matching_connection_token"
  BY DEF Unmatched, Connecting, Matched
<1>2. \/ r = Unmatched(s, ch) /\ ch \notin Blanks \cup {"k", "c", "u"}
      \/ ch \in Blanks /\ r = s
      \/ ch = "k" /\ r = "h_matching_connection_keep_alive"
      \/ ch = "c" /\ r = "h_matching_connection_close"
      \/ ch = "u" /\ r = "h_matching_connection_upgrade"
  BY OnArc DEF ValueArcs, Matched
<1> QED BY <1>1, <1>2

LEMMA MatchingArc ==
  ASSUME NEW s, NEW ch, NEW r, r = ValueGoesOn(s, ch)
  PROVE  /\ s = "h_matching_connection_keep_alive"
              => r = IF ch = "eep-alive" THEN "h_connection_keep_alive"
                     ELSE "h_matching_connection_token"
         /\ s = "h_matching_connection_close"
              => r = IF ch = "lose" THEN "h_connection_close" ELSE "h_matching_connection_token"
         /\ s = "h_matching_connection_upgrade"
              => r = IF ch = "pgrade" THEN "h_connection_upgrade"
                     ELSE "h_matching_connection_token"
         /\ s = "h_matching_connection_token"
              => r = IF ch = Comma THEN "h_matching_connection_token_start" ELSE s
<1>1. s \in Connecting => Unmatched(s, ch) = "h_matching_connection_token"
  BY DEF Unmatched
<1>2. CASE s = "h_matching_connection_keep_alive"
  BY <1>1, <1>2, OnArc DEF ValueArcs, Connecting, Matched
<1>3. CASE s = "h_matching_connection_close"
  BY <1>1, <1>3, OnArc DEF ValueArcs, Connecting, Matched
<1>4. CASE s = "h_matching_connection_upgrade"
  BY <1>1, <1>4, OnArc DEF ValueArcs, Connecting, Matched
<1>5. CASE s = "h_matching_connection_token"
  BY <1>1, <1>5, OnArc DEF ValueArcs, Connecting, Matched
<1> QED BY <1>2, <1>3, <1>4, <1>5

LEMMA MatchedArc ==
  ASSUME NEW s \in Matched, NEW ch, NEW r, r = ValueGoesOn(s, ch)
  PROVE  r = IF ch = "SP" THEN s ELSE IF ch = Comma THEN "h_matching_connection_token_start"
             ELSE "h_matching_connection_token"
<1>1. Unmatched(s, ch) = "h_matching_connection_token"
  BY DEF Unmatched, Connecting
<1>2. Comma # "SP"
  BY DEF Comma
<1> QED BY <1>1, <1>2, OnArc DEF ValueArcs, Matched

LEMMA ElementsOfAre ==
  /\ "h_matching_connection_keep_alive" \in DOMAIN ElementsOf
  /\ "h_matching_connection_close" \in DOMAIN ElementsOf
  /\ "h_matching_connection_upgrade" \in DOMAIN ElementsOf
  /\ Matched \subseteq DOMAIN ElementsOf
  /\ <<"k">> \in ElementsOf["h_matching_connection_keep_alive"]
  /\ <<"c">> \in ElementsOf["h_matching_connection_close"]
  /\ <<"u">> \in ElementsOf["h_matching_connection_upgrade"]
  /\ <<"k", "eep-alive">> \in ElementsOf["h_connection_keep_alive"]
  /\ <<"k", "eep-alive", "SP">> \in ElementsOf["h_connection_keep_alive"]
  /\ <<"c", "lose">> \in ElementsOf["h_connection_close"]
  /\ <<"c", "lose", "SP">> \in ElementsOf["h_connection_close"]
  /\ <<"u", "pgrade">> \in ElementsOf["h_connection_upgrade"]
  /\ <<"u", "pgrade", "SP">> \in ElementsOf["h_connection_upgrade"]
BY DEF ElementsOf, Matched

LEMMA ReadingElement ==
  ASSUME NEW s \in DOMAIN ElementsOf, NEW el \in ElementsOf[s], NEW name \in Connection, NEW odd
  PROVE  Reading(name, s, el, odd)
BY DEF Reading

LEMMA ReadingToken ==
  ASSUME NEW s, s = "h_matching_connection_token", NEW el, NEW odd, odd \/ el \in NotConnection,
         NEW name \in Connection
  PROVE  Reading(name, s, el, odd)
BY DEF Reading

\* A value begins after its name.
LEMMA ReadingBegins ==
  ASSUME NEW s \in NameStates, NEW name \in NamesOf[s], NEW ch, ch \notin Blanks,
         s = "h_content_length" => ch \in Digits,
         NEW odd, name \in Connection /\ ch \in NotTokens => odd,
         NEW el, el = IF ch = Comma /\ name \in Connection THEN <<>> ELSE Grow(<<>>, ch),
         NEW r, r = ValueStarts(s, ch)
  PROVE  Reading(name, r, el, odd)
<1>1. CASE s = "h_connection"
  <2>1. name \in Connection
    BY <1>1 DEF NamesOf
  <2>2. CASE ch \in NotTokens
    <3>1. ch \notin {"k", "c", "u"}
      BY <2>2 DEF NotTokens, Ends, Blanks, Comma, Semicolon
    <3>2. r = "h_matching_connection_token"
      BY <1>1, <3>1, StartArc
    <3> QED BY <2>1, <2>2, <3>2 DEF Reading
  <2>3. CASE ch \notin NotTokens
    <3>1. ch # Comma
      BY <2>3 DEF NotTokens
    <3>2. el = IF ch \in {"k", "c", "u"} THEN <<ch>> ELSE <<"?">>
      BY <3>1, GrowFirst
    <3>3. CASE ch = "k"
      <4>1. r = "h_matching_connection_keep_alive" /\ el = <<"k">>
        BY <1>1, <3>2, <3>3, StartArc
      <4> QED BY <2>1, <4>1, ElementsOfAre, ReadingElement
    <3>4. CASE ch = "c"
      <4>1. r = "h_matching_connection_close" /\ el = <<"c">>
        BY <1>1, <3>2, <3>4, StartArc
      <4> QED BY <2>1, <4>1, ElementsOfAre, ReadingElement
    <3>5. CASE ch = "u"
      <4>1. r = "h_matching_connection_upgrade" /\ el = <<"u">>
        BY <1>1, <3>2, <3>5, StartArc
      <4> QED BY <2>1, <4>1, ElementsOfAre, ReadingElement
    <3>6. CASE ch \notin {"k", "c", "u"}
      <4>1. r = "h_matching_connection_token" /\ el = <<"?">>
        BY <1>1, <3>2, <3>6, StartArc
      <4> QED BY <2>1, <4>1 DEF Reading, NotConnection, Unknown
    <3> QED BY <3>3, <3>4, <3>5, <3>6
  <2> QED BY <2>2, <2>3
<1>2. CASE s = "h_transfer_encoding"
  <2>1. name = Encoding /\ name \notin Connection /\ name # Length
    BY <1>2, Differ DEF NamesOf
  <2>2. el = IF ch \in {"k", "c", "u"} THEN <<ch>> ELSE <<"?">>
    BY <2>1, GrowFirst
  <2>3. CASE ch = "c"
    <3>1. r = "h_matching_transfer_encoding_chunked" /\ el = <<"c">>
      BY <1>2, <2>2, <2>3, StartArc
    <3> QED BY <2>1, <3>1 DEF Reading
  <2>4. CASE ch # "c"
    <3>1. r = "h_general" /\ el \in NotChunked
      BY <1>2, <2>2, <2>4, StartArc, NotChunkedIs DEF Unknown
    <3> QED BY <2>1, <3>1 DEF Reading
  <2> QED BY <2>3, <2>4
<1>3. CASE s = "h_content_length"
  <2>1. r = "h_content_length" /\ name = Length
    BY <1>3, StartArc DEF NamesOf
  <2> QED BY <2>1 DEF Reading
<1>4. CASE s \notin {"h_connection", "h_transfer_encoding", "h_content_length"}
  <2>1. r = "h_general"
    BY <1>4, StartArc DEF NameStates, NameSymbols
  <2>2. \/ name = Upgrade \/ name = <<"?">> \/ name = <<"c">> \/ name = <<"p">> \/ name = <<"t">>
        \/ name = <<"u">> \/ name = <<"c", "onn">> \/ name = <<"c", "ont">>
    BY <1>4 DEF NamesOf, NameStates, NameSymbols
  <2>3. name # Length /\ name # Encoding /\ name \notin Connection
    BY <2>2 DEF Length, Encoding, Connection, Upgrade
  <2> QED BY <2>1, <2>3 DEF Reading
<1> QED BY <1>1, <1>2, <1>3, <1>4

\* A value goes on in the next line.
LEMMA ReadingAgain ==
  ASSUME NEW s, NEW name, NEW el, NEW was, Reading(name, s, el, was), Left(name, s),
         s # "h_content_length", NEW ch \in Blanks,
         NEW odd, odd, NEW r, r = ValueStarts(s, ch), NEW u, u = Grow(el, ch)
  PROVE  Reading(name, r, u, odd)
<1>1. CASE s = "h_matching_connection_token_start"
  <2>1. name \in Connection /\ r = s
    BY <1>1, StartArc DEF Left
  <2>2. el = <<>>
    BY <1>1 DEF Reading, ElementsOf
  <2>3. u = <<>>
    BY <2>2, GrowBlank
  <2> QED BY <1>1, <2>1, <2>3 DEF Reading, ElementsOf
<1>2. CASE s # "h_matching_connection_token_start"
  <2>1. r = "h_general" /\ name # Length
    BY <1>2, StartArc DEF Left, NotInValues
  <2> QED BY <2>1 DEF Reading
<1> QED BY <1>1, <1>2

\* A value goes on.
LEMMA ReadingGoesOn ==
  ASSUME NEW s, NEW name, NEW el, NEW odd, Reading(name, s, el, odd), s # "h_content_length",
         NEW ch, ch \notin Ends,
         NEW more, odd \/ ch = "HT" => more,
         ch = Comma /\ name \in Connection /\ Beginning(el) => more,
         name \in Connection /\ el = <<>> /\ ch \in NotTokens \ Blanks => more,
         NEW u, u = IF ch = Comma /\ name \in Connection THEN <<>> ELSE Grow(el, ch),
         NEW r, r = ValueGoesOn(s, ch)
  PROVE  Reading(name, r, u, more)
<1>1. CASE /\ s = "h_general" /\ name # Length
           /\ name \in Connection => odd
           /\ name = Encoding => odd \/ el \in NotChunked
  <2>1. r = "h_general"
    BY <1>1, EncodingArc
  <2>2. ASSUME name = Encoding, ~odd PROVE u \in NotChunked
    BY <1>1, <2>2, Differ, NotChunkedGrows
  <2> QED BY <1>1, <2>1, <2>2 DEF Reading
<1>2. CASE name = Encoding /\ s = "h_matching_transfer_encoding_chunked" /\ el = <<"c">>
  <2>1. name \notin Connection /\ name # Length /\ u = Grow(<<"c">>, ch)
    BY <1>2, Differ
  <2>2. u = IF ch \in Blanks THEN <<"c", "SP">> ELSE IF MakeElement("c", ch) THEN <<"c", ch>> ELSE <<"?">>
    BY <2>1, GrowWord
  <2>3. CASE ch = "hunked"
    <3>1. r = "h_transfer_encoding_chunked" /\ u = <<"c", "hunked">>
      BY <1>2, <2>2, <2>3, EncodingArc DEF Blanks, MakeElement
    <3> QED BY <1>2, <3>1 DEF Reading, Chunks
  <2>4. CASE ch # "hunked"
    <3>1. r = "h_general"
      BY <1>2, <2>4, EncodingArc
    <3>2. u = <<"c", "SP">> \/ u = <<"c", "lose">> \/ u = <<"?">>
      BY <2>2, <2>4 DEF MakeElement
    <3>3. u \in NotChunked
      BY <3>2, NotChunkedIs DEF Unknown, ConnectionWords
    <3> QED BY <2>1, <3>1, <3>3 DEF Reading
  <2> QED BY <2>3, <2>4
<1>3. CASE name = Encoding /\ s = "h_transfer_encoding_chunked" /\ el \in Chunks
  <2>1. name \notin Connection /\ name # Length
    BY <1>3, Differ
  <2>2. u = Grow(<<"c", "hunked">>, ch) \/ u = Grow(<<"c", "hunked", "SP">>, ch)
    BY <1>3, <2>1 DEF Chunks
  <2>3. u = IF ch \in Blanks THEN <<"c", "hunked", "SP">> ELSE <<"?">>
    BY <2>2, GrowPair, GrowPairOn
  <2>4. CASE ch = "SP"
    <3>1. r = s /\ u \in Chunks
      BY <1>3, <2>3, <2>4, EncodingArc DEF Blanks, Chunks
    <3> QED BY <1>3, <3>1 DEF Reading
  <2>5. CASE ch # "SP"
    <3>1. r = "h_general" /\ (more \/ u = <<"?">>)
      BY <1>3, <2>3, <2>5, EncodingArc DEF Blanks
    <3>2. more \/ u \in NotChunked
      BY <3>1, NotChunkedIs DEF Unknown
    <3> QED BY <2>1, <3>1, <3>2 DEF Reading
  <2> QED BY <2>4, <2>5
<1>4. CASE name \in Connection /\ s = "h_matching_connection_token" /\ (odd \/ el \in NotConnection)
  <2>1. CASE ch = Comma
    <3>1. r = "h_matching_connection_token_start" /\ u = <<>>
      BY <1>4, <2>1, MatchingArc
    <3> QED BY <1>4, <3>1 DEF Reading, ElementsOf
  <2>2. CASE ch # Comma
    <3>1. r = s /\ u = Grow(el, ch)
      BY <1>4, <2>2, MatchingArc
    <3>2. more \/ u \in NotConnection
      BY <1>4, <3>1, NotConnectionGrows
    <3> QED BY <1>4, <3>1, <3>2 DEF Reading
  <2> QED BY <2>1, <2>2
<1>5. CASE name \in Connection /\ s = "h_matching_connection_token_start" /\ el = <<>>
  <2>1. CASE ch \in Blanks
    <3>1. r = s
      BY <1>5, <2>1, TokenStartArc DEF Blanks, NotTokens
    <3>2. u = <<>>
      BY <1>5, <2>1, GrowBlank
    <3> QED BY <1>5, <3>1, <3>2 DEF Reading, ElementsOf
  <2>2. CASE ch \in NotTokens \ Blanks
    <3>1. r = "h_general"
      BY <1>5, <2>2, TokenStartArc DEF Blanks, NotTokens, Ends, Comma, Semicolon
    <3>2. name # Length /\ name # Encoding /\ more
      BY <1>5, <2>2, Differ
    <3> QED BY <3>1, <3>2 DEF Reading
  <2>3. CASE ch \notin NotTokens
    <3>1. ch \notin Blanks /\ ch # Comma
      BY <2>3 DEF NotTokens
    <3>2. u = IF ch \in {"k", "c", "u"} THEN <<ch>> ELSE <<"?">>
      BY <1>5, <3>1, GrowFirst
    <3>3. \/ r = "h_matching_connection_keep_alive" /\ u = <<"k">>
          \/ r = "h_matching_connection_close" /\ u = <<"c">>
          \/ r = "h_matching_connection_upgrade" /\ u = <<"u">>
          \/ r = "h_matching_connection_token" /\ u = <<"?">>
      BY <1>5, <2>3, <3>1, <3>2, TokenStartArc
    <3>4. <<"?">> \in NotConnection
      BY DEF NotConnection, Unknown
    <3> QED BY <1>5, <3>3, <3>4, ElementsOfAre, ReadingElement, ReadingToken
  <2> QED BY <2>1, <2>2, <2>3
<1>6. CASE /\ name \in Connection
           /\ \/ s = "h_matching_connection_keep_alive" /\ el = <<"k">>
              \/ s = "h_matching_connection_close" /\ el = <<"c">>
              \/ s = "h_matching_connection_upgrade" /\ el = <<"u">>
  <2>1. PICK a \in {"k", "c", "u"} : el = <<a>>
    BY <1>6
  <2>2. CASE ch = Comma
    <3>1. /\ IsPrefix(<<"k">>, <<"k", "eep-alive">>) /\ IsPrefix(<<"c">>, <<"c", "lose">>)
          /\ IsPrefix(<<"u">>, <<"u", "pgrade">>)
      BY DEF IsPrefix
    <3>2. Beginning(el)
      BY <2>1, <3>1 DEF Beginning, KnownElements
    <3>3. r = "h_matching_connection_token" /\ more
      BY <1>6, <2>2, <3>2, MatchingArc DEF Comma
    <3> QED BY <1>6, <3>3 DEF Reading
  <2>3. CASE ch # Comma
    <3>1. u = Grow(<<a>>, ch) /\ a # "SP"
      BY <2>1, <2>3
    <3>2. u = IF ch \in Blanks THEN <<a, "SP">> ELSE IF MakeElement(a, ch) THEN <<a, ch>> ELSE <<"?">>
      BY <3>1, GrowWord
    <3>3. \/ s = "h_matching_connection_keep_alive" /\ a = "k"
          \/ s = "h_matching_connection_close" /\ a = "c"
          \/ s = "h_matching_connection_upgrade" /\ a = "u"
      BY <1>6, <2>1
    <3>4. \/ r = "h_connection_keep_alive" /\ u = <<"k", "eep-alive">>
          \/ r = "h_connection_close" /\ u = <<"c", "lose">>
          \/ r = "h_connection_upgrade" /\ u = <<"u", "pgrade">>
          \/ /\ r = "h_matching_connection_token"
             /\ \/ u = <<a, "SP">> \/ u = <<"c", "hunked">> \/ u = <<"?">>
      BY <3>2, <3>3, MatchingArc DEF MakeElement, Blanks
    <3>5. /\ <<a, "SP">> \in NotConnection /\ <<"c", "hunked">> \in NotConnection
          /\ <<"?">> \in NotConnection
      BY DEF NotConnection, Unknown, Chunks
    <3> QED BY <1>6, <3>4, <3>5, ElementsOfAre, ReadingElement, ReadingToken DEF Matched
  <2> QED BY <2>2, <2>3
<1>7. CASE name \in Connection /\ s \in Matched /\ el \in ElementsOf[s]
  <2>1. \/ s = "h_connection_keep_alive" /\ el \in {<<"k", "eep-alive">>, <<"k", "eep-alive", "SP">>}
        \/ s = "h_connection_close" /\ el \in {<<"c", "lose">>, <<"c", "lose", "SP">>}
        \/ s = "h_connection_upgrade" /\ el \in {<<"u", "pgrade">>, <<"u", "pgrade", "SP">>}
    BY <1>7 DEF ElementsOf, Matched
  <2>2. CASE ch = Comma
    <3>1. r = "h_matching_connection_token_start" /\ u = <<>>
      BY <1>7, <2>2, MatchedArc DEF Comma
    <3> QED BY <1>7, <3>1 DEF Reading, ElementsOf
  <2>3. CASE ch # Comma
    <3>1. PICK a, b : el \in {<<a, b>>, <<a, b, "SP">>} /\ b # "SP" /\ <<a, b, "SP">> \in ElementsOf[s]
      <4>1. CASE s = "h_connection_keep_alive"
        BY <2>1, <4>1, ElementsOfAre
      <4>2. CASE s = "h_connection_close"
        BY <2>1, <4>2, ElementsOfAre
      <4>3. CASE s = "h_connection_upgrade"
        BY <2>1, <4>3, ElementsOfAre
      <4> QED BY <2>1, <4>1, <4>2, <4>3
    <3>2. u = IF ch \in Blanks THEN <<a, b, "SP">> ELSE <<"?">>
      BY <2>3, <3>1, GrowPair, GrowPairOn
    <3>3. CASE ch = "SP"
      <4>1. r = s /\ u \in ElementsOf[s] /\ s \in DOMAIN ElementsOf
        BY <1>7, <3>1, <3>2, <3>3, MatchedArc DEF Blanks, ElementsOf, Matched
      <4> QED BY <1>7, <4>1 DEF Reading
    <3>4. CASE ch # "SP"
      <4>1. r = "h_matching_connection_token" /\ (more \/ u = <<"?">>)
        BY <1>7, <2>3, <3>2, <3>4, MatchedArc DEF Blanks
      <4> QED BY <1>7, <4>1 DEF Reading, NotConnection, Unknown
    <3> QED BY <3>3, <3>4
  <2> QED BY <2>2, <2>3
<1>8. \/ /\ s = "h_general" /\ name # Length
         /\ name \in Connection => odd
         /\ name = Encoding => odd \/ el \in NotChunked
      \/ name = Encoding /\ s = "h_matching_transfer_encoding_chunked" /\ el = <<"c">>
      \/ name = Encoding /\ s = "h_transfer_encoding_chunked" /\ el \in Chunks
      \/ name \in Connection /\ s \in DOMAIN ElementsOf /\ el \in ElementsOf[s]
      \/ name \in Connection /\ s = "h_matching_connection_token" /\ (odd \/ el \in NotConnection)
  BY DEF Reading
<1>9. ASSUME s \in DOMAIN ElementsOf, el \in ElementsOf[s]
      PROVE  \/ s = "h_matching_connection_token_start" /\ el = <<>>
             \/ s = "h_matching_connection_keep_alive" /\ el = <<"k">>
             \/ s = "h_matching_connection_close" /\ el = <<"c">>
             \/ s = "h_matching_connection_upgrade" /\ el = <<"u">>
             \/ s \in Matched
  BY <1>9 DEF ElementsOf, Matched
<1> QED BY <1>1, <1>2, <1>3, <1>4, <1>5, <1>6, <1>7, <1>8, <1>9

LEMMA FlagsListed ==
  /\ DOMAIN FlagListed = {"F_CHUNKED", "F_CONNECTION_KEEP_ALIVE", "F_CONNECTION_CLOSE",
                          "F_CONNECTION_UPGRADE", "F_UPGRADE"}
  /\ FlagListed["F_CHUNKED"] = <<"c", "hunked">>
  /\ FlagListed["F_CONNECTION_KEEP_ALIVE"] = <<"k", "eep-alive">>
  /\ FlagListed["F_CONNECTION_CLOSE"] = <<"c", "lose">>
  /\ FlagListed["F_CONNECTION_UPGRADE"] = <<"u", "pgrade">>
  /\ FlagListed["F_UPGRADE"] = <<"u", "pgrade", "x">>
<1>1. PICK s : s = <<"u", "pgrade">> \o <<"x">>
  OBVIOUS
<1>2. s \in Seq({"u", "pgrade", "x"}) /\ Len(s) = 3 /\ s[1] = "u" /\ s[2] = "pgrade" /\ s[3] = "x"
  BY <1>1
<1>3. s = <<"u", "pgrade", "x">>
  BY <1>2
<1> QED BY <1>1, <1>3 DEF FlagListed, Upgrade

\* What an element that is known lists.
LEMMA ConnectionLists ==
  ASSUME NEW name \in Connection, NEW el
  PROVE  Listed(name, el) = {Element(el)} \cap ConnectionWords
<1>1. KnownElements \ {<<"c", "hunked">>} = ConnectionWords
  BY DEF KnownElements, ConnectionWords
<1> QED BY <1>1 DEF Listed

LEMMA EncodingLists ==
  ASSUME NEW el
  PROVE  Listed(Encoding, el) = {Element(el)} \cap {<<"c", "hunked">>}
BY Differ DEF Listed

\* The elements of what is not known.
LEMMA UnknownElements ==
  /\ \A el \in NotConnection \cup {<<>>, <<"k">>, <<"c">>, <<"u">>} : Element(el) \notin ConnectionWords
  /\ \A el \in NotChunked \cup {<<>>, <<"c">>} : Element(el) # <<"c", "hunked">>
<1>1. /\ Element(<<>>) = <<>> /\ Element(<<"k">>) = <<"k">> /\ Element(<<"c">>) = <<"c">>
      /\ Element(<<"u">>) = <<"u">> /\ Element(<<"?">>) = <<"?">> /\ Element(<<"?", "SP">>) = <<"?">>
      /\ Element(<<"k", "SP">>) = <<"k">> /\ Element(<<"c", "SP">>) = <<"c">>
      /\ Element(<<"u", "SP">>) = <<"u">>
  BY Elements
<1>2. /\ Element(<<"c", "hunked">>) = <<"c", "hunked">>
      /\ Element(<<"c", "hunked", "SP">>) = <<"c", "hunked">>
  BY Elements
<1>3. /\ Element(<<"k", "eep-alive">>) = <<"k", "eep-alive">>
      /\ Element(<<"k", "eep-alive", "SP">>) = <<"k", "eep-alive">>
      /\ Element(<<"c", "lose">>) = <<"c", "lose">>
      /\ Element(<<"c", "lose", "SP">>) = <<"c", "lose">>
      /\ Element(<<"u", "pgrade">>) = <<"u", "pgrade">>
      /\ Element(<<"u", "pgrade", "SP">>) = <<"u", "pgrade">>
  BY Elements
<1>4. \A el \in NotConnection \cup {<<>>, <<"k">>, <<"c">>, <<"u">>} : Element(el) \notin ConnectionWords
  <2>1. SUFFICES ASSUME NEW el \in NotConnection \cup {<<>>, <<"k">>, <<"c">>, <<"u">>}
                 PROVE  Element(el) \notin ConnectionWords
    OBVIOUS
  <2>2. Element(el) \in {<<>>, <<"k">>, <<"c">>, <<"u">>, <<"?">>, <<"c", "hunked">>}
    BY <1>1, <1>2 DEF NotConnection, Unknown, Chunks
  <2>3. /\ <<>> \notin ConnectionWords /\ <<"k">> \notin ConnectionWords
        /\ <<"c">> \notin ConnectionWords /\ <<"u">> \notin ConnectionWords
        /\ <<"?">> \notin ConnectionWords /\ <<"c", "hunked">> \notin ConnectionWords
    BY DEF ConnectionWords
  <2> QED BY <2>2, <2>3
<1>5. \A el \in NotChunked \cup {<<>>, <<"c">>} : Element(el) # <<"c", "hunked">>
  <2>1. SUFFICES ASSUME NEW el \in NotChunked \cup {<<>>, <<"c">>}
                 PROVE  Element(el) # <<"c", "hunked">>
    OBVIOUS
  <2>2. Element(el) \in {<<>>, <<"k">>, <<"c">>, <<"u">>, <<"?">>} \cup ConnectionWords
    BY <1>1, <1>3, NotChunkedIs DEF Unknown, ConnectionWords
  <2> QED BY <2>2 DEF ConnectionWords
<1> QED BY <1>4, <1>5

\* An element that has been matched is listed and no other is, unless the value is odd.
LEMMA ReadingLists ==
  ASSUME NEW s, NEW name, NEW el, NEW odd, Reading(name, s, el, odd)
  PROVE  /\ s \in DOMAIN FlagOf => Listed(name, el) = {FlagListed[FlagOf[s]]}
         /\ s \notin DOMAIN FlagOf => odd \/ Listed(name, el) = {}
         /\ s \in Matched => name \in Connection
         /\ s = "h_transfer_encoding_chunked" => name = Encoding
         /\ Left(name, s)
<1>1. DOMAIN FlagOf = Matched \cup {"h_transfer_encoding_chunked"}
  BY DEF FlagOf, Matched
<1>2. /\ FlagOf["h_connection_keep_alive"] = "F_CONNECTION_KEEP_ALIVE"
      /\ FlagOf["h_connection_close"] = "F_CONNECTION_CLOSE"
      /\ FlagOf["h_connection_upgrade"] = "F_CONNECTION_UPGRADE"
      /\ FlagOf["h_transfer_encoding_chunked"] = "F_CHUNKED"
  BY DEF FlagOf
<1>3. CASE s = "h_general" /\ name # Length /\ (name \in Connection => odd)
             /\ (name = Encoding => odd \/ el \in NotChunked)
  <2>1. s \notin DOMAIN FlagOf /\ Left(name, s) /\ s \notin Matched
    BY <1>1, <1>3 DEF Matched, Left, NotInValues
  <2>2. CASE name \in Connection
    BY <1>3, <2>1, <2>2
  <2>3. CASE name = Encoding
    BY <1>3, <2>1, <2>3, EncodingLists, UnknownElements, Differ
  <2>4. CASE name \notin Connection /\ name # Encoding
    BY <1>3, <2>1, <2>4 DEF Listed
  <2> QED BY <2>2, <2>3, <2>4
<1>4. CASE s = "h_content_length" /\ name = Length
  <2>1. s \notin DOMAIN FlagOf /\ s \notin Matched /\ Left(name, s)
    BY <1>1, <1>4 DEF Matched, Left
  <2>2. Listed(name, el) = {}
    BY <1>4, Differ DEF Listed
  <2> QED BY <1>4, <2>1, <2>2
<1>5. CASE name = Encoding /\ s = "h_matching_transfer_encoding_chunked" /\ el = <<"c">>
  <2>1. s \notin DOMAIN FlagOf /\ s \notin Matched /\ Left(name, s)
    BY <1>1, <1>5, Differ DEF Matched, Left, NotInValues
  <2>2. Listed(name, el) = {}
    BY <1>5, EncodingLists, UnknownElements
  <2> QED BY <1>5, <2>1, <2>2
<1>6. CASE name = Encoding /\ s = "h_transfer_encoding_chunked" /\ el \in Chunks
  <2>1. s \in DOMAIN FlagOf /\ s \notin Matched /\ Left(name, s)
    BY <1>1, <1>6, Differ DEF Matched, Left, NotInValues
  <2>2. Element(el) = <<"c", "hunked">>
    BY <1>6, Elements DEF Chunks
  <2>3. Listed(name, el) = {<<"c", "hunked">>}
    BY <1>6, <2>2, EncodingLists
  <2> QED BY <1>2, <1>6, <2>1, <2>3, FlagsListed
<1>7. CASE name \in Connection /\ s = "h_matching_connection_token" /\ (odd \/ el \in NotConnection)
  <2>1. s \notin DOMAIN FlagOf /\ s \notin Matched /\ Left(name, s)
    BY <1>1, <1>7, Differ DEF Matched, Left, NotInValues
  <2>2. odd \/ Listed(name, el) = {}
    BY <1>7, ConnectionLists, UnknownElements
  <2> QED BY <1>7, <2>1, <2>2
<1>8. CASE name \in Connection /\ s \in DOMAIN ElementsOf /\ el \in ElementsOf[s]
  <2>1. \/ s = "h_matching_connection_token_start" /\ el = <<>>
        \/ s = "h_matching_connection_keep_alive" /\ el = <<"k">>
        \/ s = "h_matching_connection_close" /\ el = <<"c">>
        \/ s = "h_matching_connection_upgrade" /\ el = <<"u">>
        \/ s = "h_connection_keep_alive" /\ el \in {<<"k", "eep-alive">>, <<"k", "eep-alive", "SP">>}
        \/ s = "h_connection_close" /\ el \in {<<"c", "lose">>, <<"c", "lose", "SP">>}
        \/ s = "h_connection_upgrade" /\ el \in {<<"u", "pgrade">>, <<"u", "pgrade", "SP">>}
    BY <1>8 DEF ElementsOf
  <2>2. Left(name, s) /\ s # "h_transfer_encoding_chunked"
    BY <1>8, <2>1, Differ DEF Left, NotInValues
  <2>3. CASE s \notin Matched
    <3>1. s \notin DOMAIN FlagOf
      BY <1>1, <2>2, <2>3
    <3>2. Listed(name, el) = {}
      BY <1>8, <2>1, <2>3, ConnectionLists, UnknownElements DEF Matched
    <3> QED BY <2>2, <2>3, <3>1, <3>2
  <2>4. ASSUME NEW a, NEW b, b # "SP", el \in {<<a, b>>, <<a, b, "SP">>}, <<a, b>> \in ConnectionWords
        PROVE  Listed(name, el) = {<<a, b>>}
    <3>1. Element(el) = <<a, b>>
      BY <2>4, Elements
    <3>2. Listed(name, el) = {Element(el)} \cap ConnectionWords
      BY <1>8, ConnectionLists
    <3> QED BY <2>4, <3>1, <3>2
  <2>5. CASE s = "h_connection_keep_alive"
    <3>1. Listed(name, el) = {<<"k", "eep-alive">>}
      BY <2>1, <2>4, <2>5 DEF ConnectionWords
    <3> QED BY <1>1, <1>2, <1>8, <2>2, <2>5, <3>1, FlagsListed DEF Matched
  <2>6. CASE s = "h_connection_close"
    <3>1. Listed(name, el) = {<<"c", "lose">>}
      BY <2>1, <2>4, <2>6 DEF ConnectionWords
    <3> QED BY <1>1, <1>2, <1>8, <2>2, <2>6, <3>1, FlagsListed DEF Matched
  <2>7. CASE s = "h_connection_upgrade"
    <3>1. Listed(name, el) = {<<"u", "pgrade">>}
      BY <2>1, <2>4, <2>7 DEF ConnectionWords
    <3> QED BY <1>1, <1>2, <1>8, <2>2, <2>7, <3>1, FlagsListed DEF Matched
  <2> QED BY <2>3, <2>5, <2>6, <2>7 DEF Matched
<1>9. \/ /\ s = "h_general" /\ name # Length /\ (name \in Connection => odd)
         /\ (name = Encoding => odd \/ el \in NotChunked)
      \/ s = "h_content_length" /\ name = Length
      \/ name = Encoding /\ s = "h_matching_transfer_encoding_chunked" /\ el = <<"c">>
      \/ name = Encoding /\ s = "h_transfer_encoding_chunked" /\ el \in Chunks
      \/ name \in Connection /\ s \in DOMAIN ElementsOf /\ el \in ElementsOf[s]
      \/ name \in Connection /\ s = "h_matching_connection_token" /\ (odd \/ el \in NotConnection)
  BY DEF Reading
<1> QED BY <1>3, <1>4, <1>5, <1>6, <1>7, <1>8, <1>9

-----------------------------------------------------------------------------
(* What one symbol makes of the core of a parser *)

LEMMA CoreIs ==
  ASSUME NEW q
  PROVE  /\ Core(q).type = q.type /\ Core(q).state = q.state
         /\ Core(q).header_state = q.header_state /\ Core(q).flags = q.flags
         /\ Core(q).content_length = q.content_length /\ Core(q).http_major = q.http_major
         /\ Core(q).http_minor = q.http_minor /\ Core(q).status_code = q.status_code
         /\ Core(q).upgrade = q.upgrade
BY DEF Core

\* d is c but for these parts.
Onto(c, d, s, hs, f, n) ==
  /\ d.type = c.type /\ d.http_major = c.http_major /\ d.http_minor = c.http_minor
  /\ d.status_code = c.status_code /\ d.upgrade = c.upgrade
  /\ d.state = s /\ d.header_state = hs /\ d.flags = f /\ d.content_length = n

Moved(c, d, S) ==
  d.state \in S /\ Onto(c, d, d.state, c.header_state, c.flags, c.content_length)

Outside == {"index", "nread", "method", "run", "marks", "owed"}

\* Two parsers with the same core.
Alike(q, r) ==
  /\ DOMAIN r = Parts /\ r.http_errno = q.http_errno
  /\ r.type = q.type /\ r.state = q.state /\ r.header_state = q.header_state
  /\ r.flags = q.flags /\ r.content_length = q.content_length /\ r.http_major = q.http_major
  /\ r.http_minor = q.http_minor /\ r.status_code = q.status_code /\ r.upgrade = q.upgrade

LEMMA AlikeCores ==
  ASSUME NEW q, NEW r, Alike(q, r)
  PROVE  Core(r) = Core(q) /\ DOMAIN r = Parts /\ (Failed(r) <=> Failed(q))
BY DEF Alike, Core, Failed

LEMMA ButAlike ==
  ASSUME NEW q, NEW r, NEW S \in SUBSET Outside, But(q, r, S)
  PROVE  Alike(q, r)
BY DEF But, Outside, Alike, Parts

Inside == Outside \cup {"state", "header_state", "flags", "content_length"}

LEMMA ButOnto ==
  ASSUME NEW q, NEW r, NEW S \in SUBSET Inside, But(q, r, S)
  PROVE  /\ (Failed(r) <=> Failed(q)) /\ DOMAIN r = Parts
         /\ Onto(Core(q), Core(r), r.state, r.header_state, r.flags, r.content_length)
<1>1. /\ DOMAIN r = Parts /\ r.type = q.type /\ r.http_major = q.http_major
      /\ r.http_minor = q.http_minor /\ r.status_code = q.status_code
      /\ r.upgrade = q.upgrade /\ r.http_errno = q.http_errno
  BY DEF But, Inside, Outside, Parts
<1> QED BY <1>1, CoreIs DEF Onto, Failed

LEMMA FailIsFailed ==
  ASSUME NEW q, NEW errno, errno # "HPE_OK"
  PROVE  Failed(Fail(q, errno))
BY DEF Fail, http_parser_init, Failed

LEMMA Counts ==
  ASSUME NEW q, DOMAIN q = Parts, NEW n, NEW r, r = Count(q, n), ~Failed(r)
  PROVE  ~Failed(q) /\ Core(r) = Core(q) /\ DOMAIN r = Parts
<1>1. ~Failed(q)
  BY DEF Count
<1>2. r = [q EXCEPT !.nread = @ + n]
  BY <1>1, FailIsFailed DEF Count
<1>3. Alike(q, r)
  BY <1>2 DEF Alike, Parts
<1> QED BY <1>1, <1>3, AlikeCores

LEMMA Marks ==
  ASSUME NEW q, DOMAIN q = Parts, NEW k, NEW r, r = Mark(q, k)
  PROVE  (Failed(r) <=> Failed(q)) /\ Core(r) = Core(q) /\ DOMAIN r = Parts
<1>1. Alike(q, r)
  BY DEF Mark, Alike, Parts
<1> QED BY <1>1, AlikeCores

LEMMA Delivers ==
  ASSUME NEW q, DOMAIN q = Parts, NEW k, NEW last, NEW r, r = Deliver(q, k, last)
  PROVE  (Failed(r) <=> Failed(q)) /\ Core(r) = Core(q) /\ DOMAIN r = Parts
<1>1. CASE k \notin DOMAIN q.marks
  <2>1. r = q
    BY <1>1 DEF Deliver
  <2> QED BY <2>1
<1>2. CASE k \in DOMAIN q.marks
  <2>1. PICK m, o : r = [q EXCEPT !.owed = o, !.marks = m]
    BY <1>2 DEF Deliver
  <2>2. Alike(q, r)
    BY <2>1 DEF Alike, Parts
  <2> QED BY <2>2, AlikeCores
<1> QED BY <1>1, <1>2

LEMMA Moves ==
  ASSUME NEW q, DOMAIN q = Parts, NEW s, NEW r, r = To(q, s)
  PROVE  /\ (Failed(r) <=> Failed(q)) /\ DOMAIN r = Parts /\ r.state = s
         /\ Onto(Core(q), Core(r), s, q.header_state, q.flags, q.content_length)
<1>1. DOMAIN r = Parts /\ r.state = s /\ But(q, r, {"state"}) /\ r.header_state = q.header_state
      /\ r.flags = q.flags /\ r.content_length = q.content_length
  BY DEF To, But, Parts
<1>2. {"state"} \in SUBSET Inside
  BY DEF Inside, Outside
<1> QED BY <1>1, <1>2, ButOnto

LEMMA FlagsOnto ==
  ASSUME NEW q, DOMAIN q = Parts, NEW f, NEW r, r = [q EXCEPT !.flags = f]
  PROVE  /\ (Failed(r) <=> Failed(q)) /\ DOMAIN r = Parts
         /\ Onto(Core(q), Core(r), q.state, q.header_state, f, q.content_length)
<1>1. DOMAIN r = Parts /\ r.flags = f /\ But(q, r, {"flags"}) /\ r.state = q.state
      /\ r.header_state = q.header_state /\ r.content_length = q.content_length
  BY DEF But, Parts
<1>2. {"flags"} \in SUBSET Inside
  BY DEF Inside, Outside
<1> QED BY <1>1, <1>2, ButOnto

LEMMA Lengths ==
  ASSUME NEW q, DOMAIN q = Parts, NEW n, NEW r, r = [q EXCEPT !.content_length = n]
  PROVE  /\ (Failed(r) <=> Failed(q)) /\ DOMAIN r = Parts
         /\ Onto(Core(q), Core(r), q.state, q.header_state, q.flags, n)
<1>1. DOMAIN r = Parts /\ r.content_length = n /\ But(q, r, {"content_length"})
      /\ r.state = q.state /\ r.header_state = q.header_state /\ r.flags = q.flags
  BY DEF But, Parts
<1>2. {"content_length"} \in SUBSET Inside
  BY DEF Inside, Outside
<1> QED BY <1>1, <1>2, ButOnto

\* A parser that reads on in a loop, with a state of headers.
Looped(q, n, hs) == [q EXCEPT !.run = n, !.header_state = hs]

LEMMA Loops ==
  ASSUME NEW q, DOMAIN q = Parts, NEW n, NEW hs, NEW r, r = Looped(q, n, hs)
  PROVE  /\ (Failed(r) <=> Failed(q)) /\ DOMAIN r = Parts
         /\ Onto(Core(q), Core(r), q.state, hs, q.flags, q.content_length)
<1>1. DOMAIN r = Parts /\ r.header_state = hs /\ But(q, r, {"run", "header_state"})
      /\ r.state = q.state /\ r.flags = q.flags /\ r.content_length = q.content_length
  BY DEF Looped, But, Parts
<1>2. {"run", "header_state"} \in SUBSET Inside
  BY DEF Inside, Outside
<1> QED BY <1>1, <1>2, ButOnto

Entered(q, s, hs) == [q EXCEPT !.state = s, !.header_state = hs]

LEMMA Enters ==
  ASSUME NEW q, DOMAIN q = Parts, NEW s, NEW hs, NEW r, r = Entered(q, s, hs)
  PROVE  /\ (Failed(r) <=> Failed(q)) /\ DOMAIN r = Parts /\ r.state = s
         /\ Onto(Core(q), Core(r), s, hs, q.flags, q.content_length)
<1>1. DOMAIN r = Parts /\ r.header_state = hs /\ r.state = s
      /\ But(q, r, {"state", "header_state"}) /\ r.flags = q.flags /\ r.content_length = q.content_length
  BY DEF Entered, But, Parts
<1>2. {"state", "header_state"} \in SUBSET Inside
  BY DEF Inside, Outside
<1> QED BY <1>1, <1>2, ButOnto

\* What is done twice.
LEMMA OntoOnto ==
  ASSUME NEW a, NEW b, NEW c, NEW s, NEW hs, NEW f, NEW n, NEW t, NEW ht, NEW e, NEW m,
         Onto(a, b, s, hs, f, n), Onto(b, c, t, ht, e, m)
  PROVE  Onto(a, c, t, ht, e, m)
BY DEF Onto

\* A message is over: the connection is read on, or not.
Over(d) == d.state = IF http_should_keep_alive(d) THEN start_state(d.type) ELSE "s_dead"

\* A header has been read to its end, with these flags.
Finish(c, f, d) ==
  /\ d.type = c.type /\ d.http_major = c.http_major /\ d.http_minor = c.http_minor
  /\ d.status_code = c.status_code /\ d.header_state = c.header_state
  /\ d.flags = f /\ d.content_length = c.content_length
  /\ \/ "F_TRAILING" \in f /\ Over(d)
     \/ "F_TRAILING" \notin f /\ d.upgrade /\ Over(d)
     \/ "F_TRAILING" \notin f /\ d.state = "s_chunk_size_start"
     \/ "F_TRAILING" \notin f /\ d.content_length = 0 /\ Over(d)
     \/ "F_TRAILING" \notin f /\ d.content_length \notin {0, ULLONG_MAX} /\ d.state = "s_body_identity"
     \/ "F_TRAILING" \notin f /\ d.content_length = ULLONG_MAX /\ d.state = "s_body_identity_eof"
     \/ /\ "F_TRAILING" \notin f /\ "F_CHUNKED" \notin f /\ d.content_length = ULLONG_MAX
        /\ ~http_message_needs_eof(d) /\ Over(d)

Same(c, d) == Onto(c, d, d.state, c.header_state, c.flags, c.content_length)

LEMMA KeepAliveCore ==
  ASSUME NEW q
  PROVE  /\ http_should_keep_alive(Core(q)) <=> http_should_keep_alive(q)
         /\ http_message_needs_eof(Core(q)) <=> http_message_needs_eof(q)
BY CoreIs DEF http_should_keep_alive, http_message_needs_eof

LEMMA KeepAliveSame ==
  ASSUME NEW c, NEW d, Same(c, d)
  PROVE  /\ http_should_keep_alive(c) <=> http_should_keep_alive(d)
         /\ http_message_needs_eof(c) <=> http_message_needs_eof(d)
BY DEF http_should_keep_alive, http_message_needs_eof, Same, Onto

LEMMA MovesSame ==
  ASSUME NEW q, DOMAIN q = Parts, NEW s, NEW r, r = To(q, s)
  PROVE  /\ (Failed(r) <=> Failed(q)) /\ DOMAIN r = Parts /\ r.state = s
         /\ Same(Core(q), Core(r)) /\ Core(r).state = s
<1>1. /\ (Failed(r) <=> Failed(q)) /\ DOMAIN r = Parts /\ r.state = s
      /\ Onto(Core(q), Core(r), s, q.header_state, q.flags, q.content_length)
  BY Moves
<1> QED BY <1>1, CoreIs DEF Same, Onto

\* A loop ends.
Stopping(q, s) == [q EXCEPT !.state = s, !.run = 0]

LEMMA Stops ==
  ASSUME NEW q, DOMAIN q = Parts, NEW s, NEW r, r = Stopping(q, s)
  PROVE  /\ (Failed(r) <=> Failed(q)) /\ DOMAIN r = Parts
         /\ Same(Core(q), Core(r)) /\ Core(r).state = s
<1>1. DOMAIN r = Parts /\ r.state = s /\ But(q, r, {"state", "run"})
  BY DEF Stopping, But, Parts
<1>2. /\ r.header_state = q.header_state /\ r.flags = q.flags
      /\ r.content_length = q.content_length
  BY <1>1, ButParts
<1>3. {"state", "run"} \in SUBSET Inside
  BY DEF Inside, Outside
<1>4. /\ (Failed(r) <=> Failed(q))
      /\ Onto(Core(q), Core(r), r.state, r.header_state, r.flags, r.content_length)
  BY <1>1, <1>3, ButOnto
<1> QED BY <1>1, <1>2, <1>4, CoreIs DEF Same

LEMMA MessageIsOver ==
  ASSUME NEW q, DOMAIN q = Parts, NEW r, r = NewMessage(q)
  PROVE  /\ (Failed(r) <=> Failed(q)) /\ DOMAIN r = Parts
         /\ Same(Core(q), Core(r)) /\ Over(Core(r))
<1>1. PICK s : s = IF http_should_keep_alive(q) THEN start_state(q.type) ELSE "s_dead"
  OBVIOUS
<1>2. r = To(q, s)
  BY <1>1 DEF NewMessage
<1>3. /\ (Failed(r) <=> Failed(q)) /\ DOMAIN r = Parts
      /\ Same(Core(q), Core(r)) /\ Core(r).state = s
  BY <1>2, MovesSame
<1>4. Core(r).type = q.type
  BY <1>3, CoreIs DEF Same, Onto
<1>5. http_should_keep_alive(Core(r)) <=> http_should_keep_alive(q)
  BY <1>3, KeepAliveCore, KeepAliveSame
<1> QED BY <1>1, <1>3, <1>4, <1>5 DEF Over

LEMMA Forgetting ==
  ASSUME NEW q, DOMAIN q = Parts, NEW r, r = [q EXCEPT !.nread = 0]
  PROVE  (Failed(r) <=> Failed(q)) /\ Core(r) = Core(q) /\ DOMAIN r = Parts
<1>1. Alike(q, r)
  BY DEF Alike, Parts
<1> QED BY <1>1, AlikeCores

\* What follows a header, with c its parser and its upgrade known.
Follows(c, d) ==
  /\ Same(c, d)
  /\ \/ d.upgrade /\ Over(d)
     \/ d.state = "s_chunk_size_start"
     \/ d.content_length = 0 /\ Over(d)
     \/ d.content_length \notin {0, ULLONG_MAX} /\ d.state = "s_body_identity"
     \/ d.content_length = ULLONG_MAX /\ d.state = "s_body_identity_eof"
     \/ /\ "F_CHUNKED" \notin d.flags /\ d.content_length = ULLONG_MAX
        /\ ~http_message_needs_eof(d) /\ Over(d)

LEMMA HeadersDoneTurns ==
  ASSUME NEW q, DOMAIN q = Parts, ~Failed(q), NEW r, r = HeadersDone(q)
  PROVE  Follows(Core(q), Core(r))
<1>1. PICK y : y = [q EXCEPT !.nread = 0]
  OBVIOUS
<1>2. (Failed(y) <=> Failed(q)) /\ Core(y) = Core(q) /\ DOMAIN y = Parts
  BY <1>1, Forgetting
<1>3. r = IF q.upgrade THEN NewMessage(y)
          ELSE IF Chunked(q) THEN To(y, "s_chunk_size_start")
          ELSE IF q.content_length = 0 THEN NewMessage(y)
          ELSE IF q.content_length # ULLONG_MAX THEN To(y, "s_body_identity")
          ELSE IF http_message_needs_eof(q) THEN To(y, "s_body_identity_eof")
          ELSE NewMessage(y)
  BY <1>1 DEF HeadersDone
<1>4. ASSUME r = NewMessage(y)
      PROVE  /\ Same(Core(q), Core(r)) /\ Over(Core(r))
             /\ http_message_needs_eof(q) <=> http_message_needs_eof(Core(r))
  <2>1. Same(Core(q), Core(r)) /\ Over(Core(r))
    BY <1>2, <1>4, MessageIsOver
  <2> QED BY <2>1, KeepAliveCore, KeepAliveSame
<1>5. ASSUME NEW s, r = To(y, s)
      PROVE  Same(Core(q), Core(r)) /\ Core(r).state = s
  BY <1>2, <1>5, MovesSame
<1>6. Same(Core(q), Core(r)) =>
        /\ Core(r).flags = q.flags /\ Core(r).content_length = q.content_length
        /\ Core(r).upgrade = q.upgrade
  BY CoreIs DEF Same, Onto
<1>7. CASE q.upgrade
  <2>1. r = NewMessage(y)
    BY <1>3, <1>7
  <2>2. Core(r).upgrade
    BY <1>4, <1>6, <1>7, <2>1
  <2> QED BY <1>4, <2>1, <2>2 DEF Follows
<1>8. CASE ~q.upgrade /\ Chunked(q)
  <2>1. r = To(y, "s_chunk_size_start")
    BY <1>3, <1>8
  <2> QED BY <1>5, <2>1 DEF Follows
<1>9. CASE ~q.upgrade /\ ~Chunked(q) /\ q.content_length = 0
  <2>1. r = NewMessage(y)
    BY <1>3, <1>9
  <2> QED BY <1>4, <1>6, <1>9, <2>1 DEF Follows
<1>10. CASE ~q.upgrade /\ ~Chunked(q) /\ q.content_length \notin {0, ULLONG_MAX}
  <2>1. r = To(y, "s_body_identity")
    BY <1>3, <1>10
  <2> QED BY <1>5, <1>6, <1>10, <2>1 DEF Follows
<1>11. CASE /\ ~q.upgrade /\ ~Chunked(q) /\ q.content_length # 0 /\ q.content_length = ULLONG_MAX
            /\ http_message_needs_eof(q)
  <2>1. r = To(y, "s_body_identity_eof")
    BY <1>3, <1>11
  <2> QED BY <1>5, <1>6, <1>11, <2>1 DEF Follows
<1>12. CASE /\ ~q.upgrade /\ ~Chunked(q) /\ q.content_length # 0 /\ q.content_length = ULLONG_MAX
            /\ ~http_message_needs_eof(q)
  <2>1. r = NewMessage(y)
    BY <1>3, <1>12
  <2> QED BY <1>4, <1>6, <1>12, <2>1 DEF Follows, Chunked
<1> QED BY <1>7, <1>8, <1>9, <1>10, <1>11, <1>12

Raised(q, s, u) == [q EXCEPT !.state = s, !.upgrade = u]

LEMMA Upgrades ==
  ASSUME NEW q, DOMAIN q = Parts, NEW s, NEW u, NEW r, r = Raised(q, s, u)
  PROVE  /\ (Failed(r) <=> Failed(q)) /\ DOMAIN r = Parts
         /\ r.type = q.type /\ r.http_major = q.http_major /\ r.http_minor = q.http_minor
         /\ r.status_code = q.status_code /\ r.header_state = q.header_state
         /\ r.flags = q.flags /\ r.content_length = q.content_length
<1>1. DOMAIN r = Parts /\ But(q, r, {"state", "upgrade"})
  BY DEF Raised, But, Parts
<1> QED BY <1>1, ButParts DEF Failed

LEMMA HeadersAlmostDoneTurns ==
  ASSUME NEW q, DOMAIN q = Parts, NEW ch, NEW r, r = HeadersAlmostDone(q, ch), ~Failed(r)
  PROVE  ~Failed(q) /\ Finish(Core(q), q.flags, Core(r))
<1>1. CASE Failed(q)
  <2>1. r = q
    BY Zenon, <1>1 DEF HeadersAlmostDone
  <2> QED BY <1>1, <2>1
<1>2. CASE ~Failed(q) /\ ch # "LF"
  <2>1. r = Fail(q, "HPE_STRICT")
    BY Zenon, <1>2 DEF HeadersAlmostDone
  <2> QED BY <2>1, FailIsFailed
<1>3. CASE ~Failed(q) /\ ch = "LF" /\ "F_TRAILING" \in q.flags
  <2>1. r = NewMessage(q)
    BY Zenon, <1>3 DEF HeadersAlmostDone
  <2>2. Same(Core(q), Core(r)) /\ Over(Core(r))
    BY <2>1, MessageIsOver
  <2> QED BY <1>3, <2>2, CoreIs DEF Finish, Same, Onto
<1>4. CASE ~Failed(q) /\ ch = "LF" /\ "F_TRAILING" \notin q.flags
  <2>1. PICK u : u = (\/ {"F_UPGRADE", "F_CONNECTION_UPGRADE"} \subseteq q.flags
                      \/ q.method = CONNECT)
    OBVIOUS
  <2>2. PICK y : y = Raised(q, "s_headers_done", u)
    OBVIOUS
  <2>3. PICK z : z = Count(y, 1)
    OBVIOUS
  <2>4. r = HeadersDone(z)
    BY Zenon, <1>4, <2>1, <2>2, <2>3 DEF HeadersAlmostDone, Raised
  <2>5. /\ (Failed(y) <=> Failed(q)) /\ DOMAIN y = Parts
        /\ y.type = q.type /\ y.http_major = q.http_major /\ y.http_minor = q.http_minor
        /\ y.status_code = q.status_code /\ y.header_state = q.header_state
        /\ y.flags = q.flags /\ y.content_length = q.content_length
    BY <2>2, Upgrades
  <2>6. ~Failed(z)
    <3> SUFFICES ASSUME Failed(z) PROVE FALSE
      OBVIOUS
    <3>1. r = z
      BY <2>4 DEF HeadersDone
    <3> QED BY <3>1
  <2>7. Core(z) = Core(y) /\ DOMAIN z = Parts
    BY <2>3, <2>5, <2>6, Counts
  <2>8. Follows(Core(y), Core(r))
    BY <2>4, <2>6, <2>7, HeadersDoneTurns
  <2>9. /\ Core(y).type = Core(q).type /\ Core(y).http_major = Core(q).http_major
        /\ Core(y).http_minor = Core(q).http_minor /\ Core(y).status_code = Core(q).status_code
        /\ Core(y).header_state = Core(q).header_state /\ Core(y).flags = q.flags
        /\ Core(y).content_length = Core(q).content_length
    BY <2>5, CoreIs
  <2>10. /\ Core(r).flags = q.flags /\ Core(r).type = Core(q).type
         /\ Core(r).http_major = Core(q).http_major /\ Core(r).http_minor = Core(q).http_minor
         /\ Core(r).status_code = Core(q).status_code
         /\ Core(r).header_state = Core(q).header_state
         /\ Core(r).content_length = Core(q).content_length
    BY <2>8, <2>9 DEF Follows, Same, Onto
  <2> QED BY <1>4, <2>8, <2>10 DEF Follows, Finish
<1> QED BY <1>1, <1>2, <1>3, <1>4

FieldStarts(c, ch, d) ==
  \/ d.state = "s_headers_almost_done" /\ Same(c, d)
  \/ Finish(c, c.flags, d)
  \/ /\ ch \notin NotTokens
     /\ Onto(c, d, "s_header_field", Follow(FirstNameArcs, "h_general", ch, "h_general"),
             c.flags, c.content_length)

LEMMA FieldStartTurns ==
  ASSUME NEW q, DOMAIN q = Parts, NEW ch, NEW r, r = HeaderFieldStart(q, ch), ~Failed(r)
  PROVE  ~Failed(q) /\ FieldStarts(Core(q), ch, Core(r))
<1>1. ~Failed(q)
  BY DEF HeaderFieldStart
<1>2. CASE ch = "CR"
  <2>1. r = To(q, "s_headers_almost_done")
    BY <1>1, <1>2 DEF HeaderFieldStart
  <2> QED BY <1>1, <2>1, MovesSame DEF FieldStarts
<1>3. CASE ch = "LF"
  <2>1. PICK y : y = To(q, "s_headers_almost_done")
    OBVIOUS
  <2>2. PICK z : z = Count(y, 1)
    OBVIOUS
  <2>3. r = HeadersAlmostDone(z, ch)
    BY <1>1, <1>3, <2>1, <2>2 DEF HeaderFieldStart
  <2>4. (Failed(y) <=> Failed(q)) /\ DOMAIN y = Parts /\ Same(Core(q), Core(y))
    BY <2>1, MovesSame
  <2>5. ~Failed(z)
    <3> SUFFICES ASSUME Failed(z) PROVE FALSE
      OBVIOUS
    <3>1. r = z
      BY Zenon, <2>3 DEF HeadersAlmostDone
    <3> QED BY <3>1
  <2>6. Core(z) = Core(y) /\ DOMAIN z = Parts
    BY <2>2, <2>4, <2>5, Counts
  <2>7. Finish(Core(z), z.flags, Core(r))
    BY <2>3, <2>6, HeadersAlmostDoneTurns
  <2>8. Finish(Core(y), Core(y).flags, Core(r))
    BY <2>6, <2>7, CoreIs
  <2>9. Finish(Core(q), Core(q).flags, Core(r))
    BY <2>4, <2>8 DEF Finish, Same, Onto
  <2> QED BY <1>1, <2>9 DEF FieldStarts
<1>4. CASE ch \notin Ends /\ ch \in NotTokens
  <2>1. r = Fail(q, "HPE_INVALID_HEADER_TOKEN")
    BY <1>1, <1>4 DEF HeaderFieldStart, Ends
  <2> QED BY <2>1, FailIsFailed
<1>5. CASE ch \notin Ends /\ ch \notin NotTokens
  <2>1. PICK y : y = Mark(q, "field")
    OBVIOUS
  <2>2. PICK hs : hs = Follow(FirstNameArcs, "h_general", ch, "h_general")
    OBVIOUS
  <2>3. r = Entered(y, "s_header_field", hs)
    BY <1>1, <1>5, <2>1, <2>2 DEF HeaderFieldStart, Ends, Entered
  <2>4. DOMAIN y = Parts /\ Core(y) = Core(q)
    BY <2>1, Marks
  <2>5. Onto(Core(y), Core(r), "s_header_field", hs, y.flags, y.content_length)
    BY <2>3, <2>4, Enters
  <2>6. Onto(Core(q), Core(r), "s_header_field", hs, Core(q).flags, Core(q).content_length)
    BY <2>4, <2>5, CoreIs
  <2> QED BY <1>1, <1>5, <2>2, <2>6 DEF FieldStarts
<1> QED BY <1>2, <1>3, <1>4, <1>5 DEF Ends

ValueBegins(c, ch, d) ==
  /\ Onto(c, d, "s_header_value", ValueStarts(c.header_state, ch),
          IF c.header_state = "h_upgrade" THEN c.flags \cup {"F_UPGRADE"} ELSE c.flags,
          IF c.header_state = "h_content_length" THEN Val[ch] ELSE c.content_length)
  /\ c.header_state = "h_content_length" => ch \in Digits

LEMMA ValueStartTurns ==
  ASSUME NEW q, DOMAIN q = Parts, NEW ch, NEW r, r = HeaderValueStart(q, ch), ~Failed(r)
  PROVE  ~Failed(q) /\ ValueBegins(Core(q), ch, Core(r))
<1>1. ~Failed(q)
  BY DEF HeaderValueStart
<1>2. PICK y : y = Mark(q, "value")
  OBVIOUS
<1>3. PICK hs : hs = ValueStarts(q.header_state, ch)
  OBVIOUS
<1>4. PICK z : z = Entered(y, "s_header_value", hs)
  OBVIOUS
<1>5. DOMAIN y = Parts /\ Core(y) = Core(q)
  BY <1>2, Marks
<1>6. /\ DOMAIN z = Parts
      /\ Onto(Core(y), Core(z), "s_header_value", hs, y.flags, y.content_length)
  BY <1>4, <1>5, Enters
<1>7. Onto(Core(q), Core(z), "s_header_value", hs, q.flags, q.content_length)
  BY <1>5, <1>6, CoreIs
<1>8. /\ z.state = "s_header_value" /\ z.header_state = hs /\ z.flags = q.flags
      /\ z.content_length = q.content_length
  BY <1>7, CoreIs DEF Onto
<1>9. z = [Mark(q, "value") EXCEPT !.state = "s_header_value",
                                   !.header_state = ValueStarts(q.header_state, ch)]
  BY <1>2, <1>3, <1>4 DEF Entered
<1>10. CASE q.header_state = "h_upgrade"
  <2>1. r = [z EXCEPT !.flags = @ \cup {"F_UPGRADE"}]
    BY Zenon, <1>1, <1>9, <1>10 DEF HeaderValueStart
  <2>2. PICK f : f = z.flags \cup {"F_UPGRADE"}
    OBVIOUS
  <2>3. r = [z EXCEPT !.flags = f]
    BY <2>1, <2>2
  <2>4. Onto(Core(z), Core(r), z.state, z.header_state, f, z.content_length)
    BY <1>6, <2>3, FlagsOnto
  <2>5. Onto(Core(q), Core(r), "s_header_value", hs, q.flags \cup {"F_UPGRADE"}, q.content_length)
    BY <1>7, <1>8, <2>2, <2>4, OntoOnto
  <2> QED BY <1>1, <1>3, <1>10, <2>5, CoreIs DEF ValueBegins
<1>11. CASE q.header_state = "h_content_length"
  <2>1. q.header_state # "h_upgrade"
    BY <1>11
  <2>2. r = IF ch \in Digits THEN [z EXCEPT !.content_length = Val[ch]]
            ELSE Fail(z, "HPE_INVALID_CONTENT_LENGTH")
    BY Zenon, <1>1, <1>9, <1>11, <2>1 DEF HeaderValueStart
  <2>3. ch \in Digits
    BY <2>2, FailIsFailed
  <2>4. r = [z EXCEPT !.content_length = Val[ch]]
    BY <2>2, <2>3
  <2>5. PICK v : v = Val[ch]
    OBVIOUS
  <2>6. r = [z EXCEPT !.content_length = v]
    BY <2>4, <2>5
  <2>7. Onto(Core(z), Core(r), z.state, z.header_state, z.flags, v)
    BY <1>6, <2>6, Lengths
  <2>8. Onto(Core(q), Core(r), "s_header_value", hs, q.flags, Val[ch])
    BY <1>7, <1>8, <2>5, <2>7, OntoOnto
  <2> QED BY <1>1, <1>3, <1>11, <2>1, <2>3, <2>8, CoreIs DEF ValueBegins
<1>12. CASE q.header_state # "h_content_length" /\ q.header_state # "h_upgrade"
  <2>1. r = z
    BY Zenon, <1>1, <1>9, <1>12 DEF HeaderValueStart
  <2> QED BY <1>1, <1>3, <1>7, <1>12, <2>1, CoreIs DEF ValueBegins
<1> QED BY <1>10, <1>11, <1>12

LEMMA FlagTurns ==
  ASSUME NEW q, DOMAIN q = Parts, NEW r, r = Flag(q)
  PROVE  /\ (Failed(r) <=> Failed(q)) /\ DOMAIN r = Parts
         /\ Onto(Core(q), Core(r), q.state, q.header_state, Flagged(Core(q)), q.content_length)
<1>1. PICK f : f = Flagged(q)
  OBVIOUS
<1>2. r = [q EXCEPT !.flags = f]
  BY <1>1 DEF Flag, Flagged
<1>3. f = Flagged(Core(q))
  BY <1>1, CoreIs DEF Flagged
<1> QED BY <1>2, <1>3, FlagsOnto

\* The flag of a state is set, and the next line begins.
Lined(c, b) ==
  Onto(c, b, "s_header_field_start", c.header_state, Flagged(c), c.content_length)

LEMMA FlagMoves ==
  ASSUME NEW q, DOMAIN q = Parts, NEW r, r = To(Flag(q), "s_header_field_start")
  PROVE  (Failed(r) <=> Failed(q)) /\ DOMAIN r = Parts /\ Lined(Core(q), Core(r))
<1>1. PICK y : y = Flag(q)
  OBVIOUS
<1>2. /\ (Failed(y) <=> Failed(q)) /\ DOMAIN y = Parts
      /\ Onto(Core(q), Core(y), q.state, q.header_state, Flagged(Core(q)), q.content_length)
  BY <1>1, FlagTurns
<1>3. r = To(y, "s_header_field_start")
  BY <1>1
<1>4. /\ (Failed(r) <=> Failed(y)) /\ DOMAIN r = Parts
      /\ Same(Core(y), Core(r)) /\ Core(r).state = "s_header_field_start"
  BY <1>2, <1>3, MovesSame
<1>5. Core(q).header_state = q.header_state /\ Core(q).content_length = q.content_length
  BY CoreIs
<1> QED BY <1>2, <1>4, <1>5 DEF Same, Onto, Lined

FieldGoes(c, ch, d) ==
  \/ Onto(c, d, c.state, Follow(NameArcs, c.header_state, ch, "h_general"), c.flags,
          c.content_length)
  \/ d.state = "s_header_value_discard_ws" /\ Same(c, d)

LEMMA FieldTurns ==
  ASSUME NEW q, DOMAIN q = Parts, NEW ch, NEW r, r = HeaderField(q, ch), ~Failed(r)
  PROVE  FieldGoes(Core(q), ch, Core(r))
<1>1. CASE ch \notin NotTokens
  <2>1. PICK n, hs : n = q.run + 1 /\ hs = Follow(NameArcs, q.header_state, ch, "h_general")
    OBVIOUS
  <2>2. r = Looped(q, n, hs)
    BY <1>1, <2>1 DEF HeaderField, Looped
  <2>3. Onto(Core(q), Core(r), q.state, hs, q.flags, q.content_length)
    BY <2>2, Loops
  <2> QED BY <2>1, <2>3, CoreIs DEF FieldGoes
<1>2. CASE ch \in NotTokens
  <2>1. PICK y : y = Count(q, q.run)
    OBVIOUS
  <2>2. r = IF Failed(y) THEN y
            ELSE IF ch # ":" THEN Fail(y, "HPE_INVALID_HEADER_TOKEN")
            ELSE Deliver(Stopping(y, "s_header_value_discard_ws"), "field", 0)
    BY <1>2, <2>1 DEF HeaderField, Stopping
  <2>3. ~Failed(y) /\ ch = ":"
    BY <2>2, FailIsFailed
  <2>4. PICK z : z = Stopping(y, "s_header_value_discard_ws")
    OBVIOUS
  <2>5. r = Deliver(z, "field", 0)
    BY <2>2, <2>3, <2>4
  <2>6. Core(y) = Core(q) /\ DOMAIN y = Parts
    BY <2>1, <2>3, Counts
  <2>7. DOMAIN z = Parts /\ Same(Core(y), Core(z)) /\ Core(z).state = "s_header_value_discard_ws"
    BY <2>4, <2>6, Stops
  <2>8. Core(r) = Core(z)
    BY <2>5, <2>7, Delivers
  <2> QED BY <2>6, <2>7, <2>8 DEF FieldGoes
<1> QED BY <1>1, <1>2

LEMMA ValueEndTurns ==
  ASSUME NEW q, DOMAIN q = Parts, NEW ch, NEW r, r = HeaderValueEnds(q, ch), ~Failed(r)
  PROVE  Moved(Core(q), Core(r), ValueEnds)
<1>1. PICK z : z = Stopping(q, "s_header_almost_done")
  OBVIOUS
<1>2. z = [q EXCEPT !.state = "s_header_almost_done", !.run = 0]
  BY <1>1 DEF Stopping
<1>3. DOMAIN z = Parts /\ Same(Core(q), Core(z)) /\ Core(z).state = "s_header_almost_done"
  BY <1>1, Stops
<1>4. CASE ch = "CR"
  <2>1. PICK y : y = Deliver(z, "value", 0)
    OBVIOUS
  <2>2. r = Count(y, q.run)
    BY <1>2, <1>4, <2>1 DEF HeaderValueEnds
  <2>3. Core(y) = Core(z) /\ DOMAIN y = Parts
    BY <1>3, <2>1, Delivers
  <2>4. Core(r) = Core(z)
    BY <2>2, <2>3, Counts
  <2> QED BY <1>3, <2>4 DEF Moved, ValueEnds, Same
<1>5. CASE ch # "CR"
  <2>1. PICK y : y = Count(z, q.run)
    OBVIOUS
  <2>2. PICK again : again = Deliver(y, "value", 0)
    OBVIOUS
  <2>3. PICK v : v = Count(again, q.run - 1)
    OBVIOUS
  <2>4. PICK w : w = Count(v, 1)
    OBVIOUS
  <2>5. r = HeaderAlmostDone(w, ch)
    BY <1>2, <1>5, <2>1, <2>2, <2>3, <2>4 DEF HeaderValueEnds
  <2>6. ~Failed(w) /\ r = To(w, "s_header_value_lws")
    BY <2>5, FailIsFailed DEF HeaderAlmostDone
  <2>7. ~Failed(again)
    BY <2>3, <2>4, <2>6 DEF Count
  <2>8. ~Failed(y)
    <3> SUFFICES ASSUME Failed(y) PROVE FALSE
      OBVIOUS
    <3>1. CASE "value" \notin DOMAIN y.marks
      BY <2>2, <2>7, <3>1 DEF Deliver
    <3>2. CASE DOMAIN y = Parts
      BY <2>2, <2>7, <3>2, Delivers
    <3>3. DOMAIN y = Parts
      <4>1. CASE y = z
        BY <1>3, <4>1
      <4>2. CASE y # z
        BY <1>3, <2>1, <4>2 DEF Count, Fail, http_parser_init, Parts
      <4> QED BY <4>1, <4>2
    <3> QED BY <3>2, <3>3
  <2>9. Core(y) = Core(z) /\ DOMAIN y = Parts
    BY <1>3, <2>1, <2>8, Counts
  <2>10. Core(again) = Core(z) /\ DOMAIN again = Parts
    BY <2>2, <2>9, Delivers
  <2>11. ~Failed(v)
    BY <2>4, <2>6 DEF Count
  <2>12. Core(v) = Core(z) /\ DOMAIN v = Parts
    BY <2>3, <2>10, <2>11, Counts
  <2>13. Core(w) = Core(z) /\ DOMAIN w = Parts
    BY <2>4, <2>6, <2>12, Counts
  <2>14. Same(Core(z), Core(r)) /\ Core(r).state = "s_header_value_lws"
    BY <2>6, <2>13, MovesSame
  <2> QED BY <1>3, <2>14 DEF Moved, ValueEnds, Same, Onto
<1> QED BY <1>4, <1>5

\* A value goes on.
ValueGoes(c, ch, d) ==
  \/ ch \in Ends /\ Moved(c, d, ValueEnds)
  \/ /\ ch \notin Ends /\ c.header_state = "h_content_length"
     /\ ch # "SP" => d.content_length < ULLONG_MAX
     /\ Onto(c, d, c.state, c.header_state, c.flags,
             IF ch = "SP" THEN c.content_length ELSE 10 * c.content_length + Val[ch])
     /\ ch \in Digits \cup {"SP"}
  \/ /\ ch \notin Ends /\ c.header_state # "h_content_length"
     /\ Onto(c, d, c.state, ValueGoesOn(c.header_state, ch),
             IF ch = Comma /\ c.header_state \in Matched THEN Flagged(c) ELSE c.flags,
             c.content_length)

LEMMA ValueTurns ==
  ASSUME NEW q, Shape(q), ~Failed(q), NEW ch, NEW r, r = HeaderValue(q, ch), ~Failed(r)
  PROVE  ValueGoes(Core(q), ch, Core(r))
<1>1. DOMAIN q = Parts /\ q.content_length \in 0 .. ULLONG_MAX
  BY DEF Shape
<1>2. CASE ch \in Ends
  <2>1. r = HeaderValueEnds(q, ch)
    BY Zenon, <1>2 DEF HeaderValue
  <2> QED BY <1>1, <1>2, <2>1, ValueEndTurns DEF ValueGoes
<1>3. CASE ch \notin Ends /\ q.header_state = "h_content_length"
  <2>1. r = ContentLengthDigit(q, ch)
    BY Zenon, <1>3 DEF HeaderValue
  <2>2. /\ ch \in Digits \cup {"SP"} /\ ~(ch # "SP" /\ (ULLONG_MAX - 10) \div 10 < q.content_length)
    BY <2>1, FailIsFailed DEF ContentLengthDigit
  <2>3. PICK v : v = IF ch = "SP" THEN q.content_length
                     ELSE (10 * q.content_length + Val[ch]) % (ULLONG_MAX + 1)
    OBVIOUS
  <2>4. PICK n : n = q.run + 1
    OBVIOUS
  <2>5. r = [q EXCEPT !.run = n, !.content_length = v]
    BY <2>1, <2>2, <2>3, <2>4 DEF ContentLengthDigit
  <2>6. /\ DOMAIN r = Parts /\ But(q, r, {"run", "content_length"}) /\ r.content_length = v
    BY ZenonT(30), <1>1, <2>5 DEF But, Parts
  <2>7. {"run", "content_length"} \in SUBSET Inside
    BY DEF Inside, Outside
  <2>8. Onto(Core(q), Core(r), r.state, r.header_state, r.flags, r.content_length)
    BY <2>6, <2>7, ButOnto
  <2>9. r.state = q.state /\ r.header_state = q.header_state /\ r.flags = q.flags
    BY <2>6, ButParts
  <2>10. /\ v = IF ch = "SP" THEN q.content_length ELSE 10 * q.content_length + Val[ch]
         /\ ch # "SP" => v < ULLONG_MAX
    <3>1. CASE ch = "SP"
      BY <1>3, <2>3, <3>1
    <3>2. CASE ch # "SP"
      <4>1. ch \in Digits
        BY <2>2, <3>2
      <4>2. Val[ch] \in 0 .. 3
        BY <4>1, Values
      <4>3. PICK m \in 0 .. ULLONG_MAX : m = q.content_length
        BY <1>1
      <4>4. PICK w \in 0 .. 3 : w = Val[ch]
        BY <4>2
      <4>5. ~((ULLONG_MAX - 10) \div 10 < m)
        BY <2>2, <3>2, <4>3
      <4>6. (10 * m + w) % (ULLONG_MAX + 1) = 10 * m + w /\ 10 * m + w \in 0 .. ULLONG_MAX - 1
        BY <4>5, LengthDigit
      <4>7. v = 10 * m + w
        BY <2>3, <3>2, <4>3, <4>4, <4>6
      <4>8. v < ULLONG_MAX
        BY <4>6, <4>7, HttpParserConstants
      <4> QED BY <3>2, <4>3, <4>4, <4>7, <4>8
    <3> QED BY <3>1, <3>2
  <2> QED BY <1>3, <2>2, <2>6, <2>8, <2>9, <2>10, CoreIs DEF ValueGoes
<1>4. CASE ch \notin Ends /\ q.header_state # "h_content_length"
  <2>1. PICK f : f = IF ch = Comma /\ q.header_state \in Matched THEN Flagged(Core(q)) ELSE q.flags
    OBVIOUS
  <2>2. PICK y : y = IF ch = Comma /\ q.header_state \in Matched THEN Flag(q) ELSE q
    OBVIOUS
  <2>3. /\ DOMAIN y = Parts
        /\ Onto(Core(q), Core(y), q.state, q.header_state, f, q.content_length)
    <3>1. CASE ch = Comma /\ q.header_state \in Matched
      BY <1>1, <2>1, <2>2, <3>1, FlagTurns
    <3>2. CASE ~(ch = Comma /\ q.header_state \in Matched)
      BY <1>1, <2>1, <2>2, <3>2, CoreIs DEF Onto
    <3> QED BY <3>1, <3>2
  <2>4. PICK hs, n : hs = ValueGoesOn(q.header_state, ch) /\ n = y.run + 1
    OBVIOUS
  <2>5. r = [y EXCEPT !.run = @ + 1, !.header_state = hs]
    BY Zenon, <1>4, <2>2, <2>4 DEF HeaderValue
  <2>6. r = Looped(y, n, hs)
    BY <2>4, <2>5 DEF Looped
  <2>7. Onto(Core(y), Core(r), y.state, hs, y.flags, y.content_length)
    BY <2>3, <2>6, Loops
  <2>8. y.state = q.state /\ y.flags = f /\ y.content_length = q.content_length
    BY <2>3, CoreIs DEF Onto
  <2>9. Onto(Core(q), Core(r), q.state, hs, f, q.content_length)
    BY <2>3, <2>7, <2>8, OntoOnto
  <2> QED BY <1>4, <2>1, <2>4, <2>9, CoreIs DEF ValueGoes
<1> QED BY <1>2, <1>3, <1>4

LEMMA HeaderEndTurns ==
  ASSUME NEW q, DOMAIN q = Parts, NEW ch, NEW r, r = HeaderAlmostDone(q, ch), ~Failed(r)
  PROVE  Moved(Core(q), Core(r), {"s_header_value_lws"})
<1>1. r = To(q, "s_header_value_lws")
  BY FailIsFailed DEF HeaderAlmostDone
<1> QED BY <1>1, MovesSame DEF Moved, Same

\* Where blanks before a value are read.
Blanked == {"s_header_value_discard_ws", "s_header_value_discard_ws_almost_done",
            "s_header_value_discard_lws"}

LEMMA DiscardWsTurns ==
  ASSUME NEW q, DOMAIN q = Parts, q.state = "s_header_value_discard_ws", NEW ch,
         NEW r, r = DiscardWs(q, ch), ~Failed(r)
  PROVE  \/ Moved(Core(q), Core(r), Blanked)
         \/ ch \notin Blanks \cup Ends /\ ValueBegins(Core(q), ch, Core(r))
<1>1. CASE ch \in Blanks
  <2>1. r = q
    BY <1>1 DEF DiscardWs
  <2> QED BY <2>1, CoreIs DEF Moved, Blanked, Onto
<1>2. CASE ch \notin Blanks /\ ch = "CR"
  <2>1. r = To(q, "s_header_value_discard_ws_almost_done")
    BY <1>2 DEF DiscardWs
  <2> QED BY <2>1, MovesSame DEF Moved, Same, Blanked
<1>3. CASE ch \notin Blanks /\ ch = "LF"
  <2>1. r = To(q, "s_header_value_discard_lws")
    BY <1>3 DEF DiscardWs
  <2> QED BY <2>1, MovesSame DEF Moved, Same, Blanked
<1>4. CASE ch \notin Blanks \cup Ends
  <2>1. r = HeaderValueStart(q, ch)
    BY <1>4 DEF DiscardWs, Ends
  <2> QED BY <1>4, <2>1, ValueStartTurns
<1> QED BY <1>1, <1>2, <1>3, <1>4 DEF Ends

LEMMA DiscardAlmostTurns ==
  ASSUME NEW q, DOMAIN q = Parts, NEW ch, NEW r, r = DiscardWsAlmostDone(q, ch), ~Failed(r)
  PROVE  Moved(Core(q), Core(r), Blanked)
<1>1. r = To(q, "s_header_value_discard_lws")
  BY FailIsFailed DEF DiscardWsAlmostDone
<1> QED BY <1>1, MovesSame DEF Moved, Same, Blanked

\* A line that ends a header begins another, or ends them all.
LineBegins(c, ch, d) == \E b : Lined(c, b) /\ FieldStarts(b, ch, d)

LEMMA DiscardLwsTurns ==
  ASSUME NEW q, DOMAIN q = Parts, NEW ch, NEW r, r = DiscardLws(q, ch), ~Failed(r)
  PROVE  \/ Moved(Core(q), Core(r), Blanked)
         \/ LineBegins(Core(q), ch, Core(r))
<1>1. CASE ch \in Blanks
  <2>1. r = To(q, "s_header_value_discard_ws")
    BY <1>1 DEF DiscardLws
  <2> QED BY <2>1, MovesSame DEF Moved, Same, Blanked
<1>2. CASE ch \notin Blanks
  <2>1. PICK y : y = To(Flag(q), "s_header_field_start")
    OBVIOUS
  <2>2. PICK empty : empty = Mark(y, "value")
    OBVIOUS
  <2>3. PICK z : z = Deliver(empty, "value", 0)
    OBVIOUS
  <2>4. PICK w : w = Count(z, 1)
    OBVIOUS
  <2>5. r = HeaderFieldStart(w, ch)
    BY <1>2, <2>1, <2>2, <2>3, <2>4 DEF DiscardLws
  <2>6. DOMAIN y = Parts /\ Lined(Core(q), Core(y))
    BY <2>1, FlagMoves
  <2>7. DOMAIN empty = Parts /\ Core(empty) = Core(y)
    BY <2>2, <2>6, Marks
  <2>8. DOMAIN z = Parts /\ Core(z) = Core(y)
    BY <2>3, <2>7, Delivers
  <2>9. ~Failed(w)
    <3> SUFFICES ASSUME Failed(w) PROVE FALSE
      OBVIOUS
    <3>1. r = w
      BY Zenon, <2>5 DEF HeaderFieldStart
    <3> QED BY <3>1
  <2>10. DOMAIN w = Parts /\ Core(w) = Core(y)
    BY <2>4, <2>8, <2>9, Counts
  <2>11. FieldStarts(Core(w), ch, Core(r))
    BY <2>5, <2>10, FieldStartTurns
  <2> QED BY <2>6, <2>10, <2>11 DEF LineBegins
<1> QED BY <1>1, <1>2

LEMMA ValueLwsTurns ==
  ASSUME NEW q, DOMAIN q = Parts, NEW ch, NEW r, r = HeaderValueLws(q, ch), ~Failed(r)
  PROVE  \/ ch \in Blanks /\ ValueBegins(Core(q), ch, Core(r))
         \/ LineBegins(Core(q), ch, Core(r))
<1>1. CASE ch \in Blanks
  <2>1. PICK y : y = To(q, "s_header_value_start")
    OBVIOUS
  <2>2. PICK w : w = Count(y, 1)
    OBVIOUS
  <2>3. r = HeaderValueStart(w, ch)
    BY <1>1, <2>1, <2>2 DEF HeaderValueLws
  <2>4. DOMAIN y = Parts /\ Same(Core(q), Core(y))
    BY <2>1, MovesSame
  <2>5. ~Failed(w)
    <3> SUFFICES ASSUME Failed(w) PROVE FALSE
      OBVIOUS
    <3>1. r = w
      BY Zenon, <2>3 DEF HeaderValueStart
    <3> QED BY <3>1
  <2>6. DOMAIN w = Parts /\ Core(w) = Core(y)
    BY <2>2, <2>4, <2>5, Counts
  <2>7. ValueBegins(Core(w), ch, Core(r))
    BY <2>3, <2>6, ValueStartTurns
  <2>8. ValueBegins(Core(q), ch, Core(r))
    BY <2>4, <2>6, <2>7 DEF ValueBegins, Same, Onto
  <2> QED BY <1>1, <2>8
<1>2. CASE ch \notin Blanks
  <2>1. PICK y : y = To(Flag(q), "s_header_field_start")
    OBVIOUS
  <2>2. PICK w : w = Count(y, 1)
    OBVIOUS
  <2>3. r = HeaderFieldStart(w, ch)
    BY <1>2, <2>1, <2>2 DEF HeaderValueLws
  <2>4. DOMAIN y = Parts /\ Lined(Core(q), Core(y))
    BY <2>1, FlagMoves
  <2>5. ~Failed(w)
    <3> SUFFICES ASSUME Failed(w) PROVE FALSE
      OBVIOUS
    <3>1. r = w
      BY Zenon, <2>3 DEF HeaderFieldStart
    <3> QED BY <3>1
  <2>6. DOMAIN w = Parts /\ Core(w) = Core(y)
    BY <2>2, <2>4, <2>5, Counts
  <2>7. FieldStarts(Core(w), ch, Core(r))
    BY <2>3, <2>6, FieldStartTurns
  <2> QED BY <2>4, <2>6, <2>7 DEF LineBegins
<1> QED BY <1>1, <1>2

\* The lines before the headers, with the method and the URL of a request.
Leads == {"s_req_method"} \cup UrlStates \cup LineStates

\* A message begins, or another symbol before it is read.
StartsAnew(c, d) ==
  /\ d.state \in {c.state, "s_res_H", "s_req_method"}
  /\ \/ Same(c, d) /\ d.state = c.state
     \/ Onto(c, d, d.state, c.header_state, {}, ULLONG_MAX)

LEMMA StartResTurns ==
  ASSUME NEW q, DOMAIN q = Parts, NEW ch, NEW r, r = StartRes(q, ch), ~Failed(r)
  PROVE  StartsAnew(Core(q), Core(r))
<1>1. PICK y : y = Reset(q)
  OBVIOUS
<1>2. y = [q EXCEPT !.flags = {}, !.content_length = ULLONG_MAX]
  BY <1>1 DEF Reset
<1>3. /\ DOMAIN y = Parts /\ But(q, y, {"flags", "content_length"})
      /\ y.flags = {} /\ y.content_length = ULLONG_MAX
  BY ZenonT(30), <1>2 DEF But, Parts
<1>4. {"flags", "content_length"} \in SUBSET Inside
  BY DEF Inside, Outside
<1>5. y.state = q.state /\ y.header_state = q.header_state
  BY <1>3, ButParts
<1>6. Onto(Core(q), Core(y), q.state, q.header_state, {}, ULLONG_MAX)
  BY <1>3, <1>4, <1>5, ButOnto
<1>7. CASE ch = "H"
  <2>1. r = To(y, "s_res_H")
    BY <1>1, <1>7 DEF StartRes
  <2>2. Onto(Core(y), Core(r), "s_res_H", y.header_state, y.flags, y.content_length)
    BY <1>3, <2>1, Moves
  <2>3. Onto(Core(q), Core(r), "s_res_H", q.header_state, {}, ULLONG_MAX)
    BY <1>3, <1>5, <1>6, <2>2, OntoOnto
  <2> QED BY <2>3, CoreIs DEF StartsAnew, Onto
<1>8. CASE ch # "H"
  <2>1. r = y
    BY <1>1, <1>8, FailIsFailed DEF StartRes
  <2> QED BY <1>6, <2>1, CoreIs DEF StartsAnew, Onto
<1> QED BY <1>7, <1>8

LEMMA StartReqTurns ==
  ASSUME NEW q, DOMAIN q = Parts, NEW ch, NEW r, r = StartReq(q, ch), ~Failed(r)
  PROVE  StartsAnew(Core(q), Core(r))
<1>1. CASE r = q
  BY <1>1, CoreIs DEF StartsAnew, Same, Onto
<1>2. CASE r # q
  <2>1. PICK methods : methods = {m \in FirstMethods : m[1] = ch}
    OBVIOUS
  <2>2. PICK m : m = CHOOSE x \in methods : TRUE
    OBVIOUS
  <2>3. r = [Reset(q) EXCEPT !.method = m, !.index = 1, !.state = "s_req_method"]
    BY <1>2, <2>1, <2>2, FailIsFailed DEF StartReq
  <2>4. r = [[q EXCEPT !.flags = {}, !.content_length = ULLONG_MAX]
               EXCEPT !.method = m, !.index = 1, !.state = "s_req_method"]
    BY <2>3 DEF Reset
  <2> DEFINE S == {"flags", "content_length", "method", "index", "state"}
  <2>5. /\ DOMAIN r = Parts /\ But(q, r, S)
        /\ r.flags = {} /\ r.content_length = ULLONG_MAX /\ r.state = "s_req_method"
    BY ZenonT(30), <2>4 DEF But, Parts
  <2>6. S \in SUBSET Inside
    BY DEF Inside, Outside
  <2>7. r.header_state = q.header_state
    BY <2>5, ButParts
  <2> HIDE DEF S
  <2>8. Onto(Core(q), Core(r), "s_req_method", q.header_state, {}, ULLONG_MAX)
    BY <2>5, <2>6, <2>7, ButOnto
  <2> QED BY <2>8, CoreIs DEF StartsAnew, Onto
<1> QED BY <1>1, <1>2

\* The first line goes on, to its end: of the headers nothing is read yet.
Leading(c, d) ==
  /\ d.type = c.type /\ d.upgrade = c.upgrade /\ d.header_state = c.header_state
  /\ d.flags = c.flags /\ d.content_length = c.content_length
  /\ d.state \in Leads \cup {"s_header_field_start"}

Ahead == Outside \cup {"state", "http_major", "http_minor", "status_code"}

LEMMA ButLeading ==
  ASSUME NEW q, NEW r, NEW S \in SUBSET Ahead, But(q, r, S),
         r.state \in Leads \cup {"s_header_field_start"}
  PROVE  Leading(Core(q), Core(r))
<1>1. /\ r.type = q.type /\ r.upgrade = q.upgrade /\ r.header_state = q.header_state
      /\ r.flags = q.flags /\ r.content_length = q.content_length
  BY DEF But, Ahead, Outside, Parts
<1> QED BY <1>1, CoreIs DEF Leading

LEMMA SameLeading ==
  ASSUME NEW c, NEW d, Same(c, d), d.state \in Leads \cup {"s_header_field_start"}
  PROVE  Leading(c, d)
BY DEF Same, Onto, Leading

LEMMA LeadsAre ==
  /\ "s_req_method" \in Leads /\ UrlStates \subseteq Leads /\ LineStates \subseteq Leads
  /\ "s_req_spaces_before_url" \in UrlStates /\ "s_req_server_start" \in UrlStates
  /\ "s_req_http_start" \in LineStates /\ "s_req_line_almost_done" \in LineStates
BY UrlStatesAre, LineStatesAre DEF Leads

LEMMA MethodTurns ==
  ASSUME NEW q, DOMAIN q = Parts, q.state = "s_req_method", NEW ch, NEW r, r = ReqMethod(q, ch),
         ~Failed(r)
  PROVE  Leading(Core(q), Core(r))
<1>1. PICK y, n : n = q.index + 1 /\ y = [q EXCEPT !.index = n]
  OBVIOUS
<1>2. y = [q EXCEPT !.index = @ + 1]
  BY <1>1
<1>3. But(q, y, {"index"}) /\ DOMAIN y = Parts
  BY ZenonT(30), <1>1 DEF But, Parts
<1>4. {"index"} \in SUBSET Ahead /\ {"index"} \in SUBSET Outside
  BY DEF Ahead, Outside
<1>5. Core(y) = Core(q) /\ y.state = q.state
  BY <1>3, <1>4, ButAlike, ButParts, AlikeCores
<1>6. \/ r = To(y, "s_req_spaces_before_url")
      \/ r = y
      \/ \E m : r = [y EXCEPT !.method = m]
  BY <1>2, FailIsFailed DEF ReqMethod
<1>7. CASE r = To(y, "s_req_spaces_before_url")
  <2>1. Same(Core(y), Core(r)) /\ Core(r).state = "s_req_spaces_before_url"
    BY <1>3, <1>7, MovesSame
  <2> QED BY <1>5, <2>1, SameLeading, LeadsAre
<1>8. CASE r = y
  BY <1>3, <1>4, <1>5, <1>8, ButLeading, LeadsAre
<1>9. CASE \E m : r = [y EXCEPT !.method = m]
  <2>1. PICK m : r = [y EXCEPT !.method = m]
    BY <1>9
  <2>2. But(y, r, {"method"})
    BY ZenonT(30), <1>3, <2>1 DEF But, Parts
  <2>3. {"method"} \in SUBSET Ahead
    BY DEF Ahead, Outside
  <2>4. r.state = y.state
    BY <2>2, ButParts
  <2>5. Leading(Core(y), Core(r))
    BY <1>5, <2>2, <2>3, <2>4, ButLeading, LeadsAre
  <2> QED BY <1>5, <2>5
<1> QED BY <1>6, <1>7, <1>8, <1>9

LEMMA UrlTurns ==
  ASSUME NEW q, DOMAIN q = Parts, q.state \in UrlStates, NEW ch, NEW r, r = UrlChar(q, ch),
         ~Failed(r)
  PROVE  Leading(Core(q), Core(r))
<1>1. PICK s : s = parse_url_char(q.state, ch)
  OBVIOUS
<1>2. r = To(q, s) /\ s # "s_dead"
  BY <1>1, FailIsFailed DEF UrlChar
<1>3. s \in UrlStates
  BY <1>1, <1>2, UrlArc
<1>4. Same(Core(q), Core(r)) /\ Core(r).state = s
  BY <1>2, MovesSame
<1> QED BY <1>3, <1>4, SameLeading, LeadsAre

LEMMA SpacesTurns ==
  ASSUME NEW q, DOMAIN q = Parts, q.state = "s_req_spaces_before_url", NEW ch,
         NEW r, r = SpacesBeforeUrl(q, ch), ~Failed(r)
  PROVE  Leading(Core(q), Core(r))
<1>1. CASE ch = "SP"
  <2>1. r = q
    BY <1>1 DEF SpacesBeforeUrl
  <2> QED BY <2>1, CoreIs, LeadsAre DEF Leading
<1>2. CASE ch # "SP"
  <2>1. PICK y : y = IF q.method = CONNECT THEN To(q, "s_req_server_start") ELSE q
    OBVIOUS
  <2>2. PICK z : z = Mark(y, "url")
    OBVIOUS
  <2>3. r = UrlChar(z, ch)
    BY <1>2, <2>1, <2>2 DEF SpacesBeforeUrl
  <2>4. DOMAIN y = Parts /\ Same(Core(q), Core(y)) /\ Core(y).state \in UrlStates
    <3>1. CASE q.method = CONNECT
      <4>1. y = To(q, "s_req_server_start")
        BY <2>1, <3>1
      <4> QED BY <4>1, MovesSame, LeadsAre
    <3>2. CASE q.method # CONNECT
      <4>1. y = q
        BY <2>1, <3>2
      <4> QED BY <4>1, CoreIs, LeadsAre DEF Same, Onto
    <3> QED BY <3>1, <3>2
  <2>5. DOMAIN z = Parts /\ Core(z) = Core(y)
    BY <2>2, <2>4, Marks
  <2>6. z.state \in UrlStates
    BY <2>4, <2>5, CoreIs
  <2>7. Leading(Core(z), Core(r))
    BY <2>3, <2>5, <2>6, UrlTurns
  <2> QED BY <2>4, <2>5, <2>7 DEF Leading, Same, Onto
<1> QED BY <1>1, <1>2

LEMMA UrlEndTurns ==
  ASSUME NEW q, DOMAIN q = Parts, q.state \in UrlStates, NEW ch, NEW r, r = ReqUrl(q, ch),
         ~Failed(r)
  PROVE  Leading(Core(q), Core(r))
<1>1. CASE q.state \in UrlMayEnd /\ ch = "SP"
  <2>1. PICK y : y = To(q, "s_req_http_start")
    OBVIOUS
  <2>2. "SP" \notin Ends
    BY DEF Ends
  <2>3. r = Deliver(y, "url", 0)
    BY Zenon, <1>1, <2>1, <2>2 DEF ReqUrl
  <2>4. DOMAIN y = Parts /\ Same(Core(q), Core(y)) /\ Core(y).state = "s_req_http_start"
    BY <2>1, MovesSame
  <2>5. Core(r) = Core(y)
    BY <2>3, <2>4, Delivers
  <2> QED BY <2>4, <2>5, SameLeading, LeadsAre
<1>2. CASE q.state \in UrlMayEnd /\ ch \in Ends
  <2>1. PICK s : s = IF ch = "CR" THEN "s_req_line_almost_done" ELSE "s_header_field_start"
    OBVIOUS
  <2>2. PICK y : y = [q EXCEPT !.http_major = 0, !.http_minor = 9, !.state = s]
    OBVIOUS
  <2>3. ch # "SP"
    BY <1>2 DEF Ends
  <2>4. r = Deliver(y, "url", 0)
    BY Zenon, <1>2, <2>1, <2>2, <2>3 DEF ReqUrl
  <2>5. DOMAIN y = Parts /\ But(q, y, {"http_major", "http_minor", "state"}) /\ y.state = s
    BY ZenonT(30), <2>2 DEF But, Parts
  <2>6. {"http_major", "http_minor", "state"} \in SUBSET Ahead
    BY DEF Ahead, Outside
  <2>7. Leading(Core(q), Core(y))
    BY <2>1, <2>5, <2>6, ButLeading, LeadsAre
  <2>8. Core(r) = Core(y)
    BY <2>4, <2>5, Delivers
  <2> QED BY <2>7, <2>8
<1>3. CASE ~(q.state \in UrlMayEnd /\ ch = "SP") /\ ~(q.state \in UrlMayEnd /\ ch \in Ends)
  <2>1. r = UrlChar(q, ch)
    BY Zenon, <1>3 DEF ReqUrl
  <2> QED BY <2>1, UrlTurns
<1> QED BY <1>1, <1>2, <1>3

LEMMA VersionTurns ==
  ASSUME NEW q, DOMAIN q = Parts, NEW ch, NEW r, r = Version(q, ch)
  PROVE  But(q, r, {"http_major", "http_minor"}) /\ (Failed(r) <=> Failed(q))
<1>1. r = q \/ (\E n : r = [q EXCEPT !.http_major = n]) \/ (\E n : r = [q EXCEPT !.http_minor = n])
  BY DEF Version
<1>2. CASE r = q
  BY <1>2 DEF But
<1>3. CASE \E n : r = [q EXCEPT !.http_major = n]
  <2>1. PICK n : r = [q EXCEPT !.http_major = n]
    BY <1>3
  <2> QED BY <2>1 DEF But, Parts, Failed
<1>4. CASE \E n : r = [q EXCEPT !.http_minor = n]
  <2>1. PICK n : r = [q EXCEPT !.http_minor = n]
    BY <1>4
  <2> QED BY <2>1 DEF But, Parts, Failed
<1> QED BY <1>1, <1>2, <1>3, <1>4

LEMMA StatusTurns ==
  ASSUME NEW q, DOMAIN q = Parts, NEW ch, NEW r, r = StatusCode(q, ch)
  PROVE  But(q, r, {"status_code"})
<1>1. r = q \/ (\E n : r = [q EXCEPT !.status_code = n])
  BY DEF StatusCode
<1>2. CASE r = q
  BY <1>2 DEF But
<1>3. CASE \E n : r = [q EXCEPT !.status_code = n]
  <2>1. PICK n : r = [q EXCEPT !.status_code = n]
    BY <1>3
  <2> QED BY <2>1 DEF But, Parts
<1> QED BY <1>1, <1>2, <1>3

LEMMA LineTurns ==
  ASSUME NEW q, DOMAIN q = Parts, q.state \in LineStates, NEW ch, NEW r, r = LineStep(q, ch),
         ~Failed(r)
  PROVE  Leading(Core(q), Core(r))
<1>1. PICK s : s = Follow(LineArcs, q.state, ch, "s_dead")
  OBVIOUS
<1>2. PICK v : v = Version(q, ch)
  OBVIOUS
<1>3. PICK w : w = StatusCode(v, ch)
  OBVIOUS
<1>4. PICK y : y = StatusText(w, s)
  OBVIOUS
<1>5. s # "s_dead" /\ r = To(y, s)
  BY <1>1, <1>2, <1>3, <1>4, FailIsFailed, LineErrors DEF LineStep
<1>6. s \in LineStates \cup {"s_header_field_start"}
  BY <1>1, <1>5, LineArc
<1>7. But(q, v, {"http_major", "http_minor"})
  BY <1>2, VersionTurns
<1>8. But(v, w, {"status_code"})
  BY <1>3, <1>7, StatusTurns DEF But
<1>9. DOMAIN y = Parts /\ Core(y) = Core(w)
  <2>1. y \in {w, Mark(w, "status"), Deliver(w, "status", 0)}
    BY <1>4 DEF StatusText
  <2>2. DOMAIN w = Parts
    BY <1>8 DEF But
  <2> QED BY <2>1, <2>2, Marks, Delivers
<1>10. /\ w.type = q.type /\ w.upgrade = q.upgrade /\ w.header_state = q.header_state
       /\ w.flags = q.flags /\ w.content_length = q.content_length
  BY <1>7, <1>8, ButParts
<1>11. Same(Core(y), Core(r)) /\ Core(r).state = s
  BY <1>5, <1>9, MovesSame
<1> QED BY <1>6, <1>9, <1>10, <1>11, CoreIs, LeadsAre DEF Leading, Same, Onto

\* A symbol of a chunk, or of a line around it.
Chunking(c, ch, d) ==
  \/ /\ c.state \in {"s_chunk_size_start", "s_chunk_size"} /\ ch \in Hex
     /\ d.content_length < ULLONG_MAX
     /\ Onto(c, d, "s_chunk_size", c.header_state, c.flags,
             IF c.state = "s_chunk_size_start" THEN Val[ch] ELSE 16 * c.content_length + Val[ch])
  \/ /\ c.state \in {"s_chunk_size", "s_chunk_parameters"}
     /\ Moved(c, d, {"s_chunk_parameters", "s_chunk_size_almost_done"})
  \/ /\ c.state = "s_chunk_size_almost_done" /\ c.content_length = 0
     /\ Onto(c, d, "s_header_field_start", c.header_state, c.flags \cup {"F_TRAILING"}, c.content_length)
  \/ /\ c.state = "s_chunk_size_almost_done" /\ c.content_length # 0
     /\ Moved(c, d, {"s_chunk_data"})
  \/ /\ c.state = "s_chunk_data"
     /\ Onto(c, d, IF c.content_length - 1 = 0 THEN "s_chunk_data_almost_done" ELSE c.state,
             c.header_state, c.flags, c.content_length - 1)
  \/ c.state = "s_chunk_data_almost_done" /\ Moved(c, d, {"s_chunk_data_done"})
  \/ c.state = "s_chunk_data_done" /\ Moved(c, d, {"s_chunk_size_start"})

LEMMA BodyMoves ==
  ASSUME NEW q, DOMAIN q = Parts, NEW y, y = Mark(q, "body"),
         NEW n, n = q.content_length - 1, NEW r, r = Measured(y, n)
  PROVE  /\ DOMAIN r = Parts /\ r.content_length = n /\ r.state = q.state
         /\ Onto(Core(q), Core(r), q.state, q.header_state, q.flags, n)
<1>1. DOMAIN y = Parts /\ Core(y) = Core(q)
  BY Marks
<1>2. DOMAIN r = Parts /\ Onto(Core(y), Core(r), y.state, y.header_state, y.flags, n)
  BY <1>1, Lengths DEF Measured
<1> QED BY <1>1, <1>2, CoreIs DEF Onto

LEMMA ChunkDataTurns ==
  ASSUME NEW q, DOMAIN q = Parts, q.state = "s_chunk_data", NEW ch, NEW r, r = ChunkData(q)
  PROVE  Chunking(Core(q), ch, Core(r))
<1>1. PICK y : y = Mark(q, "body")
  OBVIOUS
<1>2. PICK n : n = q.content_length - 1
  OBVIOUS
<1>3. PICK z : z = Measured(y, n)
  OBVIOUS
<1>4. y.content_length = q.content_length
  <2>1. Core(y) = Core(q)
    BY <1>1, Marks
  <2> QED BY <2>1, CoreIs
<1>5. z = [Mark(q, "body") EXCEPT !.content_length = @ - 1]
  BY <1>1, <1>2, <1>3, <1>4 DEF Measured
<1>6. r = IF z.content_length = 0 THEN To(z, "s_chunk_data_almost_done") ELSE z
  BY <1>5 DEF ChunkData
<1>7. /\ DOMAIN z = Parts /\ z.content_length = n /\ z.state = q.state
      /\ Onto(Core(q), Core(z), q.state, q.header_state, q.flags, n)
  BY <1>1, <1>2, <1>3, BodyMoves
<1>8. CASE n = 0
  <2>1. Same(Core(z), Core(r)) /\ Core(r).state = "s_chunk_data_almost_done"
    BY <1>6, <1>7, <1>8, MovesSame
  <2>2. Onto(Core(q), Core(r), "s_chunk_data_almost_done", q.header_state, q.flags, n)
    BY <1>7, <2>1 DEF Same, Onto
  <2> QED BY <1>2, <1>8, <2>2, CoreIs DEF Chunking
<1>9. CASE n # 0
  <2>1. r = z
    BY <1>6, <1>7, <1>9
  <2> QED BY <1>2, <1>7, <1>9, <2>1, CoreIs DEF Chunking
<1> QED BY <1>8, <1>9

LEMMA SizeAlmostDoneTurns ==
  ASSUME NEW q, DOMAIN q = Parts, q.state = "s_chunk_size_almost_done", NEW ch,
         NEW r, r = ChunkSizeAlmostDone(q)
  PROVE  Chunking(Core(q), ch, Core(r))
<1>1. CASE q.content_length = 0
  <2>1. PICK f : f = q.flags \cup {"F_TRAILING"}
    OBVIOUS
  <2>2. r = [q EXCEPT !.nread = 0, !.flags = f, !.state = "s_header_field_start"]
    BY <1>1, <2>1 DEF ChunkSizeAlmostDone
  <2>3. /\ DOMAIN r = Parts /\ But(q, r, {"nread", "flags", "state"}) /\ r.flags = f
        /\ r.state = "s_header_field_start"
    BY ZenonT(30), <2>2 DEF But, Parts
  <2>4. {"nread", "flags", "state"} \in SUBSET Inside
    BY DEF Inside, Outside
  <2>5. Onto(Core(q), Core(r), r.state, r.header_state, r.flags, r.content_length)
    BY <2>3, <2>4, ButOnto
  <2>6. r.header_state = q.header_state /\ r.content_length = q.content_length
    BY <2>3, ButParts
  <2> QED BY <1>1, <2>1, <2>3, <2>5, <2>6, CoreIs DEF Chunking
<1>2. CASE q.content_length # 0
  <2>1. r = [q EXCEPT !.nread = 0, !.state = "s_chunk_data"]
    BY <1>2 DEF ChunkSizeAlmostDone
  <2>2. /\ DOMAIN r = Parts /\ But(q, r, {"nread", "state"}) /\ r.state = "s_chunk_data"
    BY ZenonT(30), <2>1 DEF But, Parts
  <2>3. {"nread", "state"} \in SUBSET Inside
    BY DEF Inside, Outside
  <2>4. Onto(Core(q), Core(r), r.state, r.header_state, r.flags, r.content_length)
    BY <2>2, <2>3, ButOnto
  <2>5. r.header_state = q.header_state /\ r.content_length = q.content_length /\ r.flags = q.flags
    BY <2>2, ButParts
  <2> QED BY <1>2, <2>2, <2>4, <2>5, CoreIs DEF Chunking, Moved
<1> QED BY <1>1, <1>2

LEMMA SizeTurns ==
  ASSUME NEW q, Shape(q), q.state \in {"s_chunk_size_start", "s_chunk_size"}, NEW ch \in Hex,
         NEW y, y = ChunkSize(q, ch), ~Failed(y), NEW r, r = To(y, "s_chunk_size")
  PROVE  Chunking(Core(q), ch, Core(r))
<1>1. DOMAIN q = Parts /\ q.content_length \in 0 .. ULLONG_MAX
  BY DEF Shape
<1>2. PICK v \in 0 .. 12 : v = Val[ch]
  BY Values
<1>3. ULLONG_MAX \in Nat /\ ULLONG_MAX >= 32
  BY HttpParserConstants
<1>4. PICK n : /\ y = [q EXCEPT !.content_length = n] /\ n < ULLONG_MAX
               /\ n = IF q.state = "s_chunk_size_start" THEN v ELSE 16 * q.content_length + v
  <2>1. CASE q.state = "s_chunk_size_start"
    <3>1. y = [q EXCEPT !.content_length = v]
      BY Zenon, <1>2, <2>1 DEF ChunkSize
    <3>2. v < ULLONG_MAX
      BY <1>3
    <3> QED BY <2>1, <3>1, <3>2
  <2>2. CASE q.state = "s_chunk_size"
    <3>1. q.state # "s_chunk_size_start"
      BY <2>2
    <3>2. CASE (ULLONG_MAX - 16) \div 16 < q.content_length
      <4>1. y = Fail(q, "HPE_INVALID_CONTENT_LENGTH")
        BY Zenon, <2>2, <3>1, <3>2 DEF ChunkSize
      <4> QED BY <4>1, FailIsFailed
    <3>3. CASE ~((ULLONG_MAX - 16) \div 16 < q.content_length)
      <4>1. y = [q EXCEPT !.content_length = (16 * @ + Val[ch]) % (ULLONG_MAX + 1)]
        BY Zenon, <2>2, <3>1, <3>3 DEF ChunkSize
      <4>2. PICK m \in 0 .. ULLONG_MAX : m = q.content_length
        BY <1>1
      <4>3. (16 * m + v) % (ULLONG_MAX + 1) = 16 * m + v /\ 16 * m + v \in 0 .. ULLONG_MAX - 1
        BY <1>2, <3>3, <4>2, SizeDigit
      <4>4. PICK n : n = 16 * m + v
        OBVIOUS
      <4>5. y = [q EXCEPT !.content_length = n]
        BY <1>2, <4>1, <4>2, <4>3, <4>4
      <4>6. n < ULLONG_MAX
        BY <1>3, <4>3, <4>4
      <4> QED BY <3>1, <4>2, <4>4, <4>5, <4>6
    <3> QED BY <3>2, <3>3
  <2> QED BY <2>1, <2>2
<1>5. /\ DOMAIN y = Parts
      /\ Onto(Core(q), Core(y), q.state, q.header_state, q.flags, n)
  BY <1>1, <1>4, Lengths
<1>6. Same(Core(y), Core(r)) /\ Core(r).state = "s_chunk_size"
  BY <1>5, MovesSame
<1>7. Onto(Core(q), Core(r), "s_chunk_size", q.header_state, q.flags, n)
  BY <1>5, <1>6 DEF Same, Onto
<1>8. Core(r).content_length = n
  BY <1>7 DEF Onto
<1> QED BY <1>2, <1>4, <1>7, <1>8, CoreIs DEF Chunking

LEMMA ChunkTurns ==
  ASSUME NEW q, Shape(q), ~Failed(q), q.state \in ChunkStates, NEW ch,
         NEW r, r = ChunkStep(q, ch), ~Failed(r)
  PROVE  Chunking(Core(q), ch, Core(r))
<1>1. PICK s : s = Follow(ChunkArcs, q.state, ch, "s_dead")
  OBVIOUS
<1>2. DOMAIN q = Parts
  BY DEF Shape
<1>3. s # "s_dead" =>
         /\ s \in ChunkStates
         /\ s = "s_chunk_size" => ch \in Hex /\ q.state \in {"s_chunk_size_start", "s_chunk_size"}
         /\ q.state \in {"s_chunk_size_start"} => s = "s_chunk_size"
         /\ q.state = "s_chunk_size" =>
              s \in {"s_chunk_size", "s_chunk_size_almost_done", "s_chunk_parameters"}
         /\ q.state = "s_chunk_parameters" =>
              s \in {"s_chunk_size_almost_done", "s_chunk_parameters"}
         /\ q.state = "s_chunk_size_almost_done" => s = "s_chunk_data"
         /\ q.state = "s_chunk_data" => s = "s_chunk_data"
         /\ q.state = "s_chunk_data_almost_done" => s = "s_chunk_data_done"
         /\ q.state = "s_chunk_data_done" => s = "s_chunk_size_start"
  BY <1>1, ChunkArc
<1>4. CASE q.state = "s_chunk_data"
  <2>1. s \in {"s_dead", "s_chunk_data"}
    BY <1>3, <1>4
  <2>2. /\ s # "s_chunk_size" /\ q.state # "s_chunk_size_almost_done"
        /\ s # "s_chunk_data_done" /\ s # "s_chunk_size_start"
        /\ ~(s = "s_dead" /\ q.state # "s_chunk_data")
    BY <1>4, <2>1
  <2>3. r = ChunkData(q)
    BY Zenon, <1>1, <1>4, <2>2 DEF ChunkStep
  <2> QED BY <1>2, <1>4, <2>3, ChunkDataTurns
<1>5. CASE q.state # "s_chunk_data" /\ s = "s_dead"
  <2>1. /\ s # "s_chunk_size" /\ s # "s_chunk_data_done" /\ s # "s_chunk_size_start"
        /\ ~(q.state = "s_chunk_size_almost_done" /\ s # "s_dead")
    BY <1>5
  <2>2. r = Fail(q, IF q.state \in {"s_chunk_size_start", "s_chunk_size"}
                    THEN "HPE_INVALID_CHUNK_SIZE" ELSE "HPE_STRICT")
    BY Zenon, <1>1, <1>5, <2>1 DEF ChunkStep
  <2> QED BY <2>2, FailIsFailed
<1>6. CASE s = "s_chunk_size"
  <2>1. ch \in Hex /\ q.state \in {"s_chunk_size_start", "s_chunk_size"}
    BY <1>3, <1>6
  <2>2. /\ s # "s_dead" /\ q.state # "s_chunk_size_almost_done" /\ q.state # "s_chunk_data"
        /\ s # "s_chunk_data_done" /\ s # "s_chunk_size_start"
    BY <1>6, <2>1
  <2>3. PICK y : y = ChunkSize(q, ch)
    OBVIOUS
  <2>4. r = IF Failed(y) THEN y ELSE To(y, s)
    BY Zenon, <1>1, <1>6, <2>2, <2>3 DEF ChunkStep
  <2>5. ~Failed(y) /\ r = To(y, "s_chunk_size")
    BY <1>6, <2>4
  <2> QED BY <2>1, <2>3, <2>5, SizeTurns
<1>7. CASE q.state = "s_chunk_size_almost_done" /\ s # "s_dead"
  <2>1. /\ s # "s_chunk_size" /\ q.state # "s_chunk_data"
        /\ s # "s_chunk_data_done" /\ s # "s_chunk_size_start"
    BY <1>3, <1>7
  <2>2. r = ChunkSizeAlmostDone(q)
    BY Zenon, <1>1, <1>7, <2>1 DEF ChunkStep
  <2> QED BY <1>2, <1>7, <2>2, SizeAlmostDoneTurns
<1>8. CASE q.state = "s_chunk_data_almost_done" /\ s # "s_dead"
  <2>1. s = "s_chunk_data_done"
    BY <1>3, <1>8
  <2>2. /\ s # "s_chunk_size" /\ q.state # "s_chunk_data" /\ s # "s_chunk_size_start"
        /\ q.state # "s_chunk_size_almost_done"
    BY <1>8, <2>1
  <2>3. PICK y : y = To(q, s)
    OBVIOUS
  <2>4. r = Deliver(y, "body", 0)
    BY Zenon, <1>1, <1>8, <2>1, <2>2, <2>3 DEF ChunkStep
  <2>5. DOMAIN y = Parts /\ Same(Core(q), Core(y)) /\ Core(y).state = s
    BY <1>2, <2>3, MovesSame
  <2>6. Core(r) = Core(y)
    BY <2>4, <2>5, Delivers
  <2> QED BY <1>8, <2>1, <2>5, <2>6, CoreIs DEF Chunking, Moved, Same
<1>9. CASE q.state = "s_chunk_data_done" /\ s # "s_dead"
  <2>1. s = "s_chunk_size_start"
    BY <1>3, <1>9
  <2>2. /\ s # "s_chunk_size" /\ q.state # "s_chunk_data" /\ s # "s_chunk_data_done"
        /\ q.state # "s_chunk_size_almost_done"
    BY <1>9, <2>1
  <2>3. r = [q EXCEPT !.nread = 0, !.state = s]
    BY Zenon, <1>1, <1>9, <2>1, <2>2 DEF ChunkStep
  <2>4. DOMAIN r = Parts /\ But(q, r, {"nread", "state"}) /\ r.state = s
    BY ZenonT(30), <1>2, <2>3 DEF But, Parts
  <2>5. {"nread", "state"} \in SUBSET Inside
    BY DEF Inside, Outside
  <2>6. Onto(Core(q), Core(r), r.state, r.header_state, r.flags, r.content_length)
    BY <2>4, <2>5, ButOnto
  <2>7. r.header_state = q.header_state /\ r.content_length = q.content_length /\ r.flags = q.flags
    BY <2>4, ButParts
  <2> QED BY <1>9, <2>1, <2>4, <2>6, <2>7, CoreIs DEF Chunking, Moved
<1>10. CASE /\ q.state \in {"s_chunk_size", "s_chunk_parameters"}
            /\ s \in {"s_chunk_size_almost_done", "s_chunk_parameters"}
  <2>1. /\ s # "s_chunk_size" /\ q.state # "s_chunk_data" /\ s # "s_chunk_data_done"
        /\ q.state # "s_chunk_size_almost_done" /\ s # "s_dead" /\ s # "s_chunk_size_start"
    BY <1>10
  <2>2. r = To(q, s)
    BY Zenon, <1>1, <2>1 DEF ChunkStep
  <2>3. Same(Core(q), Core(r)) /\ Core(r).state = s
    BY <1>2, <2>2, MovesSame
  <2> QED BY <1>10, <2>3, CoreIs DEF Chunking, Moved, Same
<1> QED BY <1>3, <1>4, <1>5, <1>6, <1>7, <1>8, <1>9, <1>10, ChunkStatesAre

\* A body of a known length is read to its end, and the message with it.
BodyGoes(c, d) ==
  /\ Onto(c, d, d.state, c.header_state, c.flags, c.content_length - 1)
  /\ IF c.content_length - 1 = 0 THEN Over(d) ELSE d.state = c.state

LEMMA BodyTurns ==
  ASSUME NEW q, DOMAIN q = Parts, NEW r, r = BodyIdentity(q)
  PROVE  BodyGoes(Core(q), Core(r))
<1>1. PICK y : y = Mark(q, "body")
  OBVIOUS
<1>2. PICK n : n = q.content_length - 1
  OBVIOUS
<1>3. PICK z : z = Measured(y, n)
  OBVIOUS
<1>4. y.content_length = q.content_length
  <2>1. Core(y) = Core(q)
    BY <1>1, Marks
  <2> QED BY <2>1, CoreIs
<1>5. z = [Mark(q, "body") EXCEPT !.content_length = @ - 1]
  BY <1>1, <1>2, <1>3, <1>4 DEF Measured
<1>6. PICK w : w = To(z, "s_message_done")
  OBVIOUS
<1>7. PICK x : x = Deliver(w, "body", 1)
  OBVIOUS
<1>8. r = IF z.content_length = 0 THEN NewMessage(x) ELSE z
  BY <1>5, <1>6, <1>7 DEF BodyIdentity, MessageDone
<1>9. /\ DOMAIN z = Parts /\ z.content_length = n /\ z.state = q.state
      /\ Onto(Core(q), Core(z), q.state, q.header_state, q.flags, n)
  BY <1>1, <1>2, <1>3, BodyMoves
<1>10. CASE n = 0
  <2>1. DOMAIN w = Parts /\ Same(Core(z), Core(w))
    BY <1>6, <1>9, MovesSame
  <2>2. DOMAIN x = Parts /\ Core(x) = Core(w)
    BY <1>7, <2>1, Delivers
  <2>3. Same(Core(x), Core(r)) /\ Over(Core(r))
    BY <1>8, <1>9, <1>10, <2>2, MessageIsOver
  <2>4. Onto(Core(q), Core(r), Core(r).state, q.header_state, q.flags, n)
    BY <1>9, <2>1, <2>2, <2>3 DEF Same, Onto
  <2> QED BY <1>2, <1>10, <2>3, <2>4, CoreIs DEF BodyGoes
<1>11. CASE n # 0
  <2>1. r = z
    BY <1>8, <1>9, <1>11
  <2> QED BY <1>2, <1>9, <1>11, <2>1, CoreIs DEF BodyGoes
<1> QED BY <1>10, <1>11
\* What one symbol makes of a parser, seen from its headers and lengths.
Turn(c, ch, d) ==
  \/ c.state \in {"s_dead", "s_body_identity_eof"} /\ Moved(c, d, {c.state})
  \/ c.state \in Starts /\ StartsAnew(c, d)
  \/ c.state \in Leads /\ Leading(c, d)
  \/ c.state = "s_header_field_start" /\ FieldStarts(c, ch, d)
  \/ c.state = "s_header_field" /\ FieldGoes(c, ch, d)
  \/ c.state \in Blanked /\ Moved(c, d, Blanked)
  \/ c.state = "s_header_value_discard_ws" /\ ch \notin Blanks \cup Ends /\ ValueBegins(c, ch, d)
  \/ c.state = "s_header_value_lws" /\ ch \in Blanks /\ ValueBegins(c, ch, d)
  \/ c.state \in {"s_header_value_discard_lws", "s_header_value_lws"} /\ LineBegins(c, ch, d)
  \/ c.state = "s_header_value" /\ ValueGoes(c, ch, d)
  \/ c.state = "s_header_almost_done" /\ Moved(c, d, {"s_header_value_lws"})
  \/ c.state = "s_headers_almost_done" /\ Finish(c, c.flags, d)
  \/ c.state \in ChunkStates /\ Chunking(c, ch, d)
  \/ c.state = "s_body_identity" /\ BodyGoes(c, d)

LEMMA Handled ==
  ASSUME NEW q, Shape(q), ~Failed(q), q.state \in States, NEW ch, NEW r, r = Handle(q, ch),
         ~Failed(r)
  PROVE  Turn(Core(q), ch, Core(r))
<1>1. DOMAIN q = Parts /\ Core(q).state = q.state /\ Core(q).flags = q.flags
  BY CoreIs DEF Shape
<1> DEFINE Single == {"s_dead", "s_start_res", "s_start_req", "s_req_method",
                      "s_req_spaces_before_url", "s_header_field_start", "s_header_field",
                      "s_header_value_discard_ws", "s_header_value_discard_ws_almost_done",
                      "s_header_value_discard_lws", "s_header_value", "s_header_almost_done",
                      "s_header_value_lws", "s_headers_almost_done", "s_body_identity",
                      "s_body_identity_eof"}
<1>2. q.state \in Single \cup UrlOpen \cup LineStates \cup ChunkStates
  BY ChunkStatesAre
     DEF States, Starts, HeadStates, HeaderStates, BodyStates, UrlOpen
<1>3. /\ UrlOpen \cap Single = {} /\ LineStates \cap Single = {} /\ ChunkStates \cap Single = {}
      /\ UrlOpen \cap LineStates = {} /\ UrlOpen \cap ChunkStates = {}
      /\ LineStates \cap ChunkStates = {}
  BY UrlStatesAre, LineStatesAre, ChunkStatesAre DEF UrlOpen
<1>4. CASE q.state = "s_dead"
  <2>1. q.state \notin UrlOpen /\ q.state \notin LineStates /\ q.state \notin ChunkStates
    BY <1>3, <1>4
  <2>2. r = Dead(q, ch)
    BY Zenon, <1>4, <2>1 DEF Handle, UrlOpen
  <2>3. r = q
    BY <2>2, FailIsFailed DEF Dead
  <2> QED BY <1>1, <1>4, <2>3 DEF Turn, Moved, Onto
<1>5. CASE q.state = "s_start_res"
  <2>1. q.state \notin UrlOpen /\ q.state \notin LineStates /\ q.state \notin ChunkStates
    BY <1>3, <1>5
  <2>2. r = StartRes(q, ch)
    BY Zenon, <1>5, <2>1 DEF Handle, UrlOpen
  <2> QED BY <1>1, <1>5, <2>2, StartResTurns DEF Turn, Starts
<1>6. CASE q.state = "s_start_req"
  <2>1. q.state \notin UrlOpen /\ q.state \notin LineStates /\ q.state \notin ChunkStates
    BY <1>3, <1>6
  <2>2. r = StartReq(q, ch)
    BY Zenon, <1>6, <2>1 DEF Handle, UrlOpen
  <2> QED BY <1>1, <1>6, <2>2, StartReqTurns DEF Turn, Starts
<1>7. CASE q.state = "s_req_method"
  <2>1. q.state \notin UrlOpen /\ q.state \notin LineStates /\ q.state \notin ChunkStates
    BY <1>3, <1>7
  <2>2. r = ReqMethod(q, ch)
    BY Zenon, <1>7, <2>1 DEF Handle, UrlOpen
  <2> QED BY <1>1, <1>7, <2>2, MethodTurns, LeadsAre DEF Turn
<1>8. CASE q.state = "s_req_spaces_before_url"
  <2>1. q.state \notin UrlOpen /\ q.state \notin LineStates /\ q.state \notin ChunkStates
    BY <1>3, <1>8
  <2>2. r = SpacesBeforeUrl(q, ch)
    BY Zenon, <1>8, <2>1 DEF Handle, UrlOpen
  <2> QED BY <1>1, <1>8, <2>2, SpacesTurns, LeadsAre DEF Turn
<1>9. CASE q.state = "s_header_field_start"
  <2>1. q.state \notin UrlOpen /\ q.state \notin LineStates /\ q.state \notin ChunkStates
    BY <1>3, <1>9
  <2>2. r = HeaderFieldStart(q, ch)
    BY Zenon, <1>9, <2>1 DEF Handle, UrlOpen
  <2> QED BY <1>1, <1>9, <2>2, FieldStartTurns DEF Turn
<1>10. CASE q.state = "s_header_field"
  <2>1. q.state \notin UrlOpen /\ q.state \notin LineStates /\ q.state \notin ChunkStates
    BY <1>3, <1>10
  <2>2. r = HeaderField(q, ch)
    BY Zenon, <1>10, <2>1 DEF Handle, UrlOpen
  <2> QED BY <1>1, <1>10, <2>2, FieldTurns DEF Turn
<1>11. CASE q.state = "s_header_value_discard_ws"
  <2>1. q.state \notin UrlOpen /\ q.state \notin LineStates /\ q.state \notin ChunkStates
    BY <1>3, <1>11
  <2>2. r = DiscardWs(q, ch)
    BY Zenon, <1>11, <2>1 DEF Handle, UrlOpen
  <2> QED BY <1>1, <1>11, <2>2, DiscardWsTurns DEF Turn, Blanked
<1>12. CASE q.state = "s_header_value_discard_ws_almost_done"
  <2>1. q.state \notin UrlOpen /\ q.state \notin LineStates /\ q.state \notin ChunkStates
    BY <1>3, <1>12
  <2>2. r = DiscardWsAlmostDone(q, ch)
    BY Zenon, <1>12, <2>1 DEF Handle, UrlOpen
  <2> QED BY <1>1, <1>12, <2>2, DiscardAlmostTurns DEF Turn, Blanked
<1>13. CASE q.state = "s_header_value_discard_lws"
  <2>1. q.state \notin UrlOpen /\ q.state \notin LineStates /\ q.state \notin ChunkStates
    BY <1>3, <1>13
  <2>2. r = DiscardLws(q, ch)
    BY Zenon, <1>13, <2>1 DEF Handle, UrlOpen
  <2> QED BY <1>1, <1>13, <2>2, DiscardLwsTurns DEF Turn, Blanked
<1>14. CASE q.state = "s_header_value"
  <2>1. q.state \notin UrlOpen /\ q.state \notin LineStates /\ q.state \notin ChunkStates
    BY <1>3, <1>14
  <2>2. r = HeaderValue(q, ch)
    BY Zenon, <1>14, <2>1 DEF Handle, UrlOpen
  <2> QED BY <1>1, <1>14, <2>2, ValueTurns DEF Turn
<1>15. CASE q.state = "s_header_almost_done"
  <2>1. q.state \notin UrlOpen /\ q.state \notin LineStates /\ q.state \notin ChunkStates
    BY <1>3, <1>15
  <2>2. r = HeaderAlmostDone(q, ch)
    BY Zenon, <1>15, <2>1 DEF Handle, UrlOpen
  <2> QED BY <1>1, <1>15, <2>2, HeaderEndTurns DEF Turn
<1>16. CASE q.state = "s_header_value_lws"
  <2>1. q.state \notin UrlOpen /\ q.state \notin LineStates /\ q.state \notin ChunkStates
    BY <1>3, <1>16
  <2>2. r = HeaderValueLws(q, ch)
    BY Zenon, <1>16, <2>1 DEF Handle, UrlOpen
  <2> QED BY <1>1, <1>16, <2>2, ValueLwsTurns DEF Turn
<1>17. CASE q.state = "s_headers_almost_done"
  <2>1. q.state \notin UrlOpen /\ q.state \notin LineStates /\ q.state \notin ChunkStates
    BY <1>3, <1>17
  <2>2. r = HeadersAlmostDone(q, ch)
    BY Zenon, <1>17, <2>1 DEF Handle, UrlOpen
  <2> QED BY <1>1, <1>17, <2>2, HeadersAlmostDoneTurns DEF Turn
<1>18. CASE q.state = "s_body_identity"
  <2>1. q.state \notin UrlOpen /\ q.state \notin LineStates /\ q.state \notin ChunkStates
    BY <1>3, <1>18
  <2>2. r = BodyIdentity(q)
    BY Zenon, <1>18, <2>1 DEF Handle, UrlOpen
  <2> QED BY <1>1, <1>18, <2>2, BodyTurns DEF Turn
<1>19. CASE q.state = "s_body_identity_eof"
  <2>1. q.state \notin UrlOpen /\ q.state \notin LineStates /\ q.state \notin ChunkStates
    BY <1>3, <1>19
  <2>2. r = Mark(q, "body")
    BY Zenon, <1>19, <2>1 DEF Handle, UrlOpen
  <2>3. Core(r) = Core(q)
    BY <1>1, <2>2, Marks
  <2> QED BY <1>1, <1>19, <2>3 DEF Turn, Moved, Onto
<1>20. CASE q.state \in UrlOpen
  <2>1. /\ q.state \notin LineStates /\ q.state \notin ChunkStates
        /\ q.state # "s_dead" /\ q.state # "s_start_res"
        /\ q.state # "s_start_req" /\ q.state # "s_req_method"
        /\ q.state # "s_req_spaces_before_url" /\ q.state # "s_header_field_start"
        /\ q.state # "s_header_field" /\ q.state # "s_header_value_discard_ws"
        /\ q.state # "s_header_value_discard_ws_almost_done" /\ q.state # "s_header_value_discard_lws"
        /\ q.state # "s_header_value" /\ q.state # "s_header_almost_done"
        /\ q.state # "s_header_value_lws" /\ q.state # "s_headers_almost_done"
        /\ q.state # "s_body_identity" /\ q.state # "s_body_identity_eof"
    BY <1>3, <1>20
  <2>2. r = ReqUrl(q, ch)
    BY Zenon, <1>20, <2>1 DEF Handle, UrlOpen
  <2> QED BY <1>1, <1>20, <2>2, UrlEndTurns, LeadsAre DEF Turn, UrlOpen
<1>21. CASE q.state \in LineStates
  <2>1. /\ q.state \notin UrlOpen /\ q.state \notin ChunkStates
        /\ q.state # "s_dead" /\ q.state # "s_start_res"
        /\ q.state # "s_start_req" /\ q.state # "s_req_method"
        /\ q.state # "s_req_spaces_before_url" /\ q.state # "s_header_field_start"
        /\ q.state # "s_header_field" /\ q.state # "s_header_value_discard_ws"
        /\ q.state # "s_header_value_discard_ws_almost_done" /\ q.state # "s_header_value_discard_lws"
        /\ q.state # "s_header_value" /\ q.state # "s_header_almost_done"
        /\ q.state # "s_header_value_lws" /\ q.state # "s_headers_almost_done"
        /\ q.state # "s_body_identity" /\ q.state # "s_body_identity_eof"
    BY <1>3, <1>21
  <2>2. r = LineStep(q, ch)
    BY Zenon, <1>21, <2>1 DEF Handle, UrlOpen
  <2> QED BY <1>1, <1>21, <2>2, LineTurns, LeadsAre DEF Turn
<1>22. CASE q.state \in ChunkStates
  <2>1. /\ q.state \notin UrlOpen /\ q.state \notin LineStates
        /\ q.state # "s_dead" /\ q.state # "s_start_res"
        /\ q.state # "s_start_req" /\ q.state # "s_req_method"
        /\ q.state # "s_req_spaces_before_url" /\ q.state # "s_header_field_start"
        /\ q.state # "s_header_field" /\ q.state # "s_header_value_discard_ws"
        /\ q.state # "s_header_value_discard_ws_almost_done" /\ q.state # "s_header_value_discard_lws"
        /\ q.state # "s_header_value" /\ q.state # "s_header_almost_done"
        /\ q.state # "s_header_value_lws" /\ q.state # "s_headers_almost_done"
        /\ q.state # "s_body_identity" /\ q.state # "s_body_identity_eof"
    BY <1>3, <1>22
  <2>2. r = ChunkStep(q, ch)
    BY Zenon, <1>22, <2>1 DEF Handle, UrlOpen
  <2> QED BY <1>1, <1>22, <2>2, ChunkTurns DEF Turn
<1> QED BY <1>2, <1>4, <1>5, <1>6, <1>7, <1>8, <1>9, <1>10, <1>11, <1>12, <1>13, <1>14, <1>15, <1>16, <1>17, <1>18, <1>19, <1>20, <1>21, <1>22

\* The turn of the loop around a handler leaves the headers and the lengths alone.
LEMMA Turned ==
  ASSUME NEW q, Fit(q), NEW ch, NEW r, r = Feed(q, ch), ~Failed(r)
  PROVE  Turn(Core(q), ch, Core(r))
<1>1. DOMAIN q = Parts
  BY DEF Fit, Shape
<1>2. PICK c : c = IF PARSING_HEADER(q.state) /\ ~InLoop(q) THEN Count(q, 1) ELSE q
  OBVIOUS
<1>3. PICK h : h = Handle(c, ch)
  OBVIOUS
<1>4. PICK m, o : r = [h EXCEPT !.marks = m, !.owed = o]
  BY <1>2, <1>3 DEF Feed
<1>5. CASE Failed(c)
  <2>1. h = c
    BY <1>3, <1>5 DEF Handle
  <2>2. DOMAIN c = Parts
    BY <1>1, <1>2 DEF Count, Fail, http_parser_init, Parts
  <2>3. Failed(r)
    BY ZenonT(30), <1>4, <1>5, <2>1, <2>2 DEF Failed, Parts
  <2> QED BY <2>3
<1>6. CASE ~Failed(c)
  <2>1. Fit(c) /\ (PARSING_HEADER(c.state) /\ c.run = 0 => c.nread >= 1)
    BY <1>2, <1>6, CountedFirst
  <2>2. Good(c, h)
    BY <1>3, <2>1, Handling
  <2>3. DOMAIN h = Parts
    BY <2>2 DEF Good, Shape
  <2>4. But(h, r, {"marks", "owed"})
    BY ZenonT(30), <1>4, <2>3 DEF But, Parts
  <2>5. Core(r) = Core(h) /\ (Failed(r) <=> Failed(h))
    <3>1. {"marks", "owed"} \in SUBSET Outside
      BY DEF Outside
    <3> QED BY <2>4, <3>1, ButAlike, AlikeCores
  <2>6. Core(c) = Core(q)
    <3>1. c = q \/ c = Count(q, 1)
      BY <1>2
    <3> QED BY <1>1, <1>6, <3>1, Counts
  <2>7. Turn(Core(c), ch, Core(h))
    BY <1>3, <2>1, <2>5, Handled DEF Fit, Sane
  <2> QED BY <2>5, <2>6, <2>7
<1> QED BY <1>5, <1>6

-----------------------------------------------------------------------------
(* What is remembered of one symbol *)

\* A symbol of a value.
ReadsOn(c, h, ch, n) ==
  LET ended == IF ch = Comma /\ h.name \in Connection THEN Listed(h.name, h.el) ELSE {}
      asked == IF h.name = Upgrade THEN {Upgrade \o <<"x">>} ELSE {}
  IN  /\ n.el = IF ch = Comma /\ h.name \in Connection THEN <<>> ELSE Grow(h.el, ch)
      /\ n.listed = h.listed \cup ended \cup asked
      /\ n.plain = h.plain \cup (IF h.odd THEN {} ELSE ended) \cup asked
      /\ n.odd <=> \/ h.odd \/ ch = "HT" \/ c.state = "s_header_value_lws"
                   \/ ch = Comma /\ h.name \in Connection /\ Beginning(h.el)
                   \/ h.name \in Connection /\ h.el = <<>> /\ ch \in NotTokens \ Blanks
      /\ n.declared =
           IF h.name # Length \/ "F_TRAILING" \in c.flags \/ ch \notin Digits THEN h.declared
           ELSE IF c.state = "s_header_value" THEN 10 * h.declared + Val[ch] ELSE Val[ch]
      /\ c.state \notin {"s_body_identity", "s_chunk_data"} => n.taken = h.taken

\* A symbol of a chunk's size.
Sizes(c, h, ch, n) ==
  /\ n.taken = 0
  /\ n.declared = IF ch \notin Hex THEN h.declared
                  ELSE IF c.state = "s_chunk_size_start" THEN Val[ch] ELSE 16 * h.declared + Val[ch]

\* Any other symbol.
ReadsPast(c, h, n) ==
  /\ n.declared = h.declared
  /\ n.taken = IF c.state \in {"s_body_identity", "s_chunk_data"} THEN h.taken + 1 ELSE h.taken

\* What is listed when a header is over.
LastOf(c, h, d) ==
  IF c.state = "s_header_value_lws" /\ ~InLine(d.state) THEN Listed(h.name, h.el) ELSE {}

\* A symbol of no value, and the list it may end.
Lists(c, h, d, n) ==
  /\ n.el = IF InLine(d.state) THEN h.el ELSE <<>>
  /\ n.odd <=> InLine(d.state) /\ h.odd
  /\ n.listed = h.listed \cup LastOf(c, h, d)
  /\ n.plain = h.plain \cup (IF h.odd THEN {} ELSE LastOf(c, h, d))

NewName(c, h, ch, d) ==
  IF d.state = "s_header_field"
  THEN Extend(KnownNames, IF c.state = "s_header_field" THEN h.name ELSE <<>>, ch)
  ELSE IF InLine(d.state) THEN h.name ELSE <<>>

Afresh(n) ==
  /\ n.el = <<>> /\ n.listed = {} /\ n.plain = {} /\ n.declared = NoLength /\ n.taken = 0
  /\ ~n.done

Recalls(c, h, ch, d, n) ==
  /\ Begins(c, d) => Afresh(n)
  /\ ~Begins(c, d) =>
       /\ n.name = NewName(c, h, ch, d)
       /\ n.done <=> h.done \/ Completes(c, d)
       /\ CASE d.state = "s_header_value" -> ReadsOn(c, h, ch, n)
            [] d.state = "s_chunk_size" -> Sizes(c, h, ch, n)
            [] OTHER -> ReadsPast(c, h, n)
       /\ d.state # "s_header_value" => Lists(c, h, d, n)

LEMMA RecallsCore ==
  ASSUME NEW q, NEW r, NEW h, NEW ch, NEW n, Recalls(q, h, ch, r, n)
  PROVE  Recalls(Core(q), h, ch, Core(r), n)
BY CoreIs DEF Recalls, Begins, Completes, NewName, ReadsOn, Sizes, ReadsPast, Lists, LastOf

\* What After remembers, between lines.
Lines(h, size, name, el, odd, more, plain, taken) ==
  [h EXCEPT !.size = size, !.name = name, !.el = el, !.odd = odd, !.listed = @ \cup more,
            !.plain = @ \cup plain, !.taken = taken]

LEMMA LinesAre ==
  ASSUME NEW h, DOMAIN h = Remembered, NEW size, NEW name, NEW el, NEW odd, NEW more, NEW plain,
         NEW taken, NEW n, n = Lines(h, size, name, el, odd, more, plain, taken)
  PROVE  /\ DOMAIN n = Remembered /\ n.name = name /\ n.taken = taken
         /\ n.el = el /\ n.odd = odd /\ n.listed = h.listed \cup more
         /\ n.plain = h.plain \cup plain /\ n.declared = h.declared /\ n.done = h.done
BY DEF Lines, Remembered

LEMMA Recalling ==
  ASSUME NEW h, History(h), NEW q, NEW ch, NEW r, ~Failed(r), NEW n, n = After(h, q, ch, r)
  PROVE  Recalls(q, h, ch, r, n)
<1> DEFINE size == IF \/ ~PARSING_HEADER(r.state) \/ q.state = "s_chunk_size_almost_done"
                      \/ r.state \in Starts \cup {"s_dead", "s_chunk_size_start"}
                   THEN 0 ELSE h.size + 1
           base == IF Begins(q, r) THEN NoHistory ELSE h
           over == q.state = "s_header_value_lws" /\ ~InLine(r.state)
           last == IF over THEN Listed(h.name, h.el) ELSE {}
           counted == [base EXCEPT !.size = size]
           line == [counted EXCEPT
                      !.name = IF r.state = "s_header_field"
                               THEN Extend(KnownNames, IF q.state = "s_header_field" THEN @ ELSE <<>>, ch)
                               ELSE IF InLine(r.state) THEN @ ELSE <<>>,
                      !.el = IF InLine(r.state) THEN @ ELSE <<>>,
                      !.odd = InLine(r.state) /\ @,
                      !.listed = @ \cup last,
                      !.plain = @ \cup (IF h.odd THEN {} ELSE last),
                      !.taken = IF q.state \in {"s_body_identity", "s_chunk_data"} THEN @ + 1 ELSE @]
           read == CASE r.state = "s_header_value" -> ValueRead(line, q, ch)
                     [] r.state = "s_chunk_size" -> SizeRead(line, q, ch)
                     [] OTHER -> line
           name == IF r.state = "s_header_field"
                   THEN Extend(KnownNames, IF q.state = "s_header_field" THEN base.name ELSE <<>>, ch)
                   ELSE IF InLine(r.state) THEN base.name ELSE <<>>
           el == IF InLine(r.state) THEN base.el ELSE <<>>
           odd == InLine(r.state) /\ base.odd
           plain == IF h.odd THEN {} ELSE last
           taken == IF q.state \in {"s_body_identity", "s_chunk_data"} THEN base.taken + 1
                    ELSE base.taken
<1>1. n = [read EXCEPT !.done = @ \/ Completes(q, r)]
  BY DEF After
<1>2. last = LastOf(q, h, r)
  BY DEF LastOf
<1>3. (r.state = "s_header_value" => read = ValueRead(line, q, ch))
      /\ (r.state = "s_chunk_size" => read = SizeRead(line, q, ch))
      /\ (r.state \notin {"s_header_value", "s_chunk_size"} => read = line)
  <2> HIDE DEF line, last
  <2>1. CASE r.state = "s_header_value"
    <3>1. r.state # "s_chunk_size"
      BY <2>1
    <3>2. read = ValueRead(line, q, ch)
      BY Zenon, <2>1, <3>1
    <3> QED BY <2>1, <3>1, <3>2
  <2>2. CASE r.state = "s_chunk_size"
    <3>1. r.state # "s_header_value"
      BY <2>2
    <3>2. read = SizeRead(line, q, ch)
      BY Zenon, <2>2, <3>1
    <3> QED BY <2>2, <3>1, <3>2
  <2>3. CASE r.state # "s_header_value" /\ r.state # "s_chunk_size"
    <3>1. read = line
      BY Zenon, <2>3
    <3> QED BY <2>3, <3>1
  <2> QED BY <2>1, <2>2, <2>3
<1> HIDE DEF size, read, over, last
<1>4. DOMAIN base = Remembered
  BY DEF History, NoHistory, Remembered
<1> HIDE DEF base
<1>5. line = Lines(base, size, name, el, odd, last, plain, taken)
  BY <1>4 DEF Lines, Remembered
<1>6. /\ DOMAIN line = Remembered /\ line.name = name /\ line.taken = taken
      /\ line.el = el /\ line.odd = odd /\ line.listed = base.listed \cup last
      /\ line.plain = base.plain \cup plain
      /\ line.declared = base.declared /\ line.done = base.done
  <2> HIDE DEF line, name, el, odd, plain, taken, counted
  <2> QED BY <1>4, <1>5, LinesAre
<1> HIDE DEF line, counted, taken, el, odd, plain
<1>7. DOMAIN read = Remembered /\ read.done = line.done /\ read.name = line.name
  <2>1. read \in {ValueRead(line, q, ch), SizeRead(line, q, ch), line}
    BY <1>3
  <2>2. CASE read = ValueRead(line, q, ch)
    BY <1>6, <2>2 DEF ValueRead, Remembered
  <2>3. CASE read = SizeRead(line, q, ch)
    BY <1>6, <2>3 DEF SizeRead, Remembered
  <2>4. CASE read = line
    BY <1>6, <2>4
  <2> QED BY <2>1, <2>2, <2>3, <2>4
<1>8. /\ n.name = name /\ n.el = read.el /\ n.listed = read.listed /\ n.declared = read.declared
      /\ n.plain = read.plain /\ n.taken = read.taken /\ n.odd = read.odd
      /\ n.done = (base.done \/ Completes(q, r))
  <2> HIDE DEF name
  <2> QED BY <1>1, <1>6, <1>7 DEF Remembered
<1>9. taken = IF q.state \in {"s_body_identity", "s_chunk_data"} THEN base.taken + 1 ELSE base.taken
  BY DEF taken
<1>10. CASE Begins(q, r)
  <2>1. /\ r.state \notin {"s_header_value", "s_chunk_size"} /\ q.state # "s_header_value_lws"
        /\ q.state \notin {"s_body_identity", "s_chunk_data"} /\ ~Completes(q, r)
        /\ ~InLine(r.state)
    BY <1>10 DEF Begins, Completes, Starts, InLine
  <2>2. read = line
    BY <1>3, <2>1
  <2>3. /\ base.listed = {} /\ base.plain = {} /\ base.declared = NoLength /\ base.taken = 0
        /\ ~base.done
    BY <1>10 DEF base, NoHistory, NoLength
  <2>4. last = {} /\ plain = {} /\ el = <<>>
    BY <2>1 DEF last, over, plain, el
  <2>5. /\ n.el = <<>> /\ n.listed = {} /\ n.plain = {} /\ n.declared = NoLength
        /\ n.taken = 0
    BY <1>6, <1>8, <1>9, <2>1, <2>2, <2>3, <2>4
  <2>6. n.done = (base.done \/ Completes(q, r))
    BY <1>8
  <2>7. ~n.done
    BY Zenon, <2>1, <2>3, <2>6
  <2> QED BY <1>10, <2>5, <2>7 DEF Recalls, Afresh
<1>11. CASE ~Begins(q, r)
  <2>1. base = h
    BY <1>11 DEF base
  <2>2. name = NewName(q, h, ch, r)
    BY <2>1 DEF NewName
  <2>3. n.name = NewName(q, h, ch, r)
    BY <1>8, <2>2
  <2>4. n.done = (h.done \/ Completes(q, r))
    BY <1>8, <2>1
  <2>5. n.done <=> h.done \/ Completes(q, r)
    BY Zenon, <2>4
  <2> HIDE DEF name
  <2>6. /\ line.el = IF InLine(r.state) THEN h.el ELSE <<>>
        /\ line.listed = h.listed \cup LastOf(q, h, r)
        /\ line.plain = h.plain \cup (IF h.odd THEN {} ELSE LastOf(q, h, r))
        /\ line.declared = h.declared /\ line.taken = taken
    BY <1>2, <1>6, <2>1 DEF el, plain
  <2>7. line.odd = (InLine(r.state) /\ h.odd)
    BY <1>6, <2>1 DEF odd
  <2>8. CASE r.state = "s_header_value"
    <3>1. read = ValueRead(line, q, ch)
      BY <1>3, <2>8
    <3>2. line.name = h.name /\ InLine(r.state)
      BY <1>6, <2>2, <2>8 DEF NewName, InLine
    <3>3. PICK u \in BOOLEAN :
             u = (\/ ch = "HT" \/ q.state = "s_header_value_lws"
                  \/ (ch = Comma /\ h.name \in Connection /\ Beginning(h.el))
                  \/ (h.name \in Connection /\ h.el = <<>> /\ ch \in NotTokens \ Blanks))
      OBVIOUS
    <3>4. LastOf(q, h, r) = {}
      BY <3>2 DEF LastOf
    <3>5. line.el = h.el /\ line.listed = h.listed /\ line.plain = h.plain
      BY <2>6, <3>2, <3>4
    <3>6. line.odd <=> h.odd
      BY Zenon, <2>7, <3>2
    <3>7. PICK ended : ended = IF ch = Comma /\ h.name \in Connection THEN Listed(h.name, h.el) ELSE {}
      OBVIOUS
    <3>8. PICK asked : asked = IF h.name = Upgrade THEN {Upgrade \o <<"x">>} ELSE {}
      OBVIOUS
    <3>9. /\ read.el = IF ch = Comma /\ h.name \in Connection THEN <<>> ELSE Grow(h.el, ch)
          /\ read.listed = h.listed \cup ended \cup asked
          /\ read.plain = h.plain \cup (IF line.odd THEN {} ELSE ended) \cup asked
          /\ read.declared = IF h.name # Length \/ "F_TRAILING" \in q.flags \/ ch \notin Digits
                             THEN h.declared
                             ELSE IF q.state = "s_header_value" THEN 10 * h.declared + Val[ch]
                             ELSE Val[ch]
          /\ read.taken = line.taken
      BY <1>6, <2>6, <3>1, <3>2, <3>5, <3>7, <3>8 DEF ValueRead, Remembered
    <3>10. read.odd = (line.odd \/ u)
      BY <1>6, <3>1, <3>2, <3>3, <3>5 DEF ValueRead, Remembered
    <3>11. n.odd = (line.odd \/ u)
      BY <1>8, <3>10
    <3>12. n.odd <=> h.odd \/ u
      BY Zenon, <3>6, <3>11
    <3>13. (IF line.odd THEN {} ELSE ended) = (IF h.odd THEN {} ELSE ended)
      BY Zenon, <3>6
    <3>14. n.plain = h.plain \cup (IF h.odd THEN {} ELSE ended) \cup asked
      BY <1>8, <3>9, <3>13
    <3>15. ReadsOn(q, h, ch, n)
      BY <1>8, <1>9, <2>1, <2>6, <3>3, <3>7, <3>8, <3>9, <3>12, <3>14 DEF ReadsOn
    <3> QED BY Zenon, <1>11, <2>3, <2>5, <2>8, <3>15 DEF Recalls
  <2>9. CASE r.state # "s_header_value"
    <3>1. /\ read.el = line.el /\ read.listed = line.listed /\ read.plain = line.plain
          /\ read.odd = line.odd
      <4>1. CASE r.state = "s_chunk_size"
        BY <1>3, <1>6, <4>1 DEF SizeRead, Remembered
      <4>2. CASE r.state # "s_chunk_size"
        BY <1>3, <2>9, <4>2
      <4> QED BY <4>1, <4>2
    <3>2. n.odd <=> InLine(r.state) /\ h.odd
      <4>1. n.odd = (InLine(r.state) /\ h.odd)
        BY <1>8, <2>7, <3>1
      <4> QED BY Zenon, <4>1
    <3>3. Lists(q, h, r, n)
      BY <1>8, <2>6, <3>1, <3>2 DEF Lists
    <3>4. CASE r.state = "s_chunk_size"
      <4>1. read = SizeRead(line, q, ch)
        BY <1>3, <3>4
      <4>2. /\ read.taken = 0
            /\ read.declared = IF ch \notin Hex THEN line.declared
                               ELSE IF q.state = "s_chunk_size_start" THEN Val[ch]
                               ELSE 16 * line.declared + Val[ch]
        BY <1>6, <4>1 DEF SizeRead, Remembered
      <4>3. Sizes(q, h, ch, n)
        BY <1>8, <2>6, <4>2 DEF Sizes
      <4> QED BY Zenon, <1>11, <2>3, <2>5, <2>9, <3>3, <3>4, <4>3 DEF Recalls
    <3>5. CASE r.state # "s_chunk_size"
      <4>1. read = line
        BY <1>3, <2>9, <3>5
      <4>2. ReadsPast(q, h, n)
        BY <1>8, <1>9, <2>1, <2>6, <4>1 DEF ReadsPast
      <4> QED BY Zenon, <1>11, <2>3, <2>5, <2>9, <3>3, <3>5, <4>2 DEF Recalls
    <3> QED BY <3>4, <3>5
  <2> QED BY <2>8, <2>9
<1> QED BY <1>10, <1>11

-----------------------------------------------------------------------------
(* What is recorded of a message stays what was read of it *)

Fits(c) ==
  /\ c.state \in States /\ c.content_length \in 0 .. ULLONG_MAX
  /\ c.http_major \in Nat /\ c.http_minor \in Nat /\ c.status_code \in Nat

LEMMA NoLengthIs == NoLength \in Int /\ NoLength \notin Nat /\ NoLength = -1
<1>1. NoLength = -1
  BY DEF NoLength, NoHistory
<1> QED BY <1>1

\* The end of headers leads to a body, to chunks or out of the message.
LEMMA FinishStates ==
  ASSUME NEW c, NEW f, NEW d, Finish(c, f, d)
  PROVE  d.state \in Starts \cup {"s_dead", "s_chunk_size_start", "s_body_identity", "s_body_identity_eof"}
BY DEF Finish, Over, Starts, start_state

\* Where nothing of a header is held.
Elsewhere == Leads \cup Starts \cup ChunkStates \cup BodyStates
               \cup {"s_dead", "s_header_field_start", "s_headers_almost_done"}

LEMMA ElsewhereIs ==
  ASSUME NEW s \in Elsewhere
  PROVE  /\ s \notin FieldLines /\ s # "s_header_value" /\ s \notin ValueEnds
         /\ s # "s_header_field" /\ ~InLine(s) /\ s \notin Blanked
BY UrlStatesAre, LineStatesAre, ChunkStatesAre
   DEF Elsewhere, Leads, Starts, BodyStates, FieldLines, ValueEnds, InLine, Blanked

\* A symbol of no value.
LEMMA ListsHere ==
  ASSUME NEW c, NEW h, NEW ch, NEW d, NEW n, Recalls(c, h, ch, d, n), c.state \notin Starts,
         d.state # "s_header_value"
  PROVE  Lists(c, h, d, n)
BY DEF Recalls, Begins

\* Of an element something is held in a value only.
LEMMA NoElement ==
  ASSUME NEW c, NEW h, NEW ch, NEW d, NEW n, Recalls(c, h, ch, d, n),
         c.state \notin ValueEnds \cup {"s_header_value"} => h.el = <<>>,
         c.state \in ValueEnds \cup {"s_header_value"} => ~InLine(d.state),
         d.state # "s_header_value"
  PROVE  n.el = <<>>
<1>1. CASE Begins(c, d)
  BY <1>1 DEF Recalls, Afresh
<1>2. CASE ~Begins(c, d)
  BY <1>2 DEF Recalls, Lists
<1> QED BY <1>1, <1>2

LEMMA NamedElsewhere ==
  ASSUME NEW d, NEW n, d.state \in Elsewhere, n.el = <<>>
  PROVE  Named(d, n)
BY ElsewhereIs DEF Named

\* Between two symbols of a message.
LEMMA NotBegun ==
  ASSUME NEW c, NEW d, c.state \notin Starts
  PROVE  ~Begins(c, d)
BY DEF Begins

LEMMA NamedField ==
  ASSUME NEW c, NEW h, NEW ch, NEW d, NEW n, Recalls(c, h, ch, d, n),
         c.state \notin Starts, c.state # "s_header_field", n.el = <<>>,
         NEW b, FieldStarts(b, ch, d)
  PROVE  Named(d, n)
<1>1. CASE d.state = "s_headers_almost_done"
  BY <1>1, NamedElsewhere DEF Elsewhere
<1>2. CASE Finish(b, b.flags, d)
  <2>1. d.state \in Elsewhere
    BY <1>2, FinishStates, ChunkStatesAre DEF Elsewhere, Starts, BodyStates
  <2> QED BY <2>1, NamedElsewhere
<1>3. CASE Onto(b, d, "s_header_field", Follow(FirstNameArcs, "h_general", ch, "h_general"),
                b.flags, b.content_length)
  <2>1. d.state = "s_header_field" /\ d.header_state = Follow(FirstNameArcs, "h_general", ch, "h_general")
    BY <1>3 DEF Onto
  <2>2. n.name = Extend(KnownNames, <<>>, ch)
    <3>1. n.name = NewName(c, h, ch, d)
      BY NotBegun DEF Recalls
    <3> QED BY <2>1, <3>1 DEF NewName
  <2>3. d.header_state \in NameStates /\ n.name \in NamesOf[d.header_state]
    BY <2>1, <2>2, NameBegins
  <2> QED BY <2>1, <2>3 DEF Named, ValueEnds
<1> QED BY <1>1, <1>2, <1>3 DEF FieldStarts

\* A line of a header goes on, or its value begins: what is known of the name stays.
LEMMA SameName ==
  ASSUME NEW c, NEW h, NEW ch, NEW d, NEW n, Recalls(c, h, ch, d, n), c.state \notin Starts,
         InLine(d.state)
  PROVE  n.name = h.name
<1>1. n.name = NewName(c, h, ch, d)
  BY NotBegun DEF Recalls
<1>2. d.state # "s_header_field"
  BY DEF InLine
<1> QED BY <1>1, <1>2 DEF NewName

LEMMA ReadsOnHere ==
  ASSUME NEW c, NEW h, NEW ch, NEW d, NEW n, Recalls(c, h, ch, d, n), c.state \notin Starts,
         d.state = "s_header_value"
  PROVE  ReadsOn(c, h, ch, n) /\ n.name = h.name
<1>1. ~Begins(c, d)
  BY NotBegun
<1>2. ReadsOn(c, h, ch, n)
  BY Zenon, <1>1 DEF Recalls
<1>3. InLine(d.state)
  BY DEF InLine
<1> QED BY <1>2, <1>3, SameName

\* The state of a value, or of one that has ended, is one in which a value may be.
LEMMA LeftIs ==
  ASSUME NEW c, NEW h, Named(c, h), c.state \in ValueEnds
  PROVE  Left(h.name, c.header_state)
<1>1. Reading(h.name, c.header_state, h.el, h.odd)
  BY DEF Named
<1> QED BY <1>1, ReadingLists

LEMMA NamedValueBegins ==
  ASSUME NEW c, NEW h, Named(c, h), NEW ch, NEW d, NEW n, Recalls(c, h, ch, d, n),
         \/ c.state = "s_header_value_discard_ws" /\ ch \notin Blanks \cup Ends
         \/ c.state = "s_header_value_lws" /\ ch \in Blanks,
         ValueBegins(c, ch, d)
  PROVE  Named(d, n)
<1>1. c.state \notin Starts /\ c.state # "s_header_value"
  BY DEF Starts
<1>2. d.state = "s_header_value" /\ d.header_state = ValueStarts(c.header_state, ch)
  BY DEF ValueBegins, Onto
<1>3. ReadsOn(c, h, ch, n) /\ n.name = h.name
  BY <1>1, <1>2, ReadsOnHere
<1>5. n.el = IF ch = Comma /\ n.name \in Connection THEN <<>> ELSE Grow(h.el, ch)
  BY <1>3 DEF ReadsOn
<1>6. CASE c.state = "s_header_value_discard_ws" /\ ch \notin Blanks \cup Ends
  <2>1. c.header_state \in NameStates /\ n.name \in NamesOf[c.header_state] /\ h.el = <<>>
    BY <1>3, <1>6 DEF Named, FieldLines, ValueEnds
  <2>2. n.name \in Connection /\ ch \in NotTokens => n.odd
    BY <1>3, <1>6, <2>1 DEF ReadsOn
  <2>3. c.header_state = "h_content_length" => ch \in Digits
    BY DEF ValueBegins
  <2>4. ch \notin Blanks /\ n.el = IF ch = Comma /\ n.name \in Connection THEN <<>> ELSE Grow(<<>>, ch)
    BY <1>5, <1>6, <2>1
  <2>5. Reading(n.name, d.header_state, n.el, n.odd)
    BY <1>2, <2>1, <2>2, <2>3, <2>4, ReadingBegins
  <2> QED BY <1>2, <2>5 DEF Named, FieldLines, ValueEnds
<1>7. CASE c.state = "s_header_value_lws" /\ ch \in Blanks
  <2>1. Left(n.name, c.header_state) /\ Reading(n.name, c.header_state, h.el, h.odd)
    BY <1>3, <1>7, LeftIs DEF Named, ValueEnds
  <2>2. c.header_state # "h_content_length"
    BY <1>7 DEF ValueBegins, Blanks, Digits
  <2>3. n.odd
    BY <1>3, <1>7 DEF ReadsOn
  <2>4. n.el = Grow(h.el, ch)
    <3>1. ch # Comma
      BY <1>7 DEF Blanks, Comma
    <3> QED BY <1>5, <3>1
  <2>5. Reading(n.name, d.header_state, n.el, n.odd)
    BY <1>2, <1>7, <2>1, <2>2, <2>3, <2>4, ReadingAgain
  <2> QED BY <1>2, <2>5 DEF Named, FieldLines, ValueEnds
<1> QED BY <1>6, <1>7

\* A value ends, or the line it is in: what was read of it is not forgotten.
LEMMA NamedEnd ==
  ASSUME NEW c, NEW h, Named(c, h), NEW ch, NEW d, NEW n, Recalls(c, h, ch, d, n),
         c.state \in {"s_header_value", "s_header_almost_done"}, d.state \in ValueEnds,
         d.header_state = c.header_state
  PROVE  Named(d, n)
<1>1. /\ InLine(d.state) /\ d.state # "s_header_value" /\ d.state \notin FieldLines
      /\ c.state \notin Starts /\ c.state \in ValueEnds \cup {"s_header_value"}
  BY DEF ValueEnds, InLine, FieldLines, Starts
<1>2. n.name = h.name
  BY <1>1, SameName
<1>3. Lists(c, h, d, n)
  BY <1>1, ListsHere
<1>4. n.el = h.el /\ (n.odd <=> h.odd)
  BY <1>1, <1>3 DEF Lists
<1>5. Reading(h.name, c.header_state, h.el, h.odd)
  BY <1>1 DEF Named
<1>6. Reading(n.name, d.header_state, n.el, n.odd)
  BY <1>2, <1>4, <1>5 DEF Reading
<1> QED BY <1>1, <1>6 DEF Named

LEMMA NamedValue ==
  ASSUME NEW c, NEW h, Named(c, h), NEW ch, NEW d, NEW n, Recalls(c, h, ch, d, n),
         c.state = "s_header_value", ValueGoes(c, ch, d)
  PROVE  Named(d, n)
<1>1. c.state \notin Starts
  BY DEF Starts
<1>2. Reading(h.name, c.header_state, h.el, h.odd)
  BY DEF Named
<1>3. CASE ch \in Ends /\ Moved(c, d, ValueEnds)
  <2>1. d.state \in ValueEnds /\ d.header_state = c.header_state
    BY <1>3 DEF Moved, Onto
  <2> QED BY <2>1, NamedEnd
<1>4. CASE ch \notin Ends /\ c.header_state = "h_content_length" /\ d.header_state = c.header_state
           /\ d.state = c.state
  <2>1. n.name = h.name
    BY <1>1, <1>4, ReadsOnHere
  <2>2. h.name = Length
    BY <1>2, <1>4 DEF Reading, ElementsOf
  <2>3. Reading(n.name, d.header_state, n.el, n.odd)
    BY <1>4, <2>1, <2>2 DEF Reading
  <2> QED BY <1>4, <2>3 DEF Named, FieldLines, ValueEnds
<1>5. CASE /\ ch \notin Ends /\ c.header_state # "h_content_length"
           /\ d.state = c.state /\ d.header_state = ValueGoesOn(c.header_state, ch)
  <2>1. ReadsOn(c, h, ch, n) /\ n.name = h.name
    BY <1>1, <1>5, ReadsOnHere
  <2>2. /\ h.odd \/ ch = "HT" => n.odd
        /\ ch = Comma /\ h.name \in Connection /\ Beginning(h.el) => n.odd
        /\ h.name \in Connection /\ h.el = <<>> /\ ch \in NotTokens \ Blanks => n.odd
        /\ n.el = IF ch = Comma /\ h.name \in Connection THEN <<>> ELSE Grow(h.el, ch)
    BY <2>1 DEF ReadsOn
  <2>3. Reading(h.name, d.header_state, n.el, n.odd)
    BY ZenonT(30), <1>2, <1>5, <2>2, ReadingGoesOn
  <2> QED BY <1>5, <2>1, <2>3 DEF Named, FieldLines, ValueEnds
<1> QED BY <1>3, <1>4, <1>5 DEF ValueGoes, Onto

LEMMA NamedTurn ==
  ASSUME NEW c, NEW h, Named(c, h), NEW ch, NEW d, NEW n, Recalls(c, h, ch, d, n), Turn(c, ch, d)
  PROVE  Named(d, n)
<1>1. d.state # "s_header_value" /\ c.state \notin ValueEnds \cup {"s_header_value"} => n.el = <<>>
  BY NoElement DEF Named
<1>2. CASE d.state \in Elsewhere
  <2>1. d.state # "s_header_value" /\ ~InLine(d.state)
    BY <1>2, ElsewhereIs
  <2>2. n.el = <<>>
    BY <2>1, NoElement DEF Named
  <2> QED BY <1>2, <2>2, NamedElsewhere
<1>3. CASE c.state \in {"s_dead", "s_body_identity_eof"} /\ Moved(c, d, {c.state})
  BY <1>2, <1>3 DEF Moved, Elsewhere, BodyStates
<1>4. CASE c.state \in Starts /\ StartsAnew(c, d)
  BY <1>2, <1>4, LeadsAre, LineStatesAre DEF StartsAnew, Elsewhere, Leads
<1>5. CASE c.state \in Leads /\ Leading(c, d)
  BY <1>2, <1>5 DEF Leading, Elsewhere
<1>6. CASE /\ c.state \in {"s_header_field_start", "s_header_value_discard_lws", "s_header_value_lws"}
           /\ \E b : FieldStarts(b, ch, d)
  <2>1. PICK b : FieldStarts(b, ch, d)
    BY <1>6
  <2>2. c.state \notin Starts /\ c.state # "s_header_field" /\ d.state # "s_header_value"
        /\ ~InLine(d.state)
    <3>1. d.state = "s_headers_almost_done" \/ d.state = "s_header_field" \/ Finish(b, b.flags, d)
      BY <2>1 DEF FieldStarts, Onto
    <3> QED BY <1>6, <3>1, FinishStates DEF Starts, InLine
  <2>3. n.el = <<>>
    BY <2>2, NoElement DEF Named
  <2> QED BY <2>1, <2>2, <2>3, NamedField
<1>7. CASE c.state = "s_header_field" /\ FieldGoes(c, ch, d)
  <2>1. /\ c.header_state \in NameStates /\ h.name \in NamesOf[c.header_state]
        /\ c.state \notin Starts /\ c.state \notin ValueEnds \cup {"s_header_value"}
    BY <1>7 DEF Named, FieldLines, Starts, ValueEnds
  <2>2. CASE Onto(c, d, c.state, Follow(NameArcs, c.header_state, ch, "h_general"), c.flags,
                  c.content_length)
    <3>1. d.state = "s_header_field" /\ d.header_state = Follow(NameArcs, c.header_state, ch, "h_general")
      BY <1>7, <2>2 DEF Onto
    <3>2. n.name = Extend(KnownNames, h.name, ch)
      <4>1. n.name = NewName(c, h, ch, d)
        BY <2>1, NotBegun DEF Recalls
      <4> QED BY <1>7, <3>1, <4>1 DEF NewName
    <3>3. d.header_state \in NameStates /\ n.name \in NamesOf[d.header_state]
      BY <2>1, <3>1, <3>2, NameGrows
    <3> QED BY <1>1, <2>1, <3>1, <3>3 DEF Named, ValueEnds
  <2>3. CASE d.state = "s_header_value_discard_ws" /\ Same(c, d)
    <3>1. d.header_state = c.header_state /\ InLine(d.state)
      BY <2>3 DEF Same, Onto, InLine
    <3>2. n.name = h.name
      BY <2>1, <3>1, SameName
    <3> QED BY <1>1, <2>1, <2>3, <3>1, <3>2 DEF Named, ValueEnds
  <2> QED BY <1>7, <2>2, <2>3 DEF FieldGoes
<1>8. CASE c.state \in Blanked /\ Moved(c, d, Blanked)
  <2>1. /\ c.header_state \in NameStates /\ h.name \in NamesOf[c.header_state]
        /\ c.state \notin Starts /\ c.state \notin ValueEnds \cup {"s_header_value"}
    BY <1>8 DEF Named, FieldLines, Starts, Blanked, ValueEnds
  <2>2. d.state \in Blanked /\ d.header_state = c.header_state /\ InLine(d.state)
    BY <1>8 DEF Moved, Onto, InLine, Blanked
  <2>3. n.name = h.name
    BY <2>1, <2>2, SameName
  <2>4. d.state # "s_header_value" /\ d.state \notin ValueEnds
    BY <2>2 DEF Blanked, ValueEnds
  <2> QED BY <1>1, <2>1, <2>2, <2>3, <2>4 DEF Named
<1>9. CASE /\ \/ c.state = "s_header_value_discard_ws" /\ ch \notin Blanks \cup Ends
              \/ c.state = "s_header_value_lws" /\ ch \in Blanks
           /\ ValueBegins(c, ch, d)
  <2>1. CASE c.state = "s_header_value_discard_ws" /\ ch \notin Blanks \cup Ends
    BY <1>9, <2>1, NamedValueBegins
  <2>2. CASE c.state = "s_header_value_lws" /\ ch \in Blanks
    BY <1>9, <2>2, NamedValueBegins
  <2> QED BY <1>9, <2>1, <2>2
<1>10. CASE c.state = "s_header_value" /\ ValueGoes(c, ch, d)
  BY <1>10, NamedValue
<1>11. CASE c.state = "s_header_almost_done" /\ Moved(c, d, {"s_header_value_lws"})
  <2>1. d.state \in ValueEnds /\ d.header_state = c.header_state
    BY <1>11 DEF Moved, Onto, ValueEnds
  <2> QED BY <1>11, <2>1, NamedEnd
<1>12. CASE Finish(c, c.flags, d)
  BY <1>2, <1>12, FinishStates, ChunkStatesAre DEF Elsewhere, BodyStates
<1>13. CASE Chunking(c, ch, d)
  BY <1>2, <1>13, ChunkStatesAre DEF Elsewhere, Chunking, Onto, Moved
<1>14. CASE c.state = "s_body_identity" /\ BodyGoes(c, d)
  <2>1. d.state \in Starts \cup {"s_dead", "s_body_identity"}
    BY <1>14 DEF BodyGoes, Over, Starts, start_state
  <2> QED BY <1>2, <2>1 DEF Elsewhere, BodyStates
<1> QED BY <1>3, <1>4, <1>5, <1>6, <1>7, <1>8, <1>9, <1>10, <1>11, <1>12, <1>13, <1>14
        DEF Turn, LineBegins

LEMMA StatesDiffer ==
  /\ \A s \in HeadStates : /\ s \notin Starts /\ s # "s_dead" /\ s \notin ChunkStates
                           /\ s \notin BodyStates
  /\ \A s \in ChunkStates : s \notin Starts /\ s # "s_dead"
  /\ HeaderStates \subseteq HeadStates /\ Leads \subseteq HeadStates
  /\ SizeStates \subseteq ChunkStates /\ ValueEnds \subseteq HeaderStates
  /\ Blanked \subseteq HeaderStates
  /\ "s_res_H" \in HeadStates /\ "s_req_method" \in HeadStates
BY UrlStatesAre, LineStatesAre, ChunkStatesAre
   DEF HeadStates, HeaderStates, Starts, BodyStates, SizeStates, Leads, ValueEnds, Blanked

\* A symbol outside of values and sizes.
LEMMA Passing ==
  ASSUME NEW c, NEW h, NEW ch, NEW d, NEW n, Recalls(c, h, ch, d, n), c.state \notin Starts,
         d.state # "s_header_value", d.state # "s_chunk_size"
  PROVE  ReadsPast(c, h, n)
<1>1. ~Begins(c, d)
  BY NotBegun
<1> QED BY Zenon, <1>1 DEF Recalls

LEMMA DoneIs ==
  ASSUME NEW c, NEW h, NEW ch, NEW d, NEW n, Recalls(c, h, ch, d, n), c.state \notin Starts
  PROVE  n.done <=> h.done \/ Completes(c, d)
BY NotBegun DEF Recalls

\* A message is not over while its headers are read.
LEMMA HeadNotDone ==
  ASSUME NEW c, NEW h, Told(c, h), c.state \in HeadStates
  PROVE  ~h.done /\ c.state \notin Starts
BY StatesDiffer DEF Told, BodyStates

LEMMA ToldInHead ==
  ASSUME NEW c, NEW h, Told(c, h), c.state \in HeadStates, NEW ch, NEW d, NEW n,
         Recalls(c, h, ch, d, n), d.state \in HeadStates, n.taken = 0, n.declared \in Int,
         Promised(d.flags, d.content_length, n.declared)
  PROVE  Told(d, n)
<1>1. ~h.done /\ c.state \notin Starts
  BY HeadNotDone
<1>2. ~n.done
  BY <1>1, DoneIs, StatesDiffer DEF Completes
<1>3. /\ d.state \notin ChunkStates /\ d.state \notin BodyStates
      /\ d.state \notin SizeStates /\ d.state # "s_chunk_data_almost_done"
  BY StatesDiffer, ChunkStatesAre
<1> QED BY <1>2, <1>3 DEF Told, BodyStates

\* The headers go on, with nothing said of a length.
LEMMA ToldOn ==
  ASSUME NEW c, NEW h, Told(c, h), c.state \in HeadStates, NEW ch, NEW d, NEW n,
         Recalls(c, h, ch, d, n), d.state \in HeadStates, n.taken = h.taken,
         n.declared = h.declared, d.content_length = c.content_length,
         "F_TRAILING" \in d.flags <=> "F_TRAILING" \in c.flags
  PROVE  Told(d, n)
<1>1. /\ h.taken = 0 /\ h.declared \in Int
      /\ Promised(c.flags, c.content_length, h.declared)
  BY DEF Told
<1>2. Promised(d.flags, d.content_length, n.declared)
  BY <1>1 DEF Promised
<1> QED BY <1>1, <1>2, ToldInHead

\* The headers end.
LEMMA ToldFinish ==
  ASSUME NEW c, NEW h, Told(c, h), c.state \in HeadStates, c.state # "s_header_value", Fits(c),
         NEW ch, NEW d, NEW n, Recalls(c, h, ch, d, n), NEW b, NEW f, Finish(b, f, d),
         b.content_length = c.content_length, "F_TRAILING" \in f <=> "F_TRAILING" \in c.flags
  PROVE  Told(d, n)
<1>1. d.state \in Starts \cup {"s_dead", "s_chunk_size_start", "s_body_identity", "s_body_identity_eof"}
  BY FinishStates
<1>2. ~h.done /\ c.state \notin Starts
  BY HeadNotDone
<1>3. d.state # "s_header_value" /\ d.state # "s_chunk_size"
  BY <1>1 DEF Starts
<1>4. c.state \notin BodyStates
  BY StatesDiffer
<1>5. n.declared = h.declared /\ n.taken = h.taken
  BY <1>2, <1>3, <1>4, Passing DEF ReadsPast, BodyStates
<1>6. /\ h.taken = 0 /\ h.declared \in Int
      /\ Promised(c.flags, c.content_length, h.declared)
  BY DEF Told
<1>7. d.flags = f /\ d.content_length = c.content_length
  BY DEF Finish
<1>8. n.done => d.state \in Starts \cup {"s_dead"}
  BY <1>2, DoneIs DEF Completes
<1>9. d.state \notin HeadStates /\ d.state \notin SizeStates /\ d.state # "s_chunk_data"
      /\ d.state # "s_chunk_data_almost_done"
  BY <1>1, StatesDiffer, ChunkStatesAre DEF SizeStates, Starts, BodyStates
<1>10. c.content_length \in 0 .. ULLONG_MAX /\ ULLONG_MAX \in Nat /\ ULLONG_MAX >= 32
  BY HttpParserConstants DEF Fits
<1>11. CASE "F_TRAILING" \in f
  <2>1. h.declared = 0 /\ d.state \in Starts \cup {"s_dead"}
    BY <1>6, <1>11 DEF Finish, Promised, Over, Starts, start_state
  <2> QED BY <1>5, <1>6, <1>8, <1>9, <2>1 DEF Told, Starts
<1>12. CASE "F_TRAILING" \notin f
  <2>1. \/ h.declared = NoLength /\ d.content_length = ULLONG_MAX
        \/ h.declared = d.content_length /\ d.content_length < ULLONG_MAX
    BY <1>6, <1>7, <1>12 DEF Promised
  <2>2. CASE d.state \in Starts \cup {"s_dead"}
    <3>1. d.upgrade \/ d.content_length = 0 \/ d.content_length = ULLONG_MAX
      BY <1>12, <2>2 DEF Finish, Starts
    <3>2. d.upgrade \/ n.declared \in {NoLength, n.taken}
      BY <1>5, <1>6, <1>10, <2>1, <3>1
    <3> QED BY <1>5, <1>6, <1>8, <1>9, <2>2, <3>2 DEF Told, Starts
  <2>3. CASE d.state = "s_chunk_size_start"
    BY <1>5, <1>6, <1>8, <1>9, <2>3 DEF Told, Starts
  <2>4. CASE d.state = "s_body_identity"
    <3>1. d.content_length # ULLONG_MAX
      BY <1>12, <2>4 DEF Finish, Over, start_state
    <3>2. d.content_length + n.taken = n.declared
      BY <1>5, <1>6, <1>7, <1>10, <2>1, <3>1
    <3> QED BY <1>5, <1>6, <1>8, <1>9, <2>4, <3>2 DEF Told, Starts
  <2>5. CASE d.state = "s_body_identity_eof"
    <3>1. d.content_length = ULLONG_MAX
      BY <1>12, <2>5 DEF Finish, Over, start_state
    <3>2. n.declared = NoLength
      BY <1>5, <1>10, <2>1, <3>1
    <3> QED BY <1>5, <1>6, <1>8, <1>9, <2>5, <3>2 DEF Told, Starts
  <2> QED BY <1>1, <2>2, <2>3, <2>4, <2>5
<1> QED BY <1>11, <1>12

-----------------------------------------------------------------------------
(* Lengths are what their digits say *)

\* A dead connection, and a body that ends with it.
LEMMA ToldQuiet ==
  ASSUME NEW c, NEW h, Told(c, h), c.state \in {"s_dead", "s_body_identity_eof"}, NEW ch, NEW d,
         Moved(c, d, {c.state}), NEW n, Recalls(c, h, ch, d, n)
  PROVE  Told(d, n)
<1>1. d.state = c.state /\ d.upgrade = c.upgrade /\ c.state \notin Starts
  BY DEF Moved, Onto, Starts
<1>2. n.declared = h.declared /\ n.taken = h.taken
  BY <1>1, Passing DEF ReadsPast
<1>3. n.done <=> h.done
  BY <1>1, DoneIs DEF Completes, Starts
<1>4. d.state \notin HeadStates /\ d.state \notin SizeStates
  BY <1>1, StatesDiffer, ChunkStatesAre DEF SizeStates, BodyStates
<1> QED BY <1>1, <1>2, <1>3, <1>4 DEF Told

LEMMA ToldStart ==
  ASSUME NEW c, NEW h, Told(c, h), c.state \in Starts, NEW ch, NEW d,
         StartsAnew(c, d), NEW n, Recalls(c, h, ch, d, n)
  PROVE  Told(d, n)
<1>1. CASE Begins(c, d)
  <2>1. d.flags = {} /\ d.content_length = ULLONG_MAX
    BY <1>1 DEF Begins, StartsAnew, Starts, Onto
  <2>2. n.declared = NoLength /\ n.taken = 0 /\ ~n.done
    BY <1>1 DEF Recalls, Afresh
  <2>3. Promised(d.flags, d.content_length, n.declared)
    BY <2>1, <2>2 DEF Promised
  <2>4. d.state \in HeadStates
    BY <1>1, StatesDiffer DEF Begins
  <2>5. /\ d.state \notin SizeStates
        /\ d.state \notin {"s_body_identity", "s_chunk_data", "s_chunk_data_almost_done", "s_body_identity_eof"}
    BY <1>1 DEF Begins, SizeStates
  <2> QED BY <2>2, <2>3, <2>4, <2>5, NoLengthIs DEF Told
<1>2. CASE ~Begins(c, d)
  <2>1. d.state = c.state /\ d.upgrade = c.upgrade
    BY <1>2 DEF Begins, StartsAnew, Same, Onto
  <2>2. c.state # "s_header_value" /\ c.state # "s_chunk_size" /\ c.state # "s_body_identity"
        /\ c.state # "s_chunk_data"
    BY DEF Starts
  <2>3. ReadsPast(c, h, n)
    BY Zenon, <1>2, <2>1, <2>2 DEF Recalls
  <2>4. n.done <=> h.done
    BY <1>2 DEF Recalls, Completes
  <2>5. d.state \notin HeadStates /\ d.state \notin SizeStates /\ d.state \in Starts
    BY <2>1, StatesDiffer DEF SizeStates, Starts
  <2>6. d.state \notin {"s_body_identity", "s_chunk_data", "s_chunk_data_almost_done", "s_body_identity_eof"}
    BY <2>5 DEF Starts
  <2> QED BY <2>1, <2>2, <2>3, <2>4, <2>5, <2>6 DEF Told, ReadsPast
<1> QED BY <1>1, <1>2

\* A step from line to line of a header.
LEMMA ToldPasses ==
  ASSUME NEW c, NEW h, Told(c, h), c.state \in HeadStates, c.state # "s_header_value",
         NEW ch, NEW d, NEW n, Recalls(c, h, ch, d, n), d.state \in HeadStates,
         d.state # "s_header_value", d.content_length = c.content_length,
         "F_TRAILING" \in d.flags <=> "F_TRAILING" \in c.flags
  PROVE  Told(d, n)
<1>1. c.state \notin Starts /\ c.state \notin BodyStates /\ d.state # "s_chunk_size"
  BY StatesDiffer, ChunkStatesAre
<1>2. n.declared = h.declared /\ n.taken = h.taken
  BY <1>1, Passing DEF ReadsPast, BodyStates
<1> QED BY <1>2, ToldOn

LEMMA HeaderStatesAre ==
  /\ {"s_header_field_start", "s_header_field", "s_header_value", "s_header_almost_done",
      "s_header_value_lws", "s_headers_almost_done", "s_header_value_discard_ws",
      "s_header_value_discard_ws_almost_done", "s_header_value_discard_lws"} \subseteq HeaderStates
  /\ HeaderStates \subseteq HeadStates
BY DEF HeaderStates, HeadStates

LEMMA ToldField ==
  ASSUME NEW c, NEW h, Told(c, h), c.state \in HeadStates, c.state # "s_header_value", Fits(c),
         NEW ch, NEW d, NEW n, Recalls(c, h, ch, d, n), NEW b, FieldStarts(b, ch, d),
         b.content_length = c.content_length, "F_TRAILING" \in b.flags <=> "F_TRAILING" \in c.flags
  PROVE  Told(d, n)
<1>1. CASE Finish(b, b.flags, d)
  BY <1>1, ToldFinish
<1>2. CASE ~Finish(b, b.flags, d)
  <2>1. /\ d.state \in {"s_headers_almost_done", "s_header_field"}
        /\ d.flags = b.flags /\ d.content_length = b.content_length
    BY <1>2 DEF FieldStarts, Same, Onto
  <2>2. d.state \in HeadStates /\ d.state # "s_header_value"
    BY <2>1, HeaderStatesAre
  <2> QED BY <2>1, <2>2, ToldPasses
<1> QED BY <1>1, <1>2

LEMMA FlagKinds ==
  ASSUME NEW c
  PROVE  "F_TRAILING" \in Flagged(c) <=> "F_TRAILING" \in c.flags
BY DEF Flagged, FlagOf

LEMMA NamesApart ==
  ASSUME NEW s \in NameStates, NEW name \in NamesOf[s]
  PROVE  /\ name = Length <=> s = "h_content_length"
         /\ name = Upgrade <=> s = "h_upgrade"
BY DEF NameStates, NameSymbols, NamesOf, Length, Upgrade, Connection, Encoding

LEMMA ToldValueBegins ==
  ASSUME NEW c, NEW h, Told(c, h), Named(c, h), Fits(c), NEW ch, NEW d, NEW n,
         Recalls(c, h, ch, d, n), ValueBegins(c, ch, d),
         \/ c.state = "s_header_value_discard_ws"
         \/ c.state = "s_header_value_lws" /\ ch \in Blanks
  PROVE  Told(d, n)
<1>1. c.state \in HeadStates /\ c.state \notin Starts /\ c.state # "s_header_value"
      /\ c.state \notin {"s_body_identity", "s_chunk_data"}
  BY HeaderStatesAre DEF Starts
<1>2. d.state = "s_header_value" /\ d.state \in HeadStates
  BY HeaderStatesAre DEF ValueBegins, Onto
<1>3. ReadsOn(c, h, ch, n)
  BY <1>1, <1>2, ReadsOnHere
<1>4. n.taken = h.taken
  BY <1>1, <1>3 DEF ReadsOn
<1>5. "F_TRAILING" \in d.flags <=> "F_TRAILING" \in c.flags
  BY DEF ValueBegins, Onto
<1>6. CASE c.header_state = "h_content_length"
  <2>1. ch \in Digits /\ d.content_length = Val[ch]
    BY <1>6 DEF ValueBegins, Onto
  <2>2. c.state = "s_header_value_discard_ws"
    BY <2>1 DEF Blanks, Digits
  <2>3. h.name = Length
    BY <1>6, <2>2, NamesApart DEF Named, FieldLines
  <2>4. n.declared = IF "F_TRAILING" \in c.flags THEN h.declared ELSE Val[ch]
    BY <1>1, <1>3, <2>1, <2>3 DEF ReadsOn
  <2>5. Val[ch] \in Nat /\ Val[ch] < ULLONG_MAX
    BY <2>1, HttpParserConstants DEF Digits, Val, Hex
  <2>6. h.taken = 0 /\ h.declared \in Int /\ Promised(c.flags, c.content_length, h.declared)
    BY <1>1 DEF Told
  <2>7. Promised(d.flags, d.content_length, n.declared) /\ n.declared \in Int
    BY <1>5, <2>1, <2>4, <2>5, <2>6 DEF Promised
  <2> QED BY <1>1, <1>2, <1>4, <2>6, <2>7, ToldInHead
<1>7. CASE c.header_state # "h_content_length"
  <2>1. h.name # Length
    <3>1. CASE c.state = "s_header_value_discard_ws"
      BY <1>7, <3>1, NamesApart DEF Named, FieldLines
    <3>2. CASE c.state = "s_header_value_lws"
      BY <1>7, <3>2, LeftIs DEF ValueEnds, Left
    <3> QED BY <3>1, <3>2
  <2>2. n.declared = h.declared
    BY <1>3, <2>1 DEF ReadsOn
  <2>3. d.content_length = c.content_length
    BY <1>7 DEF ValueBegins, Onto
  <2> QED BY <1>1, <1>2, <1>4, <1>5, <2>2, <2>3, ToldOn
<1> QED BY <1>6, <1>7

LEMMA ToldValue ==
  ASSUME NEW c, NEW h, Told(c, h), Named(c, h), Fits(c), NEW ch, NEW d, NEW n,
         Recalls(c, h, ch, d, n), c.state = "s_header_value", ValueGoes(c, ch, d)
  PROVE  Told(d, n)
<1>1. c.state \in HeadStates /\ c.state \notin Starts
      /\ c.state \notin {"s_body_identity", "s_chunk_data"}
  BY HeaderStatesAre DEF Starts
<1>2. h.taken = 0 /\ h.declared \in Int /\ Promised(c.flags, c.content_length, h.declared)
  BY <1>1 DEF Told
<1>3. Reading(h.name, c.header_state, h.el, h.odd)
  BY DEF Named
<1>4. CASE ch \in Ends /\ Moved(c, d, ValueEnds)
  <2>1. d.state \in ValueEnds /\ d.flags = c.flags /\ d.content_length = c.content_length
    BY <1>4 DEF Moved, Onto
  <2>2. d.state \in HeadStates /\ d.state # "s_header_value"
    BY <2>1, StatesDiffer DEF ValueEnds
  <2>3. d.state # "s_chunk_size"
    BY <2>1 DEF ValueEnds
  <2>4. ReadsPast(c, h, n)
    BY <1>1, <2>2, <2>3, Passing
  <2>5. n.declared = h.declared /\ n.taken = h.taken
    BY <1>1, <2>4 DEF ReadsPast
  <2> QED BY <1>1, <2>1, <2>2, <2>5, ToldOn
<1>5. CASE /\ ch \notin Ends /\ c.header_state = "h_content_length"
           /\ ch # "SP" => d.content_length < ULLONG_MAX
           /\ Onto(c, d, c.state, c.header_state, c.flags,
                   IF ch = "SP" THEN c.content_length ELSE 10 * c.content_length + Val[ch])
           /\ ch \in Digits \cup {"SP"}
  <2>1. d.state = c.state /\ d.flags = c.flags
    BY <1>5 DEF Onto
  <2>2. ReadsOn(c, h, ch, n)
    BY <1>1, <2>1, ReadsOnHere
  <2>3. h.name = Length
    BY <1>3, <1>5 DEF Reading, ElementsOf
  <2>4. n.taken = h.taken
    BY <1>1, <2>2 DEF ReadsOn
  <2>5. CASE ch = "SP"
    <3>1. n.declared = h.declared /\ d.content_length = c.content_length
      BY <1>5, <2>2, <2>5 DEF ReadsOn, Digits, Onto
    <3> QED BY <1>1, <2>1, <2>4, <3>1, ToldOn
  <2>6. CASE ch # "SP"
    <3>1. ch \in Digits /\ d.content_length = 10 * c.content_length + Val[ch]
          /\ d.content_length < ULLONG_MAX
      BY <1>5, <2>6 DEF Onto
    <3>2. n.declared = IF "F_TRAILING" \in c.flags THEN h.declared ELSE 10 * h.declared + Val[ch]
      BY <2>2, <2>3, <3>1 DEF ReadsOn
    <3>3. Val[ch] \in Nat /\ ULLONG_MAX \in Nat /\ c.content_length \in Nat
      BY <3>1, HttpParserConstants DEF Digits, Val, Hex, Fits
    <3>4. c.content_length # ULLONG_MAX
      BY <3>1, <3>3
    <3>5. Promised(d.flags, d.content_length, n.declared) /\ n.declared \in Int
      BY <1>2, <2>1, <3>1, <3>2, <3>3, <3>4 DEF Promised
    <3> QED BY <1>1, <1>2, <2>1, <2>4, <3>5, ToldInHead
  <2> QED BY <2>5, <2>6
<1>6. CASE /\ ch \notin Ends /\ c.header_state # "h_content_length"
           /\ Onto(c, d, c.state, ValueGoesOn(c.header_state, ch),
                   IF ch = Comma /\ c.header_state \in Matched THEN Flagged(c) ELSE c.flags,
                   c.content_length)
  <2>1. d.state = c.state /\ d.content_length = c.content_length
        /\ d.flags = IF ch = Comma /\ c.header_state \in Matched THEN Flagged(c) ELSE c.flags
    BY <1>6 DEF Onto
  <2>2. ReadsOn(c, h, ch, n)
    BY <1>1, <2>1, ReadsOnHere
  <2>3. h.name # Length
    BY <1>3, <1>6, Differ DEF Reading
  <2>4. n.declared = h.declared /\ n.taken = h.taken
    BY <1>1, <2>2, <2>3 DEF ReadsOn
  <2>5. "F_TRAILING" \in d.flags <=> "F_TRAILING" \in c.flags
    BY <2>1, FlagKinds
  <2> QED BY <1>1, <2>1, <2>4, <2>5, ToldOn
<1> QED BY <1>4, <1>5, <1>6 DEF ValueGoes

\* A chunk.
LEMMA ToldChunk ==
  ASSUME NEW c, NEW h, Told(c, h), Fits(c), NEW ch, NEW d, NEW n, Recalls(c, h, ch, d, n),
         c.state \in ChunkStates, Chunking(c, ch, d)
  PROVE  Told(d, n)
<1>1. c.state \notin Starts /\ c.state # "s_header_value" /\ c.state # "s_body_identity_eof"
  BY StatesDiffer, ChunkStatesAre DEF Starts
<1>2. d.state \in ChunkStates \cup {"s_header_field_start"}
  BY ChunkStatesAre DEF Chunking, Onto, Moved
<1>3. ~n.done
  BY <1>1, <1>2, ChunkStatesAre, DoneIs DEF Told, Completes, Starts
<1>4. d.state # "s_header_value" /\ ~Begins(c, d)
  BY <1>1, <1>2, ChunkStatesAre, NotBegun
<1>5. d.state # "s_chunk_size" => ReadsPast(c, h, n)
  BY <1>1, <1>4, Passing
<1>6. h.declared \in Int /\ h.taken \in Nat /\ c.content_length \in Nat
      /\ (c.state \in SizeStates => h.taken = 0 /\ h.declared = c.content_length)
      /\ (c.state = "s_chunk_data" => c.content_length + h.taken = h.declared)
      /\ (c.state = "s_chunk_data_almost_done" => h.taken = h.declared)
  BY DEF Told, Fits
<1>7. CASE /\ c.state \in {"s_chunk_size_start", "s_chunk_size"} /\ ch \in Hex
           /\ d.content_length < ULLONG_MAX
           /\ Onto(c, d, "s_chunk_size", c.header_state, c.flags,
                   IF c.state = "s_chunk_size_start" THEN Val[ch] ELSE 16 * c.content_length + Val[ch])
  <2>1. /\ d.state = "s_chunk_size"
        /\ d.content_length = IF c.state = "s_chunk_size_start" THEN Val[ch]
                              ELSE 16 * c.content_length + Val[ch]
    BY <1>7 DEF Onto
  <2>2. Sizes(c, h, ch, n)
    BY Zenon, <1>1, <1>4, <2>1 DEF Recalls
  <2>3. Val[ch] \in Nat
    BY <1>7 DEF Hex, Digits, Val
  <2>4. n.taken = 0 /\ n.declared = d.content_length /\ n.declared \in Int
    BY <1>6, <1>7, <2>1, <2>2, <2>3 DEF Sizes, SizeStates
  <2>5. d.state \notin HeadStates
    BY <2>1, StatesDiffer, ChunkStatesAre
  <2> QED BY <1>3, <2>1, <2>4, <2>5 DEF Told
<1>8. CASE /\ c.state \in {"s_chunk_size", "s_chunk_parameters"}
           /\ Moved(c, d, {"s_chunk_parameters", "s_chunk_size_almost_done"})
  <2>1. d.state \in {"s_chunk_parameters", "s_chunk_size_almost_done"}
        /\ d.content_length = c.content_length
    BY <1>8 DEF Moved, Onto
  <2>2. n.declared = h.declared /\ n.taken = h.taken
    BY <1>5, <1>8, <2>1 DEF ReadsPast
  <2>3. d.state \notin HeadStates
    BY <2>1, StatesDiffer, ChunkStatesAre
  <2> QED BY <1>3, <1>6, <1>8, <2>1, <2>2, <2>3 DEF Told, SizeStates
<1>9. CASE /\ c.state = "s_chunk_size_almost_done" /\ c.content_length = 0
           /\ Onto(c, d, "s_header_field_start", c.header_state, c.flags \cup {"F_TRAILING"}, c.content_length)
  <2>1. d.state = "s_header_field_start" /\ "F_TRAILING" \in d.flags
    BY <1>9 DEF Onto
  <2>2. n.declared = 0 /\ n.taken = 0
    BY <1>5, <1>6, <1>9, <2>1 DEF ReadsPast, SizeStates
  <2> QED BY <1>3, <2>1, <2>2 DEF Told, SizeStates, Promised
<1>10. CASE c.state = "s_chunk_size_almost_done" /\ c.content_length # 0 /\ Moved(c, d, {"s_chunk_data"})
  <2>1. d.state = "s_chunk_data" /\ d.content_length = c.content_length
    BY <1>10 DEF Moved, Onto
  <2>2. n.declared = h.declared /\ n.taken = h.taken
    BY <1>5, <1>10, <2>1 DEF ReadsPast
  <2>3. d.state \notin HeadStates
    BY <2>1, StatesDiffer, ChunkStatesAre
  <2> QED BY <1>3, <1>6, <1>10, <2>1, <2>2, <2>3 DEF Told, SizeStates
<1>11. CASE /\ c.state = "s_chunk_data"
            /\ Onto(c, d, IF c.content_length - 1 = 0 THEN "s_chunk_data_almost_done" ELSE c.state,
                    c.header_state, c.flags, c.content_length - 1)
  <2>1. /\ d.state = IF c.content_length - 1 = 0 THEN "s_chunk_data_almost_done" ELSE "s_chunk_data"
        /\ d.content_length = c.content_length - 1
    BY <1>11 DEF Onto
  <2>2. n.declared = h.declared /\ n.taken = h.taken + 1
    BY <1>5, <1>11, <2>1 DEF ReadsPast
  <2>3. d.state \notin HeadStates
    BY <2>1, StatesDiffer, ChunkStatesAre
  <2> QED BY <1>3, <1>6, <1>11, <2>1, <2>2, <2>3 DEF Told, SizeStates
<1>12. CASE \/ c.state = "s_chunk_data_almost_done" /\ Moved(c, d, {"s_chunk_data_done"})
            \/ c.state = "s_chunk_data_done" /\ Moved(c, d, {"s_chunk_size_start"})
  <2>1. d.state \in {"s_chunk_data_done", "s_chunk_size_start"}
    BY <1>12 DEF Moved
  <2>2. n.declared = h.declared /\ n.taken = h.taken
    BY <1>5, <1>12, <2>1 DEF ReadsPast
  <2>3. d.state \notin HeadStates
    BY <2>1, StatesDiffer, ChunkStatesAre
  <2> QED BY <1>3, <1>6, <2>1, <2>2, <2>3 DEF Told, SizeStates
<1> QED BY <1>7, <1>8, <1>9, <1>10, <1>11, <1>12 DEF Chunking

LEMMA ToldBody ==
  ASSUME NEW c, NEW h, Told(c, h), Fits(c), NEW ch, NEW d, NEW n, Recalls(c, h, ch, d, n),
         c.state = "s_body_identity", BodyGoes(c, d)
  PROVE  Told(d, n)
<1>1. /\ d.state \in Starts \cup {"s_dead", "s_body_identity"}
      /\ d.content_length = c.content_length - 1
      /\ d.state = "s_body_identity" => d.content_length # 0
      /\ d.state # "s_body_identity" => d.content_length = 0
  BY DEF BodyGoes, Over, Starts, start_state, Onto
<1>2. c.state \notin Starts /\ d.state \notin {"s_header_value", "s_chunk_size"}
  BY <1>1 DEF Starts
<1>3. n.declared = h.declared /\ n.taken = h.taken + 1
  BY <1>2, Passing DEF ReadsPast
<1>4. h.declared \in Int /\ h.taken \in Nat /\ c.content_length \in Nat
      /\ c.content_length + h.taken = h.declared /\ ~h.done
  BY DEF Told, Fits, Starts
<1>5. n.done => d.state \in Starts \cup {"s_dead"}
  BY <1>2, <1>4, DoneIs DEF Completes
<1>6. d.state \notin HeadStates /\ d.state \notin SizeStates
      /\ d.state \notin {"s_chunk_data", "s_chunk_data_almost_done", "s_body_identity_eof"}
  BY <1>1, StatesDiffer, ChunkStatesAre DEF SizeStates, Starts, BodyStates
<1>7. n.taken \in Nat /\ n.declared \in Int
      /\ (d.state = "s_body_identity" => d.content_length + n.taken = n.declared)
      /\ (d.state # "s_body_identity" => n.taken = n.declared)
  BY <1>1, <1>3, <1>4
<1>8. n.done /\ ~d.upgrade => n.declared \in {NoLength, n.taken}
  BY <1>5, <1>7 DEF Starts
<1> QED BY <1>5, <1>6, <1>7, <1>8 DEF Told, Starts

LEMMA ToldTurn ==
  ASSUME NEW c, NEW h, Told(c, h), Named(c, h), Fits(c), NEW ch, NEW d, NEW n,
         Recalls(c, h, ch, d, n), Turn(c, ch, d)
  PROVE  Told(d, n)
<1>1. CASE c.state \in {"s_dead", "s_body_identity_eof"} /\ Moved(c, d, {c.state})
  BY <1>1, ToldQuiet
<1>2. CASE c.state \in Starts /\ StartsAnew(c, d)
  BY <1>2, ToldStart
<1>3. CASE c.state \in Leads /\ Leading(c, d)
  <2>1. /\ c.state \in HeadStates /\ c.state # "s_header_value"
        /\ d.state \in HeadStates /\ d.state # "s_header_value"
        /\ d.flags = c.flags /\ d.content_length = c.content_length
    BY <1>3, StatesDiffer, HeaderStatesAre, UrlStatesAre, LineStatesAre DEF Leading, Leads
  <2> QED BY <2>1, ToldPasses
<1>4. CASE c.state = "s_header_field_start" /\ FieldStarts(c, ch, d)
  BY <1>4, HeaderStatesAre, ToldField
<1>5. CASE c.state = "s_header_field" /\ FieldGoes(c, ch, d)
  <2>1. /\ c.state \in HeadStates /\ d.state \in HeadStates /\ d.state # "s_header_value"
        /\ d.flags = c.flags /\ d.content_length = c.content_length
    BY <1>5, HeaderStatesAre DEF FieldGoes, Onto, Same
  <2> QED BY <1>5, <2>1, ToldPasses
<1>6. CASE c.state \in Blanked /\ Moved(c, d, Blanked)
  <2>1. /\ c.state \in HeadStates /\ c.state # "s_header_value"
        /\ d.state \in HeadStates /\ d.state # "s_header_value"
        /\ d.flags = c.flags /\ d.content_length = c.content_length
    BY <1>6, HeaderStatesAre DEF Moved, Onto, Blanked
  <2> QED BY <2>1, ToldPasses
<1>7. CASE c.state = "s_header_value_discard_ws" /\ ch \notin Blanks \cup Ends /\ ValueBegins(c, ch, d)
  BY <1>7, ToldValueBegins
<1>8. CASE c.state = "s_header_value_lws" /\ ch \in Blanks /\ ValueBegins(c, ch, d)
  BY <1>8, ToldValueBegins
<1>9. CASE c.state \in {"s_header_value_discard_lws", "s_header_value_lws"} /\ LineBegins(c, ch, d)
  <2>1. PICK b : Lined(c, b) /\ FieldStarts(b, ch, d)
    BY <1>9 DEF LineBegins
  <2>2. b.content_length = c.content_length /\ ("F_TRAILING" \in b.flags <=> "F_TRAILING" \in c.flags)
    BY <2>1, FlagKinds DEF Lined, Onto
  <2>3. c.state \in HeadStates /\ c.state # "s_header_value"
    BY <1>9, HeaderStatesAre
  <2> QED BY <2>1, <2>2, <2>3, ToldField
<1>10. CASE c.state = "s_header_value" /\ ValueGoes(c, ch, d)
  BY <1>10, ToldValue
<1>11. CASE c.state = "s_header_almost_done" /\ Moved(c, d, {"s_header_value_lws"})
  <2>1. /\ c.state \in HeadStates /\ d.state \in HeadStates /\ d.state # "s_header_value"
        /\ d.flags = c.flags /\ d.content_length = c.content_length
    BY <1>11, HeaderStatesAre DEF Moved, Onto
  <2> QED BY <1>11, <2>1, ToldPasses
<1>12. CASE c.state = "s_headers_almost_done" /\ Finish(c, c.flags, d)
  BY <1>12, HeaderStatesAre, ToldFinish
<1>13. CASE c.state \in ChunkStates /\ Chunking(c, ch, d)
  BY <1>13, ToldChunk
<1>14. CASE c.state = "s_body_identity" /\ BodyGoes(c, d)
  BY <1>14, ToldBody
<1> QED BY <1>1, <1>2, <1>3, <1>4, <1>5, <1>6, <1>7, <1>8, <1>9, <1>10, <1>11, <1>12, <1>13, <1>14
        DEF Turn

-----------------------------------------------------------------------------
(* Flags are what was listed *)

LEMMA FlagsApart ==
  /\ \A f, k \in DOMAIN FlagListed : FlagListed[f] = FlagListed[k] => f = k
  /\ FlagListed["F_UPGRADE"] = Upgrade \o <<"x">>
  /\ \A s \in DOMAIN FlagOf : FlagOf[s] \in DOMAIN FlagListed
  /\ "F_TRAILING" \notin DOMAIN FlagListed /\ "F_UPGRADE" \in DOMAIN FlagListed
<1>1. \A f, k \in DOMAIN FlagListed : FlagListed[f] = FlagListed[k] => f = k
  BY FlagsListed
<1>2. FlagListed["F_UPGRADE"] = Upgrade \o <<"x">>
  BY DEF FlagListed, Upgrade
<1>3. \A s \in DOMAIN FlagOf : FlagOf[s] \in DOMAIN FlagListed
  BY FlagsListed DEF FlagOf
<1> QED BY <1>1, <1>2, <1>3, FlagsListed

LEMMA HeardMore ==
  ASSUME NEW F, NEW h, Heard(F, h), NEW G, NEW n, NEW L, NEW P, n.listed = h.listed \cup L,
         n.plain = h.plain \cup P,
         \A f \in DOMAIN FlagListed : f \in G => f \in F \/ FlagListed[f] \in L,
         \A f \in DOMAIN FlagListed : f \in F \/ FlagListed[f] \in P => f \in G
  PROVE  Heard(G, n)
BY DEF Heard

\* The element of a value that ends sets its flag.
LEMMA HeardElement ==
  ASSUME NEW F, NEW h, Heard(F, h), NEW s, Reading(h.name, s, h.el, h.odd), NEW n,
         n.listed = h.listed \cup Listed(h.name, h.el),
         n.plain = h.plain \cup (IF h.odd THEN {} ELSE Listed(h.name, h.el)),
         NEW G, G = F \cup {FlagOf[k] : k \in {s} \cap DOMAIN FlagOf}
  PROVE  Heard(G, n)
<1>1. PICK L, P : L = Listed(h.name, h.el) /\ P = IF h.odd THEN {} ELSE L
  OBVIOUS
<1>2. n.listed = h.listed \cup L /\ n.plain = h.plain \cup P /\ P \subseteq L
  BY <1>1
<1>3. CASE s \in DOMAIN FlagOf
  <2>1. L = {FlagListed[FlagOf[s]]} /\ FlagOf[s] \in DOMAIN FlagListed
    BY <1>1, <1>3, ReadingLists, FlagsApart
  <2>2. G = F \cup {FlagOf[s]}
    BY <1>3
  <2>3. \A f \in DOMAIN FlagListed : FlagListed[f] = FlagListed[FlagOf[s]] => f = FlagOf[s]
    BY <2>1, FlagsApart
  <2>4. \A f \in DOMAIN FlagListed : f \in G => f \in F \/ FlagListed[f] \in L
    BY <2>1, <2>2
  <2>5. \A f \in DOMAIN FlagListed : f \in F \/ FlagListed[f] \in P => f \in G
    BY <1>2, <2>1, <2>2, <2>3
  <2> QED BY <1>2, <2>4, <2>5, HeardMore
<1>4. CASE s \notin DOMAIN FlagOf
  <2>1. G = F
    BY <1>4
  <2>2. h.odd \/ L = {}
    BY <1>1, <1>4, ReadingLists
  <2>3. P = {}
    BY <1>1, <2>2
  <2> QED BY <1>2, <2>1, <2>3 DEF Heard
<1> QED BY <1>3, <1>4

LEMMA DueIs ==
  ASSUME NEW c
  PROVE  /\ c.state # "s_header_value_lws" => Due(c) = c.flags
         /\ c.state = "s_header_value_lws" => Due(c) = Flagged(c)
BY DEF Due

\* Where a header is over, the flag of its last element is set.
LEMMA DueFlagged ==
  ASSUME NEW c, NEW h, Named(c, h),
         c.state \in {"s_header_value_discard_lws", "s_header_value_lws"}
  PROVE  Due(c) = Flagged(c)
<1>1. CASE c.state = "s_header_value_lws"
  BY <1>1, DueIs
<1>2. CASE c.state = "s_header_value_discard_lws"
  <2>1. c.header_state \notin DOMAIN FlagOf
    BY <1>2 DEF Named, FieldLines, NameStates, NameSymbols, FlagOf
  <2>2. Flagged(c) = c.flags
    BY <2>1 DEF Flagged
  <2> QED BY <1>2, <2>2, DueIs
<1> QED BY <1>1, <1>2

\* Outside of lines the flags say what was listed, with the flag that is due.
LEMMA HeardOver ==
  ASSUME NEW c, NEW h, FlagsRead(c, h), Named(c, h), c.state \notin Starts \cup {"s_dead"},
         NEW ch, NEW d, NEW n, Recalls(c, h, ch, d, n), d.state # "s_header_value",
         ~InLine(d.state)
  PROVE  Heard(Due(c), n)
<1>1. Lists(c, h, d, n) /\ Heard(c.flags, h)
  BY ListsHere DEF FlagsRead
<1>2. CASE c.state = "s_header_value_lws"
  <2>1. /\ n.listed = h.listed \cup Listed(h.name, h.el)
        /\ n.plain = h.plain \cup (IF h.odd THEN {} ELSE Listed(h.name, h.el))
    BY <1>1, <1>2 DEF Lists, LastOf
  <2>2. Reading(h.name, c.header_state, h.el, h.odd)
    BY <1>2 DEF Named, ValueEnds
  <2>3. Due(c) = c.flags \cup {FlagOf[k] : k \in {c.header_state} \cap DOMAIN FlagOf}
    BY <1>2, DueIs DEF Flagged
  <2> QED BY <1>1, <2>1, <2>2, <2>3, HeardElement
<1>3. CASE c.state # "s_header_value_lws"
  <2>1. n.listed = h.listed /\ n.plain = h.plain
    BY <1>1, <1>3 DEF Lists, LastOf
  <2>2. Due(c) = c.flags
    BY <1>3, DueIs
  <2> QED BY <1>1, <2>1, <2>2 DEF Heard
<1> QED BY <1>2, <1>3

\* A symbol of a line that is not over, or of none.
LEMMA FlagsPast ==
  ASSUME NEW c, NEW h, FlagsRead(c, h), c.state \notin Starts \cup {"s_dead"},
         c.state # "s_header_value_lws", NEW ch, NEW d, NEW n, Recalls(c, h, ch, d, n),
         d.state \notin ValueEnds \cup {"s_header_value"},
         \A f \in DOMAIN FlagListed : f \in d.flags <=> f \in c.flags
  PROVE  FlagsRead(d, n)
<1>1. Lists(c, h, d, n) /\ Heard(c.flags, h)
  BY ListsHere DEF FlagsRead
<1>2. n.listed = h.listed /\ n.plain = h.plain
  BY <1>1 DEF Lists, LastOf
<1>3. Heard(d.flags, n)
  BY <1>1, <1>2 DEF Heard
<1> QED BY <1>3 DEF FlagsRead

\* The flags with which a line ends are those of the next.
LEMMA FlagsAtLine ==
  ASSUME NEW c, NEW h, FlagsRead(c, h), Named(c, h), c.state \notin Starts \cup {"s_dead"},
         NEW ch, NEW d, NEW n, Recalls(c, h, ch, d, n),
         NEW b, b.flags = Due(c), FieldStarts(b, ch, d)
  PROVE  FlagsRead(d, n)
<1>1. d.flags = b.flags
  BY DEF FieldStarts, Same, Onto, Finish
<1>2. d.state \notin ValueEnds \cup {"s_header_value"} /\ ~InLine(d.state)
  <2>1. d.state \in {"s_headers_almost_done", "s_header_field"} \/ Finish(b, b.flags, d)
    BY DEF FieldStarts, Onto
  <2> QED BY <2>1, FinishStates DEF ValueEnds, Starts, InLine
<1>3. Heard(d.flags, n)
  BY <1>1, <1>2, HeardOver
<1> QED BY <1>2, <1>3 DEF FlagsRead

LEMMA FlagsBegin ==
  ASSUME NEW c, NEW h, FlagsRead(c, h), Named(c, h), NEW ch, NEW d, NEW n,
         Recalls(c, h, ch, d, n), ValueBegins(c, ch, d),
         \/ c.state = "s_header_value_discard_ws"
         \/ c.state = "s_header_value_lws" /\ ch \in Blanks
  PROVE  FlagsRead(d, n)
<1>1. c.state \notin Starts \cup {"s_dead"} /\ c.state # "s_header_value" /\ c.state \notin Starts
  BY DEF Starts
<1>2. /\ d.state = "s_header_value"
      /\ d.flags = IF c.header_state = "h_upgrade" THEN c.flags \cup {"F_UPGRADE"} ELSE c.flags
  BY DEF ValueBegins, Onto
<1>3. ReadsOn(c, h, ch, n) /\ n.name = h.name
  BY <1>1, <1>2, ReadsOnHere
<1>4. Heard(c.flags, h)
  BY <1>1 DEF FlagsRead
<1>5. PICK asked : asked = IF h.name = Upgrade THEN {Upgrade \o <<"x">>} ELSE {}
  OBVIOUS
<1>6. PICK ended : ended = IF ch = Comma /\ h.name \in Connection THEN Listed(h.name, h.el) ELSE {}
  OBVIOUS
<1>7. ended = {}
  <2>1. CASE c.state = "s_header_value_discard_ws"
    <3>1. h.el = <<>>
      BY <2>1 DEF Named, ValueEnds
    <3>2. h.name \in Connection => Listed(h.name, h.el) = {}
      BY <3>1, ConnectionLists, UnknownElements
    <3> QED BY <1>6, <3>2
  <2>2. CASE ch \in Blanks
    BY <1>6, <2>2 DEF Blanks, Comma
  <2> QED BY <2>1, <2>2
<1>8. n.listed = h.listed \cup asked /\ n.plain = h.plain \cup asked
  BY <1>3, <1>5, <1>6, <1>7 DEF ReadsOn
<1>9. CASE c.state = "s_header_value_discard_ws"
  <2>1. h.name = Upgrade <=> c.header_state = "h_upgrade"
    BY <1>9, NamesApart DEF Named, FieldLines
  <2>2. CASE h.name = Upgrade
    <3>1. asked = {FlagListed["F_UPGRADE"]} /\ d.flags = c.flags \cup {"F_UPGRADE"}
      BY <1>2, <1>5, <2>1, <2>2, FlagsApart
    <3>2. Heard(d.flags, n)
      BY <1>4, <1>8, <3>1, FlagsApart DEF Heard
    <3> QED BY <1>2, <3>1, <3>2 DEF FlagsRead
  <2>3. CASE h.name # Upgrade
    <3>1. asked = {} /\ d.flags = c.flags
      BY <1>2, <1>5, <2>1, <2>3
    <3>2. Heard(d.flags, n)
      BY <1>4, <1>8, <3>1 DEF Heard
    <3> QED BY <1>3, <2>3, <3>2 DEF FlagsRead
  <2> QED BY <2>2, <2>3
<1>10. CASE c.state = "s_header_value_lws"
  <2>1. c.header_state # "h_upgrade"
    BY <1>10, LeftIs DEF ValueEnds, Left
  <2>2. d.flags = c.flags /\ (h.name = Upgrade => "F_UPGRADE" \in c.flags)
    BY <1>1, <1>2, <1>10, <2>1 DEF FlagsRead, ValueEnds
  <2>3. Heard(d.flags, n)
    BY <1>4, <1>5, <1>8, <2>2, FlagsApart DEF Heard
  <2> QED BY <1>3, <2>2, <2>3 DEF FlagsRead
<1> QED BY <1>9, <1>10

\* A value that ends, or the line it is in, changes no flag yet.
LEMMA FlagsWait ==
  ASSUME NEW c, NEW h, FlagsRead(c, h), c.state \in {"s_header_value", "s_header_almost_done"},
         NEW ch, NEW d, NEW n, Recalls(c, h, ch, d, n), d.state \in ValueEnds, d.flags = c.flags
  PROVE  FlagsRead(d, n)
<1>1. /\ c.state \notin Starts \cup {"s_dead"} /\ c.state \notin Starts
      /\ c.state \in ValueEnds \cup {"s_header_value"}
      /\ d.state # "s_header_value" /\ InLine(d.state)
  BY DEF ValueEnds, InLine, Starts
<1>2. Lists(c, h, d, n) /\ n.name = h.name
  BY <1>1, ListsHere, SameName
<1>3. n.listed = h.listed /\ n.plain = h.plain
  BY <1>1, <1>2 DEF Lists, LastOf
<1>4. Heard(c.flags, h) /\ (h.name = Upgrade => "F_UPGRADE" \in c.flags)
  BY <1>1 DEF FlagsRead
<1>5. Heard(d.flags, n)
  BY <1>3, <1>4 DEF Heard
<1> QED BY <1>2, <1>4, <1>5 DEF FlagsRead

LEMMA FlagsInValue ==
  ASSUME NEW c, NEW h, FlagsRead(c, h), Named(c, h), NEW ch, NEW d, NEW n,
         Recalls(c, h, ch, d, n), c.state = "s_header_value", ValueGoes(c, ch, d)
  PROVE  FlagsRead(d, n)
<1>1. c.state \notin Starts \cup {"s_dead"} /\ c.state \notin Starts
  BY DEF Starts
<1>2. /\ Reading(h.name, c.header_state, h.el, h.odd)
      /\ h.name = Upgrade => "F_UPGRADE" \in c.flags
      /\ Heard(c.flags, h)
  BY <1>1 DEF Named, FlagsRead
<1>3. CASE ch \in Ends /\ Moved(c, d, ValueEnds)
  <2>1. d.state \in ValueEnds /\ d.flags = c.flags
    BY <1>3 DEF Moved, Onto
  <2> QED BY <2>1, FlagsWait
<1>4. CASE ~(ch \in Ends /\ Moved(c, d, ValueEnds))
  <2>1. /\ d.state = "s_header_value"
        /\ d.flags = IF ch \notin Ends /\ c.header_state # "h_content_length"
                        /\ ch = Comma /\ c.header_state \in Matched
                     THEN Flagged(c) ELSE c.flags
    BY <1>4 DEF ValueGoes, Onto
  <2>2. ReadsOn(c, h, ch, n) /\ n.name = h.name
    BY <1>1, <2>1, ReadsOnHere
  <2>3. c.flags \subseteq d.flags
    BY <2>1 DEF Flagged
  <2>4. Heard(d.flags, n)
    <3>1. CASE ch = Comma /\ h.name \in Connection
      <4>1. /\ n.listed = h.listed \cup Listed(h.name, h.el)
            /\ n.plain = h.plain \cup (IF h.odd THEN {} ELSE Listed(h.name, h.el))
        BY <2>2, <3>1, Differ DEF ReadsOn
      <4>2. CASE c.header_state \in Matched
        <5>1. ch \notin Ends /\ c.header_state # "h_content_length"
          BY <3>1, <4>2 DEF Ends, Comma, Matched
        <5>2. d.flags = c.flags \cup {FlagOf[k] : k \in {c.header_state} \cap DOMAIN FlagOf}
          BY <2>1, <3>1, <4>2, <5>1 DEF Flagged
        <5> QED BY <1>2, <4>1, <5>2, HeardElement
      <4>3. CASE c.header_state \notin Matched
        <5>1. c.header_state # "h_transfer_encoding_chunked"
          BY <1>2, <3>1, ReadingLists, Differ
        <5>2. c.header_state \notin DOMAIN FlagOf
          BY <4>3, <5>1 DEF FlagOf, Matched
        <5>3. d.flags = c.flags \cup {FlagOf[k] : k \in {c.header_state} \cap DOMAIN FlagOf}
          BY <2>1, <4>3, <5>2
        <5> QED BY <1>2, <4>1, <5>3, HeardElement
      <4> QED BY <4>2, <4>3
    <3>2. CASE ~(ch = Comma /\ h.name \in Connection)
      <4>1. PICK asked : asked = IF h.name = Upgrade THEN {Upgrade \o <<"x">>} ELSE {}
        OBVIOUS
      <4>2. n.listed = h.listed \cup asked /\ n.plain = h.plain \cup asked
        BY <2>2, <3>2, <4>1 DEF ReadsOn
      <4>3. d.flags = c.flags
        BY <1>2, <2>1, <3>2, ReadingLists
      <4> QED BY <1>2, <4>1, <4>2, <4>3, FlagsApart DEF Heard
    <3> QED BY <3>1, <3>2
  <2> QED BY <1>2, <2>1, <2>2, <2>3, <2>4 DEF FlagsRead
<1> QED BY <1>3, <1>4

LEMMA FlagsTurn ==
  ASSUME NEW c, NEW h, FlagsRead(c, h), Named(c, h), NEW ch, NEW d, NEW n,
         Recalls(c, h, ch, d, n), Turn(c, ch, d)
  PROVE  FlagsRead(d, n)
<1>1. CASE c.state \in {"s_dead", "s_body_identity_eof"} /\ Moved(c, d, {c.state})
  <2>1. d.state = c.state /\ d.flags = c.flags
    BY <1>1 DEF Moved, Onto
  <2>2. CASE c.state = "s_dead"
    BY <2>1, <2>2 DEF FlagsRead
  <2>3. CASE c.state = "s_body_identity_eof"
    <3>1. /\ d.state \notin ValueEnds \cup {"s_header_value"}
          /\ c.state \notin Starts \cup {"s_dead"} /\ c.state # "s_header_value_lws"
      BY <2>1, <2>3 DEF ValueEnds, Starts
    <3> QED BY <2>1, <3>1, FlagsPast
  <2> QED BY <1>1, <2>2, <2>3
<1>2. CASE c.state \in Starts /\ StartsAnew(c, d)
  <2>1. CASE Begins(c, d)
    <3>1. d.flags = {} /\ d.state \notin ValueEnds \cup {"s_header_value"}
      BY <1>2, <2>1 DEF Begins, StartsAnew, Starts, Onto, ValueEnds
    <3>2. n.listed = {} /\ n.plain = {}
      BY <2>1 DEF Recalls, Afresh
    <3>3. Heard(d.flags, n)
      BY <3>1, <3>2 DEF Heard
    <3> QED BY <3>1, <3>3 DEF FlagsRead
  <2>2. CASE ~Begins(c, d)
    BY <1>2, <2>2 DEF Begins, StartsAnew, FlagsRead
  <2> QED BY <2>1, <2>2
<1>3. CASE c.state \in Leads /\ Leading(c, d)
  <2>1. /\ c.state \notin Starts \cup {"s_dead"} /\ c.state # "s_header_value_lws"
        /\ d.state \notin ValueEnds \cup {"s_header_value"} /\ d.flags = c.flags
    BY <1>3, UrlStatesAre, LineStatesAre DEF Leading, Leads, ValueEnds, Starts
  <2> QED BY <2>1, FlagsPast
<1>4. CASE c.state = "s_header_field_start" /\ FieldStarts(c, ch, d)
  <2>1. c.state \notin Starts \cup {"s_dead"} /\ Due(c) = c.flags
    BY <1>4, DueIs DEF Starts
  <2> QED BY <1>4, <2>1, FlagsAtLine
<1>5. CASE c.state = "s_header_field" /\ FieldGoes(c, ch, d)
  <2>1. /\ c.state \notin Starts \cup {"s_dead"} /\ c.state # "s_header_value_lws"
        /\ d.state \notin ValueEnds \cup {"s_header_value"} /\ d.flags = c.flags
    BY <1>5 DEF FieldGoes, Onto, Same, ValueEnds, Starts
  <2> QED BY <2>1, FlagsPast
<1>6. CASE c.state \in Blanked /\ Moved(c, d, Blanked)
  <2>1. /\ c.state \notin Starts \cup {"s_dead"} /\ c.state # "s_header_value_lws"
        /\ d.state \notin ValueEnds \cup {"s_header_value"} /\ d.flags = c.flags
    BY <1>6 DEF Moved, Onto, ValueEnds, Starts, Blanked
  <2> QED BY <2>1, FlagsPast
<1>7. CASE c.state = "s_header_value_discard_ws" /\ ch \notin Blanks \cup Ends /\ ValueBegins(c, ch, d)
  BY <1>7, FlagsBegin
<1>8. CASE c.state = "s_header_value_lws" /\ ch \in Blanks /\ ValueBegins(c, ch, d)
  BY <1>8, FlagsBegin
<1>9. CASE c.state \in {"s_header_value_discard_lws", "s_header_value_lws"} /\ LineBegins(c, ch, d)
  <2>1. PICK b : Lined(c, b) /\ FieldStarts(b, ch, d)
    BY <1>9 DEF LineBegins
  <2>2. c.state \notin Starts \cup {"s_dead"}
    BY <1>9 DEF Starts
  <2>3. b.flags = Due(c)
    BY <1>9, <2>1, DueFlagged DEF Lined, Onto
  <2> QED BY <2>1, <2>2, <2>3, FlagsAtLine
<1>10. CASE c.state = "s_header_value" /\ ValueGoes(c, ch, d)
  BY <1>10, FlagsInValue
<1>11. CASE c.state = "s_header_almost_done" /\ Moved(c, d, {"s_header_value_lws"})
  <2>1. d.state \in ValueEnds /\ d.flags = c.flags
    BY <1>11 DEF Moved, Onto, ValueEnds
  <2> QED BY <1>11, <2>1, FlagsWait
<1>12. CASE c.state = "s_headers_almost_done" /\ Finish(c, c.flags, d)
  <2>1. c.state \notin Starts \cup {"s_dead"} /\ Due(c) = c.flags
    BY <1>12, DueIs DEF Starts
  <2> QED BY <1>12, <2>1, FlagsAtLine DEF FieldStarts
<1>13. CASE c.state \in ChunkStates /\ Chunking(c, ch, d)
  <2>1. c.state \notin Starts \cup {"s_dead"} /\ c.state # "s_header_value_lws"
    BY <1>13, ChunkStatesAre DEF Starts
  <2>2. /\ d.state \notin ValueEnds \cup {"s_header_value"}
        /\ d.flags = c.flags \/ d.flags = c.flags \cup {"F_TRAILING"}
    BY <1>13 DEF Chunking, Onto, Moved, ValueEnds
  <2>3. \A f \in DOMAIN FlagListed : f \in d.flags <=> f \in c.flags
    BY <2>2, FlagsApart
  <2> QED BY <2>1, <2>2, <2>3, FlagsPast
<1>14. CASE c.state = "s_body_identity" /\ BodyGoes(c, d)
  <2>1. /\ c.state \notin Starts \cup {"s_dead"} /\ c.state # "s_header_value_lws"
        /\ d.flags = c.flags /\ d.state \notin ValueEnds \cup {"s_header_value"}
    BY <1>14 DEF BodyGoes, Onto, Over, start_state, ValueEnds, Starts
  <2> QED BY <2>1, FlagsPast
<1> QED BY <1>1, <1>2, <1>3, <1>4, <1>5, <1>6, <1>7, <1>8, <1>9, <1>10, <1>11, <1>12, <1>13, <1>14
        DEF Turn

-----------------------------------------------------------------------------
(* A connection that is read on *)

LEMMA ReadOn ==
  ASSUME NEW d, d.state \in Starts, Over(d)
  PROVE  http_should_keep_alive(d)
BY DEF Over, Starts

\* What the flags agree on with the peer.
LEMMA AgreedBy ==
  ASSUME NEW d, http_should_keep_alive(d), Fits(d), NEW n, Heard(d.flags, n),
         d.content_length # ULLONG_MAX \/ "F_CHUNKED" \in d.flags
           => n.declared # NoLength \/ (d.upgrade /\ "F_CHUNKED" \in d.flags)
  PROVE  Agreed(d, n)
<1>1. IF d.http_major > 0 /\ d.http_minor > 0 THEN "F_CONNECTION_CLOSE" \notin d.flags
      ELSE "F_CONNECTION_KEEP_ALIVE" \in d.flags
  BY DEF http_should_keep_alive
<1>2. ~http_message_needs_eof(d)
  BY DEF http_should_keep_alive
<1>3. d.http_major \in Nat /\ d.http_minor \in Nat /\ d.status_code \in Nat
  BY DEF Fits
<1>4. d.http_major > 0 /\ d.http_minor > 0 <=> d.http_major >= 1 /\ d.http_minor >= 1
  BY <1>3
<1>5. /\ "F_CONNECTION_CLOSE" \notin d.flags => <<"c", "lose">> \notin n.plain
      /\ "F_CONNECTION_KEEP_ALIVE" \in d.flags => <<"k", "eep-alive">> \in n.listed
      /\ "F_CHUNKED" \in d.flags => <<"c", "hunked">> \in n.listed
  BY FlagsListed DEF Heard
<1>6. d.type = "HTTP_RESPONSE" =>
        \/ n.declared # NoLength
        \/ d.upgrade /\ <<"c", "hunked">> \in n.listed
        \/ d.status_code \in 100 .. 199 \cup {204, 304}
  <2>1. d.status_code \div 100 = 1 => d.status_code \in 100 .. 199
    BY <1>3
  <2> QED BY <1>2, <1>5, <2>1 DEF http_message_needs_eof
<1> QED BY <1>1, <1>4, <1>5, <1>6 DEF Agreed

LEMMA AgreedFinish ==
  ASSUME NEW c, NEW h, FlagsRead(c, h), Told(c, h), Named(c, h), c.state \in HeadStates,
         c.state # "s_header_value", NEW ch, NEW d, Fits(d), NEW n, Recalls(c, h, ch, d, n),
         NEW b, b.content_length = c.content_length,
         "F_TRAILING" \in Due(c) <=> "F_TRAILING" \in c.flags, Finish(b, Due(c), d)
  PROVE  Agreed(d, n)
<1> SUFFICES ASSUME d.state \in Starts PROVE Agreed(d, n)
  BY DEF Agreed
<1>1. /\ c.state \notin Starts \cup {"s_dead"} /\ c.state \notin BodyStates
      /\ d.state \notin {"s_header_value", "s_chunk_size", "s_chunk_size_start", "s_body_identity",
                         "s_body_identity_eof"}
  BY StatesDiffer DEF Starts
<1>2. ReadsPast(c, h, n)
  BY <1>1, Passing
<1>3. d.flags = Due(c) /\ d.content_length = c.content_length
  BY DEF Finish
<1>4. Heard(d.flags, n)
  <2>1. ~InLine(d.state)
    BY DEF Starts, InLine
  <2> QED BY <1>1, <1>3, <2>1, HeardOver
<1>5. n.declared = h.declared /\ Promised(c.flags, c.content_length, h.declared)
  BY <1>1, <1>2 DEF Told, ReadsPast, BodyStates
<1>6. Over(d)
  BY <1>1 DEF Finish
<1>7. http_should_keep_alive(d)
  BY <1>6, ReadOn
<1>8. ASSUME d.content_length # ULLONG_MAX \/ "F_CHUNKED" \in d.flags
      PROVE  n.declared # NoLength \/ (d.upgrade /\ "F_CHUNKED" \in d.flags)
  <2>1. d.content_length \in Nat /\ ULLONG_MAX # 0 /\ 0 # NoLength
    BY HttpParserConstants, NoLengthIs DEF Fits
  <2>2. "F_TRAILING" \in d.flags \/ d.content_length = 0 \/ d.upgrade
    BY <1>1, <1>3, <1>8 DEF Finish
  <2>3. "F_TRAILING" \notin d.flags /\ d.content_length # ULLONG_MAX => n.declared = d.content_length
    BY <1>3, <1>5 DEF Promised
  <2>4. "F_TRAILING" \in d.flags => n.declared = 0
    BY <1>3, <1>5 DEF Promised
  <2> QED BY <1>8, <2>1, <2>2, <2>3, <2>4, NoLengthIs
<1> QED BY <1>4, <1>7, <1>8, AgreedBy

LEMMA AgreedField ==
  ASSUME NEW c, NEW h, FlagsRead(c, h), Told(c, h), Named(c, h), c.state \in HeadStates,
         c.state # "s_header_value", NEW ch, NEW d, Fits(d), NEW n, Recalls(c, h, ch, d, n),
         NEW b, b.content_length = c.content_length, b.flags = Due(c),
         "F_TRAILING" \in Due(c) <=> "F_TRAILING" \in c.flags, FieldStarts(b, ch, d)
  PROVE  Agreed(d, n)
<1>1. CASE Finish(b, b.flags, d)
  BY <1>1, AgreedFinish
<1>2. CASE ~Finish(b, b.flags, d)
  <2>1. d.state \notin Starts
    BY <1>2 DEF FieldStarts, Onto, Starts
  <2> QED BY <2>1 DEF Agreed
<1> QED BY <1>1, <1>2

LEMMA AgreedTurn ==
  ASSUME NEW c, NEW h, Agreed(c, h), FlagsRead(c, h), Told(c, h), Named(c, h), Fits(c),
         NEW ch, NEW d, Fits(d), NEW n, Recalls(c, h, ch, d, n), Turn(c, ch, d)
  PROVE  Agreed(d, n)
<1> SUFFICES ASSUME d.state \in Starts PROVE Agreed(d, n)
  BY DEF Agreed
<1>1. CASE c.state \in {"s_dead", "s_body_identity_eof"} /\ Moved(c, d, {c.state})
  BY <1>1 DEF Moved, Starts
<1>2. CASE c.state \in Starts /\ StartsAnew(c, d)
  <2>1. d.state = c.state /\ ~Begins(c, d)
    BY <1>2 DEF StartsAnew, Starts, Begins
  <2>2. /\ d.type = c.type /\ d.upgrade = c.upgrade /\ d.http_major = c.http_major
        /\ d.http_minor = c.http_minor /\ d.status_code = c.status_code
    BY <1>2 DEF StartsAnew, Same, Onto
  <2>3. /\ d.state # "s_header_value" /\ d.state # "s_chunk_size"
        /\ c.state # "s_header_value_lws" /\ c.state \notin {"s_body_identity", "s_chunk_data"}
    BY <1>2, <2>1 DEF Starts
  <2>4. ReadsPast(c, h, n) /\ Lists(c, h, d, n)
    BY Zenon, <2>1, <2>3 DEF Recalls
  <2>6. n.listed = h.listed /\ n.plain = h.plain /\ n.declared = h.declared
    BY <2>3, <2>4 DEF Lists, LastOf, ReadsPast
  <2>5. n.done <=> h.done
    BY <1>2, <2>1 DEF Recalls, Completes
  <2> QED BY <1>2, <2>2, <2>5, <2>6 DEF Agreed
<1>3. CASE c.state \in Leads /\ Leading(c, d)
  BY <1>3, UrlStatesAre, LineStatesAre DEF Leading, Leads, Starts
<1>4. CASE c.state = "s_header_field_start" /\ FieldStarts(c, ch, d)
  <2>1. c.state \in HeadStates /\ c.state # "s_header_value" /\ Due(c) = c.flags
    BY <1>4, DueIs, HeaderStatesAre
  <2> QED BY <1>4, <2>1, AgreedField
<1>5. CASE c.state = "s_header_field" /\ FieldGoes(c, ch, d)
  BY <1>5 DEF FieldGoes, Onto, Starts
<1>6. CASE c.state \in Blanked /\ Moved(c, d, Blanked)
  BY <1>6 DEF Moved, Starts, Blanked
<1>7. CASE ValueBegins(c, ch, d)
  BY <1>7 DEF ValueBegins, Onto, Starts
<1>8. CASE c.state \in {"s_header_value_discard_lws", "s_header_value_lws"} /\ LineBegins(c, ch, d)
  <2>1. PICK b : Lined(c, b) /\ FieldStarts(b, ch, d)
    BY <1>8 DEF LineBegins
  <2>2. c.state \in HeadStates /\ c.state # "s_header_value"
    BY <1>8, HeaderStatesAre
  <2>3. b.flags = Flagged(c) /\ b.content_length = c.content_length
    BY <2>1 DEF Lined, Onto
  <2>4. Due(c) = Flagged(c)
    BY <1>8, DueFlagged
  <2>5. "F_TRAILING" \in Due(c) <=> "F_TRAILING" \in c.flags
    BY <2>4, FlagKinds
  <2> QED BY <2>1, <2>2, <2>3, <2>4, <2>5, AgreedField
<1>9. CASE c.state = "s_header_value" /\ ValueGoes(c, ch, d)
  BY <1>9 DEF ValueGoes, Moved, Onto, ValueEnds, Starts
<1>10. CASE c.state = "s_header_almost_done" /\ Moved(c, d, {"s_header_value_lws"})
  BY <1>10 DEF Moved, Starts
<1>11. CASE c.state = "s_headers_almost_done" /\ Finish(c, c.flags, d)
  <2>1. c.state \in HeadStates /\ c.state # "s_header_value" /\ Due(c) = c.flags
    BY <1>11, DueIs, HeaderStatesAre
  <2> QED BY <1>11, <2>1, AgreedFinish
<1>12. CASE c.state \in ChunkStates /\ Chunking(c, ch, d)
  BY <1>12 DEF Chunking, Onto, Moved, Starts
<1>13. CASE c.state = "s_body_identity" /\ BodyGoes(c, d)
  <2>1. d.flags = c.flags /\ Over(d)
    BY <1>13 DEF BodyGoes, Onto, Starts
  <2>2. /\ c.state \notin Starts \cup {"s_dead"} /\ c.state \notin Starts /\ c.state # "s_header_value"
        /\ d.state # "s_header_value" /\ d.state # "s_chunk_size" /\ ~InLine(d.state)
    BY <1>13 DEF Starts, InLine
  <2>3. ReadsPast(c, h, n)
    BY <2>2, Passing
  <2>4. Heard(d.flags, n)
    <3>1. d.flags = Due(c)
      BY <1>13, <2>1, DueIs
    <3> QED BY <2>2, <3>1, HeardOver
  <2>5. n.declared # NoLength
    <3>1. n.declared = h.declared /\ c.content_length + h.taken = h.declared
          /\ c.content_length \in Nat /\ h.taken \in Nat
      BY <1>13, <2>3 DEF ReadsPast, Told, Fits
    <3> QED BY <3>1, NoLengthIs
  <2> QED BY <2>1, <2>4, <2>5, ReadOn, AgreedBy
<1> QED BY <1>1, <1>2, <1>3, <1>4, <1>5, <1>6, <1>7, <1>8, <1>9, <1>10, <1>11, <1>12, <1>13
        DEF Turn

-----------------------------------------------------------------------------
(* What a parser has read of a message is what the message says *)

LEMMA FitCore ==
  ASSUME NEW q, Shape(q), Sane(q)
  PROVE  Fits(Core(q))
<1>1. /\ q.state \in States /\ q.content_length \in 0 .. ULLONG_MAX
      /\ q.http_major \in Nat /\ q.http_minor \in Nat /\ q.status_code \in Nat
  <2>1. q.state \in States
    BY DEF Sane
  <2>2. /\ q.content_length \in 0 .. ULLONG_MAX
        /\ q.http_major \in 0 .. MaxVersion /\ q.http_minor \in 0 .. MaxVersion
        /\ q.status_code \in 0 .. 999
    BY DEF Shape
  <2>3. /\ q.http_major \in Nat /\ q.http_minor \in Nat /\ q.status_code \in Nat
    BY SMTT(30), <2>2, HttpParserConstants
  <2> QED BY <2>1, <2>2, <2>3
<1> QED BY <1>1, CoreIs DEF Fits

LEMMA RecordedRead ==
  ASSUME NEW q, NEW h, Kept(q, h), ~Failed(q), Recorded(Core(q), h), NEW ch,
         NEW r, r = Feed(q, ch), ~Failed(r), NEW n, n = After(h, q, ch, r)
  PROVE  Recorded(Core(r), n)
<1>1. Fit(q) /\ History(h)
  BY DEF Kept, Fit
<1>2. Turn(Core(q), ch, Core(r))
  BY <1>1, Turned
<1>4. Recalls(Core(q), h, ch, Core(r), n)
  BY <1>1, Recalling, RecallsCore
<1>5. Shape(r) /\ Sane(r)
  BY <1>1, Feeding
<1>6. PICK c, d : c = Core(q) /\ d = Core(r)
  OBVIOUS
<1>7. Fits(c) /\ Fits(d)
  BY <1>1, <1>5, <1>6, FitCore DEF Fit
<1>8. Named(c, h) /\ Told(c, h) /\ FlagsRead(c, h) /\ Agreed(c, h)
  BY <1>6 DEF Recorded
<1>9. Turn(c, ch, d) /\ Recalls(c, h, ch, d, n)
  BY <1>2, <1>4, <1>6
<1>10. Named(d, n)
  BY <1>8, <1>9, NamedTurn
<1>11. Told(d, n)
  BY <1>7, <1>8, <1>9, ToldTurn
<1>12. FlagsRead(d, n)
  BY <1>8, <1>9, FlagsTurn
<1>13. Agreed(d, n)
  BY <1>7, <1>8, <1>9, AgreedTurn
<1> QED BY <1>6, <1>10, <1>11, <1>12, <1>13 DEF Recorded

\* Between two calls nothing is read.
LEMMA RecordedCall ==
  ASSUME NEW q, NEW h, Kept(q, h), ~Failed(q), NEW r, r = NextExecute(q), ~Failed(r)
  PROVE  Core(r) = Core(q)
<1>1. Fit(q) /\ Unread(q)
  BY DEF Kept, Fit
<1>2. But(q, r, {"nread", "run", "marks", "owed"})
  BY <1>1, Calling
<1>3. {"nread", "run", "marks", "owed"} \in SUBSET Outside
  BY DEF Outside
<1> QED BY <1>2, <1>3, ButAlike, AlikeCores

\* A body that the end of the connection ends.
LEMMA RecordedEof ==
  ASSUME NEW c, NEW h, Recorded(c, h), DOMAIN h = Remembered, NEW n,
         n = [h EXCEPT !.done = @ \/ c.state = "s_body_identity_eof"]
  PROVE  Recorded(c, n)
<1>1. /\ n.name = h.name /\ n.el = h.el /\ n.listed = h.listed /\ n.odd = h.odd
      /\ n.plain = h.plain /\ n.declared = h.declared /\ n.taken = h.taken
      /\ n.done = (h.done \/ c.state = "s_body_identity_eof")
  BY DEF Remembered
<1>2. n.done <=> h.done \/ c.state = "s_body_identity_eof"
  BY Zenon, <1>1
<1>3. Named(c, n)
  BY <1>1 DEF Recorded, Named
<1>4. Told(c, n)
  BY <1>1, <1>2 DEF Recorded, Told
<1>5. FlagsRead(c, n)
  BY <1>1 DEF Recorded, FlagsRead, Heard
<1>6. Agreed(c, n)
  BY <1>1, <1>2 DEF Recorded, Agreed, Starts
<1> QED BY <1>3, <1>4, <1>5, <1>6 DEF Recorded

LEMMA RecordedFirst == ASSUME Init PROVE RInv
<1>1. PICK type \in Types : p = http_parser_init(type)
  BY DEF Init
<1>2. g = NoHistory
  BY DEF Init
<1>3. Core(p).state \in Starts
  BY <1>1, CoreIs DEF http_parser_init, start_state, Starts
<1>4. /\ g.el = <<>> /\ g.declared = NoLength /\ g.taken = 0 /\ ~g.done
  BY <1>2 DEF NoHistory, NoLength
<1>5. Named(Core(p), g)
  BY <1>3, <1>4, NamedElsewhere DEF Elsewhere
<1>6. Told(Core(p), g)
  BY <1>3, <1>4, StatesDiffer, NoLengthIs DEF Told, Starts, SizeStates
<1>7. FlagsRead(Core(p), g)
  BY <1>3 DEF FlagsRead
<1>8. Agreed(Core(p), g)
  BY <1>4 DEF Agreed
<1> QED BY <1>5, <1>6, <1>7, <1>8 DEF RInv, Recorded

LEMMA RecordedByRead == ASSUME IInv, RInv, NEW ch, Read(ch) PROVE RInv'
<1>1. Kept(p, g) /\ ~Failed(p) /\ p' = Feed(p, ch) /\ g' = After(g, p, ch, p')
  BY DEF IInv, Read, Stopped
<1>2. PICK r, n : r = p' /\ n = g'
  OBVIOUS
<1>3. ~Failed(r) => Recorded(Core(r), n)
  BY <1>1, <1>2, RecordedRead DEF RInv
<1> QED BY <1>2, <1>3 DEF RInv

LEMMA RecordedByCall == ASSUME IInv, RInv, NextCall PROVE RInv'
<1>1. Kept(p, g) /\ ~Failed(p) /\ p' = NextExecute(p)
      /\ g' = IF Failed(p') THEN NoHistory ELSE g
  BY DEF IInv, NextCall, Stopped
<1>2. PICK r, n : r = p' /\ n = g'
  OBVIOUS
<1>3. ~Failed(r) => Recorded(Core(r), n)
  BY <1>1, <1>2, RecordedCall DEF RInv
<1> QED BY <1>2, <1>3 DEF RInv

LEMMA RecordedByEof == ASSUME IInv, RInv, Eof PROVE RInv'
<1>1. Kept(p, g) /\ ~Failed(p)
  BY DEF IInv, Eof, Stopped
<1>2. PICK r : r = NextExecute(p)
  OBVIOUS
<1>3. PICK e, n : e = p' /\ n = g'
  OBVIOUS
<1>4. /\ e = IF Failed(r) THEN r ELSE AtEof(r)
      /\ n = IF Failed(e) THEN NoHistory
             ELSE [g EXCEPT !.done = @ \/ p.state = "s_body_identity_eof"]
  BY <1>2, <1>3 DEF Eof
<1>5. ASSUME ~Failed(e) PROVE Recorded(Core(e), n)
  <2>1. ~Failed(r) /\ e = r
    BY <1>4, <1>5, FailIsFailed DEF AtEof
  <2>2. Core(e) = Core(p)
    BY <1>1, <1>2, <2>1, RecordedCall
  <2>3. n = [g EXCEPT !.done = @ \/ Core(p).state = "s_body_identity_eof"]
    BY <1>4, <1>5, CoreIs
  <2>4. Recorded(Core(p), n)
    BY <1>1, <2>3, RecordedEof DEF RInv, Kept, History
  <2> QED BY <2>2, <2>4
<1> QED BY <1>3, <1>5 DEF RInv

\* What a parser has read of names, lengths, lists and messages is what the history, which
\* knows lines and lists only, has of them: the inductive invariant of the three theorems
\* below (http_parser.c:1300-2044).
THEOREM Remembrance == Spec => []RInv
<1>1. Init => RInv
  BY RecordedFirst
<1>2. IInv /\ RInv /\ [Next]_vars => RInv'
  <2> SUFFICES ASSUME IInv, RInv, [Next]_vars PROVE RInv'
    OBVIOUS
  <2>1. CASE \E ch \in Offered(p) : Read(ch)
    BY <2>1, RecordedByRead
  <2>2. CASE NextCall
    BY <2>2, RecordedByCall
  <2>3. CASE Eof
    BY <2>3, RecordedByEof
  <2>4. CASE UNCHANGED vars
    BY <2>4 DEF vars, RInv
  <2> QED BY <2>1, <2>2, <2>3, <2>4 DEF Next
<1> QED BY <1>1, <1>2, Invariance, PTL DEF Spec

\* LengthIsExact: whatever the text, wherever it is cut and however large the largest number
\* is, a length is what its digits say, never what is left of an overflow, and a body ends
\* where its length says (http_parser.c:1588-1593, 1963-1967).
THEOREM Exact == Spec => []LengthIsExact
<1>1. RInv => LengthIsExact
  <2> SUFFICES ASSUME RInv, ~Failed(p) PROVE LengthIsExact
    BY DEF LengthIsExact
  <2>1. Told(Core(p), g)
    BY DEF RInv, Recorded
  <2>2. "s_headers_almost_done" \in HeadStates
    BY HeaderStatesAre
  <2>3. p.state = "s_headers_almost_done" /\ g.declared # -1 /\ "F_TRAILING" \notin p.flags
          => p.content_length = g.declared
    BY <2>1, <2>2, CoreIs, NoLengthIs DEF Told, Promised
  <2>4. g.done /\ ~p.upgrade => g.declared \in {-1, g.taken}
    BY <2>1, CoreIs, NoLengthIs DEF Told
  <2>5. /\ p.state \in {"s_body_identity", "s_chunk_data"} => p.content_length + g.taken = g.declared
        /\ p.state = "s_chunk_data_almost_done" => g.taken = g.declared
    BY <2>1, CoreIs DEF Told
  <2> QED BY <2>3, <2>4, <2>5 DEF LengthIsExact
<1> QED BY <1>1, Remembrance, PTL

\* FlagsAsListed: a flag is set for nothing that is not listed, and for all that is listed
\* where the parser still follows the list, whatever the headers and in whatever order; a
\* list with a tab, a new line, an empty element or the mere beginning of a known one is
\* followed no further (http_parser.c:1590-1760).
THEOREM AsListed == Spec => []FlagsAsListed
<1>1. RInv => FlagsAsListed
  <2> SUFFICES ASSUME RInv, ~Failed(p),
                      p.state \in {"s_header_field", "s_headers_almost_done"} \cup BodyStates
               PROVE  \A f \in DOMAIN FlagListed :
                        /\ f \in p.flags => FlagListed[f] \in g.listed
                        /\ FlagListed[f] \in g.plain => f \in p.flags
    BY Zenon DEF FlagsAsListed
  <2>1. FlagsRead(Core(p), g)
    BY DEF RInv, Recorded
  <2>2. p.state \notin Starts \cup {"s_dead"}
    BY DEF BodyStates, Starts
  <2>3. Heard(p.flags, g)
    BY <2>1, <2>2, CoreIs DEF FlagsRead
  <2> QED BY <2>3 DEF Heard
<1> QED BY <1>1, Remembrance, PTL

\* ReuseIsAgreed: a connection is read on only where both sides see the end of the message,
\* with HTTP/1.0 only if keep-alive was listed and with HTTP/1.1 only if no list has a close
\* where the parser still follows it (http_parser.c:441-453, 2102-2118); where the parser
\* has given up on a list, a close in it is not seen and the code reads on.
THEOREM Agreement == Spec => []ReuseIsAgreed
<1>1. RInv => ReuseIsAgreed
  <2> SUFFICES ASSUME RInv, ~Failed(p), g.done, p.state \in Starts
               PROVE  ReuseIsAgreed
    BY DEF ReuseIsAgreed
  <2>1. Agreed(Core(p), g)
    BY DEF RInv, Recorded
  <2> QED BY <2>1, CoreIs, NoLengthIs DEF Agreed, ReuseIsAgreed
<1> QED BY <1>1, Remembrance, PTL
=============================================================================
