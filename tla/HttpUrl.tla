------------------------------ MODULE HttpUrl ------------------------------
(***************************************************************************)
(* URLs, from the text a user or a playlist gives to the request line that is  *)
(* sent: the URL automaton of the parser (http_parser.c:479-625), the parser   *)
(* of hosts (2151-2287), http_parser_parse_url (2289-2386), what kick2 makes   *)
(* of it (http_parser_ext.cpp:21-48, http.h:29-37) and the URL of a playlist's  *)
(* entry (hls_handler.cpp:67-84).                                              *)
(*                                                                           *)
(* A text is a sequence of symbols, each one character of a class the code      *)
(* tells apart.                                                                *)
(***************************************************************************)
EXTENDS Integers, Sequences, SequencesExt

CONSTANTS
  MaxPort,      \* 0xffff in the code
  Word          \* numbers a uint16_t has: 2^16

\* "c" is a letter (and a hexadecimal digit), "1" a digit, "%" any character of
\* user names that hosts do not have, "CR" any character URLs do not have.
UrlAlphabet == {"c", "1", ".", "%", ":", "/", "?", "#", "@", "[", "]", "*", "CR"}

ASSUME MaxPortAssumption == MaxPort \in Nat \ {0}
ASSUME WordAssumption == Word \in Nat /\ Word > 1

IS_ALPHA == {"c"}
IS_NUM == {"1"}
IS_HEX == {"c", "1"}
IS_HOST_CHAR == IS_ALPHA \cup IS_NUM \cup {"."}
IS_USERINFO_CHAR == IS_HOST_CHAR \cup {"%", ":", "*"}
IS_URL_CHAR == UrlAlphabet \ {"?", "#", "CR"}

\* What a table of arcs <<states, symbols, state>> makes of a state and a symbol.
Follow(arcs, s, ch, dead) ==
  LET taken == {arc \in arcs : s \in arc[1] /\ ch \in arc[2]}
  IN  IF taken = {} THEN dead ELSE (CHOOSE arc \in taken : TRUE)[3]
-----------------------------------------------------------------------------
(* parse_url_char *)

UrlArcs == {
  <<{"s_req_spaces_before_url"}, {"/", "*"}, "s_req_path">>,
  <<{"s_req_spaces_before_url", "s_req_schema"}, IS_ALPHA, "s_req_schema">>,
  <<{"s_req_schema"}, {":"}, "s_req_schema_slash">>,
  <<{"s_req_schema_slash"}, {"/"}, "s_req_schema_slash_slash">>,
  <<{"s_req_schema_slash_slash"}, {"/"}, "s_req_server_start">>,
  <<{"s_req_server_start", "s_req_server", "s_req_server_with_at"}, {"/"}, "s_req_path">>,
  <<{"s_req_server_start", "s_req_server", "s_req_server_with_at"}, {"?"},
    "s_req_query_string_start">>,
  <<{"s_req_server_start", "s_req_server"}, {"@"}, "s_req_server_with_at">>,
  <<{"s_req_server_start", "s_req_server", "s_req_server_with_at"},
    IS_USERINFO_CHAR \cup {"[", "]"}, "s_req_server">>,
  <<{"s_req_path"}, IS_URL_CHAR, "s_req_path">>,
  <<{"s_req_path"}, {"?"}, "s_req_query_string_start">>,
  <<{"s_req_path", "s_req_query_string_start", "s_req_query_string"}, {"#"},
    "s_req_fragment_start">>,
  <<{"s_req_query_string_start", "s_req_query_string"}, IS_URL_CHAR \cup {"?"},
    "s_req_query_string">>,
  <<{"s_req_fragment_start"}, {"#"}, "s_req_fragment_start">>,
  <<{"s_req_fragment_start"}, IS_URL_CHAR \cup {"?"}, "s_req_fragment">>,
  <<{"s_req_fragment"}, IS_URL_CHAR \cup {"?", "#"}, "s_req_fragment">>}

UrlStates == UNION {arc[1] : arc \in UrlArcs}

UrlTable == [s \in UrlStates |-> [ch \in UrlAlphabet |-> Follow(UrlArcs, s, ch, "s_dead")]]

parse_url_char(s, ch) ==
  IF s \in UrlStates /\ ch \in UrlAlphabet THEN UrlTable[s][ch] ELSE "s_dead"
-----------------------------------------------------------------------------
(* http_parser_parse_url: is_connect is 0 in all its calls *)

Fields == {"UF_SCHEMA", "UF_HOST", "UF_PORT", "UF_PATH", "UF_QUERY", "UF_FRAGMENT",
           "UF_USERINFO"}

\* The field a symbol belongs to; the states left out are those of delimiters.
FieldOf == [s_req_schema |-> "UF_SCHEMA", s_req_server |-> "UF_HOST",
            s_req_server_with_at |-> "UF_HOST", s_req_path |-> "UF_PATH",
            s_req_query_string |-> "UF_QUERY", s_req_fragment |-> "UF_FRAGMENT"]

NoFields == [f \in Fields |-> 0]

UrlStart == [s |-> "s_req_spaces_before_url", old_uf |-> "UF_MAX", found_at |-> FALSE,
             field_set |-> {}, off |-> NoFields, len |-> NoFields]

\* Where a field begins and how long it is are uint16_t (http_parser.h:269-272);
\* positions begin with 1.
Off(p) == 1 + ((p - 1) % Word)
OneMore(n) == (n + 1) % Word

\* The body of the loop, for the symbol at position p.
UrlStep(u, p, ch) ==
  LET s == parse_url_char(u.s, ch)
      v == [u EXCEPT !.s = s, !.found_at = @ \/ s = "s_req_server_with_at"]
  IN  IF s \notin DOMAIN FieldOf THEN v
      ELSE IF FieldOf[s] = u.old_uf THEN [v EXCEPT !.len[u.old_uf] = OneMore(@)]
      ELSE [v EXCEPT !.off[FieldOf[s]] = Off(p), !.len[FieldOf[s]] = 1,
                     !.field_set = @ \cup {FieldOf[s]}, !.old_uf = FieldOf[s]]

HostArcs == {
  <<{"s_http_userinfo_start", "s_http_userinfo"}, {"@"}, "s_http_host_start">>,
  <<{"s_http_userinfo_start", "s_http_userinfo"}, IS_USERINFO_CHAR, "s_http_userinfo">>,
  <<{"s_http_host_start"}, {"["}, "s_http_host_v6_start">>,
  <<{"s_http_host_start", "s_http_host"}, IS_HOST_CHAR, "s_http_host">>,
  <<{"s_http_host", "s_http_host_v6_end"}, {":"}, "s_http_host_port_start">>,
  <<{"s_http_host_v6"}, {"]"}, "s_http_host_v6_end">>,
  <<{"s_http_host_v6_start", "s_http_host_v6"}, IS_HEX \cup {":", "."}, "s_http_host_v6">>,
  <<{"s_http_host_port_start", "s_http_host_port"}, IS_NUM, "s_http_host_port">>}

http_parse_host_char(s, ch) == Follow(HostArcs, s, ch, "s_http_host_dead")

HostFieldOf == [s_http_host |-> "UF_HOST", s_http_host_v6 |-> "UF_HOST",
                s_http_host_port |-> "UF_PORT", s_http_userinfo |-> "UF_USERINFO"]

\* Mutant: the host begins where user and host begin.
HostStepNoOff(u, p, ch) ==
  LET s == http_parse_host_char(u.s, ch)
      f == HostFieldOf[s]
  IN  IF s \notin DOMAIN HostFieldOf THEN [u EXCEPT !.s = s]
      ELSE [u EXCEPT !.s = s, !.field_set = @ \cup {f},
                     !.off[f] = IF s # u.s /\ f # "UF_HOST" THEN Off(p) ELSE @,
                     !.len[f] = IF s # u.s /\ f # "UF_HOST" THEN 1 ELSE OneMore(@)]

\* The loop of http_parse_host: u.s is the state of the host.  The length of the
\* host was set to 0 before the loop, those of the others at their first symbol.
HostStep(u, p, ch) ==
  LET s == http_parse_host_char(u.s, ch)
      f == HostFieldOf[s]
  IN  IF s \notin DOMAIN HostFieldOf THEN [u EXCEPT !.s = s]
      ELSE [u EXCEPT !.s = s, !.field_set = @ \cup {f},
                     !.off[f] = IF s # u.s THEN Off(p) ELSE @,
                     !.len[f] = IF s # u.s /\ f # "UF_HOST" THEN 1 ELSE OneMore(@)]

http_parse_host(buf, u) ==
  LET from == u.off["UF_HOST"]
      start == [u EXCEPT !.len["UF_HOST"] = 0,
                  !.s = IF u.found_at THEN "s_http_userinfo_start" ELSE "s_http_host_start"]
      loop[n \in 0 .. u.len["UF_HOST"]] ==
        IF n = 0 THEN start ELSE HostStep(loop[n - 1], from + n - 1, buf[from + n - 1])
  IN  loop[u.len["UF_HOST"]]

\* "Make sure we don't end somewhere unexpected".
HostEnds == {"s_http_host", "s_http_host_v6_end", "s_http_host_port"}

Field(buf, u, f) ==
  IF f \in u.field_set THEN SubSeq(buf, u.off[f], u.off[f] + u.len[f] - 1) ELSE <<>>

\* strtoul reads digits, which are all "1", from the place of the port on.
PortOf(buf, u) ==
  LET from == u.off["UF_PORT"]
      digits == CHOOSE n \in 0 .. Len(buf) : \A i \in 0 .. n :
                  i < n <=> from + i \in DOMAIN buf /\ buf[from + i] \in IS_NUM
      v[n \in 0 .. digits] == IF n = 0 THEN 0 ELSE 10 * v[n - 1] + 1
  IN  IF "UF_PORT" \in u.field_set THEN v[digits] ELSE 0

\* What http_parser_parse_url may return for buf, u being what its loop made of it:
\* the outcomes it accepts, none if it must refuse.  A URL with a scheme and no host
\* makes http_parse_host read the place of the host, which kick2 has not set
\* (http_parser_ext.cpp:23): it may find any port and any user there, or refuse.
ParsedUrls(buf, u) ==
  LET h == http_parse_host(buf, u)
      Host == IF h.s \in HostEnds /\ PortOf(buf, h) <= MaxPort THEN {h} ELSE {}
      Junk == {[u EXCEPT !.field_set = @ \cup found] : found \in SUBSET {"UF_PORT", "UF_USERINFO"}}
  IN  IF u.s = "s_dead" THEN {}
      ELSE IF "UF_HOST" \in u.field_set THEN Host
      ELSE IF "UF_SCHEMA" \in u.field_set THEN Junk ELSE {u}
-----------------------------------------------------------------------------
(* HttpParser::ParseUrl, Url::ToUri *)

OrElse(text, default) == IF text = <<>> THEN default ELSE text

UrlOf(buf, u) ==
  [Scheme |-> Field(buf, u, "UF_SCHEMA"), UserInfo |-> Field(buf, u, "UF_USERINFO"),
   Host |-> Field(buf, u, "UF_HOST"), Port |-> OrElse(Field(buf, u, "UF_PORT"), <<"80">>),
   Path |-> IF "UF_PATH" \in u.field_set THEN Field(buf, u, "UF_PATH") ELSE <<"/">>,
   Args |-> Field(buf, u, "UF_QUERY"), Fragment |-> Field(buf, u, "UF_FRAGMENT")]

\* The URLs it may fill in: none where it returns -1.
ParseUrl(buf, u) ==
  {UrlOf(buf, v) : v \in {w \in ParsedUrls(buf, u) : {"UF_SCHEMA", "UF_HOST"} \subseteq w.field_set}}

\* Mutant: the arguments go where the fragment goes.
ToUriSwapped(url) ==
  url.Path \o (IF url.Fragment = <<>> THEN <<>> ELSE <<"#">> \o url.Fragment)
           \o (IF url.Args = <<>> THEN <<>> ELSE <<"?">> \o url.Args)

ToUri(url) ==
  url.Path \o (IF url.Args = <<>> THEN <<>> ELSE <<"?">> \o url.Args)
           \o (IF url.Fragment = <<>> THEN <<>> ELSE <<"#">> \o url.Fragment)

\* The loop of http_parser_parse_url over a whole text.
ScanUrl(buf) ==
  LET loop[p \in 0 .. Len(buf)] ==
        IF p = 0 THEN UrlStart ELSE UrlStep(loop[p - 1], p, buf[p])
  IN  loop[Len(buf)]
-----------------------------------------------------------------------------
(* HandleM3u8Resp: the URL of an entry of a playlist *)

\* The playlist came from this host, in answer to a request for uri.
Origin == <<"c", ":", "/", "/", "1", ":", "1">>

HasScheme(entry) == \E i \in 1 .. Len(entry) - 2 : SubSeq(entry, i, i + 2) = <<":", "/", "/">>

\* Mutant: the first "/" is looked for.
UpToFirstSlash(uri) ==
  LET slashes == {i \in DOMAIN uri : uri[i] = "/"}
  IN  IF slashes = {} THEN uri
      ELSE SubSeq(uri, 1, (CHOOSE i \in slashes : \A j \in slashes : i <= j) - 1)

\* STR::GetRKeyValue(uri, "", "/"): what comes before the last "/" (rfind), all of it
\* if there is none.
UpToLastSlash(uri) ==
  LET slashes == {i \in DOMAIN uri : uri[i] = "/"}
  IN  IF slashes = {} THEN uri
      ELSE SubSeq(uri, 1, (CHOOSE i \in slashes : \A j \in slashes : j <= i) - 1)

RequestUrl(entry, uri) ==
  IF HasScheme(entry) THEN entry
  ELSE IF entry[1] = "/" THEN Origin \o entry
  ELSE Origin \o UpToLastSlash(uri) \o <<"/">> \o entry
=============================================================================
