------------------------------ MODULE Requests ------------------------------
(***************************************************************************)
(* The texts that become requests: the URL of a task, which SendGetReq takes    *)
(* apart and makes a request of (http_client.cpp:80-101, http_helper.cpp:13-36), *)
(* and the entries of a playlist, which HandleM3u8Resp makes into URLs          *)
(* (hls_handler.cpp:66-84).  A text grows by a symbol in each step, as          *)
(* http_parser_parse_url reads it, and may end anywhere.                        *)
(***************************************************************************)
EXTENDS HttpUrl

CONSTANTS
  MaxRequest,   \* symbols a request's buffer has room for: HEADER_MAX_LENGTH - 1
  BeforeUri,    \* symbols of a request before its Uri: those of "GET "
  AfterUri,     \* symbols after its Uri besides the host: 59
  Addresses,    \* how long the text of a host's address may be: 7 to 15
  UrlSymbols,   \* bound: the symbols texts are made of
  UrlStarts,       \* bound: what URLs may begin with
  Bases,        \* bound: requests that playlists are answers to
  MaxTail       \* bound: symbols a text grows by

\* A request is what ToUri gives, which begins with the path of a URL.
ASSUME RequestsConstants ==
  /\ MaxRequest \in Nat /\ MaxRequest < Word /\ BeforeUri \in Nat /\ BeforeUri < MaxRequest
  /\ AfterUri \in Nat \ {0} /\ Addresses \subseteq Nat
  /\ UrlSymbols \subseteq UrlAlphabet
  /\ UrlStarts \cup Bases \subseteq Seq(UrlAlphabet)
  /\ \A uri \in Bases : uri # <<>> /\ Head(uri) = "/" /\ ~Contains(uri, "CR")
  /\ MaxTail \in Nat

VARIABLES
  text,    \* what has been read
  scan,    \* the loop of http_parser_parse_url over it
  base,    \* for an entry, the request its playlist answers; <<>> for a URL
  grown    \* symbols it has grown by

requests == <<text, scan, base, grown>>

RequestsInit ==
  /\ \/ base = <<>> /\ text \in UrlStarts
     \/ base \in Bases /\ text = <<>>
  /\ scan = ScanUrl(text)
  /\ grown = 0

\* One more turn of the loop: http_parser_parse_url ends it at a symbol that makes the
\* URL dead.  Of an entry nothing is known before it is whole.
Read(ch) ==
  /\ grown < MaxTail
  /\ base = <<>> => scan.s # "s_dead"
  /\ text' = Append(text, ch)
  /\ scan' = UrlStep(scan, Len(text) + 1, ch)
  /\ grown' = grown + 1
  /\ UNCHANGED base

\* The request snprintf builds for uri and a host of so many symbols: the Uri that
\* ParseMsg finds in it, cut where the buffer ends, and whether it is whole.
BuildGetReq(uri, host) ==
  [Uri |-> IF Len(uri) <= MaxRequest - BeforeUri THEN uri
           ELSE SubSeq(uri, 1, MaxRequest - BeforeUri),
   whole |-> BeforeUri + Len(uri) + AfterUri + host <= MaxRequest]

\* What OnWrite sends for a URL: SendGetReq builds a request, SendMsgAsync takes its Uri
\* and OnWrite builds another of it, for the address of the host.
Sent(url, address) == BuildGetReq(BuildGetReq(ToUri(url), Len(url.Host)).Uri, address)

RequestsNext == \E ch \in UrlSymbols : Read(ch)

RequestsSpec == RequestsInit /\ [][RequestsNext]_requests
-----------------------------------------------------------------------------
Url == {"UF_SCHEMA", "UF_HOST"}

\* Every variable has its type.
RequestsTypeOK ==
  /\ \A i \in DOMAIN text : text[i] \in UrlAlphabet
  /\ scan.s \in UrlStates \cup {"s_dead"} /\ scan.field_set \subseteq Fields
  /\ grown \in 0 .. MaxTail

Delimiters == {":", "/", "?", "#", "@", "[", "]"}
FieldOrder == <<"UF_SCHEMA", "UF_USERINFO", "UF_HOST", "UF_PORT", "UF_PATH", "UF_QUERY",
                "UF_FRAGMENT">>

Extent(u, f) == IF f \in u.field_set THEN u.off[f] .. u.off[f] + u.len[f] - 1 ELSE {}

\* The fields of a URL that is accepted follow each other in it, none is empty, none
\* shares a symbol with another, and what is in none of them is a delimiter: nothing of
\* a user, a host, a port or a path is read twice, lost or taken for another
\* (http_parser_parse_url, http_parse_host).  Longer texts have places that are no
\* uint16_t.
FieldsTile ==
  /\ RequestsTypeOK
  /\ Len(text) < Word =>
     \A u \in {v \in ParsedUrls(text, scan) : Url \subseteq v.field_set} :
       /\ \A f \in u.field_set : u.len[f] > 0 /\ Extent(u, f) \subseteq DOMAIN text
       /\ \A i, j \in DOMAIN FieldOrder : i < j =>
            \A p \in Extent(u, FieldOrder[i]), q \in Extent(u, FieldOrder[j]) : p < q
       /\ \A p \in DOMAIN text :
            (\A f \in Fields : p \notin Extent(u, f)) => text[p] \in Delimiters

\* What the parser makes of the request line's URL, which ends with a space.
UriEnds == {"s_req_path", "s_req_query_string_start", "s_req_query_string",
            "s_req_fragment_start", "s_req_fragment"}

ReadsAs(uri, path, args, fragment) ==
  LET v == ScanUrl(uri)
  IN  /\ v.s \in UriEnds
      /\ Field(uri, v, "UF_PATH") = path
      /\ Field(uri, v, "UF_QUERY") = args
      /\ Field(uri, v, "UF_FRAGMENT") = fragment

\* The request kick2 writes for a URL, if it goes out whole, is one its own parser
\* reads, with the path, the arguments and the fragment of the URL: SendMsgAsync parses
\* it to learn the Uri that OnWrite sends (http_client.cpp:101, 307).  What does not
\* fit into the buffer is cut off, in either of the two requests that are built; no Uri
\* that was cut goes out in a request that looks whole.  And "host must be present if
\* there is a schema" (http_parser.c:2360): whatever http_parser_parse_url finds in a
\* place nobody has written, kick2 takes no URL that has no scheme or no host.
RequestIsRead ==
  Len(text) < Word =>
  \A url \in ParseUrl(text, scan) :
    /\ url.Scheme # <<>> /\ url.Host # <<>>
    /\ \A address \in Addresses : Sent(url, address).whole =>
         ReadsAs(Sent(url, address).Uri, url.Path, url.Args, url.Fragment)

QueryPart(uri) == {i \in DOMAIN uri : \E j \in 1 .. i : uri[j] = "?"}
Directory(uri) == SubSeq(uri, 1, CHOOSE n \in 0 .. Len(uri) :
                    /\ \A i \in (n + 1) .. Len(uri) : uri[i] # "/" \/ i \in QueryPart(uri)
                    /\ n > 0 => uri[n] = "/" /\ n \notin QueryPart(uri))

\* An entry of a playlist is asked for at the host and port the playlist came from: at
\* its own path, or in the directory of the playlist.  Left out are entries that are
\* URLs, entries that are not trimmed of a carriage return, which get no answer, and
\* playlists with a "/" in their arguments, which the code takes for a directory, and
\* URLs with places that are no uint16_t.
EntryResolves ==
  LET target == IF Head(text) = "/" THEN text ELSE Directory(base) \o text
      t == ScanUrl(target)
      asked == RequestUrl(text, base)
      urls == ParseUrl(asked, ScanUrl(asked))
  IN  (/\ base # <<>> /\ text # <<>>
       /\ ~HasScheme(text) /\ ~Contains(text, "CR")
       /\ \A i \in QueryPart(base) : base[i] # "/"
       /\ Len(asked) < Word)
      => /\ urls # {}
         /\ \A url \in urls :
              /\ url.Host = <<"1">> /\ url.Port = <<"1">>
              /\ ReadsAs(target, url.Path, url.Args, url.Fragment)
=============================================================================
