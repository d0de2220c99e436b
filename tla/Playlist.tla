------------------------------ MODULE Playlist ------------------------------
(***************************************************************************)
(* HlsHandler::ParseM3u8 (hls_handler.cpp:104-175) over the chain of blocks    *)
(* that holds an answer.  It walks the text with strchr, which knows nothing    *)
(* of the Size of a block: behind the text of a block it finds the rest of the   *)
(* block, which Free has cleared or zmalloc has not (mem_pool.cpp:70,             *)
(* mem_pool.h:20-24), or the heap behind a block that is full.  It goes on with   *)
(* the next block only from a newline that is the last symbol of this one, or     *)
(* when it meets a NUL first.                                                  *)
(*                                                                           *)
(* A text is a sequence of symbols: a tag, a piece of a URI, or the end of a     *)
(* line.  The header of the answer, before "#EXTM3U", is left out.             *)
(***************************************************************************)
EXTENDS Integers, Sequences, FiniteSets, SequencesExt

CONSTANTS
  Chains,   \* the answers: sequences of the texts of blocks
  Remains   \* what may lie behind the text of a block, up to a NUL

Tags == {"#EXTM3U", "#EXTINF", "#EXT-X-ENDLIST", "#EXT"}
Ends == {"\r", "\n"}

ASSUME PlaylistAssumption ==
  /\ Chains \subseteq Seq(Seq(STRING)) /\ Remains \subseteq Seq(STRING)
  /\ \A chain \in Chains : chain # <<>> /\ chain[1] # <<>> /\ chain[1][1] = "#EXTM3U"
  /\ \A rest \in Remains : rest # <<>> /\ \A i \in DOMAIN rest : (rest[i] = "NUL") = (i = Len(rest))

VARIABLES
  chain,      \* the answer
  rest,       \* what lies behind each of its blocks
  block,      \* block
  pos,        \* pos, counted from 1
  sources,    \* m3u8Info.Sources: whether an entry has a duration, and its Uri
  endlist,    \* m3u8Info.IsEndlist
  parsing     \* in the loop

playlist == <<chain, rest, block, pos, sources, endlist, parsing>>

PlaylistInit ==
  /\ chain \in Chains
  /\ rest \in Remains
  /\ block = 1
  /\ pos = 1
  /\ sources = <<>>
  /\ endlist = FALSE
  /\ parsing = TRUE
-----------------------------------------------------------------------------
Memory(b) == chain[b] \o rest
None == 0

\* strchr(p, '\n') in block b.
NextNewline(b, p) ==
  LET m == Memory(b)
      at == {i \in p .. Len(m) : m[i] = "\n" /\ \A j \in p .. i : m[j] # "NUL"}
  IN  IF at = {} THEN None ELSE CHOOSE i \in at : \A j \in at : i <= j

\* The line from p on: up to the newline, or to the NUL.
LineFrom(b, p) ==
  LET n == NextNewline(b, p)
  IN  SubSeq(Memory(b), p, (IF n = None THEN Len(Memory(b)) ELSE n) - 1)

\* STR::Trim(line, " \r\n").
Trim(line) ==
  LET kept == {i \in DOMAIN line : line[i] \notin Ends}
  IN  IF kept = {} THEN <<>>
      ELSE SubSeq(line, CHOOSE i \in kept : \A j \in kept : i <= j,
                        CHOOSE i \in kept : \A j \in kept : j <= i)

\* Lines 170-172: line ends are passed over, and a NUL ends the loop.
StepTo(b, p) ==
  LET m == Memory(b)
      to == CHOOSE i \in p .. Len(m) : m[i] \notin Ends /\ \A j \in p .. (i - 1) : m[j] \in Ends
  IN  block' = b /\ pos' = to /\ parsing' = (m[to] # "NUL")

Stop == parsing' = FALSE /\ UNCHANGED <<block, pos>>

\* Lines 159-172, from the newline found last.
Advance(next) ==
  IF next # None /\ next # Len(chain[block]) THEN StepTo(block, next)
  ELSE IF block < Len(chain) THEN StepTo(block + 1, 1) ELSE Stop

At(tags) == parsing /\ Memory(block)[pos] \in tags
Push(timed, uri) == sources' = Append(sources, [timed |-> timed, uri |-> uri])

\* A line that is no tag (lines 134-139).
UriLine ==
  /\ parsing /\ Memory(block)[pos] \notin Tags
  /\ Push(FALSE, Trim(LineFrom(block, pos)))
  /\ Advance(NextNewline(block, pos))
  /\ UNCHANGED <<chain, rest, endlist>>

\* Mutant: the line of the entry is read again as one of its own.
ExtInfTwice ==
  LET next == NextNewline(block, pos)
  IN  /\ At({"#EXTINF"})
      /\ IF next = None \/ Memory(block)[next + 1] = "NUL"
         THEN Stop /\ UNCHANGED sources
         ELSE /\ Push(TRUE, LineFrom(block, next + 1))
              /\ Advance(next)
      /\ UNCHANGED <<chain, rest, endlist>>

\* An entry with a duration: the line after the tag, whatever it is, is its Uri, if
\* a newline ends it (lines 140-154).
ExtInf ==
  LET next == NextNewline(block, pos)
      after == NextNewline(block, next + 1)
  IN  /\ At({"#EXTINF"})
      /\ IF next = None \/ Memory(block)[next + 1] = "NUL"
         THEN Stop /\ UNCHANGED sources
         ELSE /\ IF after = None THEN UNCHANGED sources
                 ELSE Push(TRUE, LineFrom(block, next + 1))
              /\ Advance(after)
      /\ UNCHANGED <<chain, rest, endlist>>

\* Lines 155-158, and the tags that mean nothing.
OtherTag ==
  /\ At(Tags \ {"#EXTINF"})
  /\ endlist' = (endlist \/ At({"#EXT-X-ENDLIST"}))
  /\ Advance(NextNewline(block, pos))
  /\ UNCHANGED <<chain, rest, sources>>

ParseM3u8 == UriLine \/ ExtInf \/ OtherTag
-----------------------------------------------------------------------------
PlaylistTypeOK ==
  /\ block \in DOMAIN chain /\ pos \in DOMAIN Memory(block)
  /\ endlist \in BOOLEAN /\ parsing \in BOOLEAN

Text == FlattenSeq(chain)
Starts(t) == {i \in DOMAIN t : i = 1 \/ t[i - 1] = "\n"}
LineAt(t, i) ==
  SubSeq(t, i, (CHOOSE j \in i .. Len(t) : t[j] = "\n" /\ \A k \in i .. (j - 1) : t[k] # "\n") - 1)

\* The last symbol of a block is the newline of a line that the next block does not
\* belong to, and the only one there.
EndsALine(t) ==
  LET n == Len(t)
      line == IF n > 1 /\ t[n - 1] = "\r" THEN n - 2 ELSE n - 1
  IN  /\ t[n] = "\n"
      /\ line > 0 /\ t[line] \notin Ends
      /\ t[CHOOSE i \in Starts(t) : \A j \in Starts(t) : j <= i] # "#EXTINF"
\* A carriage return belongs to the newline behind it.
Plain(t) ==
  \A i \in DOMAIN t : t[i] # "NUL" /\ (t[i] = "\r" => i < Len(t) /\ t[i + 1] = "\n")
Divided == \A b \in DOMAIN chain : Plain(chain[b]) /\ EndsALine(chain[b])

\* Every duration is followed by a Uri.
Paired ==
  \A i \in Starts(Text) : Text[i] = "#EXTINF" =>
    \E j \in Starts(Text) : j > i /\ Text[j] \notin Tags \cup Ends
                            /\ \A k \in Starts(Text) : ~(i < k /\ k < j)

UriLines == {i \in Starts(Text) : Text[i] \notin Tags \cup Ends}
Timed(j) ==
  \E i \in Starts(Text) : i < j /\ Text[i] = "#EXTINF"
                          /\ \A k \in Starts(Text) : ~(i < k /\ k < j)

\* The entries are the lines of the playlist that are no tags, in their order and each
\* once, with a duration if the line before gives one, and ENDLIST is seen in whichever
\* line it stands: in one block or in several that end where lines end, with either kind
\* of line end.  (The code leaves a carriage return in the Uri of an entry with a
\* duration.)  Meanwhile the walk stays in the blocks: nothing that lies behind the text
\* of one is taken for a line.  Left out are blocks that end within a line (Divided) and
\* durations with no line of their own (Paired), which the code does not take apart
\* rightly.
EntriesWhole ==
  /\ PlaylistTypeOK
  /\ (Divided /\ parsing) => pos <= Len(chain[block])
  /\ (Divided /\ Paired /\ ~parsing) =>
       /\ Len(sources) = Cardinality(UriLines)
       /\ \A i \in UriLines :
            LET entry == sources[Cardinality({j \in UriLines : j <= i})]
            IN  entry.timed = Timed(i) /\ Trim(entry.uri) = Trim(LineAt(Text, i))
       /\ endlist = \E i \in Starts(Text) : Text[i] = "#EXT-X-ENDLIST"
=============================================================================
