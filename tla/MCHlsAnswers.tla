---------------------------- MODULE MCHlsAnswers ----------------------------
EXTENDS HlsAnswers, TLC

CONSTANTS t1, t2
SaversSymmetry == Permutations({t1, t2})

CONSTANT MaxLines

Uris == <<"u1", "u2", "u3", "u4", "u5">>
Line(n) == {<<"#EXTINF">>, <<"#EXT">>, <<"#EXT-X-ENDLIST">>, <<Uris[n], Uris[n]>>, <<>>}

\* Playlists of up to MaxLines lines with one kind of line end, which the last may
\* lack, in one block, in two or in three, the first cut anywhere and the second at the
\* end of a line.
Playlists ==
  UNION {{<<"#EXTM3U">> \o eol \o FlattenSeq([i \in 1 .. m |->
              lines[i] \o IF i = m /\ open THEN <<>> ELSE eol]) :
            eol \in {<<"\n">>, <<"\r", "\n">>}, open \in BOOLEAN,
            lines \in {f \in [1 .. m -> UNION {Line(n) : n \in 1 .. m}] : \A i \in 1 .. m : f[i] \in Line(i)}} :
          m \in 1 .. MaxLines}
Cut(t, b, c) ==
  SelectSeq(<<SubSeq(t, 1, b), SubSeq(t, b + 1, c), SubSeq(t, (IF b < c THEN c ELSE b) + 1, Len(t))>>,
            LAMBDA part : part # <<>>)
SomeChains ==
  UNION {{Cut(t, b, c) : b \in 1 .. Len(t), c \in {n \in 2 .. Len(t) : t[n] = "\n" \/ n = Len(t)}} :
         t \in Playlists}

SomeRemains == {<<"NUL">>, <<"\n", "NUL">>, <<"x", "NUL">>, <<"x", "\n", "NUL">>}

\* No body, one that ends in the first block, in the second and in the third.
SomeAnswers == {[head |-> 1, body |-> n] : n \in {0, 1, 3, 6}}
=============================================================================
