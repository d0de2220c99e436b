------------------------------ MODULE MCHlsTask -----------------------------
(* Playlists for the configurations of HlsTask. *)
EXTENDS HlsTask

Segment(d) == [for |-> "segment", dur |-> d]
Variant == [for |-> "variant", dur |-> 0]
Playlist(items, endlist) == [items |-> items, endlist |-> endlist]

\* Media playlists whose entries last longer than a timer, the playlist and a segment
\* of the timely run can be late in a row: of a live stream, its end, a recording.
MediaPlaylists ==
  {Playlist(<<Segment(7), Segment(8)>>, FALSE), Playlist(<<Segment(7)>>, FALSE),
   Playlist(<<Segment(8), Segment(7)>>, TRUE), Playlist(<<Segment(7)>>, TRUE)}

\* Anything: nothing at all, an end with no entry, a master playlist, segments
\* shorter than a second (whose duration is cut to 0) and longer ones.
AnyPlaylists ==
  {Playlist(<<>>, FALSE), Playlist(<<>>, TRUE), Playlist(<<Variant>>, FALSE),
   Playlist(<<Segment(0), Segment(2)>>, FALSE),
   Playlist(<<Segment(1), Segment(1)>>, TRUE)}
=============================================================================
