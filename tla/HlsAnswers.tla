----------------------------- MODULE HlsAnswers -----------------------------
(***************************************************************************)
(* What HlsHandler does with an answer (hls_handler.cpp:34-56): a playlist is   *)
(* taken apart (Playlist), anything else is a segment, which is saved           *)
(* (SegmentFiles).  The two share nothing but the chain of blocks they read.     *)
(***************************************************************************)
EXTENDS Playlist, SegmentFiles

VARIABLE isPlaylist   \* the Content-Type is one of a playlist (lines 45-46)

vars == <<isPlaylist, playlist, segments>>

Init ==
  /\ \/ isPlaylist = TRUE /\ room = 0
     \/ isPlaylist = FALSE /\ chain = (CHOOSE c \in Chains : TRUE)
                           /\ rest = (CHOOSE r \in Remains : TRUE)
  /\ PlaylistInit /\ SegmentInit

Handle ==
  \/ isPlaylist /\ ParseM3u8 /\ UNCHANGED <<isPlaylist, segments>>
  \/ ~isPlaylist /\ HandleSegmentResp /\ UNCHANGED <<isPlaylist, playlist>>

Spec == Init /\ [][Handle]_vars
=============================================================================
