----------------------------- MODULE MCLauncher -----------------------------
(* Settings for TLC: fewer tasks than threads, as many, and shares with a rest. *)
EXTENDS Launcher

CONSTANTS Threads, Concurrencies

Settings(hls) ==
  {f \in [hls : {hls}, threadNum : Threads, concurrency : Concurrencies,
          isDebug : BOOLEAN] : f.isDebug => f.concurrency = 1}
HlsSettings == Settings(TRUE)
HttpSettings == Settings(FALSE)
AllSettings == HlsSettings \cup HttpSettings
=============================================================================
