----------------------------- MODULE MCWebServer -----------------------------
(* Small instances of WebServer for TLC.                                    *)
EXTENDS WebServer, TLC

Symmetry == Permutations(Fds) \cup Permutations(Workers)
=============================================================================
