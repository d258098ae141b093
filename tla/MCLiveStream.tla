--------------------------- MODULE MCLiveStream ---------------------------
(* Small instances of LiveStream for TLC.                                    *)
EXTENDS LiveStream, TLC
=============================================================================
