---------------------------- MODULE MCClipDownload ----------------------------
(* Instances of ClipDownload for TLC. *)
EXTENDS ClipDownload, TLC
CONSTANTS a, t1
=============================================================================
