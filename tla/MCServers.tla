------------------------------ MODULE MCServers ------------------------------
(* Two programs that use files and one that calls the disk itself.          *)
EXTENDS Servers, TLC
CONSTANTS a, b, c
MCServer == (a :> FS) @@ (b :> FS) @@ (c :> HD)
=============================================================================
