--------------------------- MODULE MCReleaseChannel ---------------------------
(* The two files of a version: the linux and the macOS variant.               *)
EXTENDS ReleaseChannel

CONSTANTS linux, osx
=============================================================================
