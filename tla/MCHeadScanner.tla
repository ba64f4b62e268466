--------------------------- MODULE MCHeadScanner ---------------------------
(* CR, LF and one other byte; reads as short as one byte, so that every cut *)
(* of a terminator happens, and room for a blank line, a head and a second  *)
(* terminator behind it.                                                    *)
EXTENDS HeadScanner
=============================================================================
