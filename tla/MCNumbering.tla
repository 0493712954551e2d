---------------------------- MODULE MCNumbering ----------------------------
(***************************************************************************)
(* Two callers of Invoke and the keepalive goroutine; a second of eight    *)
(* nanoseconds, weighing 32 in an ID, and IDs from -64 to 63, so that the  *)
(* stamp of the later time wraps around.  The clock may stand still, move  *)
(* within a second, into another one, or be set back.                      *)
(***************************************************************************)
EXTENDS Numbering

CONSTANTS a, b, k

MCOffsets == {0, -10}

=============================================================================
