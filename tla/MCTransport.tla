----------------------------- MODULE MCTransport -----------------------------
(***************************************************************************)
(* Bytes of base six and words of two bytes, so that lengths go up to 35   *)
(* and the abridged header becomes long at two units of two bytes.         *)
(***************************************************************************)
EXTENDS Transport

AllCodecs == {"abridged", "intermediate", "padded", "full"}

=============================================================================
