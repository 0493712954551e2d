----------------------------- MODULE RpcErrors -----------------------------
(***************************************************************************)
(* mtproto/rpc/errors.go: the Go type that ParseError gives the error of   *)
(* an rpc_error.  Callers branch on the type (IsFloodWait, IsMigrate); the *)
(* number of seconds or of the data centre goes with it.                   *)
(*                                                                         *)
(* A message is the sequence of its words, what strings.Split would make   *)
(* of it at '_'.  Numerals are the words that strconv.Atoi accepts.        *)
(***************************************************************************)
EXTENDS Naturals, Sequences

CONSTANT Numerals

ErrorTypes == {"RPCError", "FloodWaitError", "MigrateError", "FileRefExpiredError"}

FileReferenceExpired == <<"FILE", "REFERENCE", "EXPIRED">>

Last(msg) == msg[Len(msg)]

\* Where "_MIGRATE_" stands in the message: the word with one on either side.
MigrateAt(msg) == {i \in 2 .. Len(msg) - 1 : msg[i] = "MIGRATE"}

\* strings.Index finds the first; all that follows must be the number.
parseMigrate(msg) ==
  IF \E i \in MigrateAt(msg) :
       /\ \A j \in MigrateAt(msg) : i <= j
       /\ Len(msg) = i + 1 /\ msg[i + 1] \in Numerals
    THEN "MigrateError" ELSE "RPCError"

\* strings.LastIndexByte: what follows the last '_' must be the number.
parseFloodWait(msg) ==
  IF Len(msg) >= 2 /\ Last(msg) \in Numerals THEN "FloodWaitError" ELSE "RPCError"

ParseError(code, msg) ==
  IF code = 303 THEN parseMigrate(msg)
  ELSE IF code = 420 THEN parseFloodWait(msg)
  ELSE IF msg = FileReferenceExpired THEN "FileRefExpiredError"
  ELSE "RPCError"

-----------------------------------------------------------------------------
(***************************************************************************)
(* What an error is, without the searching: a migration and a wait end in  *)
(* their number, and a migration names itself once, right before it.       *)
(***************************************************************************)
IsMigration(code, msg) ==
  code = 303 /\ MigrateAt(msg) = {Len(msg) - 1} /\ Last(msg) \in Numerals

IsWait(code, msg) == code = 420 /\ Len(msg) > 1 /\ Last(msg) \in Numerals

IsExpiry(code, msg) == code \notin {303, 420} /\ msg = FileReferenceExpired

HasType(code, msg, type) ==
  /\ type = "MigrateError"        <=> IsMigration(code, msg)
  /\ type = "FloodWaitError"      <=> IsWait(code, msg)
  /\ type = "FileRefExpiredError" <=> IsExpiry(code, msg)

=============================================================================
