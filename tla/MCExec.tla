------------------------------- MODULE MCExec -------------------------------
(* Small instances of Exec for TLC. *)
EXTENDS Exec, TLC

\* Part of adcore's table: ERROR_DS_BUSY, ERROR_DS_OBJ_NOT_FOUND.
MCClassifyCode == (8206 :> "Transient") @@ (8333 :> "NotFound")

\* busy by result code; busy by Win32 code under another result code; a refusal.
MCRefusals == {RawError(NoCode, 51), RawError(8206, 1), RawError(8333, 32)}

Symmetry == Permutations(Procs)
=============================================================================
