----------------------------- MODULE ExitCodes ------------------------------
(***************************************************************************)
(* Process exit codes: Pipek1Error::exit_code of src/rust/src/error.rs.    *)
(***************************************************************************)
EXTENDS Integers

Running == -1            \* not exited yet
Success == 0
WireCorruption == 1
AuthFailure == 1
IoError == 1
UsageError == 2
Aborted == 134           \* a panic: the release profile has panic = "abort"
=============================================================================
