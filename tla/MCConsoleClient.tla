--------------------------- MODULE MCConsoleClient ---------------------------
(***************************************************************************)
(* The panels with two sensors for TLC.                                    *)
(***************************************************************************)
EXTENDS ConsoleClient

\* Two requests for data may cross; a revocation sends two commands as it is.
CommandsGiven == [administrator |-> 1, monitoring |-> 2]

=============================================================================
