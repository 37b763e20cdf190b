--------------------------- MODULE MCSignalForward ---------------------------
(***************************************************************************)
(* Two commands, so that the goroutine of the first may meet the second,   *)
(* and three signals: one to fill a channel, one to be dropped, and one    *)
(* more for the other command.                                             *)
(***************************************************************************)
EXTENDS SignalForward

MCCommands == 2
MCMaxSignals == 3

=============================================================================
