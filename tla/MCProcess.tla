------------------------------- MODULE MCProcess -------------------------------
(***************************************************************************)
(* A small instance of Process for TLC.                                    *)
(***************************************************************************)
EXTENDS ProcessProperties

CONSTANTS p, q, a, b

(* `-config x run' is a flag with a positional argument.                   *)
MCCommandLines ==
  {[command |-> "", flags |-> "parsed"], [command |-> "--help", flags |-> "parsed"],
   [command |-> "run", flags |-> "help"], [command |-> "-", flags |-> "positional"],
   [command |-> "init-config", flags |-> "parsed"],
   [command |-> "other", flags |-> "error"]}

=============================================================================
