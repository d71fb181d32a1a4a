------------------------------- MODULE MCBridge -------------------------------
(***************************************************************************)
(* Small instances of Bridge for TLC.                                      *)
(***************************************************************************)
EXTENDS BridgeProperties

CONSTANTS a, b, s, t

(* One bot with a token of its own.                                        *)
OneToken == (a :> s)
NoDrop == [x \in Bots |-> FALSE]
DropFirst == [x \in Bots |-> x = a]

(* Back ends that refuse no update for good, or those of bot b do.         *)
NoPoison == [x \in Bots |-> {}]
PoisonB == [x \in Bots |-> IF x = b THEN UpdateIds ELSE {}]

(* Two bots, with one token each or with the same one.                     *)
OwnTokens == (a :> s @@ b :> t)
SharedToken == [x \in Bots |-> s]

=============================================================================
