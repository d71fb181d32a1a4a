--------------------------- MODULE ProcessProperties ---------------------------
(***************************************************************************)
(* What the life cycle of a process guarantees.                            *)
(***************************************************************************)
EXTENDS Process

(* Type correctness, and the store is open exactly from its successful     *)
(* opening to the last deferred call: no way out of the program leaks it.  *)
LifeCycleTypeOK ==
  /\ args \in [Processes -> CommandLines]
  /\ err \in [Processes -> {"nil", "config", "store", "bot"}]
  /\ pc \in [Processes -> {"start", "loadConfig", "openStore", "notify", "run",
                           "wait", "shutdown", "drain", "stop", "closeStore",
                           "done"}]
  /\ store \in [Processes -> {"none", "open", "closed"}]
  /\ registered \in [Processes -> BOOLEAN]
  /\ cancelled \in [Processes -> BOOLEAN]
  /\ poller \in [Processes -> [Bots -> {"off", "polling", "ended", "failed"}]]
  /\ server \in [Processes -> {"off", "starting", "listening", "closed", "failed"}]
  /\ requests \in [Processes -> 0..MaxRequests]
  /\ exit \in [Processes -> {"none", "0", "1", "2", "killed"}]
  /\ \A p \in Processes :
       store[p] = "open" <=> pc[p] \in {"notify", "run", "wait", "shutdown",
                                        "drain", "stop", "closeStore"}

Polls(p) == \E b \in Bots : poller[p][b] = "polling"

(* "Polling stops, health server is shutdown, SQLite connection is closed" *)
(* (README.md:223), in this order: as long as a poller of a live process   *)
(* polls, its store is open and its health server not shut down.           *)
ShutdownInOrder ==
  \A p \in Processes :
    Polls(p) => store[p] = "open" /\ server[p] # "closed"

(* "Process handles SIGINT/SIGTERM" (README.md:222): neither the first nor *)
(* an impatient second signal kills a process in the middle of a delivery, *)
(* with one exception: a failing health server has given the signals their *)
(* default effect back (main.go:100).                                      *)
SignalsDrain ==
  \A p \in Processes : exit[p] = "killed" /\ Polls(p) => server[p] = "failed"

(* The exit code tells a supervisor of processes what to do.  One that ran *)
(* the bridge ends with 1 exactly when the config could not be loaded, the *)
(* store not be opened or a poller failed, also when that came after the   *)
(* process was asked to stop or its health server had failed, and with 0   *)
(* otherwise (a failed health server alone gives 0).  One that was not to  *)
(* run it opens no store and ends with 1 only if init-config failed.       *)
Failed(p) == err[p] \in {"config", "store"} \/ SomeFailed(p)
ExitCodeHonest ==
  \A p \in Processes : exit[p] \in {"0", "1", "2"} =>
    /\ RunsBridge(args[p]) => exit[p] = IF Failed(p) THEN "1" ELSE "0"
    /\ ~RunsBridge(args[p]) =>
         /\ store[p] = "none"
         /\ exit[p] = "1" => args[p].command = "init-config"

(* A process that is asked to stop, or one of whose goroutines fails, does *)
(* stop, also when a client of /healthz never reads its answer.            *)
CancelledEnds == \A p \in Processes : cancelled[p] ~> ~Running(p)

(* Two processes with the same configuration do not go on polling side by  *)
(* side: only one of them gets the address of the health server, and the   *)
(* failure ends the other one.                                             *)
OneSurvives ==
  \A p, q \in Processes :
    p # q /\ Running(p) /\ Running(q) /\ Polls(p) /\ Polls(q)
      ~> ~(Running(p) /\ Running(q))

-----------------------------------------------------------------------------
(* Why the shutdown is in order and the exit code honest: the parts of     *)
(* their inductive invariant.                                              *)

(* Where main may be before the store is open, before its pollers run, and *)
(* from Shutdown on.                                                       *)
BeforeStore == {"start", "loadConfig", "openStore"}
BeforeRun == BeforeStore \cup {"notify", "run"}
FromShutdown == {"drain", "stop", "closeStore", "done"}

NotOpenedYet(p) == pc[p] \in BeforeStore => store[p] = "none"
PollersOff(p) == pc[p] \in BeforeRun => \A b \in Bots : poller[p][b] = "off"

(* Wait keeps main where it is as long as a poller polls.                  *)
PollsWhileWaiting(p) == Polls(p) => pc[p] = "wait"

(* The goroutine of the server starts after NotifyContext, and nobody      *)
(* shuts the server down before the deferred Shutdown.                     *)
ServerAfterNotify(p) ==
  server[p] # "off" => pc[p] \in {"run", "wait", "shutdown"} \cup FromShutdown
ClosedByShutdown(p) == server[p] = "closed" => pc[p] \in FromShutdown

(* The program keeps the signals until the deferred stop(), but for a      *)
(* failing health server.                                                  *)
SignalsKept(p) ==
  pc[p] \in {"run", "wait", "shutdown", "drain", "stop"} =>
    registered[p] \/ server[p] = "failed"

(* An exit code that is not a signal's comes from the end of main.         *)
EndedByMain(p) == exit[p] \in {"0", "1", "2"} <=> pc[p] = "done"

(* Only the command line decides whether main gets as far as the config.   *)
BridgeOnly(p) == pc[p] \notin {"start", "done"} => RunsBridge(args[p])

(* What runBridge will return on: nothing until Run is over, and then      *)
(* whether a poller failed, which no longer changes.                       *)
ErrOfRun(p) ==
  /\ pc[p] \in BeforeRun \cup {"wait"} => err[p] = "nil"
  /\ pc[p] \in {"shutdown", "drain", "stop", "closeStore"} =>
       err[p] = IF SomeFailed(p) THEN "bot" ELSE "nil"

Orderly(p) ==
  /\ NotOpenedYet(p)
  /\ PollersOff(p)
  /\ PollsWhileWaiting(p)
  /\ ServerAfterNotify(p)
  /\ ClosedByShutdown(p)
  /\ SignalsKept(p)
  /\ EndedByMain(p)
  /\ BridgeOnly(p)
  /\ ErrOfRun(p)

LifeCycleInv ==
  /\ LifeCycleTypeOK
  /\ \A p \in Processes : Orderly(p)
  /\ SignalsDrain
  /\ ExitCodeHonest

=============================================================================
