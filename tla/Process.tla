-------------------------------- MODULE Process --------------------------------
(***************************************************************************)
(* The life of the program: src/cmd/tg-getupdates-to-webhook/main.go       *)
(* around Service.Run, with the goroutine of the health server, the        *)
(* signals and the deferred calls.                                         *)
(*                                                                         *)
(* Processes are started with one configuration on one machine, so they    *)
(* share the address of the health server.  What a poller does in between  *)
(* is the subject of Bridge; here it polls, ends or fails for good.        *)
(* init-config is the subject of Bootstrap and ends with any code here.    *)
(*                                                                         *)
(* Left out: what is printed, and errors of closing the store, which are   *)
(* only logged.                                                            *)
(***************************************************************************)
EXTENDS Integers

CONSTANTS
  Processes,
  Bots,
  CommandLines,  \* see CommandLineType
  MaxRequests    \* of /healthz, at the same time

(* The first argument ("-" is any other flag), and what the flag package   *)
(* makes of the arguments of `run'.                                        *)
CommandLineType ==
  [command : {"", "run", "init-config", "help", "-h", "--help", "-", "other"},
   flags : {"parsed", "help", "error", "positional"}]

ASSUME ProcessAssumption ==
  /\ Bots # {}
  /\ CommandLines \subseteq CommandLineType
  /\ MaxRequests \in Nat

VARIABLES
  args,       \* the command line, os.Args
  pc,         \* where main is
  err,        \* the error that config.Load, NewSQLiteStore or Run returned
  store,      \* the SQLite store
  registered, \* SIGINT and SIGTERM go to the program, otherwise they kill it
  cancelled,  \* the context of Run
  poller,     \* the pollers
  server,     \* the health server
  requests,   \* the requests it is answering
  exit        \* the exit code, "none" while the process runs, or "killed"

vars == <<args, pc, err, store, registered, cancelled, poller, server,
          requests, exit>>

Init ==
  /\ args \in [Processes -> CommandLines]
  /\ err = [p \in Processes |-> "nil"]
  /\ pc = [p \in Processes |-> "start"]
  /\ store = [p \in Processes |-> "none"]
  /\ registered = [p \in Processes |-> FALSE]
  /\ cancelled = [p \in Processes |-> FALSE]
  /\ poller = [p \in Processes |-> [b \in Bots |-> "off"]]
  /\ server = [p \in Processes |-> "off"]
  /\ requests = [p \in Processes |-> 0]
  /\ exit = [p \in Processes |-> "none"]

Running(p) == exit[p] = "none"
Go(p, from, to) == Running(p) /\ pc[p] = from /\ pc' = [pc EXCEPT ![p] = to]
End(p, code) == exit' = [exit EXCEPT ![p] = code]
SetErr(p, e) == err' = [err EXCEPT ![p] = e]

(* The function that NotifyContext returns: it cancels the context, and    *)
(* gives the signals their default effect back.                            *)
Stop(p) ==
  /\ cancelled' = [cancelled EXCEPT ![p] = TRUE]
  /\ registered' = [registered EXCEPT ![p] = FALSE]

-----------------------------------------------------------------------------
(* main, from the command line to Run.                                     *)

RunsBridge(line) == line.command \in {"", "run", "-"} /\ line.flags = "parsed"

(* runCommand and parseRunFlags: the codes of a command line that does not *)
(* run the bridge.                                                         *)
UsageCodes(line) ==
  CASE line.command \in {"help", "-h", "--help"} -> {"0"}
    [] line.command = "init-config" -> {"0", "1", "2"}
    [] line.command = "other" -> {"2"}
    [] OTHER -> IF line.flags = "help" THEN {"0"} ELSE {"2"}

RunCommand(p) ==
  /\ \/ /\ RunsBridge(args[p])
        /\ Go(p, "start", "loadConfig")
        /\ UNCHANGED exit
     \/ /\ ~RunsBridge(args[p])
        /\ Go(p, "start", "done")
        /\ \E code \in UsageCodes(args[p]) : End(p, code)
  /\ UNCHANGED <<args, err, store, registered, cancelled, poller, server,
                 requests>>

LoadConfig(p) ==
  /\ \/ Go(p, "loadConfig", "openStore") /\ UNCHANGED <<err, exit>>
     \/ Go(p, "loadConfig", "done") /\ SetErr(p, "config") /\ End(p, "1")
  /\ UNCHANGED <<args, store, registered, cancelled, poller, server, requests>>

OpenStoreLeaks(p) ==
  /\ store' = [store EXCEPT ![p] = "open"]
  /\ \/ Go(p, "openStore", "notify") /\ UNCHANGED <<err, exit>>
     \/ Go(p, "openStore", "done") /\ SetErr(p, "store") /\ End(p, "1")
  /\ UNCHANGED <<args, registered, cancelled, poller, server, requests>>

(* A database that cannot be set up is closed again.                       *)
OpenStore(p) ==
  /\ \/ /\ Go(p, "openStore", "notify")
        /\ store' = [store EXCEPT ![p] = "open"]
        /\ UNCHANGED <<err, exit>>
     \/ /\ Go(p, "openStore", "done")
        /\ SetErr(p, "store")
        /\ End(p, "1")
        /\ UNCHANGED store
  /\ UNCHANGED <<args, registered, cancelled, poller, server, requests>>

(* NotifyContext, and the goroutine of the health server.                  *)
Notify(p) ==
  /\ Go(p, "notify", "run")
  /\ registered' = [registered EXCEPT ![p] = TRUE]
  /\ server' = [server EXCEPT ![p] = "starting"]
  /\ UNCHANGED <<args, err, store, cancelled, poller, requests, exit>>

-----------------------------------------------------------------------------
(* Run, and the pollers.                                                   *)

Run(p) ==
  /\ Go(p, "run", "wait")
  /\ poller' = [poller EXCEPT ![p] = [b \in Bots |-> "polling"]]
  /\ UNCHANGED <<args, err, store, registered, cancelled, server, requests,
                 exit>>

(* A fatal error, which cancels the other pollers.                         *)
PollerFails(p, b) ==
  /\ Running(p) /\ poller[p][b] = "polling"
  /\ poller' = [poller EXCEPT ![p][b] = "failed"]
  /\ cancelled' = [cancelled EXCEPT ![p] = TRUE]
  /\ UNCHANGED <<args, err, pc, store, registered, server, requests, exit>>

PollerEnds(p, b) ==
  /\ Running(p) /\ poller[p][b] = "polling" /\ cancelled[p]
  /\ poller' = [poller EXCEPT ![p][b] = "ended"]
  /\ UNCHANGED <<args, err, pc, store, registered, cancelled, server,
                 requests, exit>>

(* What Run returns: an error from its channel, also when the context was  *)
(* cancelled before.                                                       *)
SomeFailed(p) == \E b \in Bots : poller[p][b] = "failed"
RunErrorUnlessStopped(p) ==
  IF SomeFailed(p) /\ registered[p] THEN "bot" ELSE "nil"
RunError(p) == IF SomeFailed(p) THEN "bot" ELSE "nil"

RunReturnsOnCancel(p) ==
  /\ cancelled[p]
  /\ Go(p, "wait", "shutdown")
  /\ SetErr(p, RunError(p))
  /\ UNCHANGED <<args, store, registered, cancelled, poller, server,
                 requests, exit>>

RunReturns(p) ==
  /\ "polling" \notin {poller[p][b] : b \in Bots}
  /\ Go(p, "wait", "shutdown")
  /\ SetErr(p, RunError(p))
  /\ UNCHANGED <<args, store, registered, cancelled, poller, server,
                 requests, exit>>

-----------------------------------------------------------------------------
(* The deferred calls, in reverse order.                                   *)

(* Shutdown closes the listener first.                                     *)
BeginShutdown(p) ==
  /\ Go(p, "shutdown", "drain")
  /\ server' = [server EXCEPT ![p] = IF @ = "listening" THEN "closed" ELSE @]
  /\ UNCHANGED <<args, err, store, registered, cancelled, poller, requests,
                 exit>>

(* It waits for the requests, but no more than five seconds.               *)
ShutdownWaits(p) ==
  /\ requests[p] = 0
  /\ Go(p, "drain", "stop")
  /\ UNCHANGED <<args, err, store, registered, cancelled, poller, server,
                 requests, exit>>
EndShutdown(p) ==
  /\ Go(p, "drain", "stop")
  /\ UNCHANGED <<args, err, store, registered, cancelled, poller, server,
                 requests, exit>>

DeferredStop(p) ==
  /\ Go(p, "stop", "closeStore")
  /\ Stop(p)
  /\ UNCHANGED <<args, err, store, poller, server, requests, exit>>

(* The code of `return 1' or `return 0', which the deferred calls keep.    *)
ExitCode(p) == IF err[p] = "nil" THEN "0" ELSE "1"

CloseStore(p) ==
  /\ Go(p, "closeStore", "done")
  /\ store' = [store EXCEPT ![p] = "closed"]
  /\ End(p, ExitCode(p))
  /\ UNCHANGED <<args, err, registered, cancelled, poller, server, requests>>

-----------------------------------------------------------------------------
(* The health server.                                                      *)

(* The address is free unless another process listens.                     *)
AddressFree(p) ==
  \A q \in Processes : q # p /\ Running(q) => server[q] # "listening"

(* A goroutine that comes too late finds its server shut down.             *)
ListenAndServe(p) ==
  /\ Running(p) /\ server[p] = "starting"
  /\ \/ /\ pc[p] \in {"run", "wait", "shutdown"} /\ AddressFree(p)
        /\ server' = [server EXCEPT ![p] = "listening"]
     \/ /\ pc[p] \notin {"run", "wait", "shutdown"}
        /\ server' = [server EXCEPT ![p] = "closed"]
  /\ UNCHANGED <<args, err, pc, store, registered, cancelled, poller,
                 requests, exit>>

ServerFailureLogged(p) ==
  /\ Running(p) /\ server[p] \in {"starting", "listening"}
  /\ server' = [server EXCEPT ![p] = "failed"]
  /\ UNCHANGED <<args, err, pc, store, registered, cancelled, poller,
                 requests, exit>>

(* It cannot listen, or no longer accept.                                  *)
ServerFails(p) ==
  /\ Running(p) /\ server[p] \in {"starting", "listening"}
  /\ server' = [server EXCEPT ![p] = "failed"]
  /\ Stop(p)
  /\ UNCHANGED <<args, err, pc, store, poller, requests, exit>>

(* handleHealthz reads the metrics and changes nothing; a slow client may  *)
(* take its time for the answer.                                           *)
HandleHealthz(p) ==
  /\ Running(p)
  /\ \/ server[p] = "listening" /\ requests[p] < MaxRequests
        /\ requests' = [requests EXCEPT ![p] = @ + 1]
     \/ requests[p] > 0 /\ requests' = [requests EXCEPT ![p] = @ - 1]
  /\ UNCHANGED <<args, err, pc, store, registered, cancelled, poller, server,
                 exit>>

-----------------------------------------------------------------------------
(* SIGINT or SIGTERM.                                                      *)

SignalOnce(p) ==
  /\ Running(p)
  /\ IF registered[p] THEN Stop(p) /\ UNCHANGED exit
                      ELSE End(p, "killed") /\ UNCHANGED <<cancelled, registered>>
  /\ UNCHANGED <<args, err, pc, store, poller, server, requests>>

(* The program stays registered after the first one.                       *)
Signal(p) ==
  /\ Running(p)
  /\ IF registered[p]
       THEN cancelled' = [cancelled EXCEPT ![p] = TRUE] /\ UNCHANGED exit
       ELSE End(p, "killed") /\ UNCHANGED cancelled
  /\ UNCHANGED <<args, err, pc, store, registered, poller, server, requests>>

-----------------------------------------------------------------------------

MainStep(p) ==
  \/ RunCommand(p) \/ LoadConfig(p) \/ OpenStore(p) \/ Notify(p) \/ Run(p)
  \/ RunReturns(p) \/ BeginShutdown(p) \/ EndShutdown(p) \/ DeferredStop(p)
  \/ CloseStore(p)

ServerStarts(p) ==
  server[p] = "starting" /\ (ListenAndServe(p) \/ ServerFails(p))

Next ==
  \E p \in Processes :
    \/ MainStep(p) \/ ListenAndServe(p) \/ ServerFails(p)
    \/ HandleHealthz(p) \/ Signal(p)
    \/ \E b \in Bots : PollerFails(p, b) \/ PollerEnds(p, b)

Spec == Init /\ [][Next]_vars

(* The goroutines run; a poller of a cancelled context ends (Bridge).      *)
(* Whether a request ends is up to its client, and a server that listens   *)
(* need not fail.                                                          *)
FairSpec ==
  /\ Spec
  /\ \A p \in Processes :
       /\ WF_vars(MainStep(p)) /\ WF_vars(ServerStarts(p))
       /\ \A b \in Bots : WF_vars(PollerEnds(p, b))

=============================================================================
