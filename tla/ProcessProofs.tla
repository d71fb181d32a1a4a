----------------------------- MODULE ProcessProofs -----------------------------
(***************************************************************************)
(* Theorems about Process, for any number of processes and of bots, every  *)
(* command line and any number of requests: LifeCycleInv is inductive, and *)
(* it says that nothing leaks, that the shutdown is in order, that signals *)
(* kill no delivery and that the exit code is honest.                      *)
(***************************************************************************)
EXTENDS ProcessProperties, TLAPS

-----------------------------------------------------------------------------
(* A step of one process.                                                  *)

(* The exit code of one process.                                           *)
HonestExit(p) ==
  exit[p] \in {"0", "1", "2"} =>
    /\ RunsBridge(args[p]) => exit[p] = IF Failed(p) THEN "1" ELSE "0"
    /\ ~RunsBridge(args[p]) =>
         /\ store[p] = "none"
         /\ exit[p] = "1" => args[p].command = "init-config"

(* The invariant for one process: what it says of the others is not        *)
(* touched by a step of this one.                                          *)
Sound(p) ==
  /\ store[p] = "open" <=> pc[p] \in {"notify", "run", "wait", "shutdown",
                                      "drain", "stop", "closeStore"}
  /\ Orderly(p)
  /\ exit[p] = "killed" /\ Polls(p) => server[p] = "failed"
  /\ HonestExit(p)

Typed ==
  /\ args \in [Processes -> CommandLines]
  /\ err \in [Processes -> {"nil", "config", "store", "bot"}]
  /\ pc \in [Processes -> {"start", "loadConfig", "openStore", "notify", "run",
                           "wait", "shutdown", "drain", "stop", "closeStore",
                           "done"}]
  /\ store \in [Processes -> {"none", "open", "closed"}]
  /\ registered \in [Processes -> BOOLEAN]
  /\ cancelled \in [Processes -> BOOLEAN]
  /\ poller \in [Processes -> [Bots -> {"off", "polling", "ended", "failed"}]]
  /\ server \in [Processes -> {"off", "starting", "listening", "closed", "failed"}]
  /\ requests \in [Processes -> 0..MaxRequests]
  /\ exit \in [Processes -> {"none", "0", "1", "2", "killed"}]

(* The invariant says of every process alone that it is sound,             *)
LEMMA InvBySound == LifeCycleInv <=> Typed /\ \A p \in Processes : Sound(p)
<1>1. LifeCycleTypeOK <=>
        Typed /\ \A p \in Processes :
          store[p] = "open" <=> pc[p] \in {"notify", "run", "wait", "shutdown",
                                           "drain", "stop", "closeStore"}
  BY DEF LifeCycleTypeOK, Typed
<1>2. QED
  BY <1>1 DEF LifeCycleInv, SignalsDrain, ExitCodeHonest, HonestExit, Sound

(* A step that changes no variable of another process.                     *)
LEMMA OneProcess ==
  ASSUME LifeCycleInv, Typed', NEW p \in Processes, Sound(p)',
         \A q \in Processes \ {p} :
           /\ args'[q] = args[q] /\ err'[q] = err[q]
           /\ pc'[q] = pc[q] /\ store'[q] = store[q]
           /\ registered'[q] = registered[q] /\ poller'[q] = poller[q]
           /\ server'[q] = server[q] /\ exit'[q] = exit[q]
  PROVE  LifeCycleInv'
<1>1. ASSUME NEW q \in Processes, q # p PROVE Sound(q)'
  <2>1. Sound(q)
    BY InvBySound
  <2>2. /\ Polls(q)' <=> Polls(q)
        /\ Orderly(q)
    BY <1>1, <2>1 DEF Polls, Sound
  <2>3. Orderly(q)'
    BY <1>1, <2>2
    DEF Orderly, NotOpenedYet, PollersOff,
        PollsWhileWaiting, ServerAfterNotify, ClosedByShutdown, SignalsKept,
        EndedByMain, BridgeOnly, ErrOfRun, SomeFailed
  <2>4. QED
    BY <1>1, <2>1, <2>2, <2>3 DEF Sound, HonestExit, Failed, SomeFailed
<1>2. (Typed /\ \A q \in Processes : Sound(q))'
  BY <1>1
<1>3. LifeCycleTypeOK'
  BY <1>2 DEF LifeCycleTypeOK, Typed, Sound
<1>4. (SignalsDrain /\ ExitCodeHonest)'
  BY <1>2 DEF SignalsDrain, ExitCodeHonest, HonestExit, Sound
<1>5. QED
  BY <1>2, <1>3, <1>4 DEF LifeCycleInv, Sound

-----------------------------------------------------------------------------
(* The steps: each one keeps the types, the invariant of its process, and  *)
(* what is not its own.                                                    *)

Kept(p) ==
  /\ Typed' /\ Sound(p)'
  /\ \A q \in Processes \ {p} :
       /\ args'[q] = args[q] /\ err'[q] = err[q]
       /\ pc'[q] = pc[q] /\ store'[q] = store[q]
       /\ registered'[q] = registered[q] /\ poller'[q] = poller[q]
       /\ server'[q] = server[q] /\ exit'[q] = exit[q]

(* so a step that keeps its own process sound keeps the invariant.         *)
LEMMA KeptIsEnough ==
  ASSUME LifeCycleInv, NEW p \in Processes, Kept(p)
  PROVE  LifeCycleInv'
BY OneProcess DEF Kept

(* The exit codes of a wrong command line,                                 *)
LEMMA UsageCodesType ==
  ASSUME NEW line
  PROVE  /\ UsageCodes(line) \subseteq {"0", "1", "2"}
         /\ "1" \in UsageCodes(line) => line.command = "init-config"
BY DEF UsageCodes

(* and the one of a Run that has returned: that of what the pollers came   *)
(* to.                                                                     *)
LEMMA ExitCodeType ==
  ASSUME NEW p \in Processes, Sound(p), pc[p] = "closeStore"
  PROVE  /\ ExitCode(p) = IF SomeFailed(p) THEN "1" ELSE "0"
         /\ err[p] \notin {"config", "store"}
BY DEF ExitCode, Sound, Orderly, ErrOfRun

LEMMA RunCommandKeeps ==
  ASSUME LifeCycleInv, NEW p \in Processes, RunCommand(p)
  PROVE  Kept(p)
<1> USE DEF Go, End, SetErr, Running
<1>1. Typed /\ Sound(p)
  BY InvBySound
<1>2. /\ pc[p] = "start" /\ exit[p] = "none" /\ store[p] = "none"
      /\ \A b \in Bots : poller[p][b] = "off"
  BY <1>1 DEF RunCommand, Sound, Orderly, NotOpenedYet, PollersOff, BeforeRun,
              BeforeStore
<1>3. PICK to \in {"loadConfig", "done"}, code \in {"none", "0", "1", "2"} :
        /\ to = "done" <=> code # "none"
        /\ to = "loadConfig" <=> RunsBridge(args[p])
        /\ code = "1" => args[p].command = "init-config"
        /\ pc' = [pc EXCEPT ![p] = to] /\ exit' = [exit EXCEPT ![p] = code]
  <2>1. \/ /\ RunsBridge(args[p])
           /\ pc' = [pc EXCEPT ![p] = "loadConfig"] /\ exit' = exit
        \/ /\ ~RunsBridge(args[p])
           /\ pc' = [pc EXCEPT ![p] = "done"]
           /\ \E code \in UsageCodes(args[p]) : exit' = [exit EXCEPT ![p] = code]
    BY DEF RunCommand
  <2>2. CASE /\ RunsBridge(args[p])
             /\ pc' = [pc EXCEPT ![p] = "loadConfig"] /\ exit' = exit
    <3>1. exit' = [exit EXCEPT ![p] = "none"]
      BY <1>1, <1>2, <2>2 DEF Typed
    <3>2. QED
      BY <2>2, <3>1
  <2>3. CASE /\ ~RunsBridge(args[p])
             /\ pc' = [pc EXCEPT ![p] = "done"]
             /\ \E code \in UsageCodes(args[p]) : exit' = [exit EXCEPT ![p] = code]
    BY <2>3, UsageCodesType
  <2>4. QED
    BY <2>1, <2>2, <2>3
<1>4. UNCHANGED <<args, err, store, registered, cancelled, poller, server,
                  requests>>
  BY DEF RunCommand
<1>5. Typed'
  BY <1>1, <1>3, <1>4 DEF Typed
<1>6. pc'[p] = to /\ exit'[p] = code
  BY <1>1, <1>3 DEF Typed
<1>7. Sound(p)'
  BY <1>1, <1>2, <1>3, <1>4, <1>6
  DEF Sound, Polls, Orderly, NotOpenedYet, PollersOff,
      PollsWhileWaiting, BridgeOnly, ErrOfRun, HonestExit, Failed, SomeFailed,
      ServerAfterNotify, ClosedByShutdown, SignalsKept, EndedByMain, BeforeRun,
      BeforeStore, FromShutdown
<1>8. QED
  BY <1>1, <1>3, <1>4, <1>5, <1>7 DEF Kept, Typed

LEMMA LoadConfigKeeps ==
  ASSUME LifeCycleInv, NEW p \in Processes, LoadConfig(p)
  PROVE  Kept(p)
<1> USE DEF Go, End, SetErr, Running
<1>1. Typed /\ Sound(p)
  BY InvBySound
<1>2. Typed'
  BY <1>1 DEF LoadConfig, Typed
<1>3. Sound(p)'
  BY <1>1, <1>2
  DEF LoadConfig, Typed, Sound, Polls, Orderly, NotOpenedYet, PollersOff,
      PollsWhileWaiting, BridgeOnly, ErrOfRun, HonestExit, Failed, SomeFailed,
      ServerAfterNotify, ClosedByShutdown, SignalsKept, EndedByMain, BeforeRun,
      BeforeStore, FromShutdown
<1>4. QED
  BY <1>1, <1>2, <1>3 DEF Kept, Typed, LoadConfig

LEMMA OpenStoreKeeps ==
  ASSUME LifeCycleInv, NEW p \in Processes, OpenStore(p)
  PROVE  Kept(p)
<1> USE DEF Go, End, SetErr, Running
<1>1. Typed /\ Sound(p)
  BY InvBySound
<1>2. Typed'
  BY <1>1 DEF OpenStore, Typed
<1>3. Sound(p)'
  BY <1>1, <1>2
  DEF OpenStore, Typed, Sound, Polls, Orderly, NotOpenedYet, PollersOff,
      PollsWhileWaiting, BridgeOnly, ErrOfRun, HonestExit, Failed, SomeFailed,
      ServerAfterNotify, ClosedByShutdown, SignalsKept, EndedByMain, BeforeRun,
      BeforeStore, FromShutdown
<1>4. QED
  BY <1>1, <1>2, <1>3 DEF Kept, Typed, OpenStore

LEMMA NotifyKeeps ==
  ASSUME LifeCycleInv, NEW p \in Processes, Notify(p)
  PROVE  Kept(p)
<1> USE DEF Go, Running
<1>1. Typed /\ Sound(p)
  BY InvBySound
<1>2. Typed'
  BY <1>1 DEF Notify, Typed
<1>3. Sound(p)'
  BY <1>1, <1>2
  DEF Notify, Typed, Sound, Polls, Orderly, NotOpenedYet, PollersOff,
      PollsWhileWaiting, BridgeOnly, ErrOfRun, HonestExit, Failed, SomeFailed,
      ServerAfterNotify, ClosedByShutdown, SignalsKept, EndedByMain, BeforeRun,
      BeforeStore, FromShutdown
<1>4. QED
  BY <1>1, <1>2, <1>3 DEF Kept, Typed, Notify

LEMMA RunKeeps ==
  ASSUME LifeCycleInv, NEW p \in Processes, Run(p)
  PROVE  Kept(p)
<1> USE DEF Go, Running
<1>1. Typed /\ Sound(p)
  BY InvBySound
<1>2. Typed'
  BY <1>1 DEF Run, Typed
<1>3. Sound(p)'
  BY <1>1, <1>2
  DEF Run, Typed, Sound, Polls, Orderly, NotOpenedYet, PollersOff,
      PollsWhileWaiting, BridgeOnly, ErrOfRun, HonestExit, Failed, SomeFailed,
      ServerAfterNotify, ClosedByShutdown, SignalsKept, EndedByMain, BeforeRun,
      BeforeStore, FromShutdown
<1>4. QED
  BY <1>1, <1>2, <1>3 DEF Kept, Typed, Run

(* Wait has seen every poller end: this is what makes the shutdown orderly.*)
LEMMA RunReturnsKeeps ==
  ASSUME LifeCycleInv, NEW p \in Processes, RunReturns(p)
  PROVE  Kept(p)
<1> USE DEF Go, SetErr, RunError, SomeFailed, Running
<1>1. Typed /\ Sound(p)
  BY InvBySound
<1>2. Typed'
  BY <1>1 DEF RunReturns, Typed
<1>3. ~Polls(p)'
  BY DEF RunReturns, Polls
<1>4. Sound(p)'
  BY <1>1, <1>2, <1>3
  DEF RunReturns, Typed, Sound, Orderly, NotOpenedYet, PollersOff,
      PollsWhileWaiting, BridgeOnly, ErrOfRun, HonestExit, Failed, SomeFailed,
      ServerAfterNotify, ClosedByShutdown, SignalsKept, EndedByMain, BeforeRun,
      BeforeStore, FromShutdown
<1>5. QED
  BY <1>1, <1>2, <1>4 DEF Kept, Typed, RunReturns

LEMMA PollerKeeps ==
  ASSUME LifeCycleInv, NEW p \in Processes, NEW b \in Bots,
         PollerFails(p, b) \/ PollerEnds(p, b)
  PROVE  Kept(p)
<1>1. Typed /\ Sound(p)
  BY InvBySound
<1>2. PICK s \in {"failed", "ended"} :
        poller' = [poller EXCEPT ![p] = [@ EXCEPT ![b] = s]]
  BY DEF PollerFails, PollerEnds
<1>3. /\ poller[p][b] = "polling" /\ exit[p] = "none"
      /\ UNCHANGED <<args, err, pc, store, registered, server, requests, exit>>
      /\ cancelled' \in [Processes -> BOOLEAN]
  BY <1>1 DEF PollerFails, PollerEnds, Running, Typed
<1>4. Typed'
  BY <1>1, <1>2, <1>3 DEF Typed
<1>5. /\ Polls(p) /\ pc[p] = "wait"
      /\ store[p] = "open" /\ server[p] # "closed"
  BY <1>1, <1>3
  DEF Sound, Polls, Orderly, PollsWhileWaiting, ClosedByShutdown, FromShutdown
<1>6. Orderly(p)'
  BY <1>1, <1>3, <1>5
  DEF Sound, Orderly, NotOpenedYet, PollersOff,
      PollsWhileWaiting, BridgeOnly, ErrOfRun, HonestExit, Failed, SomeFailed,
      ServerAfterNotify, ClosedByShutdown, SignalsKept, EndedByMain, BeforeRun,
      BeforeStore, FromShutdown
<1>7. Sound(p)'
  BY <1>1, <1>3, <1>5, <1>6 DEF Sound, HonestExit
<1>8. QED
  BY <1>1, <1>2, <1>3, <1>4, <1>7 DEF Kept, Typed

LEMMA BeginShutdownKeeps ==
  ASSUME LifeCycleInv, NEW p \in Processes, BeginShutdown(p)
  PROVE  Kept(p)
<1> USE DEF Go, Running
<1>1. Typed /\ Sound(p)
  BY InvBySound
<1>2. Typed'
  BY <1>1 DEF BeginShutdown, Typed
<1>3. Sound(p)'
  BY <1>1, <1>2
  DEF BeginShutdown, Typed, Sound, Polls, Orderly, NotOpenedYet, PollersOff,
      PollsWhileWaiting, BridgeOnly, ErrOfRun, HonestExit, Failed, SomeFailed,
      ServerAfterNotify, ClosedByShutdown, SignalsKept, EndedByMain, BeforeRun,
      BeforeStore, FromShutdown
<1>4. QED
  BY <1>1, <1>2, <1>3 DEF Kept, Typed, BeginShutdown

LEMMA EndShutdownKeeps ==
  ASSUME LifeCycleInv, NEW p \in Processes, EndShutdown(p)
  PROVE  Kept(p)
<1> USE DEF Go, Running
<1>1. Typed /\ Sound(p)
  BY InvBySound
<1>2. Typed'
  BY <1>1 DEF EndShutdown, Typed
<1>3. Sound(p)'
  BY <1>1, <1>2
  DEF EndShutdown, Typed, Sound, Polls, Orderly, NotOpenedYet, PollersOff,
      PollsWhileWaiting, BridgeOnly, ErrOfRun, HonestExit, Failed, SomeFailed,
      ServerAfterNotify, ClosedByShutdown, SignalsKept, EndedByMain, BeforeRun,
      BeforeStore, FromShutdown
<1>4. QED
  BY <1>1, <1>2, <1>3 DEF Kept, Typed, EndShutdown

LEMMA DeferredStopKeeps ==
  ASSUME LifeCycleInv, NEW p \in Processes, DeferredStop(p)
  PROVE  Kept(p)
<1> USE DEF Go, Running, Stop
<1>1. Typed /\ Sound(p)
  BY InvBySound
<1>2. Typed'
  BY <1>1 DEF DeferredStop, Typed
<1>3. Sound(p)'
  BY <1>1, <1>2
  DEF DeferredStop, Typed, Sound, Polls, Orderly, NotOpenedYet, PollersOff,
      PollsWhileWaiting, BridgeOnly, ErrOfRun, HonestExit, Failed, SomeFailed,
      ServerAfterNotify, ClosedByShutdown, SignalsKept, EndedByMain, BeforeRun,
      BeforeStore, FromShutdown
<1>4. QED
  BY <1>1, <1>2, <1>3 DEF Kept, Typed, DeferredStop

(* Nobody polls any more, so the store can be closed, and what the pollers *)
(* came to is the exit code.                                               *)
LEMMA CloseStoreKeeps ==
  ASSUME LifeCycleInv, NEW p \in Processes, CloseStore(p)
  PROVE  Kept(p)
<1> USE DEF Go, End, SetErr, Running
<1>1. Typed /\ Sound(p)
  BY InvBySound
<1>2. Typed'
  BY <1>1 DEF CloseStore, ExitCode, Typed
<1>3. pc'[p] = "done" /\ store'[p] = "closed" /\ exit'[p] = ExitCode(p)
  BY <1>1 DEF CloseStore, Typed
<1>4. UNCHANGED <<args, err, registered, cancelled, poller, server, requests>>
  BY DEF CloseStore
<1>5. pc[p] = "closeStore" /\ RunsBridge(args[p])
  BY <1>1 DEF CloseStore, Sound, Orderly, BridgeOnly
<1>6. HonestExit(p)'
  BY <1>1, <1>3, <1>4, <1>5, ExitCodeType DEF HonestExit, Failed, SomeFailed
<1>7. ~Polls(p) /\ exit'[p] \in {"0", "1"}
  BY <1>1, <1>3, <1>5 DEF ExitCode, Sound, Orderly, PollsWhileWaiting
<1>8. Orderly(p)'
  BY <1>1, <1>3, <1>4, <1>5, <1>7
  DEF Sound, Polls, Orderly, NotOpenedYet, PollersOff, PollsWhileWaiting,
      ServerAfterNotify, ClosedByShutdown, SignalsKept, EndedByMain,
      BridgeOnly, ErrOfRun, BeforeRun, BeforeStore, FromShutdown
<1>9. Sound(p)'
  BY <1>3, <1>6, <1>7, <1>8 DEF Sound
<1>10. QED
  BY <1>1, <1>2, <1>9 DEF Kept, Typed, CloseStore

LEMMA ListenAndServeKeeps ==
  ASSUME LifeCycleInv, NEW p \in Processes, ListenAndServe(p)
  PROVE  Kept(p)
<1> USE DEF Running
<1>1. Typed /\ Sound(p)
  BY InvBySound
<1>2. Typed'
  BY <1>1 DEF ListenAndServe, Typed
<1>3. Sound(p)'
  BY <1>1, <1>2
  DEF ListenAndServe, Typed, Sound, Polls, Orderly, NotOpenedYet, PollersOff,
      PollsWhileWaiting, BridgeOnly, ErrOfRun, HonestExit, Failed, SomeFailed,
      ServerAfterNotify, ClosedByShutdown, SignalsKept, EndedByMain, BeforeRun,
      BeforeStore, FromShutdown
<1>4. QED
  BY <1>1, <1>2, <1>3 DEF Kept, Typed, ListenAndServe

LEMMA ServerFailsKeeps ==
  ASSUME LifeCycleInv, NEW p \in Processes, ServerFails(p)
  PROVE  Kept(p)
<1> USE DEF Running, Stop
<1>1. Typed /\ Sound(p)
  BY InvBySound
<1>2. Typed'
  BY <1>1 DEF ServerFails, Typed
<1>3. Sound(p)'
  BY <1>1, <1>2
  DEF ServerFails, Typed, Sound, Polls, Orderly, NotOpenedYet, PollersOff,
      PollsWhileWaiting, BridgeOnly, ErrOfRun, HonestExit, Failed, SomeFailed,
      ServerAfterNotify, ClosedByShutdown, SignalsKept, EndedByMain, BeforeRun,
      BeforeStore, FromShutdown
<1>4. QED
  BY <1>1, <1>2, <1>3 DEF Kept, Typed, ServerFails

LEMMA HandleHealthzKeeps ==
  ASSUME LifeCycleInv, NEW p \in Processes, HandleHealthz(p)
  PROVE  Kept(p)
<1>1. Typed /\ Sound(p)
  BY InvBySound
<1>2. UNCHANGED <<args, err, pc, store, registered, cancelled, poller, server,
                 exit>>
  BY DEF HandleHealthz
<1>3. requests' \in [Processes -> 0..MaxRequests]
  <2>1. /\ requests \in [Processes -> 0..MaxRequests] /\ MaxRequests \in Nat
        /\ requests[p] \in 0..MaxRequests
    BY <1>1, ProcessAssumption DEF Typed
  <2>2. PICK n \in 0..MaxRequests : requests' = [requests EXCEPT ![p] = n]
    BY <2>1 DEF HandleHealthz
  <2>3. QED
    BY <2>1, <2>2
<1>4. Typed'
  BY <1>1, <1>2, <1>3 DEF Typed
<1>5. Sound(p)'
  BY <1>1, <1>2
  DEF Sound, Polls, Orderly, NotOpenedYet, PollersOff,
      PollsWhileWaiting, BridgeOnly, ErrOfRun, HonestExit, Failed, SomeFailed,
      ServerAfterNotify, ClosedByShutdown, SignalsKept, EndedByMain, BeforeRun,
      BeforeStore, FromShutdown
<1>6. QED
  BY <1>2, <1>4, <1>5 DEF Kept

(* The signal that would kill a process whose pollers run finds the        *)
(* program registered, unless the health server has failed.                *)
LEMMA SignalKeeps ==
  ASSUME LifeCycleInv, NEW p \in Processes, Signal(p)
  PROVE  Kept(p)
<1> USE DEF Running, End
<1>1. Typed /\ Sound(p)
  BY InvBySound
<1>2. Typed'
  BY <1>1 DEF Signal, Typed
<1>3. Sound(p)'
  BY <1>1, <1>2
  DEF Signal, Typed, Sound, Polls, Orderly, NotOpenedYet, PollersOff,
      PollsWhileWaiting, BridgeOnly, ErrOfRun, HonestExit, Failed, SomeFailed,
      ServerAfterNotify, ClosedByShutdown, SignalsKept, EndedByMain, BeforeRun,
      BeforeStore, FromShutdown
<1>4. QED
  BY <1>1, <1>2, <1>3 DEF Kept, Typed, Signal

-----------------------------------------------------------------------------
(* The invariant, and what it says.                                        *)

LEMMA LifeCycleInit == Init => LifeCycleInv
<1> SUFFICES ASSUME Init PROVE LifeCycleInv
  OBVIOUS
<1>1. Typed
  BY ProcessAssumption DEF Init, Typed
<1>2. ASSUME NEW p \in Processes PROVE Sound(p)
  BY DEF Init, Sound, Polls, Orderly, NotOpenedYet, PollersOff,
      PollsWhileWaiting, BridgeOnly, ErrOfRun, HonestExit, Failed, SomeFailed,
      ServerAfterNotify, ClosedByShutdown, SignalsKept, EndedByMain, BeforeRun,
         BeforeStore, FromShutdown
<1>3. QED
  BY <1>1, <1>2, InvBySound

LEMMA LifeCycleStep == LifeCycleInv /\ [Next]_vars => LifeCycleInv'
<1> SUFFICES ASSUME LifeCycleInv, [Next]_vars PROVE LifeCycleInv'
  OBVIOUS
<1>1. CASE UNCHANGED vars
  BY <1>1
  DEF vars, LifeCycleInv, LifeCycleTypeOK, SignalsDrain, ExitCodeHonest, Polls,
      Orderly, NotOpenedYet, PollersOff, PollsWhileWaiting, ServerAfterNotify,
      ClosedByShutdown, SignalsKept, EndedByMain, BridgeOnly, ErrOfRun,
      SomeFailed, Failed
<1>2. ASSUME NEW p \in Processes, MainStep(p) PROVE LifeCycleInv'
  BY <1>2, KeptIsEnough, RunCommandKeeps, LoadConfigKeeps, OpenStoreKeeps,
     NotifyKeeps, RunKeeps, RunReturnsKeeps, BeginShutdownKeeps,
     EndShutdownKeeps, DeferredStopKeeps, CloseStoreKeeps
  DEF MainStep
<1>3. ASSUME NEW p \in Processes,
             \/ ListenAndServe(p) \/ ServerFails(p) \/ HandleHealthz(p)
             \/ Signal(p)
      PROVE  LifeCycleInv'
  BY <1>3, KeptIsEnough, ListenAndServeKeeps, ServerFailsKeeps,
     HandleHealthzKeeps, SignalKeeps
<1>4. ASSUME NEW p \in Processes, NEW b \in Bots,
             PollerFails(p, b) \/ PollerEnds(p, b)
      PROVE  LifeCycleInv'
  BY <1>4, KeptIsEnough, PollerKeeps
<1>5. QED
  BY <1>1, <1>2, <1>3, <1>4 DEF Next

(* Wherever main, the goroutine of the server, the pollers and the signals *)
(* stand to each other, main.go and service.go:67-98 keep their order.    *)
THEOREM LifeCycleInvariant == Spec => []LifeCycleInv
BY LifeCycleInit, LifeCycleStep, PTL DEF Spec

(* Every way out of runBridge that opened the store closes it              *)
(* (main.go:78-82), and the types.                                         *)
THEOREM StoreNeverLeaks == Spec => []LifeCycleTypeOK
BY LifeCycleInvariant, PTL DEF LifeCycleInv

(* The deferred calls of main.go:78-111 run when no poller polls any more: *)
(* Wait comes first (service.go:88).                                       *)
THEOREM ShutsDownInOrder == Spec => []ShutdownInOrder
<1>1. LifeCycleInv => ShutdownInOrder
  BY DEF LifeCycleInv, LifeCycleTypeOK, ShutdownInOrder, Polls, Orderly,
         PollsWhileWaiting, ClosedByShutdown, FromShutdown
<1>2. QED
  BY <1>1, LifeCycleInvariant, PTL

(* A signal kills a process that polls only after its health server has    *)
(* called stop() (main.go:100).                                            *)
THEOREM SignalsAreDrained == Spec => []SignalsDrain
BY LifeCycleInvariant, PTL DEF LifeCycleInv

(* A process that was to run the bridge ends with 1 if it could not load   *)
(* its config or open its store, or if a poller failed, and with 0         *)
(* otherwise (main.go:58-120).                                             *)
THEOREM ExitCodeIsHonest == Spec => []ExitCodeHonest
BY LifeCycleInvariant, PTL DEF LifeCycleInv

=============================================================================
