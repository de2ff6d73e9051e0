------------------------------- MODULE Server -------------------------------
(***************************************************************************)
(* The life of the process (main.rs): start, the signal handlers of its    *)
(* tasks, reloads on SIGHUP (AppState::reload, state.rs), graceful         *)
(* shutdown, death at any point and restart; next to it the operator, who  *)
(* edits the configuration file and runs check-config, and clients with a  *)
(* connection each. What a request does inside is in Proxy and GraphQL;    *)
(* here it is owed by its client, then worked on, then answered.           *)
(***************************************************************************)
EXTENDS Configuration, Naturals

CONSTANTS Contents,         \* what the operator puts in the file
          Clients,
          MaxReloads        \* bound: reloads of one process

ASSUME ServerAssumption ==
  Contents \subseteq Content /\ None \notin Contents /\ MaxReloads \in Nat

VARIABLES disk,             \* what the file holds now
          process,          \* down, or how far serve has come
          live,             \* the configuration in AppState::live
          reloader,         \* where the SIGHUP task is
          candidate,        \* what it has loaded and built
          pending,          \* a SIGHUP not yet taken by it
          tried, verdicts,  \* history: what it read last, and how many of the
                            \* contents it read were acceptable or not
          tally,            \* Metrics::reloads and reload_failures
          stopper,          \* the two shutdown_signal futures
          conn              \* each client's connection

vars == <<disk, process, live, reloader, candidate, pending, tried, verdicts, tally,
          stopper, conn>>
reloading == <<live, reloader, candidate, tried, verdicts, tally>>

Up == process # "down"
Listening == process \in {"bound", "serving"}
Listeners == {"main", "metrics"}
Zero == [ok |-> 0, failed |-> 0]

Init ==
  /\ disk \in Contents
  /\ process = "down" /\ live = None
  /\ reloader = "none" /\ candidate = None /\ pending = FALSE
  /\ tried = None /\ verdicts = Zero /\ tally = Zero
  /\ stopper = [l \in Listeners |-> "none"]
  /\ conn = [c \in Clients |-> "none"]

(* Nothing of a process outlives it.                                       *)
Halt ==
  /\ process' = "down" /\ live' = None
  /\ reloader' = "none" /\ candidate' = None /\ pending' = FALSE
  /\ tried' = None /\ verdicts' = Zero /\ tally' = Zero
  /\ stopper' = [l \in Listeners |-> "none"]
  /\ conn' = [c \in Clients |-> "none"]
  /\ UNCHANGED disk

-----------------------------------------------------------------------------
(* serve: load the file and build the state, or exit with an error.        *)
Start ==
  /\ process = "down" /\ Accepted(disk)
  /\ process' = "built" /\ live' = disk
  /\ UNCHANGED <<disk, reloader, candidate, pending, tried, verdicts, tally, stopper, conn>>

(* Faulty variant: the reload task is spawned before there is a server.    *)
BindSpawning ==
  /\ process = "built"
  /\ process' = "bound" /\ reloader' = "spawned"
  /\ stopper' = [stopper EXCEPT !["metrics"] = "spawned"]
  /\ UNCHANGED <<disk, live, candidate, pending, tried, verdicts, tally, conn>>

(* Bind the address, and the one for metrics, whose task is spawned first. *)
Bind ==
  /\ process = "built"
  /\ process' = "bound"
  /\ stopper' = [stopper EXCEPT !["metrics"] = "spawned"]
  /\ UNCHANGED <<disk, reloading, pending, conn>>

BindFails == process = "built" /\ Halt

(* Spawn the reload task and begin to accept.                              *)
Serve ==
  /\ process = "bound"
  /\ process' = "serving"
  /\ reloader' = "spawned"
  /\ stopper' = [stopper EXCEPT !["main"] = "spawned"]
  /\ UNCHANGED <<disk, live, candidate, tried, verdicts, tally, pending, conn>>

(* A handler exists from the first poll of the future that wants it.       *)
HandleHangup ==
  /\ reloader = "spawned"
  /\ reloader' = "waiting"
  /\ UNCHANGED <<disk, process, live, candidate, pending, tried, verdicts, tally,
                 stopper, conn>>

HandleTerm(l) ==
  /\ stopper[l] = "spawned"
  /\ stopper' = [stopper EXCEPT ![l] = "waiting"]
  /\ UNCHANGED <<disk, process, reloading, pending, conn>>

-----------------------------------------------------------------------------
Begun == verdicts.ok + verdicts.failed + (IF reloader = "loading" THEN 1 ELSE 0)

(***************************************************************************)
(* A signal that has a handler is kept until it is taken, one of a kind.   *)
(* Without one it ends the process; if that is PID 1, as in a container,   *)
(* nothing happens, which is a stuttering step.                            *)
(***************************************************************************)
Hangup ==
  /\ Up /\ Begun < MaxReloads
  /\ IF reloader \in {"none", "spawned"}
     THEN Halt
     ELSE /\ pending' = TRUE
          /\ UNCHANGED <<disk, process, reloading, stopper, conn>>

(* SIGTERM or SIGINT. Every waiting shutdown_signal gets it; afterwards    *)
(* the handler stays, so that another one is of no effect.                 *)
Term ==
  /\ Up
  /\ IF \A l \in Listeners : stopper[l] \in {"none", "spawned"}
     THEN Halt
     ELSE /\ stopper' = [l \in Listeners |->
                           IF stopper[l] = "waiting" THEN "woken" ELSE stopper[l]]
          /\ UNCHANGED <<disk, process, reloading, pending, conn>>

(* SIGKILL, the OOM killer, a panic (the release build aborts on one).     *)
Kill == Up /\ Halt

-----------------------------------------------------------------------------
Increment(counts, ok) ==
  IF ok THEN [counts EXCEPT !.ok = @ + 1] ELSE [counts EXCEPT !.failed = @ + 1]

(* hup.recv() returns: from here on another SIGHUP is another reload.      *)
Take ==
  /\ reloader = "waiting" /\ pending
  /\ pending' = FALSE
  /\ reloader' = "loading"
  /\ UNCHANGED <<disk, process, live, candidate, tried, verdicts, tally, stopper, conn>>

(* The file is read as it is at this moment, and judged as a whole.        *)
Read ==
  /\ reloader = "loading"
  /\ tried' = disk
  /\ verdicts' = Increment(verdicts, Accepted(disk))
  /\ UNCHANGED <<disk, process, live, pending, tally, stopper, conn>>

(* Faulty variant: what loads is installed, whether it builds or not.      *)
LoadUnbuilt ==
  /\ Read
  /\ IF Loads(disk) THEN reloader' = "storing" /\ candidate' = disk
     ELSE reloader' = "rejected" /\ UNCHANGED candidate

(* Config::load reads the file as it is now; then Live::build.             *)
Load ==
  /\ Read
  /\ IF Accepted(disk) THEN reloader' = "storing" /\ candidate' = disk
     ELSE reloader' = "rejected" /\ UNCHANGED candidate

Store ==
  /\ reloader = "storing"
  /\ live' = candidate /\ candidate' = None
  /\ reloader' = "stored"
  /\ UNCHANGED <<disk, process, pending, tried, verdicts, tally, stopper, conn>>

(* Faulty variant: the two counters are mixed up.                          *)
RecordReloadSwapped(ok) == tally' = Increment(tally, ~ok)

RecordReload(ok) == tally' = Increment(tally, ok)

(* Faulty variants: signals that came meanwhile are forgotten; a rejected  *)
(* reload leaves the loop by `?'.                                          *)
CountForgetting ==
  /\ reloader \in {"stored", "rejected"}
  /\ RecordReload(reloader = "stored")
  /\ reloader' = "waiting" /\ pending' = FALSE
  /\ UNCHANGED <<disk, process, live, candidate, tried, verdicts, stopper, conn>>

CountAccepted ==
  /\ reloader \in {"stored", "rejected"}
  /\ tally' = IF reloader = "stored" THEN [tally EXCEPT !.ok = @ + 1] ELSE tally
  /\ reloader' = "waiting"
  /\ UNCHANGED <<disk, process, live, candidate, pending, tried, verdicts, stopper, conn>>

(* One or the other is counted, and back to the loop.                      *)
Count ==
  /\ reloader \in {"stored", "rejected"}
  /\ RecordReload(reloader = "stored")
  /\ reloader' = "waiting"
  /\ UNCHANGED <<disk, process, live, candidate, pending, tried, verdicts, stopper, conn>>

-----------------------------------------------------------------------------
(* A connection, from the kernel's backlog to the client's next request.   *)
Move(c, from, to) ==
  /\ conn[c] \in from
  /\ conn' = [conn EXCEPT ![c] = to]
  /\ UNCHANGED <<disk, process, reloading, pending, stopper>>

Dial(c) == Listening /\ Move(c, {"none"}, "backlog")
Accept(c) == process = "serving" /\ Move(c, {"backlog"}, "idle")
Request(c) == Move(c, {"idle"}, "owing")            \* its first bytes
Complete(c) == Move(c, {"owing"}, "working")        \* its last byte
Leave(c) == Move(c, {"backlog", "idle", "owing", "working", "writing"}, "none")

(* Every wait inside a handler has a timeout, so its answer comes. What    *)
(* the socket takes is written at once; then the connection is kept, but   *)
(* not by a server that is shutting down. What is too much for it waits    *)
(* for the client to read, and nothing bounds that wait.                   *)
Rest == IF process = "draining" THEN "none" ELSE "idle"
Answer(c) == Move(c, {"working"}, Rest)
AnswerPartly(c) == Move(c, {"working"}, "writing")
TakeRest(c) == Move(c, {"writing"}, Rest)
Respond(c) == Answer(c) \/ AnswerPartly(c)

(* Faulty variant: connections without a request are kept too.             *)
DrainKeepingIdle ==
  /\ stopper["main"] = "woken"
  /\ process' = "draining"
  /\ stopper' = [stopper EXCEPT !["main"] = "done"]
  /\ conn' = [c \in Clients |-> IF conn[c] = "backlog" THEN "none" ELSE conn[c]]
  /\ UNCHANGED <<disk, reloading, pending>>

(* The listener goes, and with it who was not accepted; so do connections  *)
(* that carry no request.                                                  *)
Drain ==
  /\ stopper["main"] = "woken"
  /\ process' = "draining"
  /\ stopper' = [stopper EXCEPT !["main"] = "done"]
  /\ conn' = [c \in Clients |-> IF conn[c] \in {"backlog", "idle"} THEN "none" ELSE conn[c]]
  /\ UNCHANGED <<disk, reloading, pending>>

(* The metrics listener stops by itself; nobody waits for it.              *)
StopMetrics ==
  /\ stopper["metrics"] = "woken"
  /\ stopper' = [stopper EXCEPT !["metrics"] = "done"]
  /\ UNCHANGED <<disk, process, reloading, pending, conn>>

(* axum::serve returns when the last connection is closed, then main does. *)
Exit ==
  /\ process = "draining" /\ \A c \in Clients : conn[c] = "none"
  /\ Halt

-----------------------------------------------------------------------------
(* The operator saves another file, or none, or one that is not finished.  *)
Edit(f) ==
  /\ disk' = f
  /\ UNCHANGED <<process, reloading, pending, stopper, conn>>

(* What the process and its tasks do by themselves.                        *)
Reloading == Take \/ Load \/ Store \/ Count
Starting == Bind \/ Serve
Stopping == Drain \/ Exit

Next ==
  \/ Start \/ Starting \/ BindFails \/ HandleHangup \/ \E l \in Listeners : HandleTerm(l)
  \/ Hangup \/ Term \/ Kill
  \/ Reloading \/ Stopping \/ StopMetrics
  \/ \E c \in Clients : Dial(c) \/ Accept(c) \/ Request(c) \/ Complete(c)
                        \/ Respond(c) \/ TakeRest(c) \/ Leave(c)
  \/ \E f \in Contents : Edit(f)

Spec == Init /\ [][Next]_vars

(***************************************************************************)
(* The runtime polls its tasks, and the handler of what is worked on       *)
(* returns (Proxy: EveryRequestSettles, Upstream: CallsEnd); whether its   *)
(* answer then fits the socket is left open. Clients, who send and read as *)
(* they like, the operator and whoever restarts the process owe nothing.   *)
(***************************************************************************)
FairSpec ==
  /\ Spec
  /\ WF_vars(Reloading) /\ WF_vars(Stopping)
  /\ \A c \in Clients : WF_vars(Respond(c))

=============================================================================
