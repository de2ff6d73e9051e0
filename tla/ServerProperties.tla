-------------------------- MODULE ServerProperties --------------------------
(***************************************************************************)
(* What the process keeps through reloads, shutdowns and restarts.         *)
(***************************************************************************)
EXTENDS Server

(***************************************************************************)
(* Every variable has its type; a reload task is there only with a server  *)
(* that it can reload (main.rs:148), and holds a configuration only from   *)
(* its building to its storing.                                            *)
(***************************************************************************)
Reloader == {"none", "spawned", "waiting", "loading", "storing", "stored", "rejected"}

TypeOK ==
  /\ disk \in Contents
  /\ process \in {"down", "built", "bound", "serving", "draining"}
  /\ live \in Contents \cup {None}
  /\ reloader \in Reloader
  /\ reloader # "none" => process \in {"serving", "draining"}
  /\ candidate \in Contents \cup {None}
  /\ candidate # None <=> reloader = "storing"
  /\ pending \in BOOLEAN
  /\ tried \in Contents \cup {None}
  /\ verdicts \in [ok : Nat, failed : Nat]
  /\ tally \in [ok : Nat, failed : Nat]
  /\ stopper \in [Listeners -> {"none", "spawned", "waiting", "woken", "done"}]
  /\ conn \in [Clients -> {"none", "backlog", "idle", "owing", "working", "writing"}]

(***************************************************************************)
(* Whatever the operator saves and whenever a reload reads it, what serves *)
(* is a configuration that was accepted as a whole, and no request ever    *)
(* meets another: "a typo in a token entry must not be able to take a      *)
(* working proxy down" (state.rs:79).                                      *)
(***************************************************************************)
LiveIsSound == IF Up THEN Accepted(live) ELSE live = None

(***************************************************************************)
(* A reload that is over has replaced Live or, rejected, left it alone,    *)
(* and the counters say how often it was the one and how often the other   *)
(* (main.rs:379-388): what was read last is Live exactly if it was         *)
(* acceptable, `ok' counts the acceptable contents that were read, and     *)
(* `failed' the others.                                                    *)
(***************************************************************************)
ReloadsAreCounted ==
  reloader \in {"waiting", "loading"} =>
    /\ tally = verdicts
    /\ tried # None => (live = tried <=> Accepted(tried))

(***************************************************************************)
(* "Catching it here means check-config agrees" (config.rs:390): what      *)
(* check-config passes, serve and a reload take, and the other way around. *)
(***************************************************************************)
CheckConfigAgrees == ChecksOut(disk) <=> Accepted(disk)

(***************************************************************************)
(* No SIGHUP is lost once its handler exists, though several may be        *)
(* answered by one reload: after the last of them the file is read once    *)
(* more, so what it holds then is tried (main.rs:378), unless it is edited *)
(* again or the process ends.                                              *)
(***************************************************************************)
NoHangupIsLost ==
  \A f \in Contents :
    (pending /\ disk = f) ~> (tried = f \/ disk # f \/ ~Up)

(***************************************************************************)
(* Shutdown ends unless one client holds it up for ever (main.rs:166): one *)
(* that began a request and does not finish it, or one that does not read  *)
(* an answer too large for its socket, for which axum::serve sets no       *)
(* timeout. Connections without a request, and handlers at work, do not.   *)
(***************************************************************************)
HeldUpBy(c) == process = "draining" /\ conn[c] \in {"owing", "writing"}

ShutdownEnds ==
  (process = "draining") ~> (~Up \/ \E c \in Clients : []HeldUpBy(c))

=============================================================================
