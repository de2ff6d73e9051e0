---------------------------- MODULE ServerProofs ----------------------------
(***************************************************************************)
(* What the process keeps, for every set of contents that the operator may *)
(* save, every number of clients and every number of reloads.              *)
(*                                                                         *)
(* The invariant follows a reload: what is about to be stored was accepted *)
(* as it was read, what was rejected is not Live because Live is accepted, *)
(* and the counters lag behind what was read by the one that is in hand.   *)
(***************************************************************************)
EXTENDS ServerProperties, TLAPS

(* A process that is down has no handlers, a task that does not listen yet *)
(* no past.                                                                *)
Dormant ==
  /\ ~Up => \A l \in Listeners : stopper[l] = "none"
  /\ reloader \in {"none", "spawned"} => tried = None /\ verdicts = Zero /\ tally = Zero

Decided ==
  /\ reloader \in {"storing", "stored", "rejected"} => tried # None
  /\ reloader = "storing" => candidate = tried /\ Accepted(tried)
  /\ reloader = "stored" => live = tried /\ Accepted(tried)
  /\ reloader = "rejected" => ~Accepted(tried)

Tallied ==
  /\ reloader \in {"waiting", "loading"} => verdicts = tally
  /\ reloader \in {"storing", "stored"} => verdicts = Increment(tally, TRUE)
  /\ reloader = "rejected" => verdicts = Increment(tally, FALSE)

Remembered ==
  reloader \in {"waiting", "loading"} /\ tried # None => (live = tried <=> Accepted(tried))

IInv == TypeOK /\ LiveIsSound /\ Dormant /\ Decided /\ Tallied /\ Remembered

-----------------------------------------------------------------------------
LEMMA ZeroTally == Zero \in [ok : Nat, failed : Nat]
BY DEF Zero

LEMMA IncrementTyped ==
  ASSUME NEW counts \in [ok : Nat, failed : Nat], NEW ok \in BOOLEAN
  PROVE  Increment(counts, ok) \in [ok : Nat, failed : Nat]
BY DEF Increment

LEMMA InitIInv == Init => IInv
<1> SUFFICES ASSUME Init PROVE IInv
  OBVIOUS
<1>1. TypeOK
  BY ZeroTally DEF Init, TypeOK, Reloader
<1> QED
  BY <1>1 DEF Init, IInv, LiveIsSound, Dormant, Decided, Tallied, Remembered, Up

(* The end of a process, however it comes about.                           *)
LEMMA HaltKeepsIInv ==
  ASSUME IInv, Halt
  PROVE  IInv'
BY DEF Halt, IInv, TypeOK, LiveIsSound, Dormant, Decided, Tallied, Remembered, Up, Reloader,
       Listeners, Zero

(* A step that has nothing to do with reloads and starts no process.       *)
LEMMA AsideKeepsIInv ==
  ASSUME IInv, UNCHANGED reloading, TypeOK', Up <=> Up', ~Up => stopper' = stopper
  PROVE  IInv'
BY DEF reloading, IInv, LiveIsSound, Dormant, Decided, Tallied, Remembered, Up

-----------------------------------------------------------------------------
LEMMA StartKeepsIInv == IInv /\ Start => IInv'
BY DEF Start, IInv, TypeOK, LiveIsSound, Dormant, Decided, Tallied, Remembered, Up, Reloader,
       Listeners, Zero

LEMMA ServeKeepsIInv == IInv /\ Serve => IInv'
<1> SUFFICES ASSUME IInv, Serve PROVE IInv'
  OBVIOUS
<1>1. TypeOK'
  BY DEF Serve, IInv, TypeOK, Reloader, Listeners
<1>2. reloader = "none"
  BY DEF Serve, IInv, TypeOK
<1> QED
  BY <1>1, <1>2
  DEF Serve, IInv, LiveIsSound, Dormant, Decided, Tallied, Remembered, Up

LEMMA HandleHangupKeepsIInv == IInv /\ HandleHangup => IInv'
<1> SUFFICES ASSUME IInv, HandleHangup PROVE IInv'
  OBVIOUS
<1>1. TypeOK'
  BY DEF HandleHangup, IInv, TypeOK, Reloader
<1>2. tried = None /\ verdicts = tally
  BY DEF HandleHangup, IInv, Dormant
<1> QED
  BY <1>1, <1>2
  DEF HandleHangup, IInv, LiveIsSound, Dormant, Decided, Tallied, Remembered, Up

(* The four steps of a reload.                                             *)
LEMMA ReloadingKeepsIInv == IInv /\ Reloading => IInv'
<1> SUFFICES ASSUME IInv, Reloading PROVE IInv'
  OBVIOUS
<1>0. process \in {"serving", "draining"} /\ Up /\ process' = process
  BY DEF IInv, TypeOK, Reloading, Take, Load, Read, Store, Count, Up
<1>1. CASE Take
  <2>1. TypeOK'
    BY <1>0, <1>1 DEF Take, IInv, TypeOK, Reloader
  <2> QED
    BY <1>0, <1>1, <2>1
    DEF Take, IInv, LiveIsSound, Dormant, Decided, Tallied, Remembered, Up
<1>2. CASE Load
  <2>1. disk # None
    BY ServerAssumption DEF IInv, TypeOK
  <2>2. Accepted(disk) \in BOOLEAN
    BY DEF Accepted, Loads, Builds
  <2>3. verdicts' = Increment(verdicts, Accepted(disk)) /\ verdicts' \in [ok : Nat, failed : Nat]
    BY <1>2, <2>2, IncrementTyped DEF Load, Read, IInv, TypeOK
  <2>4. TypeOK'
    BY <1>0, <1>2, <2>1, <2>3 DEF Load, Read, IInv, TypeOK, Reloader
  <2>5. Tallied'
    BY <1>2, <2>2, <2>3 DEF Load, Read, IInv, Tallied
  <2> QED
    BY <1>0, <1>2, <2>1, <2>4, <2>5
    DEF Load, Read, IInv, LiveIsSound, Dormant, Decided, Remembered, Up
<1>3. CASE Store
  <2>1. TypeOK'
    BY <1>0, <1>3 DEF Store, IInv, TypeOK, Reloader
  <2> QED
    BY <1>0, <1>3, <2>1
    DEF Store, IInv, LiveIsSound, Dormant, Decided, Tallied, Remembered, Up
<1>4. CASE Count
  <2>1. tally' = Increment(tally, reloader = "stored")
    BY <1>4 DEF Count, RecordReload
  <2>2. tally' \in [ok : Nat, failed : Nat]
    BY <2>1, IncrementTyped DEF IInv, TypeOK
  <2>3. TypeOK'
    BY <1>0, <1>4, <2>2 DEF Count, IInv, TypeOK, Reloader
  <2>4. Tallied'
    BY <1>4, <2>1 DEF Count, IInv, Tallied
  <2>5. live = tried <=> Accepted(tried)
    BY <1>0, <1>4 DEF Count, IInv, Decided, LiveIsSound
  <2>6. Remembered'
    BY <1>4, <2>5 DEF Count, Remembered
  <2> QED
    BY <1>0, <1>4, <2>3, <2>4, <2>6
    DEF Count, IInv, LiveIsSound, Dormant, Decided, Up
<1> QED BY <1>1, <1>2, <1>3, <1>4 DEF Reloading

(* Binding, signals, shutdown and the operator leave reloads alone, or end *)
(* the process.                                                            *)
LEMMA SignalsKeepIInv ==
  ASSUME IInv, Bind \/ BindFails \/ Hangup \/ Term \/ Kill
  PROVE  IInv'
<1>1. CASE Halt
  BY <1>1, HaltKeepsIInv
<1>2. CASE Bind
  <2>1. TypeOK'
    BY <1>2 DEF Bind, reloading, IInv, TypeOK, Listeners
  <2> QED BY <1>2, <2>1, AsideKeepsIInv DEF Bind, Up
<1>3. CASE Hangup /\ ~Halt
  <2>1. TypeOK'
    BY <1>3 DEF Hangup, reloading, IInv, TypeOK
  <2> QED BY <1>3, <2>1, AsideKeepsIInv DEF Hangup, Up
<1>4. CASE Term /\ ~Halt
  <2>1. TypeOK'
    BY <1>4 DEF Term, reloading, IInv, TypeOK
  <2> QED BY <1>4, <2>1, AsideKeepsIInv DEF Term, Up
<1> QED BY <1>1, <1>2, <1>3, <1>4 DEF BindFails, Hangup, Term, Kill

LEMMA ShutdownKeepsIInv ==
  ASSUME IInv, (\E l \in Listeners : HandleTerm(l)) \/ Drain \/ StopMetrics \/ Exit
  PROVE  IInv'
<1>1. ASSUME NEW l \in Listeners, HandleTerm(l) PROVE IInv'
  <2>1. TypeOK'
    BY <1>1 DEF HandleTerm, reloading, IInv, TypeOK
  <2>2. Up /\ Up'
    BY <1>1 DEF HandleTerm, IInv, Dormant, Up
  <2> QED BY <1>1, <2>1, <2>2, AsideKeepsIInv DEF HandleTerm
<1>2. CASE Drain
  <2>1. TypeOK'
    BY <1>2 DEF Drain, reloading, IInv, TypeOK
  <2>2. Up /\ Up'
    BY <1>2 DEF Drain, IInv, Dormant, Up, Listeners
  <2> QED BY <1>2, <2>1, <2>2, AsideKeepsIInv DEF Drain
<1>3. CASE StopMetrics
  <2>1. TypeOK'
    BY <1>3 DEF StopMetrics, reloading, IInv, TypeOK
  <2>2. Up /\ Up'
    BY <1>3 DEF StopMetrics, IInv, Dormant, Up, Listeners
  <2> QED BY <1>3, <2>1, <2>2, AsideKeepsIInv DEF StopMetrics
<1>4. CASE Exit
  BY <1>4, HaltKeepsIInv DEF Exit
<1> QED BY <1>1, <1>2, <1>3, <1>4

LEMMA ClientsKeepIInv ==
  ASSUME IInv,
         \/ \E c \in Clients : \/ Dial(c) \/ Accept(c) \/ Request(c)
                               \/ Complete(c) \/ Respond(c) \/ TakeRest(c) \/ Leave(c)
         \/ \E f \in Contents : Edit(f)
  PROVE  IInv'
<1>1. ASSUME NEW c \in Clients, NEW from,
             NEW to \in {"none", "backlog", "idle", "owing", "working", "writing"},
             Move(c, from, to)
      PROVE  IInv'
  <2>1. TypeOK'
    BY <1>1 DEF Move, reloading, IInv, TypeOK
  <2> QED BY <1>1, <2>1, AsideKeepsIInv DEF Move, Up
<1>2. ASSUME NEW f \in Contents, Edit(f) PROVE IInv'
  <2>1. TypeOK'
    BY <1>2 DEF Edit, reloading, IInv, TypeOK
  <2> QED BY <1>2, <2>1, AsideKeepsIInv DEF Edit, Up
<1> QED BY <1>1, <1>2 DEF Dial, Accept, Request, Complete, Respond, Answer, AnswerPartly,
                             TakeRest, Rest, Leave

LEMMA StepIInv == IInv /\ [Next]_vars => IInv'
<1> SUFFICES ASSUME IInv, [Next]_vars PROVE IInv'
  OBVIOUS
<1>1. CASE UNCHANGED vars
  <2>1. TypeOK'
    BY <1>1 DEF vars, IInv, TypeOK
  <2> QED BY <1>1, <2>1, AsideKeepsIInv DEF vars, reloading, Up
<1> QED
  BY <1>1, StartKeepsIInv, ServeKeepsIInv, HandleHangupKeepsIInv, ReloadingKeepsIInv,
     SignalsKeepIInv, ShutdownKeepsIInv, ClientsKeepIInv
  DEF Next, Starting, Stopping

LEMMA Invariance == Spec => []IInv
<1>1. Init => IInv
  BY InitIInv
<1>2. IInv /\ [Next]_vars => IInv'
  BY StepIInv
<1> QED BY <1>1, <1>2, PTL DEF Spec

-----------------------------------------------------------------------------
(***************************************************************************)
(* Type correctness; a reload task is there only while there is a server   *)
(* (main.rs:148).                                                          *)
(***************************************************************************)
THEOREM Typing == Spec => []TypeOK
<1>1. IInv => TypeOK
  BY DEF IInv
<1> QED BY <1>1, Invariance, PTL

(***************************************************************************)
(* What serves was accepted as a whole, whatever is saved and whenever a   *)
(* reload reads it (state.rs:79).                                          *)
(***************************************************************************)
THEOREM LiveStaysSound == Spec => []LiveIsSound
<1>1. IInv => LiveIsSound
  BY DEF IInv
<1> QED BY <1>1, Invariance, PTL

(***************************************************************************)
(* A rejected reload leaves Live alone, an accepted one replaces it, and   *)
(* `ok' counts the acceptable contents that were read, `failed' the others *)
(* (main.rs:379).                                                          *)
(***************************************************************************)
THEOREM EveryReloadCounted == Spec => []ReloadsAreCounted
<1>1. IInv => ReloadsAreCounted
  BY DEF IInv, Tallied, Remembered, ReloadsAreCounted
<1> QED BY <1>1, Invariance, PTL

(***************************************************************************)
(* check-config and serve agree on every content of the file: validate     *)
(* leaves nothing for the building of the TLS client to refuse, and the    *)
(* hashes are parsed by both (config.rs:390, main.rs:343).                 *)
(***************************************************************************)
THEOREM CheckConfigIsRight == Spec => []CheckConfigAgrees
<1>1. CheckConfigAgrees
  <2>1. Loads(disk) => (disk.pins # None => \A pin \in disk.pins : IsFingerprint(pin))
    BY DEF Loads, Validates, ValidPins
  <2> QED BY <2>1 DEF CheckConfigAgrees, ChecksOut, Accepted, Builds
<1> QED BY <1>1, PTL

=============================================================================
