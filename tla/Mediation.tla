------------------------------ MODULE Mediation ------------------------------
(***************************************************************************)
(* What the proxy promises about each operation it mediates, whatever it   *)
(* does inside: the console acts for a request only after the request was  *)
(* granted, at most once, and the client is told                           *)
(*   "success"  only when the console has acted,                           *)
(*   "refusal"  only when it has not and never will,                       *)
(*   "failure"  when neither is known: the console may act before or after *)
(*              the answer, or not at all.                                 *)
(* A client may also hear nothing, because it left.                        *)
(***************************************************************************)
CONSTANT Requests

VARIABLES verdict,      \* what was decided about each request
          acted,        \* the console has acted for it
          told          \* what its client was told

vars == <<verdict, acted, told>>

TypeOK ==
  /\ verdict \in [Requests -> {"open", "granted", "denied"}]
  /\ acted \in [Requests -> BOOLEAN]
  /\ told \in [Requests -> {"nothing", "success", "refusal", "failure"}]

Init ==
  /\ verdict = [r \in Requests |-> "open"]
  /\ acted = [r \in Requests |-> FALSE]
  /\ told = [r \in Requests |-> "nothing"]

Grant(r) ==
  /\ verdict[r] = "open"
  /\ verdict' = [verdict EXCEPT ![r] = "granted"]
  /\ UNCHANGED <<acted, told>>

Deny(r) ==
  /\ verdict[r] = "open"
  /\ verdict' = [verdict EXCEPT ![r] = "denied"]
  /\ told' = [told EXCEPT ![r] = "refusal"]
  /\ UNCHANGED acted

Act(r) ==
  /\ verdict[r] = "granted" /\ ~acted[r]
  /\ acted' = [acted EXCEPT ![r] = TRUE]
  /\ UNCHANGED <<verdict, told>>

Tell(r) ==
  /\ verdict[r] = "granted" /\ told[r] = "nothing"
  /\ \E word \in {"success", "failure"} :
       /\ word = "success" => acted[r]
       /\ told' = [told EXCEPT ![r] = word]
  /\ UNCHANGED <<verdict, acted>>

Next == \E r \in Requests : Grant(r) \/ Deny(r) \/ Act(r) \/ Tell(r)

Spec == Init /\ [][Next]_vars

=============================================================================
