----------------------------- MODULE PolicyTable -----------------------------
(***************************************************************************)
(* The pure decisions of Policy against what the documentation promises of *)
(* them, for every setting an operator can write: the state is the global  *)
(* limits and one token's overrides, and a step is one edit of the         *)
(* configuration. Requests are quantified over in the properties.          *)
(***************************************************************************)
EXTENDS Policy

CONSTANTS LimitsSet,    \* the limits sections under study
          TokenSet,     \* the token entries under study
          Asks          \* the voucher requests under study

ASSUME LimitsAssumption ==
  LimitsSet \subseteq [maxVouchers : Nat, maxValidity : Nat, rate : Nat, ratePerIp : Nat]

ASSUME TokenAssumption ==
  \A t \in TokenSet : /\ DOMAIN t = {"name", "secret", "sites", "scopes", "maxVouchers",
                                    "maxValidity", "rate", "expires"}
                      /\ {t.maxVouchers, t.maxValidity, t.rate} \subseteq Option(Nat)

ASSUME AskAssumption ==
  Asks \subseteq [blank : BOOLEAN, chars : Nat, count : Nat, minutes : Nat, guests : Nat]

VARIABLES limits, token

vars == <<limits, token>>

Init == limits \in LimitsSet /\ token \in TokenSet

EditLimits == /\ limits' \in LimitsSet
              /\ UNCHANGED token

EditToken == /\ token' \in TokenSet
             /\ UNCHANGED limits

Next == EditLimits \/ EditToken

Spec == Init /\ [][Next]_vars

-----------------------------------------------------------------------------
Unrestricted(t) ==
  [t EXCEPT !.maxVouchers = None, !.maxValidity = None, !.rate = None]

(***************************************************************************)
(* The order on ceilings: an absent override is the widest there is.       *)
(***************************************************************************)
Within(a, b) == b = None \/ (a # None /\ b # None /\ a <= b)

Tightened ==
  /\ limits'.maxVouchers <= limits.maxVouchers
  /\ limits'.maxValidity <= limits.maxValidity
  /\ Within(token'.maxVouchers, token.maxVouchers)
  /\ Within(token'.maxValidity, token.maxValidity)

(***************************************************************************)
(* enforce accepts exactly the requests whose every number lies in the     *)
(* range its owner set, whatever the order of its checks (policy.rs:55).   *)
(***************************************************************************)
AcceptsExactlyTheRange ==
  \A ask \in Asks :
    Granted(token, limits, ask) <=>
      LET c == Ceilings(token, limits) IN
      /\ ~ask.blank /\ ask.chars <= NameMax
      /\ ask.count \in 1 .. c.maxVouchers
      /\ ask.minutes \in 1 .. c.maxValidity /\ ask.minutes <= UnifiMax
      /\ ask.guests \in 1 .. GuestMax

(***************************************************************************)
(* "A token may tighten a global limit but never raise it"                 *)
(* (config.rs:245): what a token is granted, the same token without its    *)
(* overrides is granted as well, and it gets no more than the limits give. *)
(***************************************************************************)
OverridesNeverWiden ==
  \A ask \in Asks :
    Granted(token, limits, ask) =>
      /\ Granted(Unrestricted(token), limits, ask)
      /\ ask.count <= limits.maxVouchers
      /\ ask.minutes <= limits.maxValidity

(***************************************************************************)
(* A bad_request is the request's own fault: no limits section and no      *)
(* token would have let it pass (policy.rs:55). A client told bad_request  *)
(* need not ask its operator for more, whichever check came first.         *)
(***************************************************************************)
BadRequestIsTheRequestsFault ==
  \A ask \in Asks :
    Enforce(ask, Ceilings(token, limits)) = "bad_request" =>
      \A l \in LimitsSet : ~Granted(Unrestricted(token), l, ask)

TightenedGrantsNothing ==
  Tightened =>
    \A ask \in Asks : Granted(token', limits', ask) => Granted(token, limits, ask)

(***************************************************************************)
(* Tightening any ceiling, of the token or of all, lets nothing through    *)
(* that was refused before: there is no setting, 0 included, at which a    *)
(* smaller number means more (config.rs:246-258, policy.rs:67-79).         *)
(***************************************************************************)
TighteningNeverGrants == [][TightenedGrantsNothing]_vars

(***************************************************************************)
(* README "A token may tighten it, never raise it" of the call rate, where *)
(* a rate of 0 is no limit at all. The code does not keep this: an         *)
(* override of 0 beats every global rate (config.rs:260-266).              *)
(***************************************************************************)
RateNeverRaised ==
  limits.rate # 0 =>
    EffectiveRateLimit(token, limits) \in 1 .. limits.rate

=============================================================================
