-------------------------- MODULE PolicyTableProofs --------------------------
(***************************************************************************)
(* The promises of PolicyTable for every setting and every request.        *)
(***************************************************************************)
EXTENDS PolicyTable, TLAPS

LEMMA CeilingsBelowLimits ==
  ASSUME NEW l \in LimitsSet, NEW t \in TokenSet
  PROVE  LET c == Ceilings(t, l) IN
         /\ c.maxVouchers \in Nat /\ c.maxVouchers <= l.maxVouchers
         /\ c.maxValidity \in Nat /\ c.maxValidity <= l.maxValidity
BY LimitsAssumption, TokenAssumption, NoneAssumption
DEF Ceilings, EffectiveMaxVouchers, EffectiveMaxValidity, AtMost, Option

(* The ceilings of a token without overrides are the limits themselves.    *)
LEMMA UnrestrictedCeilings ==
  ASSUME NEW l \in LimitsSet, NEW t \in TokenSet
  PROVE  LET c == Ceilings(Unrestricted(t), l) IN
         c.maxVouchers = l.maxVouchers /\ c.maxValidity = l.maxValidity
BY TokenAssumption
DEF Ceilings, EffectiveMaxVouchers, EffectiveMaxValidity, Unrestricted

(***************************************************************************)
(* The order of enforce's checks does not matter for what it accepts, nor, *)
(* where it says bad_request, do the ceilings.                             *)
(***************************************************************************)
LEMMA EnforceAccepts ==
  ASSUME NEW a \in Asks, NEW c, c.maxVouchers \in Nat, c.maxValidity \in Nat
  PROVE  Enforce(a, c) = "ok" <=>
           /\ ~a.blank /\ a.chars <= NameMax
           /\ a.count \in 1 .. c.maxVouchers
           /\ a.minutes \in 1 .. c.maxValidity /\ a.minutes <= UnifiMax
           /\ a.guests \in 1 .. GuestMax
<1>1. /\ a.blank \in BOOLEAN /\ a.chars \in Nat /\ a.count \in Nat
      /\ a.minutes \in Nat /\ a.guests \in Nat
  BY AskAssumption
<1> QED BY <1>1, CapAssumption DEF Enforce, AtMost

LEMMA BadRequestCause ==
  ASSUME NEW a \in Asks, NEW c, Enforce(a, c) = "bad_request"
  PROVE  \/ a.blank \/ a.chars > NameMax \/ a.count = 0 \/ a.minutes = 0
         \/ a.guests = 0 \/ a.guests > GuestMax
BY DEF Enforce

-----------------------------------------------------------------------------
TypeOK == limits \in LimitsSet /\ token \in TokenSet

(* The configuration is always one of those under study.                   *)
THEOREM Typing == Spec => []TypeOK
<1>1. Init => TypeOK
  BY DEF Init, TypeOK
<1>2. TypeOK /\ [Next]_vars => TypeOK'
  BY DEF TypeOK, Next, EditLimits, EditToken, vars
<1> QED BY <1>1, <1>2, PTL DEF Spec

(***************************************************************************)
(* enforce accepts exactly the range its owner set (policy.rs:55), for     *)
(* every configuration and request.                                        *)
(***************************************************************************)
THEOREM AcceptsExactly == Spec => []AcceptsExactlyTheRange
<1>1. TypeOK => AcceptsExactlyTheRange
  BY CeilingsBelowLimits, EnforceAccepts
  DEF TypeOK, AcceptsExactlyTheRange, Granted
<1> QED BY <1>1, Typing, PTL

(***************************************************************************)
(* "A token may tighten a global limit but never raise it" (config.rs:245),*)
(* in its effect on every request and not just in the two numbers.         *)
(***************************************************************************)
THEOREM NeverWider == Spec => []OverridesNeverWiden
<1>1. ASSUME TypeOK, NEW a \in Asks, Granted(token, limits, a)
      PROVE  /\ Granted(Unrestricted(token), limits, a)
             /\ a.count <= limits.maxVouchers /\ a.minutes <= limits.maxValidity
  <2> DEFINE c == Ceilings(token, limits)
             d == Ceilings(Unrestricted(token), limits)
  <2>1. /\ limits \in LimitsSet /\ token \in TokenSet
        /\ limits.maxVouchers \in Nat /\ limits.maxValidity \in Nat
    BY <1>1, LimitsAssumption DEF TypeOK
  <2>2. /\ c.maxVouchers \in Nat /\ c.maxVouchers <= limits.maxVouchers
        /\ c.maxValidity \in Nat /\ c.maxValidity <= limits.maxValidity
    BY <2>1, CeilingsBelowLimits
  <2>3. d.maxVouchers = limits.maxVouchers /\ d.maxValidity = limits.maxValidity
    BY <2>1, UnrestrictedCeilings
  <2>4. a.count \in 1 .. c.maxVouchers /\ a.minutes \in 1 .. c.maxValidity
        /\ ~a.blank /\ a.chars <= NameMax /\ a.minutes <= UnifiMax /\ a.guests \in 1 .. GuestMax
    <3>1. Enforce(a, c) = "ok"
      BY <1>1 DEF Granted
    <3> HIDE DEF c
    <3> QED BY <3>1, <2>2, EnforceAccepts
  <2>5. a.count \in 1 .. d.maxVouchers /\ a.minutes \in 1 .. d.maxValidity
    <3> HIDE DEF c, d
    <3> QED BY <2>1, <2>2, <2>3, <2>4
  <2>6. Enforce(a, d) = "ok"
    <3> HIDE DEF c, d
    <3> QED BY <2>1, <2>3, <2>4, <2>5, EnforceAccepts
  <2>7. a.count <= limits.maxVouchers /\ a.minutes <= limits.maxValidity
    <3> HIDE DEF c, d
    <3> QED BY <2>1, <2>2, <2>4
  <2> QED BY <2>6, <2>7 DEF Granted
<1>2. TypeOK => OverridesNeverWiden
  BY <1>1 DEF OverridesNeverWiden
<1> QED BY <1>2, Typing, PTL

(***************************************************************************)
(* A bad_request stays one under every configuration (policy.rs:55).       *)
(***************************************************************************)
THEOREM BadRequestStays == Spec => []BadRequestIsTheRequestsFault
<1>1. ASSUME NEW a \in Asks, NEW c, Enforce(a, c) = "bad_request",
             NEW l \in LimitsSet, NEW t \in TokenSet
      PROVE  ~Granted(Unrestricted(t), l, a)
  <2> DEFINE d == Ceilings(Unrestricted(t), l)
  <2>1. d.maxVouchers \in Nat /\ d.maxValidity \in Nat
    BY UnrestrictedCeilings, LimitsAssumption
  <2>2. \/ a.blank \/ a.chars > NameMax \/ a.count = 0 \/ a.minutes = 0
        \/ a.guests = 0 \/ a.guests > GuestMax
    BY <1>1, BadRequestCause
  <2>3. a.chars \in Nat /\ a.count \in Nat /\ a.minutes \in Nat /\ a.guests \in Nat
    BY AskAssumption
  <2>4. Enforce(a, d) # "ok"
    <3> HIDE DEF d
    <3> QED BY <2>1, <2>2, <2>3, EnforceAccepts, CapAssumption
  <2> QED BY <2>4 DEF Granted
<1>2. TypeOK => BadRequestIsTheRequestsFault
  BY <1>1 DEF BadRequestIsTheRequestsFault, TypeOK
<1> QED BY <1>2, Typing, PTL

(***************************************************************************)
(* Making any ceiling smaller grants nothing new (config.rs:246-258): the  *)
(* step of an operator's edit, not just the settings it leads to.          *)
(***************************************************************************)
THEOREM TighteningIsMonotone == Spec => TighteningNeverGrants
<1> DEFINE c == Ceilings(token, limits)
           d == Ceilings(token', limits')
<1>1. ASSUME TypeOK, TypeOK', Tightened
      PROVE  /\ c.maxVouchers \in Nat /\ d.maxVouchers \in Nat
             /\ c.maxValidity \in Nat /\ d.maxValidity \in Nat
             /\ d.maxVouchers <= c.maxVouchers /\ d.maxValidity <= c.maxValidity
  <2>1. /\ limits \in LimitsSet /\ limits' \in LimitsSet
        /\ token \in TokenSet /\ token' \in TokenSet
    BY <1>1 DEF TypeOK
  <2>2. /\ limits.maxVouchers \in Nat /\ limits'.maxVouchers \in Nat
        /\ limits.maxValidity \in Nat /\ limits'.maxValidity \in Nat
    BY <2>1, LimitsAssumption
  <2>3. /\ token.maxVouchers \in Option(Nat) /\ token'.maxVouchers \in Option(Nat)
        /\ token.maxValidity \in Option(Nat) /\ token'.maxValidity \in Option(Nat)
    BY <2>1, TokenAssumption
  <2>4. /\ c.maxVouchers \in Nat /\ d.maxVouchers \in Nat /\ d.maxVouchers <= c.maxVouchers
    BY <1>1, <2>2, <2>3, NoneAssumption
    DEF Tightened, Within, Ceilings, EffectiveMaxVouchers, AtMost, Option
  <2>5. /\ c.maxValidity \in Nat /\ d.maxValidity \in Nat /\ d.maxValidity <= c.maxValidity
    BY <1>1, <2>2, <2>3, NoneAssumption
    DEF Tightened, Within, Ceilings, EffectiveMaxValidity, AtMost, Option
  <2> QED BY <2>4, <2>5
<1>2. ASSUME TypeOK, TypeOK', Tightened, NEW a \in Asks, Granted(token', limits', a)
      PROVE  Granted(token, limits, a)
  <2>1. Enforce(a, d) = "ok"
    BY <1>2 DEF Granted
  <2>2. Enforce(a, c) = "ok"
    <3> HIDE DEF c, d
    <3> QED BY <1>1, <1>2, <2>1, EnforceAccepts
  <2> QED BY <2>2 DEF Granted
<1>3. TypeOK /\ TypeOK' => TightenedGrantsNothing
  BY <1>2 DEF TightenedGrantsNothing
<1> QED BY <1>3, Typing, PTL DEF TighteningNeverGrants

=============================================================================
