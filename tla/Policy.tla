------------------------------- MODULE Policy -------------------------------
(***************************************************************************)
(* What a token may do and how large a voucher request may be: the pure    *)
(* decisions of policy.rs and of TokenConfig / Limits in config.rs.        *)
(*                                                                         *)
(* A token is a record                                                     *)
(*   name, secret          its label, and the secret its hash verifies     *)
(*   sites, scopes         what it may touch ("*" in sites: every site)    *)
(*   maxVouchers, maxValidity, rate    its overrides, None when absent     *)
(*   expires               the instant it lapses, None for never           *)
(* limits is a record maxVouchers, maxValidity, rate, ratePerIp, and a     *)
(* voucher request, `ask', a record blank, chars, count, minutes, guests:  *)
(* blank and chars are all that enforce looks at in the voucher's name.    *)
(*                                                                         *)
(* Every number is a u32 or a u64 that is only ever compared, so no width  *)
(* matters: a value that does not fit is refused while it is parsed.       *)
(***************************************************************************)
EXTENDS Integers

CONSTANTS None,         \* an Option that is not there
          NameMax,      \* longest voucher name, in characters (128)
          UnifiMax,     \* the console's own cap on minutes (1 000 000)
          GuestMax      \* most guests per voucher (10 000)

ASSUME NoneAssumption == None \notin Int
ASSUME CapAssumption == NameMax \in Nat /\ UnifiMax \in Nat /\ GuestMax \in Nat

Option(S) == S \cup {None}

AtMost(a, b) == IF a <= b THEN a ELSE b

-----------------------------------------------------------------------------
(* Faulty variants of the definitions below, for the mutation checks.      *)
MaxVouchersTokenWins(token, limits) ==
  IF token.maxVouchers = None THEN limits.maxVouchers ELSE token.maxVouchers

MaxValidityOfLimits(token, limits) == limits.maxValidity

-----------------------------------------------------------------------------
(***************************************************************************)
(* The ceilings that apply to one caller: its override, never above the    *)
(* global limit.                                                           *)
(***************************************************************************)
EffectiveMaxVouchers(token, limits) ==
  IF token.maxVouchers = None
    THEN limits.maxVouchers
    ELSE AtMost(token.maxVouchers, limits.maxVouchers)

EffectiveMaxValidity(token, limits) ==
  IF token.maxValidity = None
    THEN limits.maxValidity
    ELSE AtMost(token.maxValidity, limits.maxValidity)

Ceilings(token, limits) ==
  [maxVouchers |-> EffectiveMaxVouchers(token, limits),
   maxValidity |-> EffectiveMaxValidity(token, limits)]

(***************************************************************************)
(* The call rate of one token; 0 is "no limit" on either side, and also    *)
(* what comes out for a token that has none.                               *)
(***************************************************************************)
EffectiveRateLimit(token, limits) ==
  CASE token.rate = None                       -> limits.rate
    [] token.rate # None /\ limits.rate = 0    -> token.rate
    [] token.rate # None /\ limits.rate # 0    -> AtMost(token.rate, limits.rate)

(* Scope, site and expiry of one token.                                    *)
HasScope(token, scope) == scope \in token.scopes

AllowsSite(token, site) == "*" \in token.sites \/ site \in token.sites

IsExpiredAt(token, now) == token.expires # None /\ now >= token.expires

(***************************************************************************)
(* The token a secret authenticates: the first in the file whose hash      *)
(* verifies it, 0 for none. Module Authenticator shows that the cache and  *)
(* the scan of authenticate compute this.                                  *)
(***************************************************************************)
Verifying(tokens, secret) == {i \in DOMAIN tokens : tokens[i].secret = secret}

Authenticate(tokens, secret) ==
  IF Verifying(tokens, secret) = {} THEN 0
  ELSE CHOOSE i \in Verifying(tokens, secret) :
         \A j \in Verifying(tokens, secret) : i <= j

-----------------------------------------------------------------------------
(* More faulty variants.                                                   *)
EnforceCountIsBadRequest(ask, c) ==
  IF ask.blank \/ ask.chars > NameMax \/ ask.count = 0 \/ ask.count > c.maxVouchers
    THEN "bad_request"
  ELSE IF ask.minutes = 0
    THEN "bad_request"
  ELSE IF ask.minutes > AtMost(c.maxValidity, UnifiMax)
    THEN "forbidden"
  ELSE IF ask.guests = 0 \/ ask.guests > GuestMax
    THEN "bad_request"
  ELSE "ok"

EnforceZeroValidityIsUnlimited(ask, c) ==
  IF ask.blank \/ ask.chars > NameMax \/ ask.count = 0
    THEN "bad_request"
  ELSE IF ask.count > c.maxVouchers
    THEN "forbidden"
  ELSE IF ask.minutes = 0
    THEN "bad_request"
  ELSE IF c.maxValidity # 0 /\ ask.minutes > AtMost(c.maxValidity, UnifiMax)
    THEN "forbidden"
  ELSE IF ask.guests = 0 \/ ask.guests > GuestMax
    THEN "bad_request"
  ELSE "ok"

(***************************************************************************)
(* The checks of a voucher request in their order: the first that fails    *)
(* names the refusal.                                                      *)
(***************************************************************************)
Enforce(ask, c) ==
  IF ask.blank \/ ask.chars > NameMax \/ ask.count = 0
    THEN "bad_request"
  ELSE IF ask.count > c.maxVouchers
    THEN "forbidden"
  ELSE IF ask.minutes = 0
    THEN "bad_request"
  ELSE IF ask.minutes > AtMost(c.maxValidity, UnifiMax)
    THEN "forbidden"
  ELSE IF ask.guests = 0 \/ ask.guests > GuestMax
    THEN "bad_request"
  ELSE "ok"

Granted(token, limits, ask) == Enforce(ask, Ceilings(token, limits)) = "ok"

=============================================================================
