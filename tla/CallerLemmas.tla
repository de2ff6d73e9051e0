---------------------------- MODULE CallerLemmas ----------------------------
(***************************************************************************)
(* Facts about Caller that the proofs about the REST handlers and about    *)
(* the GraphQL resolvers rest on.                                          *)
(***************************************************************************)
EXTENDS Caller, TokenLemmas

(* The quota of a token is a natural number.                               *)
LEMMA RateType ==
  ASSUME NEW t \in TokenEntry, NEW l \in Limits
  PROVE  EffectiveRateLimit(t, l) \in Nat
<1>1. t.rate \in Nat \cup {None} /\ l.rate \in Nat
  BY DEF TokenEntry, Limits, Option
<1> QED BY <1>1 DEF EffectiveRateLimit, AtMost

LEMMA TokenCapType ==
  ASSUME NEW c \in Config, NEW k
  PROVE  TokenCap(c, k) \in Nat
<1> DEFINE S == Metered(c, k)
           n == Len(c.tokens)
<1>0. c.tokens \in Seq(TokenEntry) /\ c.limits \in Limits
  BY DEF Config
<1>1. n \in Nat /\ S \in SUBSET (0 .. n) /\ \A i \in S : c.tokens[i] \in TokenEntry
  BY <1>0 DEF Metered
<1>2. CASE S = {}
  BY <1>2 DEF TokenCap
<1>3. CASE S # {}
  <2>1. \E i \in S : \A j \in S : j <= i
    <3> HIDE DEF S, n
    <3> QED BY <1>1, <1>3, GreatestElement
  <2> DEFINE last == CHOOSE i \in S : \A j \in S : j <= i
  <2>2. last \in S
    <3> HIDE DEF S
    <3> QED BY <2>1
  <2>3. TokenCap(c, k) = EffectiveRateLimit(c.tokens[last], c.limits)
    BY <1>3 DEF TokenCap
  <2>4. c.tokens[last] \in TokenEntry
    <3> HIDE DEF S, last
    <3> QED BY <1>1, <2>2
  <2> QED
    <3> HIDE DEF last
    <3> QED BY <1>0, <2>3, <2>4, RateType
<1> QED BY <1>2, <1>3

-----------------------------------------------------------------------------
(* Nothing but these comes of looking at a body and its path.              *)
LEMMA CheckedType ==
  ASSUME NEW i, NEW c
  PROVE  Checked(i, c) \in {"ok", "bad_request", "forbidden"}
BY DEF Checked, Enforce

(***************************************************************************)
(* What Enforce lets through is inside both ceilings.                      *)
(***************************************************************************)
LEMMA EnforcedIsInside ==
  ASSUME NEW a \in Ask, NEW t \in TokenEntry, NEW l \in Limits,
         Enforce(a, Ceilings(t, l)) = "ok"
  PROVE  /\ a.count \in 1 .. l.maxVouchers
         /\ t.maxVouchers # None => a.count <= t.maxVouchers
         /\ a.minutes \in 1 .. l.maxValidity
         /\ t.maxValidity # None => a.minutes <= t.maxValidity
<1> DEFINE v == EffectiveMaxVouchers(t, l)
           m == EffectiveMaxValidity(t, l)
<1>1. /\ a.count \in Nat /\ a.minutes \in Nat
      /\ l.maxVouchers \in Nat /\ l.maxValidity \in Nat
      /\ t.maxVouchers \in Option(Nat) /\ t.maxValidity \in Option(Nat)
  BY DEF Ask, TokenEntry, Limits
<1>2. /\ v \in Nat /\ v <= l.maxVouchers
      /\ t.maxVouchers # None => v <= t.maxVouchers
  BY <1>1 DEF EffectiveMaxVouchers, AtMost, Option
<1>3. /\ m \in Nat /\ m <= l.maxValidity
      /\ t.maxValidity # None => m <= t.maxValidity
  BY <1>1 DEF EffectiveMaxValidity, AtMost, Option
<1>4. Ceilings(t, l).maxVouchers = v /\ Ceilings(t, l).maxValidity = m
  BY DEF Ceilings
<1> HIDE DEF v, m
<1>5. /\ ~(a.count = 0) /\ ~(a.count > v) /\ ~(a.minutes = 0)
      /\ ~(a.minutes > AtMost(m, UnifiMax))
  BY <1>4 DEF Enforce
<1>6. a.minutes <= m
  BY <1>1, <1>3, <1>5, CapAssumption DEF AtMost
<1>7. a.count \in 1 .. l.maxVouchers /\ (t.maxVouchers # None => a.count <= t.maxVouchers)
  BY <1>1, <1>2, <1>5, NoneAssumption DEF Option
<1>8. a.minutes \in 1 .. l.maxValidity /\ (t.maxValidity # None => a.minutes <= t.maxValidity)
  BY <1>1, <1>3, <1>5, <1>6, NoneAssumption DEF Option
<1> QED BY <1>7, <1>8

-----------------------------------------------------------------------------
(***************************************************************************)
(* A secret that authenticates is the secret of the token it finds.        *)
(***************************************************************************)
LEMMA ProvenEntry ==
  ASSUME NEW c \in Config, NEW secret, Authenticate(c.tokens, secret) # 0
  PROVE  LET t == c.tokens[Authenticate(c.tokens, secret)] IN
         t \in TokenEntry /\ t.secret = secret /\ t.name \in Names
<1> DEFINE i == Authenticate(c.tokens, secret)
<1>1. c.tokens \in Seq(TokenEntry)
  BY DEF Config
<1>2. i \in 1 .. Len(c.tokens) /\ c.tokens[i].secret = secret
  BY <1>1, AuthenticateFirst
<1> HIDE DEF i
<1>3. c.tokens[i] \in TokenEntry
  BY <1>1, <1>2
<1> QED BY <1>2, <1>3 DEF TokenEntry, i

(***************************************************************************)
(* What passes require_scope, require_site, enforce and validate_id has    *)
(* the scope, the site and a body inside both ceilings.                    *)
(***************************************************************************)
LEMMA PassedIsAllowed ==
  ASSUME NEW t \in TokenEntry, NEW l \in Limits, NEW i, i.ask \in Ask,
         Permits(t, i), Checked(i, Ceilings(t, l)) = "ok"
  PROVE  /\ ScopeOf(i.op) \in t.scopes
         /\ i.op # "list_sites" => i.plainIds /\ (i.site \in t.sites \/ "*" \in t.sites)
         /\ i.op = "create" => /\ i.ask.count \in 1 .. l.maxVouchers
                               /\ t.maxVouchers # None => i.ask.count <= t.maxVouchers
                               /\ i.ask.minutes \in 1 .. l.maxValidity
                               /\ t.maxValidity # None => i.ask.minutes <= t.maxValidity
<1>1. ScopeOf(i.op) \in t.scopes
  BY DEF Permits, HasScope
<1>2. ASSUME i.op # "list_sites"
      PROVE  i.plainIds /\ (i.site \in t.sites \/ "*" \in t.sites)
  BY <1>2 DEF Permits, AllowsSite, Checked
<1>3. ASSUME i.op = "create" PROVE Enforce(i.ask, Ceilings(t, l)) = "ok"
  BY <1>3 DEF Checked
<1> QED BY <1>1, <1>2, <1>3, EnforcedIsInside

=============================================================================
