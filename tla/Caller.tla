------------------------------- MODULE Caller -------------------------------
(***************************************************************************)
(* What the REST handlers and the GraphQL resolvers share: configurations, *)
(* the operations of the console, and what a Caller is allowed (state.rs), *)
(* is charged for (ratelimit.rs) and is refused after the charge           *)
(* (policy.rs, upstream.rs).                                               *)
(***************************************************************************)
EXTENDS Policy, Sequences

CONSTANTS Names, Secrets, Sites,
          Configs       \* configurations the operator can install

Scopes == {"sites:read", "vouchers:read", "vouchers:create", "vouchers:revoke"}
Calls == {"list_sites", "list_vouchers", "create", "delete"}

Ask == [blank : BOOLEAN, chars : Nat, count : Nat, minutes : Nat, guests : Nat]
TokenEntry == [name : Names, secret : Secrets, sites : SUBSET (Sites \cup {"*"}),
               scopes : SUBSET Scopes, maxVouchers : Option(Nat),
               maxValidity : Option(Nat), rate : Option(Nat), expires : Option(Nat)]
Limits == [maxVouchers : Nat, maxValidity : Nat, rate : Nat, ratePerIp : Nat]
Config == [tokens : Seq(TokenEntry), limits : Limits]

ASSUME ConfigAssumption == Configs \subseteq Config

-----------------------------------------------------------------------------
(***************************************************************************)
(* The limiter map is keyed by token name: a later token of the same name  *)
(* replaces the limiter, a rate of 0 puts none there. Cap is 0 where there *)
(* is no limiter.                                                          *)
(***************************************************************************)
Metered(c, name) ==
  {i \in DOMAIN c.tokens :
     c.tokens[i].name = name /\ EffectiveRateLimit(c.tokens[i], c.limits) # 0}

TokenCap(c, name) ==
  IF Metered(c, name) = {} THEN 0
  ELSE LET last == CHOOSE i \in Metered(c, name) : \A j \in Metered(c, name) : j <= i
       IN  EffectiveRateLimit(c.tokens[last], c.limits)

-----------------------------------------------------------------------------
(* The scope each operation asks for.                                      *)
ScopeOf(op) ==
  CASE op = "list_sites" -> "sites:read"
    [] op = "list_vouchers" -> "vouchers:read"
    [] op = "create" -> "vouchers:create"
    [] op = "delete" -> "vouchers:revoke"

(* Faulty variant: the site is not looked at.                              *)
PermitsAnySite(t, i) == HasScope(t, ScopeOf(i.op))

(* require_scope, then require_site: either fails the same way.            *)
Permits(t, i) ==
  HasScope(t, ScopeOf(i.op)) /\ (i.op = "list_sites" \/ AllowsSite(t, i.site))

(***************************************************************************)
(* Everything between the charge and the send: parse, enforce, and         *)
(* validate_id on the path segments.                                       *)
(***************************************************************************)
Checked(i, c) ==
  IF i.op = "create" /\ i.payload = "malformed" THEN "bad_request"
  ELSE IF i.op = "create" /\ Enforce(i.ask, c) # "ok" THEN Enforce(i.ask, c)
  ELSE IF i.op # "list_sites" /\ ~i.plainIds THEN "bad_request"
  ELSE "ok"

=============================================================================
