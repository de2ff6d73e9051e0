------------------------------- MODULE Proxy -------------------------------
(***************************************************************************)
(* The life of REST requests through the proxy: admission by the Caller    *)
(* extractor (state.rs), the handlers (routes.rs), their budgets           *)
(* (ratelimit.rs), the call to the console (upstream.rs), and what each    *)
(* request leaves in the audit log and the counters (audit.rs, metrics.rs).*)
(* Requests run concurrently; the operator may reload the configuration,   *)
(* clients may stall or leave, the console may be slow, refuse or stay     *)
(* silent.                                                                 *)
(*                                                                         *)
(* Steps end at every await and around the Argon2 scan, which takes time   *)
(* that reloads and expiry can fall into. Inside a step the code touches   *)
(* one budget, atomically, on the Live it has just loaded: a reload in     *)
(* between would leave that budget to those who loaded the old Live too,   *)
(* so the step is as good as before it.                                    *)
(***************************************************************************)
EXTENDS Caller, FiniteSets

CONSTANTS Requests,     \* HTTP requests
          Inputs,       \* what a client can send
          Peers,
          NoSecret,     \* neither header carries a token
          MaxGen,       \* bound: configurations installed in one run
          MaxTime,      \* bound: the clock
          MaxRefill     \* bound: units a budget regains per configuration

Ops == Calls \cup {"info", "healthz", "unrouted"}
Payloads == {"none", "oversized", "unreadable", "malformed", "vouchers"}
Keys == Names \cup Peers
Answers == {"none", "ok", "unauthorized", "token_expired", "forbidden",
            "bad_request", "rate_limited", "not_allowed", "upstream_error",
            "upstream_unreachable", "too_large", "unreadable"}
Outcomes == Answers \cup {"ip_rate_limited", "missing_token", "unknown_token", "blocked"}

Input == [peer : Peers, secret : Secrets \cup {NoSecret}, op : Ops, site : Sites,
          plainIds : BOOLEAN, payload : Payloads, ask : Ask]

ASSUME InputAssumption == Inputs \subseteq Input
ASSUME KeyAssumption == Names \cap Peers = {} /\ NoSecret \notin Secrets
ASSUME RequestAssumption == IsFiniteSet(Requests)
ASSUME BoundAssumption == MaxGen \in Nat /\ MaxTime \in Nat /\ MaxRefill \in Nat

VARIABLES
  cfgs,       \* the configurations installed so far; the last is the Live one
  left,       \* what is left of each budget of the current Live
  refilled,   \* units each of them regained since it was installed
  now,        \* the clock
  pc,         \* where each request is
  input,      \* what it asks
  sent,       \* generation and time at which its client sent it
  authGen,    \* generation of the Live its extractor loaded, 0 before
  liveGen,    \* generation of the Live its handler loaded, 0 before
  paid,       \* budgets of the current Live it has spent a unit of
  wire,       \* its call to the console
  answer,     \* what its client was told
  log         \* what it left in the audit log and in the counters

shared == <<cfgs, left, refilled, now>>
vars == <<cfgs, left, refilled, now, pc, input, sent, authGen, liveGen, paid,
          wire, answer, log>>

Gen == Len(cfgs)
Live == cfgs[Gen]

-----------------------------------------------------------------------------
(* The budget of an address or of a token name, 0 where there is none.     *)
Cap(c, key) == IF key \in Peers THEN c.limits.ratePerIp ELSE TokenCap(c, key)

(* Faulty variants of the two definitions below, for the mutation checks.  *)
MaySpendOneMore(key) == Cap(Live, key) = 0 \/ left[key] >= 0

ChargePeersOnly(r, key) ==
  /\ left' = IF Cap(Live, key) = 0 \/ key \in Names THEN left ELSE [left EXCEPT ![key] = @ - 1]
  /\ paid' = [paid EXCEPT ![r] = @ \cup {key}]

(***************************************************************************)
(* RateLimits::check and check_ip: no limiter, or a unit left to take.     *)
(***************************************************************************)
MaySpend(key) == Cap(Live, key) = 0 \/ left[key] > 0

Charge(r, key) ==
  /\ left' = IF Cap(Live, key) = 0 THEN left ELSE [left EXCEPT ![key] = @ - 1]
  /\ paid' = [paid EXCEPT ![r] = @ \cup {key}]

-----------------------------------------------------------------------------
(***************************************************************************)
(* What the extractor made of a request. The Caller it builds is the token *)
(* and the ceilings of the generation it loaded.                           *)
(***************************************************************************)
CallerIndex(r) == Authenticate(cfgs[authGen[r]].tokens, input[r].secret)

Token(r) == cfgs[authGen[r]].tokens[CallerIndex(r)]

CallerCeilings(r) == Ceilings(Token(r), cfgs[authGen[r]].limits)

-----------------------------------------------------------------------------
(* The audit log and the counters, as the share of each request in them.   *)
Entry(who, outcome) == [who |-> who, outcome |-> outcome]

Write(r, audited, counted, calls, issued) ==
  log' = [log EXCEPT ![r] = [audit |-> @.audit \o audited,
                             counted |-> @.counted \o counted,
                             calls |-> @.calls + calls,
                             issued |-> @.issued + issued]]

Answer(r, a) ==
  /\ answer' = [answer EXCEPT ![r] = a]
  /\ pc' = [pc EXCEPT ![r] = "done"]

(* A refusal by the extractor: one audit line without a name, one count.   *)
Rejected(r, who, reason, a) ==
  /\ Write(r, <<Entry("-", reason)>>, <<Entry(who, reason)>>, 0, 0)
  /\ Answer(r, a)

(* Faulty variant: an error returns before it is counted.                  *)
FinishOnlyOk(r, outcome, before, issued) ==
  LET entry == Entry(Token(r).name, outcome) IN
  /\ Write(r, Append(before, entry), IF outcome = "ok" THEN <<entry>> ELSE <<>>, 1, issued)
  /\ Answer(r, outcome)

(* finish: the request's count, a call to the console, the audit record.   *)
Finish(r, outcome, before, issued) ==
  LET entry == Entry(Token(r).name, outcome) IN
  /\ Write(r, Append(before, entry), <<entry>>, 1, issued)
  /\ Answer(r, outcome)

-----------------------------------------------------------------------------
Init ==
  /\ \E c \in Configs : /\ cfgs = <<c>>
                        /\ left = [k \in Keys |-> Cap(c, k)]
  /\ refilled = [k \in Keys |-> 0]
  /\ now = 0
  /\ pc = [r \in Requests |-> "idle"]
  /\ input \in [Requests -> Inputs]
  /\ sent = [r \in Requests |-> [gen |-> 0, at |-> 0]]
  /\ authGen = [r \in Requests |-> 0]
  /\ liveGen = [r \in Requests |-> 0]
  /\ paid = [r \in Requests |-> {}]
  /\ wire = [r \in Requests |-> "none"]
  /\ answer = [r \in Requests |-> "none"]
  /\ log = [r \in Requests |-> [audit |-> <<>>, counted |-> <<>>, calls |-> 0, issued |-> 0]]

(* A client sends its request.                                             *)
Arrive(r) ==
  /\ pc[r] = "idle"
  /\ pc' = [pc EXCEPT ![r] = "arrived"]
  /\ sent' = [sent EXCEPT ![r] = [gen |-> Gen, at |-> now]]
  /\ UNCHANGED <<shared, input, authGen, liveGen, paid, wire, answer, log>>

(* RequestBodyLimitLayer: a declared length over the limit goes no further.*)
RefuseLength(r) ==
  /\ pc[r] = "arrived" /\ input[r].payload = "oversized"
  /\ Answer(r, "too_large")
  /\ UNCHANGED <<shared, input, sent, authGen, liveGen, paid, wire, log>>

Healthz(r) ==
  /\ pc[r] = "arrived" /\ input[r].payload # "oversized" /\ input[r].op = "healthz"
  /\ Answer(r, "ok")
  /\ UNCHANGED <<shared, input, sent, authGen, liveGen, paid, wire, log>>

(* not_allowed: unknown paths and methods, audited but not counted.        *)
NotAllowed(r) ==
  /\ pc[r] = "arrived" /\ input[r].payload # "oversized" /\ input[r].op = "unrouted"
  /\ Write(r, <<Entry("-", "blocked")>>, <<>>, 0, 0)
  /\ Answer(r, "not_allowed")
  /\ UNCHANGED <<shared, input, sent, authGen, liveGen, paid, wire>>

-----------------------------------------------------------------------------
(***************************************************************************)
(* The Caller extractor: the address pays on the Live of the moment; the   *)
(* token is looked for in that Live, and its expiry read after the scan.   *)
(***************************************************************************)
Extracting(r) ==
  /\ pc[r] = "arrived" /\ input[r].payload # "oversized"
  /\ input[r].op \in Calls \cup {"info"}
  /\ authGen' = [authGen EXCEPT ![r] = Gen]

RefuseIp(r) ==
  /\ Extracting(r)
  /\ ~MaySpend(input[r].peer)
  /\ Rejected(r, "-", "ip_rate_limited", "rate_limited")
  /\ UNCHANGED <<shared, input, sent, liveGen, paid, wire>>

PassIp(r) ==
  /\ Extracting(r)
  /\ MaySpend(input[r].peer)
  /\ Charge(r, input[r].peer)
  /\ pc' = [pc EXCEPT ![r] = "verifying"]
  /\ UNCHANGED <<cfgs, refilled, now, input, sent, liveGen, wire, answer, log>>

Verified(r) ==
  /\ pc[r] = "verifying"
  /\ UNCHANGED <<shared, input, sent, authGen, liveGen, paid, wire>>

RefuseToken(r) ==
  /\ Verified(r)
  /\ \/ /\ input[r].secret = NoSecret
        /\ Rejected(r, "-", "missing_token", "unauthorized")
     \/ /\ input[r].secret # NoSecret /\ CallerIndex(r) = 0
        /\ Rejected(r, "-", "unknown_token", "unauthorized")

RefuseExpired(r) ==
  /\ Verified(r)
  /\ input[r].secret # NoSecret /\ CallerIndex(r) # 0
  /\ IsExpiredAt(Token(r), now)
  /\ Rejected(r, Token(r).name, "token_expired", "token_expired")

(* A create still has its body to read; the other handlers run at once.    *)
Admit(r) ==
  /\ Verified(r)
  /\ input[r].secret # NoSecret /\ CallerIndex(r) # 0
  /\ ~IsExpiredAt(Token(r), now)
  /\ pc' = [pc EXCEPT ![r] = IF input[r].op = "create" THEN "reading" ELSE "ready"]
  /\ UNCHANGED <<answer, log>>

(* The Json extractor has the whole body, and it is JSON or it is not.     *)
ReadBody(r) ==
  /\ pc[r] = "reading"
  /\ \/ /\ input[r].payload \in {"malformed", "vouchers"}
        /\ pc' = [pc EXCEPT ![r] = "ready"]
        /\ UNCHANGED answer
     \/ /\ input[r].payload \in {"none", "unreadable"}
        /\ Answer(r, "unreadable")
  /\ UNCHANGED <<shared, input, sent, authGen, liveGen, paid, wire, log>>

-----------------------------------------------------------------------------
(* The handlers.                                                           *)
Info(r) ==
  /\ pc[r] = "ready" /\ input[r].op = "info"
  /\ Write(r, <<>>, <<Entry(Token(r).name, "ok")>>, 0, 0)
  /\ Answer(r, "ok")
  /\ UNCHANGED <<shared, input, sent, authGen, liveGen, paid, wire>>

Handling(r) ==
  /\ pc[r] = "ready" /\ input[r].op \in Calls
  /\ liveGen' = [liveGen EXCEPT ![r] = Gen]
  /\ UNCHANGED <<cfgs, refilled, now, input, sent, authGen>>

RefuseScopeOrSite(r) ==
  /\ Handling(r)
  /\ ~Permits(Token(r), input[r])
  /\ Finish(r, "forbidden", <<>>, 0)
  /\ UNCHANGED <<left, paid, wire>>

RefuseQuota(r) ==
  /\ Handling(r)
  /\ Permits(Token(r), input[r]) /\ ~MaySpend(Token(r).name)
  /\ Finish(r, "rate_limited", <<Entry("-", "rate_limited")>>, 0)
  /\ UNCHANGED <<left, paid, wire>>

Charged(r) ==
  /\ Handling(r)
  /\ Permits(Token(r), input[r]) /\ MaySpend(Token(r).name)
  /\ Charge(r, Token(r).name)

(* Faulty variant: the ceilings are enforced before the charge.            *)
RefuseBodyForFree(r) ==
  /\ Handling(r)
  /\ Permits(Token(r), input[r]) /\ Checked(input[r], CallerCeilings(r)) # "ok"
  /\ Finish(r, Checked(input[r], CallerCeilings(r)), <<>>, 0)
  /\ UNCHANGED <<left, paid, wire>>

RefuseBody(r) ==
  /\ Charged(r)
  /\ Checked(input[r], CallerCeilings(r)) # "ok"
  /\ Finish(r, Checked(input[r], CallerCeilings(r)), <<>>, 0)
  /\ UNCHANGED wire

Forward(r) ==
  /\ Charged(r)
  /\ Checked(input[r], CallerCeilings(r)) = "ok"
  /\ wire' = [wire EXCEPT ![r] = "sent"]
  /\ pc' = [pc EXCEPT ![r] = "upstream"]
  /\ UNCHANGED <<answer, log>>

(***************************************************************************)
(* Upstream::send comes back: a 2xx, an error status, or nothing within    *)
(* upstream_timeout (or no connection at all).                             *)
(***************************************************************************)
Issued(r) == IF input[r].op = "create" THEN input[r].ask.count ELSE 0

(* Faulty variants: the status is not looked at; vouchers are counted as   *)
(* they are asked for; a timeout is retried; there is no timeout.          *)
SucceedOnAnyStatus(r) ==
  /\ pc[r] = "upstream" /\ wire[r] \in {"applied", "refused"}
  /\ Finish(r, "ok", <<>>, Issued(r))
  /\ UNCHANGED <<shared, input, sent, authGen, liveGen, paid, wire>>

GiveUpCounting(r) ==
  /\ pc[r] = "upstream"
  /\ Finish(r, "upstream_unreachable", <<>>, Issued(r))
  /\ UNCHANGED <<shared, input, sent, authGen, liveGen, paid, wire>>

GiveUpAndRetry(r) ==
  /\ pc[r] = "upstream"
  /\ pc' = [pc EXCEPT ![r] = "ready"]
  /\ UNCHANGED <<shared, input, sent, authGen, liveGen, paid, wire, answer, log>>

GiveUpOnAnswer(r) ==
  /\ pc[r] = "upstream" /\ wire[r] # "sent"
  /\ Finish(r, "upstream_unreachable", <<>>, 0)
  /\ UNCHANGED <<shared, input, sent, authGen, liveGen, paid, wire>>

Succeed(r) ==
  /\ pc[r] = "upstream" /\ wire[r] = "applied"
  /\ Finish(r, "ok", <<>>, Issued(r))
  /\ UNCHANGED <<shared, input, sent, authGen, liveGen, paid, wire>>

Fail(r) ==
  /\ pc[r] = "upstream" /\ wire[r] \in {"applied", "refused"}
  /\ Finish(r, "upstream_error", <<>>, 0)
  /\ UNCHANGED <<shared, input, sent, authGen, liveGen, paid, wire>>

GiveUp(r) ==
  /\ pc[r] = "upstream"
  /\ Finish(r, "upstream_unreachable", <<>>, 0)
  /\ UNCHANGED <<shared, input, sent, authGen, liveGen, paid, wire>>

(* The client leaves: the handler's future is dropped where it waits.      *)
Disconnect(r) ==
  /\ pc[r] \in {"reading", "upstream"}
  /\ pc' = [pc EXCEPT ![r] = "gone"]
  /\ UNCHANGED <<shared, input, sent, authGen, liveGen, paid, wire, answer, log>>

-----------------------------------------------------------------------------
(***************************************************************************)
(* The console: it carries the call out or refuses it, in its own time,    *)
(* even after the proxy stopped waiting.                                   *)
(***************************************************************************)
Console(r) ==
  /\ wire[r] = "sent"
  /\ \E result \in {"applied", "refused"} : wire' = [wire EXCEPT ![r] = result]
  /\ UNCHANGED <<shared, pc, input, sent, authGen, liveGen, paid, answer, log>>

(* Faulty variant: the limiters are carried over to the new Live.          *)
ReloadKeepingBudgets(c) ==
  /\ Gen < MaxGen
  /\ cfgs' = Append(cfgs, c)
  /\ refilled' = [k \in Keys |-> 0]
  /\ paid' = [r \in Requests |-> {}]
  /\ UNCHANGED <<left, now, pc, input, sent, authGen, liveGen, wire, answer, log>>

(* A reload that is accepted: a new Live, every budget full again.         *)
Reload(c) ==
  /\ Gen < MaxGen
  /\ cfgs' = Append(cfgs, c)
  /\ left' = [k \in Keys |-> Cap(c, k)]
  /\ refilled' = [k \in Keys |-> 0]
  /\ paid' = [r \in Requests |-> {}]
  /\ UNCHANGED <<now, pc, input, sent, authGen, liveGen, wire, answer, log>>

(* governor gives a budget its units back one at a time, up to its quota.  *)
Replenish(k) ==
  /\ left[k] < Cap(Live, k) /\ refilled[k] < MaxRefill
  /\ left' = [left EXCEPT ![k] = @ + 1]
  /\ refilled' = [refilled EXCEPT ![k] = @ + 1]
  /\ UNCHANGED <<cfgs, now, pc, input, sent, authGen, liveGen, paid, wire, answer, log>>

Tick ==
  /\ now < MaxTime
  /\ now' = now + 1
  /\ UNCHANGED <<cfgs, left, refilled, pc, input, sent, authGen, liveGen, paid,
                 wire, answer, log>>

-----------------------------------------------------------------------------
(* The steps the proxy takes for a request by itself, and all the others.  *)
Handle(r) ==
  \/ RefuseLength(r) \/ Healthz(r) \/ NotAllowed(r)
  \/ RefuseIp(r) \/ PassIp(r) \/ RefuseToken(r) \/ RefuseExpired(r) \/ Admit(r)
  \/ Info(r) \/ RefuseScopeOrSite(r) \/ RefuseQuota(r) \/ RefuseBody(r) \/ Forward(r)
  \/ Succeed(r) \/ Fail(r) \/ GiveUp(r)

Next ==
  \/ \E r \in Requests : Handle(r) \/ Arrive(r) \/ ReadBody(r) \/ Disconnect(r) \/ Console(r)
  \/ \E c \in Configs : Reload(c)
  \/ \E k \in Keys : Replenish(k)
  \/ Tick

Spec == Init /\ [][Next]_vars

(***************************************************************************)
(* The runtime polls every handler that can go on, and the upstream client *)
(* has a timeout, so GiveUp is one of the proxy's own steps. Nothing is    *)
(* assumed of clients, of the console or of the operator.                  *)
(***************************************************************************)
FairSpec == Spec /\ \A r \in Requests : WF_vars(Handle(r))

=============================================================================
