-------------------------- MODULE ProxyProperties --------------------------
(***************************************************************************)
(* What Proxy is to satisfy: its invariants, its liveness, the Mediation   *)
(* it implements, and the sentences of the code's own documentation that   *)
(* it does not keep.                                                       *)
(***************************************************************************)
EXTENDS Proxy

(***************************************************************************)
(* Every variable has its type; in particular no budget is ever overdrawn. *)
(***************************************************************************)
LogEntry == [who : Names \cup {"-"}, outcome : Outcomes]

TypeOK ==
  /\ cfgs \in Seq(Configs) /\ Gen \in 1 .. (MaxGen + 1)
  /\ left \in [Keys -> Nat] /\ refilled \in [Keys -> Nat]
  /\ now \in Nat
  /\ pc \in [Requests -> {"idle", "arrived", "verifying", "reading", "ready", "upstream",
                        "done", "gone"}]
  /\ input \in [Requests -> Inputs]
  /\ sent \in [Requests -> [gen : Nat, at : Nat]]
  /\ authGen \in [Requests -> 0 .. Gen]
  /\ liveGen \in [Requests -> 0 .. Gen]
  /\ paid \in [Requests -> SUBSET Keys]
  /\ wire \in [Requests -> {"none", "sent", "applied", "refused"}]
  /\ answer \in [Requests -> Answers]
  /\ log \in [Requests -> [audit : Seq(LogEntry), counted : Seq(LogEntry),
                           calls : Nat, issued : Nat]]

Settled(r) == pc[r] = "done" /\ input[r].op \in Calls /\ liveGen[r] # 0
Forwarded(r) == wire[r] # "none"

(***************************************************************************)
(* No budget loses or gains a unit unaccounted for while requests of many  *)
(* clients spend it concurrently: what is left, and what the requests of   *)
(* this configuration paid, is the quota and what time gave back           *)
(* (ratelimit.rs:63-79).                                                   *)
(***************************************************************************)
Payers(k) == {r \in Requests : k \in paid[r]}

BudgetsConserved ==
  \A k \in Keys :
    Cap(Live, k) # 0 => left[k] + Cardinality(Payers(k)) = Cap(Live, k) + refilled[k]

(***************************************************************************)
(* "The quota bounds load on the console, but it also has to bound the     *)
(* work a caller can make the proxy itself do" (state.rs:128): under one   *)
(* configuration, the requests of a token that may attempt their operation *)
(* and are not turned away by its quota - they reach the console, or have  *)
(* their body held against the ceilings and their path against the plain   *)
(* ids, whatever comes of that - are at most its quota and what time gave  *)
(* back. What a body costs before its handler runs is not bounded by it:   *)
(* see ParsedWithinQuota below.                                            *)
(***************************************************************************)
MayAttempt(r) ==
  LET i == input[r]
      t == Token(r)
  IN /\ ScopeOf(i.op) \in t.scopes
     /\ i.op # "list_sites" => i.site \in t.sites \/ "*" \in t.sites

Worked(n) ==
  {r \in Requests : /\ liveGen[r] = Gen /\ Token(r).name = n
                    /\ MayAttempt(r) /\ answer[r] # "rate_limited"}

WorkWithinQuota ==
  \A n \in Names :
    Cap(Live, n) # 0 => Cardinality(Worked(n)) <= Cap(Live, n) + refilled[n]

(***************************************************************************)
(* "Without this an unauthenticated caller decides how much CPU this       *)
(* machine spends" (state.rs:164): the requests from one address whose     *)
(* token is looked at are at most its quota and what time gave back,       *)
(* whether the token is any good or not.                                   *)
(***************************************************************************)
LookedAt(p) ==
  {r \in Requests : /\ authGen[r] = Gen /\ input[r].peer = p
                    /\ ~(answer[r] = "rate_limited" /\ liveGen[r] = 0)}

LogonsWithinIpQuota ==
  \A p \in Peers :
    Cap(Live, p) # 0 => Cardinality(LookedAt(p)) <= Cap(Live, p) + refilled[p]

(***************************************************************************)
(* Whatever the console is sent was asked for with a token that was in     *)
(* force at some moment after the request was sent: never one revoked or   *)
(* lapsed before (state.rs:199), with the scope, the site and a voucher    *)
(* body inside both the token's and the global ceilings.                   *)
(***************************************************************************)
Entitled(r) ==
  LET i == input[r]
      c == cfgs[authGen[r]]
      t == Token(r)
  IN /\ sent[r].gen <= authGen[r] /\ t.secret = i.secret
     /\ t.expires = None \/ sent[r].at < t.expires
     /\ ScopeOf(i.op) \in t.scopes
     /\ i.op # "list_sites" => i.plainIds /\ (i.site \in t.sites \/ "*" \in t.sites)
     /\ i.op = "create" => /\ i.payload = "vouchers"
                           /\ i.ask.count \in 1 .. c.limits.maxVouchers
                           /\ t.maxVouchers # None => i.ask.count <= t.maxVouchers
                           /\ i.ask.minutes \in 1 .. c.limits.maxValidity
                           /\ t.maxValidity # None => i.ask.minutes <= t.maxValidity

OnlyEntitledIsForwarded == \A r \in Requests : Forwarded(r) => Entitled(r)

(***************************************************************************)
(* The answer says what happened at the console: a refusal means that the  *)
(* console never saw the request, an ok from a handler that it carried it  *)
(* out (routes.rs:189-214, upstream.rs:109).                               *)
(***************************************************************************)
AnswerMatchesTraffic ==
  \A r \in Requests : pc[r] = "done" /\ input[r].op \in Calls =>
    CASE answer[r] = "ok" -> wire[r] = "applied"
      [] answer[r] \in {"upstream_error", "upstream_unreachable"} -> Forwarded(r)
      [] OTHER -> wire[r] = "none"

(***************************************************************************)
(* "Every exit runs through `finish`, including the refusals"              *)
(* (routes.rs:190): a handler that ended by itself counted its request     *)
(* exactly once, under the outcome its client was told and its token's     *)
(* name, and the last audit line says the same (routes.rs:366).            *)
(***************************************************************************)
RecordsAgree ==
  \A r \in Requests : Settled(r) =>
    LET entry == Entry(Token(r).name, answer[r]) IN
    /\ log[r].counted = <<entry>>
    /\ log[r].audit # <<>> /\ log[r].audit[Len(log[r].audit)] = entry

(***************************************************************************)
(* "Vouchers actually issued" (metrics.rs:37): the counter never runs      *)
(* ahead of the console; a voucher is counted only for a create that the   *)
(* console carried out, and as many as were asked for.                     *)
(***************************************************************************)
CountedVouchersWereIssued ==
  \A r \in Requests : log[r].issued # 0 =>
    /\ input[r].op = "create" /\ wire[r] = "applied"
    /\ log[r].issued = input[r].ask.count

(***************************************************************************)
(* Whatever clients and the console do, the proxy is done with every       *)
(* request except while its client still owes the body: the upstream       *)
(* timeout ends the wait for a silent console (upstream.rs:34).            *)
(***************************************************************************)
EveryRequestSettles ==
  \A r \in Requests :
    (pc[r] \in {"arrived", "verifying", "ready", "upstream"}) ~> (pc[r] \in {"reading", "done", "gone"})

(***************************************************************************)
(* The proxy is a Mediation of its calls.                                  *)
(***************************************************************************)
Told(r) ==
  IF pc[r] # "done" \/ input[r].op \notin Calls THEN "nothing"
  ELSE IF ~Forwarded(r) THEN "refusal"
  ELSE IF answer[r] = "ok" THEN "success" ELSE "failure"

Verdict(r) ==
  IF Forwarded(r) THEN "granted"
  ELSE IF Told(r) = "refusal" THEN "denied" ELSE "open"

M == INSTANCE Mediation WITH
       verdict <- [r \in Requests |-> Verdict(r)],
       acted <- [r \in Requests |-> wire[r] = "applied"],
       told <- [r \in Requests |-> Told(r)]

MediatesCalls == M!Spec

-----------------------------------------------------------------------------
(* What comments of the code say, and the code does not do.                *)

(***************************************************************************)
(* "A request either sees the whole old configuration or the whole new     *)
(* one, never a token list from one and limits from the other"             *)
(* (state.rs:22-24). The extractor and the handler each load the Live.     *)
(***************************************************************************)
OneConfigPerRequest ==
  \A r \in Requests : liveGen[r] # 0 => liveGen[r] = authGen[r]

(***************************************************************************)
(* "With every call written to an audit log" (README.md:14-15). A handler  *)
(* dropped while it waits for the console never reaches finish.            *)
(***************************************************************************)
ForwardedCallsAreAudited ==
  \A r \in Requests : Forwarded(r) /\ pc[r] \in {"done", "gone"} => log[r].audit # <<>>

(***************************************************************************)
(* The quota is spent "*before* anything parses client-supplied data"      *)
(* (state.rs:127-130). The Json extractor parses the body of a create      *)
(* before its handler runs (routes.rs:273): a body that is no JSON is      *)
(* parsed, refused and never paid for, and one that is JSON is parsed      *)
(* whether the quota then lets it pass or not.                             *)
(***************************************************************************)
BodyParsed(r) ==
  /\ input[r].op = "create"
  /\ \/ pc[r] = "ready" \/ liveGen[r] # 0
     \/ answer[r] = "unreadable" /\ input[r].payload = "unreadable"

Parsed(n) ==
  {r \in Requests : /\ authGen[r] = Gen /\ BodyParsed(r)
                    /\ Token(r).name = n /\ MayAttempt(r)}

ParsedWithinQuota ==
  \A n \in Names :
    Cap(Live, n) # 0 => Cardinality(Parsed(n)) <= Cap(Live, n) + refilled[n]

=============================================================================
