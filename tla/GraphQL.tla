------------------------------ MODULE GraphQL ------------------------------
(***************************************************************************)
(* POST /graphql: documents of admitted Callers, executed concurrently.    *)
(* Each root field of a document is one resolver of graphql.rs; each       *)
(* resolver loads the Live of its moment, asks the Caller the document was *)
(* admitted with, charges that Live and calls the console by itself, and   *)
(* graphql_handler (routes.rs) records the document as a whole.            *)
(*                                                                         *)
(* Admission is Proxy's subject: here a document starts once it has a      *)
(* Caller. async-graphql is external: the fields of a query run            *)
(* concurrently, those of a mutation one after the other, and as no field  *)
(* is nullable the first error ends the execution and drops the rest.      *)
(***************************************************************************)
EXTENDS Caller, FiniteSets

CONSTANTS Documents,    \* HTTP requests that carry a document
          Texts,        \* documents a client can send
          MaxGen,       \* bound: configurations installed in one run
          MaxRefill     \* bound: units a budget regains per configuration

(* payload is what Checked looks at in a body: input of another type is    *)
(* refused with the document.                                              *)
Field == [op : Calls \cup {"info"}, site : Sites, plainIds : BOOLEAN,
          payload : {"vouchers"}, ask : Ask]
Text == [secret : Secrets,
         readable : BOOLEAN,              \* the body is a GraphQL request
         valid : BOOLEAN,                 \* it fits schema, depth and complexity
         kind : {"query", "mutation"},    \* the operation it runs
         fields : Seq(Field)]             \* root fields no directive skips

ASSUME TextAssumption == Texts \subseteq Text
ASSUME DocumentAssumption == IsFiniteSet(Documents)
ASSUME BoundAssumption == MaxGen \in Nat /\ MaxRefill \in Nat

VARIABLES
  cfgs,       \* the configurations installed so far; the last is the Live one
  left,       \* what is left of each token's budget of the current Live
  refilled,   \* units each of them regained since it was installed
  pc,         \* where each document is
  text,       \* what it says
  authGen,    \* generation of the Live its Caller comes from
  field,      \* where each of its fields is
  liveGen,    \* generation of the Live each field loaded, 0 before
  wire,       \* the call of each field
  answer,     \* what its client was told
  log         \* what it left in the audit log and in the counters

vars == <<cfgs, left, refilled, pc, text, authGen, field, liveGen, wire, answer, log>>
budgets == <<cfgs, left, refilled>>

Gen == Len(cfgs)
Live == cfgs[Gen]
FieldsOf(d) == DOMAIN text[d].fields

Token(d) ==
  LET tokens == cfgs[authGen[d]].tokens IN tokens[Authenticate(tokens, text[d].secret)]

(* Faulty variant: a resolver enforces the global limits alone.            *)
GlobalCeilings(d) ==
  [maxVouchers |-> cfgs[authGen[d]].limits.maxVouchers,
   maxValidity |-> cfgs[authGen[d]].limits.maxValidity]

CallerCeilings(d) == Ceilings(Token(d), cfgs[authGen[d]].limits)

-----------------------------------------------------------------------------
(* Faulty variants: one unit too many; a document pays for its first call. *)
MaySpendOneMore(name) == TokenCap(Live, name) = 0 \/ left[name] >= 0

ChargeOncePerDocument(d, i) ==
  LET name == Token(d).name IN
  /\ left' = IF TokenCap(Live, name) = 0 \/ \E j \in FieldsOf(d) : liveGen[d][j] # 0
               THEN left ELSE [left EXCEPT ![name] = @ - 1]
  /\ liveGen' = [liveGen EXCEPT ![d][i] = Gen]

(* Caller::charge on the Live the field has just loaded.                   *)
MaySpend(name) == TokenCap(Live, name) = 0 \/ left[name] > 0

Charge(d, i) ==
  LET name == Token(d).name IN
  /\ left' = IF TokenCap(Live, name) = 0 THEN left ELSE [left EXCEPT ![name] = @ - 1]
  /\ liveGen' = [liveGen EXCEPT ![d][i] = Gen]

-----------------------------------------------------------------------------
Line(who, outcome) == [who |-> who, outcome |-> outcome]
Count(who, outcome) == [who |-> who, outcome |-> outcome]
Gain(before, calls, issued) == [calls |-> before.calls + calls, issued |-> before.issued + issued]

(* Faulty variant: a document with errors is not recorded.                 *)
ConcludeOnlyOk(d, outcome, before, calls, issued) ==
  /\ pc' = [pc EXCEPT ![d] = IF outcome = "none" THEN @ ELSE "done"]
  /\ answer' = [answer EXCEPT ![d] = outcome]
  /\ log' = [log EXCEPT ![d] =
       [audit   |-> @.audit \o before \o
                      IF outcome # "ok" THEN <<>>
                      ELSE <<Line(Token(d).name, outcome)>>,
        counted |-> IF outcome # "ok" THEN @.counted
                    ELSE Append(@.counted, Count(Token(d).name, outcome)),
        gained  |-> Gain(@.gained, calls, issued)]]

(***************************************************************************)
(* A step that adds to the counters and, unless the outcome is "none",     *)
(* ends the execution: one count and one audit line for the document.      *)
(***************************************************************************)
Conclude(d, outcome, before, calls, issued) ==
  /\ pc' = [pc EXCEPT ![d] = IF outcome = "none" THEN @ ELSE "done"]
  /\ answer' = [answer EXCEPT ![d] = outcome]
  /\ log' = [log EXCEPT ![d] =
       [audit   |-> @.audit \o before \o
                      IF outcome = "none" THEN <<>>
                      ELSE <<Line(Token(d).name, outcome)>>,
        counted |-> IF outcome = "none" THEN @.counted
                    ELSE Append(@.counted, Count(Token(d).name, outcome)),
        gained  |-> Gain(@.gained, calls, issued)]]

Resolved(d, i) == [field[d] EXCEPT ![i] = "ok"]

(* A resolver returns: the document is over with its last field or with    *)
(* the first that fails.                                                   *)
Resolve(d, i, calls, issued) ==
  /\ field' = [field EXCEPT ![d] = Resolved(d, i)]
  /\ Conclude(d, IF \A j \in FieldsOf(d) : Resolved(d, i)[j] = "ok" THEN "ok" ELSE "none",
              <<>>, calls, issued)

(* Faulty variant: the fields after a failed one are neither run nor       *)
(* dropped.                                                                *)
FailAlone(d, i, before) ==
  /\ field' = [field EXCEPT ![d][i] = "failed"]
  /\ Conclude(d, "none", before, 0, 0)

FailField(d, i, before) ==
  /\ field' = [field EXCEPT ![d] =
       [j \in FieldsOf(d) |-> IF j = i THEN "failed"
                              ELSE IF @[j] \in {"waiting", "calling"} THEN "dropped" ELSE @[j]]]
  /\ Conclude(d, "graphql_errors", before, 0, 0)

-----------------------------------------------------------------------------
Init ==
  /\ \E c \in Configs : /\ cfgs = <<c>>
                        /\ left = [n \in Names |-> TokenCap(c, n)]
  /\ refilled = [n \in Names |-> 0]
  /\ pc = [d \in Documents |-> "idle"]
  /\ text \in [Documents -> Texts]
  /\ authGen = [d \in Documents |-> 0]
  /\ field = [d \in Documents |-> [i \in FieldsOf(d) |-> "waiting"]]
  /\ liveGen = [d \in Documents |-> [i \in FieldsOf(d) |-> 0]]
  /\ wire = [d \in Documents |-> [i \in FieldsOf(d) |-> "none"]]
  /\ answer = [d \in Documents |-> "none"]
  /\ log = [d \in Documents |->
              [audit |-> <<>>, counted |-> <<>>, gained |-> [calls |-> 0, issued |-> 0]]]

(* The Caller extractor of graphql_handler; see Proxy for what it refuses. *)
Admit(d) ==
  /\ pc[d] = "idle" /\ Authenticate(Live.tokens, text[d].secret) # 0
  /\ pc' = [pc EXCEPT ![d] = "reading"]
  /\ authGen' = [authGen EXCEPT ![d] = Gen]
  /\ UNCHANGED <<budgets, text, field, liveGen, wire, answer, log>>

(* The GraphQLRequest extractor has the body; batches are unreadable too.  *)
Unreadable(d) ==
  /\ pc[d] = "reading" /\ ~text[d].readable
  /\ pc' = [pc EXCEPT ![d] = "done"]
  /\ answer' = [answer EXCEPT ![d] = "unreadable"]
  /\ UNCHANGED <<budgets, text, authGen, field, liveGen, wire, log>>

RefuseDocument(d) ==
  /\ pc[d] = "reading" /\ text[d].readable /\ ~text[d].valid
  /\ Conclude(d, "graphql_errors", <<>>, 0, 0)
  /\ UNCHANGED <<budgets, text, authGen, field, liveGen, wire>>

(* A document whose directives skip every field is over at once.           *)
SkipAll(d) ==
  /\ pc[d] = "reading" /\ text[d].readable /\ text[d].valid /\ FieldsOf(d) = {}
  /\ Conclude(d, "ok", <<>>, 0, 0)
  /\ UNCHANGED <<budgets, text, authGen, field, liveGen, wire>>

Execute(d) ==
  /\ pc[d] = "reading" /\ text[d].readable /\ text[d].valid /\ FieldsOf(d) # {}
  /\ pc' = [pc EXCEPT ![d] = "executing"]
  /\ UNCHANGED <<budgets, text, authGen, field, liveGen, wire, answer, log>>

-----------------------------------------------------------------------------
(* async-graphql comes to a field.                                         *)
Starts(d, i) ==
  /\ pc[d] = "executing" /\ field[d][i] = "waiting"
  /\ text[d].kind = "mutation" => \A j \in 1 .. (i - 1) : field[d][j] = "ok"
  /\ UNCHANGED <<cfgs, refilled, text, authGen>>

Info(d, i) ==
  /\ Starts(d, i) /\ text[d].fields[i].op = "info"
  /\ Resolve(d, i, 0, 0)
  /\ UNCHANGED <<left, liveGen, wire>>

Attempts(d, i) == Starts(d, i) /\ text[d].fields[i].op \in Calls

RefuseScopeOrSite(d, i) ==
  /\ Attempts(d, i)
  /\ ~Permits(Token(d), text[d].fields[i])
  /\ FailField(d, i, <<>>)
  /\ UNCHANGED <<left, liveGen, wire>>

RefuseQuota(d, i) ==
  /\ Attempts(d, i)
  /\ Permits(Token(d), text[d].fields[i]) /\ ~MaySpend(Token(d).name)
  /\ FailField(d, i, <<Line("-", "rate_limited")>>)
  /\ UNCHANGED <<left, liveGen, wire>>

Charged(d, i) ==
  /\ Attempts(d, i)
  /\ Permits(Token(d), text[d].fields[i]) /\ MaySpend(Token(d).name)
  /\ Charge(d, i)

RefuseInput(d, i) ==
  /\ Charged(d, i)
  /\ Checked(text[d].fields[i], CallerCeilings(d)) # "ok"
  /\ FailField(d, i, <<>>)
  /\ UNCHANGED wire

Send(d, i) ==
  /\ Charged(d, i)
  /\ Checked(text[d].fields[i], CallerCeilings(d)) = "ok"
  /\ field' = [field EXCEPT ![d][i] = "calling"]
  /\ wire' = [wire EXCEPT ![d][i] = "sent"]
  /\ UNCHANGED <<pc, answer, log>>

-----------------------------------------------------------------------------
Issued(d, i) ==
  IF text[d].fields[i].op = "create" THEN text[d].fields[i].ask.count ELSE 0

Waits(d, i) ==
  /\ pc[d] = "executing" /\ field[d][i] = "calling"
  /\ UNCHANGED <<budgets, text, authGen, liveGen, wire>>

(* Faulty variants: the status is not looked at; vouchers are counted with *)
(* the last field of a document.                                           *)
SucceedOnAnyStatus(d, i) ==
  Waits(d, i) /\ wire[d][i] \in {"applied", "refused"} /\ Resolve(d, i, 1, Issued(d, i))

SucceedCountingLast(d, i) ==
  /\ Waits(d, i) /\ wire[d][i] = "applied"
  /\ Resolve(d, i, 1, IF \A j \in FieldsOf(d) : Resolved(d, i)[j] = "ok"
                        THEN Issued(d, i) ELSE 0)

(* A 2xx: record_upstream, record_vouchers_created.                        *)
Succeed(d, i) ==
  Waits(d, i) /\ wire[d][i] = "applied" /\ Resolve(d, i, 1, Issued(d, i))

(* An error status, or none in time: `?' leaves before anything is counted. *)
Fail(d, i) == Waits(d, i) /\ wire[d][i] \in {"applied", "refused"} /\ FailField(d, i, <<>>)

(* Faulty variant: a call that timed out is sent again.                    *)
GiveUpAndRetry(d, i) ==
  /\ pc[d] = "executing" /\ field[d][i] = "calling"
  /\ wire' = [wire EXCEPT ![d][i] = "sent"]
  /\ UNCHANGED <<budgets, pc, text, authGen, field, liveGen, answer, log>>

GiveUp(d, i) == Waits(d, i) /\ FailField(d, i, <<>>)

(* The client leaves: the handler is dropped where it waits.               *)
Disconnect(d) ==
  /\ \/ pc[d] = "reading"
     \/ pc[d] = "executing" /\ \E i \in FieldsOf(d) : field[d][i] = "calling"
  /\ pc' = [pc EXCEPT ![d] = "gone"]
  /\ field' = [field EXCEPT ![d] =
       [i \in FieldsOf(d) |-> IF @[i] \in {"waiting", "calling"} THEN "dropped" ELSE @[i]]]
  /\ UNCHANGED <<budgets, text, authGen, liveGen, wire, answer, log>>

(* The console, in its own time, also for a field that was dropped.        *)
Console(d, i) ==
  /\ wire[d][i] = "sent"
  /\ \E result \in {"applied", "refused"} : wire' = [wire EXCEPT ![d][i] = result]
  /\ UNCHANGED <<budgets, pc, text, authGen, field, liveGen, answer, log>>

Reload(c) ==
  /\ Gen < MaxGen
  /\ cfgs' = Append(cfgs, c)
  /\ left' = [n \in Names |-> TokenCap(c, n)]
  /\ refilled' = [n \in Names |-> 0]
  /\ UNCHANGED <<pc, text, authGen, field, liveGen, wire, answer, log>>

Replenish(n) ==
  /\ left[n] < TokenCap(Live, n) /\ refilled[n] < MaxRefill
  /\ left' = [left EXCEPT ![n] = @ + 1]
  /\ refilled' = [refilled EXCEPT ![n] = @ + 1]
  /\ UNCHANGED <<cfgs, pc, text, authGen, field, liveGen, wire, answer, log>>

-----------------------------------------------------------------------------
(* The steps the proxy takes for an executing document by itself.          *)
Run(d) ==
  \E i \in FieldsOf(d) :
    \/ Info(d, i) \/ RefuseScopeOrSite(d, i) \/ RefuseQuota(d, i) \/ RefuseInput(d, i)
    \/ Send(d, i) \/ Succeed(d, i) \/ Fail(d, i) \/ GiveUp(d, i)

Next ==
  \/ \E d \in Documents :
       \/ Admit(d) \/ Unreadable(d) \/ RefuseDocument(d) \/ SkipAll(d) \/ Execute(d)
       \/ Run(d) \/ Disconnect(d) \/ \E i \in FieldsOf(d) : Console(d, i)
  \/ \E c \in Configs : Reload(c)
  \/ \E n \in Names : Replenish(n)

Spec == Init /\ [][Next]_vars

=============================================================================
