------------------------- MODULE GraphQLProperties -------------------------
(***************************************************************************)
(* What GraphQL is to satisfy, and the sentences of the code's own         *)
(* documentation that it does not keep.                                    *)
(***************************************************************************)
EXTENDS GraphQL

(***************************************************************************)
(* Every variable has its type; in particular no budget is ever overdrawn. *)
(***************************************************************************)
Statuses == {"waiting", "calling", "ok", "failed", "dropped"}
DocumentOutcomes == {"none", "ok", "graphql_errors", "unreadable"}
LogEntry == [who : Names \cup {"-"}, outcome : DocumentOutcomes \cup {"rate_limited"}]

TypeOK ==
  /\ cfgs \in Seq(Configs) /\ Gen \in 1 .. (MaxGen + 1)
  /\ left \in [Names -> Nat] /\ refilled \in [Names -> Nat]
  /\ pc \in [Documents -> {"idle", "reading", "executing", "done", "gone"}]
  /\ text \in [Documents -> Texts]
  /\ authGen \in [Documents -> 0 .. Gen]
  /\ DOMAIN field = Documents /\ DOMAIN liveGen = Documents /\ DOMAIN wire = Documents
  /\ \A d \in Documents :
       /\ field[d] \in [FieldsOf(d) -> Statuses]
       /\ liveGen[d] \in [FieldsOf(d) -> 0 .. Gen]
       /\ wire[d] \in [FieldsOf(d) -> {"none", "sent", "applied", "refused"}]
  /\ answer \in [Documents -> DocumentOutcomes]
  /\ log \in [Documents -> [audit : Seq(LogEntry), counted : Seq(LogEntry),
                            gained : [calls : Nat, issued : Nat]]]

Called(d, i) == wire[d][i] # "none"

(***************************************************************************)
(* "Each upstream call is charged against the caller's quota individually" *)
(* (graphql.rs:10-12): under one configuration, the calls that all fields  *)
(* of all documents of a token make are at most its quota and what time    *)
(* gave back, however many of them one document asks for.                  *)
(***************************************************************************)
Places == UNION {{d} \X FieldsOf(d) : d \in Documents}

CallsOf(n) ==
  {p \in Places : /\ Called(p[1], p[2]) /\ liveGen[p[1]][p[2]] = Gen
                  /\ Token(p[1]).name = n}

CallsWithinQuota ==
  \A n \in Names :
    TokenCap(Live, n) # 0 =>
      Cardinality(CallsOf(n)) <= TokenCap(Live, n) + refilled[n]

(***************************************************************************)
(* "There is no resolver that can touch anything the REST side cannot"     *)
(* (graphql.rs:3-6): a call that is made has the scope, the site, and a    *)
(* body inside the token's and the global ceilings of the configuration    *)
(* the Caller comes from, whatever was reloaded since.                     *)
(***************************************************************************)
AllowedByRest(d, i) ==
  LET f == text[d].fields[i]
      t == Token(d)
      l == cfgs[authGen[d]].limits
  IN /\ t.secret = text[d].secret /\ ScopeOf(f.op) \in t.scopes
     /\ f.op # "list_sites" => f.plainIds /\ (f.site \in t.sites \/ "*" \in t.sites)
     /\ f.op = "create" => /\ f.ask.count \in 1 .. l.maxVouchers
                           /\ t.maxVouchers # None => f.ask.count <= t.maxVouchers
                           /\ f.ask.minutes \in 1 .. l.maxValidity
                           /\ t.maxValidity # None => f.ask.minutes <= t.maxValidity

AddsNoReach ==
  \A d \in Documents : \A i \in FieldsOf(d) : Called(d, i) => AllowedByRest(d, i)

(***************************************************************************)
(* A mutation does one thing after the other: nothing later reaches the    *)
(* console unless the console has carried out everything before it, and a  *)
(* failure, a timeout or a client that leaves is the last of it.           *)
(***************************************************************************)
MutationsStopAtAFailure ==
  \A d \in Documents : text[d].kind = "mutation" =>
    \A i, j \in FieldsOf(d) : i < j /\ Called(d, j) =>
      field[d][i] = "ok" /\ (text[d].fields[i].op \in Calls => wire[d][i] = "applied")

(***************************************************************************)
(* The answer tells what became of the document: one without errors had    *)
(* every call carried out; one that was unreadable or did not fit the      *)
(* schema made none; in one with errors a single field failed, and every   *)
(* other one had succeeded or was dropped (graphql.rs:42, routes.rs:134).  *)
(***************************************************************************)
Failed(d) == {i \in FieldsOf(d) : field[d][i] = "failed"}

AnswerTellsTheDocument ==
  \A d \in Documents : pc[d] = "done" =>
    /\ answer[d] = "ok" =>
         \A i \in FieldsOf(d) : text[d].fields[i].op \in Calls => wire[d][i] = "applied"
    /\ answer[d] # "ok" =>
         \/ \A i \in FieldsOf(d) : ~Called(d, i) /\ field[d][i] = "waiting"
         \/ /\ Cardinality(Failed(d)) = 1
            /\ \A i \in FieldsOf(d) : field[d][i] \in {"ok", "failed", "dropped"}

(***************************************************************************)
(* "Vouchers actually issued" (metrics.rs:37), also by a document that     *)
(* ends in errors or whose client left: the counters have exactly the      *)
(* calls that came back, and the vouchers of the creates among them, and   *)
(* each of those was carried out.                                          *)
(***************************************************************************)
CameBack(d) ==
  {i \in FieldsOf(d) : text[d].fields[i].op \in Calls /\ field[d][i] = "ok"}

(* s[k] is what the creates among the first k fields that came back made.  *)
Totals(d, s) ==
  /\ s[0] = 0
  /\ \A k \in FieldsOf(d) : s[k] = s[k - 1] + (IF k \in CameBack(d) THEN Issued(d, k) ELSE 0)

Tallied(d) ==
  LET n == Len(text[d].fields)
      gained == log[d].gained
  IN /\ \A i \in CameBack(d) : wire[d][i] = "applied"
     /\ gained.calls = Cardinality(CameBack(d))
     /\ \E s \in [0 .. n -> 0 .. gained.issued] : Totals(d, s) /\ s[n] = gained.issued

VouchersAreCounted == \A d \in Documents : Tallied(d)

(***************************************************************************)
(* A document that was executed to its end leaves one count, and one audit *)
(* line that says what the client was told, after at most one line for a   *)
(* quota that refused it; one whose client left, or that never was a       *)
(* document, leaves nothing (routes.rs:134-158, state.rs:140).             *)
(***************************************************************************)
RecordedOnce(d) ==
  LET own == Line(Token(d).name, answer[d]) IN
  IF pc[d] = "done" /\ answer[d] # "unreadable"
    THEN /\ log[d].counted = <<Count(Token(d).name, answer[d])>>
         /\ \/ log[d].audit = <<own>>
            \/ /\ answer[d] = "graphql_errors"
               /\ log[d].audit = <<Line("-", "rate_limited"), own>>
    ELSE log[d].counted = <<>> /\ log[d].audit = <<>>

DocumentRecordedOnce == \A d \in Documents : RecordedOnce(d)

(***************************************************************************)
(* A document never hangs on fields that are over: as long as it executes, *)
(* one of its calls is out, which the timeout of the client ends           *)
(* (upstream.rs:34), or one of its fields may start. Whatever the others   *)
(* came to, a silent call is all that a client ever waits for              *)
(* (graphql.rs:145).                                                       *)
(***************************************************************************)
Startable(d, i) ==
  /\ field[d][i] = "waiting"
  /\ text[d].kind = "mutation" => \A j \in 1 .. (i - 1) : field[d][j] = "ok"

ExecutingDocumentsGoOn ==
  \A d \in Documents : pc[d] = "executing" =>
    \E i \in FieldsOf(d) : field[d][i] = "calling" \/ Startable(d, i)

(***************************************************************************)
(* Each root field is a Mediation of its own call, as a REST request is:   *)
(* decided once, carried out at most once, and what its resolver returns   *)
(* is the truth. A field that is dropped returns nothing, though the       *)
(* console may still act for it (graphql.rs:145-146, state.rs:134).        *)
(***************************************************************************)
Slots == Documents \X UNION {DOMAIN t.fields : t \in Texts}

Told(d, i) ==
  IF i \notin FieldsOf(d) THEN "nothing"
  ELSE IF field[d][i] = "failed" THEN IF Called(d, i) THEN "failure" ELSE "refusal"
  ELSE IF field[d][i] = "ok" /\ text[d].fields[i].op \in Calls THEN "success"
  ELSE "nothing"

Verdict(d, i) ==
  IF i \notin FieldsOf(d) THEN "open"
  ELSE IF Called(d, i) THEN "granted"
  ELSE IF field[d][i] = "failed" THEN "denied" ELSE "open"

Acted(d, i) == i \in FieldsOf(d) /\ wire[d][i] = "applied"

M == INSTANCE Mediation WITH
       Requests <- Slots,
       verdict <- [p \in Slots |-> Verdict(p[1], p[2])],
       acted <- [p \in Slots |-> Acted(p[1], p[2])],
       told <- [p \in Slots |-> Told(p[1], p[2])]

MediatesCalls == M!Spec

=============================================================================
