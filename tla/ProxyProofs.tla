----------------------------- MODULE ProxyProofs -----------------------------
(***************************************************************************)
(* Proofs about Proxy, for any number of requests, clients, tokens and     *)
(* configurations.                                                         *)
(***************************************************************************)
EXTENDS ProxyProperties, CallerLemmas

-----------------------------------------------------------------------------
(* The quota of a key is a natural number.                                 *)

LEMMA CapType ==
  ASSUME NEW c \in Config, NEW k
  PROVE  Cap(c, k) \in Nat
<1>1. c.limits \in Limits
  BY DEF Config
<1>2. c.limits.ratePerIp \in Nat
  BY <1>1 DEF Limits
<1> QED BY <1>2, TokenCapType DEF Cap

-----------------------------------------------------------------------------
(***************************************************************************)
(* What holds of one request wherever it is. Past its extractor the token  *)
(* it was admitted with is one that its own secret verifies, in force when *)
(* the request was sent; before its handler nothing has left for the       *)
(* console.                                                                *)
(***************************************************************************)
Admitted(r) ==
  /\ authGen[r] # 0 /\ sent[r].gen <= authGen[r]
  /\ CallerIndex(r) \in 1 .. Len(cfgs[authGen[r]].tokens)
  /\ Token(r).secret = input[r].secret
  /\ Token(r).expires = None \/ sent[r].at < Token(r).expires

Local(r) ==
  /\ sent[r].gen <= Gen /\ sent[r].at <= now
  /\ pc[r] \in {"idle", "arrived"} =>
       authGen[r] = 0 /\ paid[r] = {} /\ answer[r] = "none"
  /\ pc[r] \in {"idle", "arrived", "verifying", "reading", "ready"} =>
       liveGen[r] = 0 /\ wire[r] = "none" /\ paid[r] \subseteq {input[r].peer}
  /\ pc[r] = "verifying" =>
       authGen[r] # 0 /\ sent[r].gen <= authGen[r] /\ answer[r] = "none"
  /\ pc[r] \in {"reading", "ready", "upstream"} => Admitted(r) /\ answer[r] = "none"
  /\ liveGen[r] # 0 => Admitted(r) /\ input[r].op \in Calls
  /\ pc[r] = "ready" /\ input[r].op = "create" => input[r].payload \in {"malformed", "vouchers"}
  /\ pc[r] = "upstream" => Forwarded(r)
  /\ Forwarded(r) => liveGen[r] # 0 /\ Entitled(r)

Paying(r) ==
  /\ authGen[r] = Gen /\ ~(answer[r] = "rate_limited" /\ liveGen[r] = 0) =>
       input[r].peer \in paid[r]
  /\ liveGen[r] = Gen /\ MayAttempt(r) /\ answer[r] # "rate_limited" =>
       Token(r).name \in paid[r]

AnswerOk(r) ==
  pc[r] = "done" /\ input[r].op \in Calls =>
    CASE answer[r] = "ok" -> wire[r] = "applied"
      [] answer[r] \in {"upstream_error", "upstream_unreachable"} -> Forwarded(r)
      [] OTHER -> wire[r] = "none"

IInv ==
  /\ TypeOK
  /\ \A r \in Requests : Local(r) /\ Paying(r) /\ AnswerOk(r)
  /\ BudgetsConserved

-----------------------------------------------------------------------------
(* Types of what the actions look up.                                      *)

Pcs == {"idle", "arrived", "verifying", "reading", "ready", "upstream", "done", "gone"}
Wires == {"none", "sent", "applied", "refused"}
Logs == [audit : Seq(LogEntry), counted : Seq(LogEntry), calls : Nat, issued : Nat]

LEMMA InstalledConfigs ==
  ASSUME TypeOK
  PROVE  /\ Gen \in Nat \ {0} /\ Live \in Config
         /\ \A g \in 1 .. Gen : cfgs[g] \in Config /\ cfgs[g].tokens \in Seq(TokenEntry)
         /\ Live.tokens \in Seq(TokenEntry)
<1>1. cfgs \in Seq(Config) /\ Gen \in Nat /\ Gen >= 1
  BY ConfigAssumption, BoundAssumption DEF TypeOK
<1>2. \A g \in 1 .. Gen : cfgs[g] \in Config
  BY <1>1 DEF Gen
<1>3. Live \in Config
  BY <1>1, <1>2 DEF Live
<1> QED BY <1>1, <1>2, <1>3 DEF Config

LEMMA RequestType ==
  ASSUME TypeOK, NEW r \in Requests
  PROVE  input[r] \in Input /\ input[r].peer \in Peers /\ input[r].ask.count \in Nat
<1>1. input[r] \in Input
  BY InputAssumption DEF TypeOK
<1> QED BY <1>1 DEF Input, Ask

LEMMA TokenType ==
  ASSUME TypeOK, NEW r \in Requests, Admitted(r)
  PROVE  /\ authGen[r] \in 1 .. Gen
         /\ Token(r) \in TokenEntry /\ Token(r).name \in Names
<1>1. authGen[r] \in 1 .. Gen
  BY InstalledConfigs DEF TypeOK, Admitted
<1>2. cfgs[authGen[r]].tokens \in Seq(TokenEntry)
  BY <1>1, InstalledConfigs
<1>3. Token(r) \in TokenEntry
  BY <1>2 DEF Admitted, CallerIndex, Token
<1> QED BY <1>1, <1>3 DEF TokenEntry

LEMMA ProvenToken ==
  ASSUME TypeOK, NEW r \in Requests, authGen[r] # 0, CallerIndex(r) # 0
  PROVE  /\ CallerIndex(r) \in 1 .. Len(cfgs[authGen[r]].tokens)
         /\ Token(r) \in TokenEntry /\ Token(r).secret = input[r].secret
         /\ Token(r).name \in Names /\ Token(r).expires \in Option(Nat)
<1> DEFINE ts == cfgs[authGen[r]].tokens
           i == Authenticate(ts, input[r].secret)
<1>1. ts \in Seq(TokenEntry)
  <2>1. authGen[r] \in 1 .. Gen
    BY InstalledConfigs DEF TypeOK
  <2> QED BY <2>1, InstalledConfigs
<1>2. /\ i \in 1 .. Len(ts)
      /\ ts[i].secret = input[r].secret
  <2> HIDE DEF ts
  <2> QED BY <1>1, AuthenticateFirst DEF CallerIndex, ts
<1>3. ts[i] \in TokenEntry
  <2> HIDE DEF i, ts
  <2> QED BY <1>1, <1>2
<1>4. ts[i].name \in Names /\ ts[i].expires \in Option(Nat)
  BY <1>3 DEF TokenEntry
<1> QED BY <1>2, <1>3, <1>4 DEF CallerIndex, Token

LEMMA WriteType ==
  ASSUME TypeOK, NEW r \in Requests,
         NEW audited \in Seq(LogEntry), NEW counted \in Seq(LogEntry),
         NEW calls \in Nat, NEW issued \in Nat,
         Write(r, audited, counted, calls, issued)
  PROVE  log' \in [Requests -> Logs]
<1>1. log \in [Requests -> Logs] /\ log[r] \in Logs
  BY DEF TypeOK, Logs
<1>2. /\ log[r].audit \o audited \in Seq(LogEntry)
      /\ log[r].counted \o counted \in Seq(LogEntry)
      /\ log[r].calls + calls \in Nat /\ log[r].issued + issued \in Nat
  BY <1>1 DEF Logs
<1> QED BY <1>1, <1>2 DEF Logs, Write

(***************************************************************************)
(* Charging a budget the request has not paid yet keeps the balance.       *)
(***************************************************************************)
LEMMA ChargeBalances ==
  ASSUME TypeOK, BudgetsConserved, NEW r \in Requests, NEW k \in Keys, k \notin paid[r],
         MaySpend(k), Charge(r, k), cfgs' = cfgs, refilled' = refilled
  PROVE  /\ BudgetsConserved'
         /\ left' \in [Keys -> Nat] /\ paid' \in [Requests -> SUBSET Keys]
<1>1. \A j \in Keys : Cap(Live, j) \in Nat /\ left[j] \in Nat /\ refilled[j] \in Nat
  BY InstalledConfigs, CapType DEF TypeOK
<1>2. /\ paid' = [paid EXCEPT ![r] = paid[r] \cup {k}]
      /\ left' = IF Cap(Live, k) = 0 THEN left ELSE [left EXCEPT ![k] = left[k] - 1]
  BY DEF Charge
<1>3. left' \in [Keys -> Nat] /\ paid' \in [Requests -> SUBSET Keys]
  <2>1. left \in [Keys -> Nat] /\ paid \in [Requests -> SUBSET Keys]
    BY DEF TypeOK
  <2>2. paid[r] \cup {k} \in SUBSET Keys
    BY <2>1
  <2>3. Cap(Live, k) # 0 => left[k] - 1 \in Nat
    BY <2>1 DEF MaySpend
  <2>4. left' \in [Keys -> Nat]
    BY <1>2, <2>1, <2>3
  <2> QED BY <1>2, <2>1, <2>2, <2>4
<1>4. \A j \in Keys : Payers(j) \in SUBSET Requests /\ IsFiniteSet(Payers(j))
  BY RequestAssumption, FS_Subset DEF Payers
<1>5. Payers(k)' = Payers(k) \cup {r} /\ r \notin Payers(k)
  BY <1>2 DEF Payers, TypeOK
<1>6. ASSUME NEW j \in Keys, j # k PROVE Payers(j)' = Payers(j)
  BY <1>2, <1>6 DEF Payers, TypeOK
<1>7. /\ Cardinality(Payers(k)') = Cardinality(Payers(k)) + 1
      /\ \A j \in Keys : Cardinality(Payers(j)) \in Nat
  BY <1>4, <1>5, FS_AddElement, FS_CardinalityType
<1>8. Live' = Live
  BY DEF Live, Gen
<1>9. ASSUME NEW j \in Keys, Cap(Live, j) # 0
      PROVE  left'[j] + Cardinality(Payers(j)') = Cap(Live, j) + refilled[j]
  <2>1. left[j] + Cardinality(Payers(j)) = Cap(Live, j) + refilled[j]
    BY <1>9 DEF BudgetsConserved
  <2>2. CASE j = k
    <3>1. left'[k] = left[k] - 1
      BY <1>2, <1>9, <2>2 DEF TypeOK
    <3> QED BY <1>1, <1>7, <2>1, <2>2, <3>1
  <2>3. CASE j # k
    <3>1. left'[j] = left[j]
      BY <1>2, <2>3 DEF TypeOK
    <3> QED BY <1>6, <2>1, <2>3, <3>1
  <2> QED BY <2>2, <2>3
<1>10. BudgetsConserved'
  BY <1>8, <1>9 DEF BudgetsConserved
<1> QED BY <1>3, <1>10

LEMMA SameBudgets ==
  ASSUME BudgetsConserved, UNCHANGED <<cfgs, left, refilled, paid>>
  PROVE  BudgetsConserved'
<1>1. Live' = Live
  BY DEF Live, Gen
<1>2. \A k \in Keys : Payers(k)' = Payers(k)
  BY DEF Payers
<1> QED BY <1>1, <1>2 DEF BudgetsConserved

(***************************************************************************)
(* A step of one request leaves what holds of the others.                  *)
(***************************************************************************)
SameRequest(s) ==
  /\ pc'[s] = pc[s] /\ sent'[s] = sent[s] /\ authGen'[s] = authGen[s]
  /\ liveGen'[s] = liveGen[s] /\ paid'[s] = paid[s] /\ wire'[s] = wire[s]
  /\ answer'[s] = answer[s]

Holds(r) == Local(r) /\ Paying(r) /\ AnswerOk(r)

LEMMA Frame ==
  ASSUME UNCHANGED <<cfgs, now, input>>, NEW s \in Requests, Holds(s), SameRequest(s)
  PROVE  Holds(s)'
<1>1. Token(s)' = Token(s) /\ CallerIndex(s)' = CallerIndex(s) /\ Gen' = Gen
  BY DEF SameRequest, Token, CallerIndex, Gen
<1>2. Forwarded(s)' <=> Forwarded(s)
  BY DEF SameRequest, Forwarded
<1>3. Entitled(s)' <=> Entitled(s)
  BY <1>1 DEF SameRequest, Entitled
<1>4. Admitted(s)' <=> Admitted(s)
  BY <1>1 DEF SameRequest, Admitted
<1>5. Local(s)'
  BY <1>1, <1>2, <1>3, <1>4 DEF Holds, SameRequest, Local
<1>6. Paying(s)'
  BY <1>1 DEF Holds, SameRequest, Paying, MayAttempt
<1>7. AnswerOk(s)'
  BY <1>2 DEF Holds, SameRequest, AnswerOk
<1> QED BY <1>5, <1>6, <1>7 DEF Holds

LEMMA TypeStep ==
  ASSUME TypeOK, UNCHANGED <<cfgs, now, input, sent, refilled>>,
         left' \in [Keys -> Nat], pc' \in [Requests -> Pcs],
         authGen' \in [Requests -> 0 .. Gen], liveGen' \in [Requests -> 0 .. Gen],
         paid' \in [Requests -> SUBSET Keys], wire' \in [Requests -> Wires],
         answer' \in [Requests -> Answers], log' \in [Requests -> Logs]
  PROVE  TypeOK'
<1>1. Gen' = Gen
  BY DEF Gen
<1> QED BY <1>1 DEF TypeOK, Pcs, Wires, Logs

LEMMA Assemble ==
  ASSUME IInv, NEW r \in Requests, UNCHANGED <<cfgs, now, input>>,
         \A s \in Requests \ {r} : SameRequest(s),
         TypeOK', Holds(r)', BudgetsConserved'
  PROVE  IInv'
<1>1. ASSUME NEW s \in Requests, s # r PROVE Holds(s)'
  BY <1>1, Frame DEF IInv, Holds
<1> QED BY <1>1 DEF IInv, Holds

-----------------------------------------------------------------------------
(* One lemma per action.                                                   *)

LEMMA ArriveStep ==
  ASSUME IInv, NEW r \in Requests, Arrive(r)
  PROVE  IInv'
<1> USE DEF IInv
<1>1. TypeOK'
  <2>1. Gen \in Nat
    BY InstalledConfigs
  <2> QED BY <2>1 DEF TypeOK, Arrive, shared, Gen
<1>2. \A s \in Requests \ {r} : SameRequest(s)
  BY DEF TypeOK, Arrive, SameRequest
<1>3. Holds(r)'
  <2>1. Local(r) /\ Paying(r) /\ AnswerOk(r)
    OBVIOUS
  <2>2. /\ pc'[r] = "arrived" /\ sent'[r] = [gen |-> Gen, at |-> now]
        /\ UNCHANGED <<cfgs, now, input, authGen, liveGen, paid, wire, answer>>
    BY DEF Arrive, shared, TypeOK
  <2>3. Gen \in Nat /\ now \in Nat /\ Gen # 0
    BY InstalledConfigs DEF TypeOK
  <2> QED BY <2>1, <2>2, <2>3 DEF Holds, Local, Paying, AnswerOk, Forwarded, Gen, Arrive
<1>4. BudgetsConserved'
  BY SameBudgets DEF Arrive, shared
<1> QED BY <1>1, <1>2, <1>3, <1>4, Assemble DEF Arrive, shared

(* The answers given at the door, before any configuration is consulted.   *)
LEMMA DoorStep ==
  ASSUME IInv, NEW r \in Requests, RefuseLength(r) \/ Healthz(r) \/ NotAllowed(r)
  PROVE  IInv'
<1> USE DEF IInv
<1>1. /\ pc[r] = "arrived" /\ pc' = [pc EXCEPT ![r] = "done"]
      /\ \E a \in Answers : answer' = [answer EXCEPT ![r] = a]
      /\ answer'[r] \in {"too_large", "ok", "not_allowed"}
      /\ input[r].op \in Calls => answer'[r] = "too_large"
      /\ UNCHANGED <<shared, input, sent, authGen, liveGen, paid, wire>>
  <2>1. CASE RefuseLength(r)
    BY <2>1 DEF RefuseLength, Answer, Answers, TypeOK
  <2>2. CASE Healthz(r)
    BY <2>2 DEF Healthz, Answer, Answers, TypeOK, Calls
  <2>3. CASE NotAllowed(r)
    BY <2>3 DEF NotAllowed, Answer, Answers, TypeOK, Calls
  <2> QED BY <2>1, <2>2, <2>3
<1>2. log' \in [Requests -> Logs]
  <2>1. CASE UNCHANGED log
    BY <2>1 DEF TypeOK, Logs
  <2>2. CASE NotAllowed(r)
    <3>1. <<Entry("-", "blocked")>> \in Seq(LogEntry) /\ <<>> \in Seq(LogEntry)
      BY DEF Entry, LogEntry, Outcomes
    <3>2. Write(r, <<Entry("-", "blocked")>>, <<>>, 0, 0)
      BY <2>2 DEF NotAllowed
    <3> QED BY <3>1, <3>2, WriteType
  <2> QED BY <2>1, <2>2 DEF RefuseLength, Healthz
<1>3. TypeOK'
  <2>1. /\ pc' \in [Requests -> Pcs] /\ answer' \in [Requests -> Answers]
        /\ wire' \in [Requests -> Wires] /\ UNCHANGED <<left, authGen, liveGen, paid>>
        /\ UNCHANGED <<cfgs, now, input, sent, refilled>>
    BY <1>1 DEF TypeOK, Pcs, Wires, shared
  <2> QED BY <1>2, <2>1, TypeStep DEF TypeOK
<1>4. \A s \in Requests \ {r} : SameRequest(s)
  BY <1>1 DEF TypeOK, SameRequest
<1>5. Holds(r)'
  <2>1. Local(r) /\ Paying(r) /\ AnswerOk(r) /\ pc'[r] = "done"
    BY <1>1 DEF TypeOK
  <2>2. Gen \in Nat \ {0}
    BY InstalledConfigs
  <2> QED BY <1>1, <2>1, <2>2 DEF Holds, Local, Paying, AnswerOk, Forwarded, Gen, shared
<1>6. BudgetsConserved'
  BY <1>1, SameBudgets DEF shared
<1> QED BY <1>1, <1>3, <1>4, <1>5, <1>6, Assemble DEF shared

(***************************************************************************)
(* The refusals of the extractor: whatever their reason, the address has   *)
(* paid unless its own budget was the reason.                              *)
(***************************************************************************)
LEMMA RefuseIpStep ==
  ASSUME IInv, NEW r \in Requests, RefuseIp(r)
  PROVE  IInv'
<1> USE DEF IInv
<1>1. /\ pc[r] = "arrived" /\ pc' = [pc EXCEPT ![r] = "done"]
      /\ authGen' = [authGen EXCEPT ![r] = Gen]
      /\ answer' = [answer EXCEPT ![r] = "rate_limited"]
      /\ UNCHANGED <<shared, input, sent, liveGen, paid, wire>>
  BY DEF RefuseIp, Extracting, Rejected, Answer
<1>2. Gen \in Nat \ {0}
  BY InstalledConfigs
<1>3. TypeOK'
  <2>1. <<Entry("-", "ip_rate_limited")>> \in Seq(LogEntry)
    BY DEF Entry, LogEntry, Outcomes
  <2>2. log' \in [Requests -> Logs]
    BY <2>1, WriteType DEF RefuseIp, Rejected
  <2>3. /\ pc' \in [Requests -> Pcs] /\ answer' \in [Requests -> Answers]
        /\ wire' \in [Requests -> Wires] /\ UNCHANGED <<left, liveGen, paid>>
        /\ UNCHANGED <<cfgs, now, input, sent, refilled>>
        /\ authGen' \in [Requests -> 0 .. Gen]
    BY <1>1, <1>2 DEF TypeOK, Pcs, Wires, shared, Answers
  <2> QED BY <2>2, <2>3, TypeStep DEF TypeOK
<1>4. \A s \in Requests \ {r} : SameRequest(s)
  BY <1>1 DEF TypeOK, SameRequest
<1>5. Holds(r)'
  <2>1. Local(r) /\ pc'[r] = "done" /\ answer'[r] = "rate_limited" /\ authGen'[r] = Gen
    BY <1>1 DEF TypeOK
  <2> QED BY <1>1, <1>2, <2>1 DEF Holds, Local, Paying, AnswerOk, Forwarded, Gen, shared
<1>6. BudgetsConserved'
  BY <1>1, SameBudgets DEF shared
<1> QED BY <1>1, <1>3, <1>4, <1>5, <1>6, Assemble DEF shared

LEMMA PassIpStep ==
  ASSUME IInv, NEW r \in Requests, PassIp(r)
  PROVE  IInv'
<1> USE DEF IInv
<1>0. /\ pc[r] = "arrived" /\ pc' = [pc EXCEPT ![r] = "verifying"]
      /\ authGen' = [authGen EXCEPT ![r] = Gen]
      /\ UNCHANGED <<cfgs, refilled, now, input, sent, liveGen, wire, answer, log>>
  BY DEF PassIp, Extracting
<1>1. /\ Local(r) /\ paid[r] = {} /\ answer[r] = "none" /\ liveGen[r] = 0
      /\ wire[r] = "none" /\ sent[r].gen <= Gen /\ sent[r].at <= now
  BY <1>0 DEF Local
<1>2. /\ BudgetsConserved'
      /\ left' \in [Keys -> Nat] /\ paid' \in [Requests -> SUBSET Keys]
  <2>1. input[r].peer \in Keys /\ input[r].peer \notin paid[r]
    BY <1>1, RequestType DEF Keys
  <2>2. MaySpend(input[r].peer) /\ Charge(r, input[r].peer)
    BY DEF PassIp
  <2> QED BY <1>0, <2>1, <2>2, ChargeBalances
<1>3. paid' = [paid EXCEPT ![r] = {input[r].peer}]
  BY <1>1 DEF PassIp, Charge, TypeOK
<1>4. Gen \in Nat \ {0} /\ Gen' = Gen
  BY <1>0, InstalledConfigs DEF Gen
<1>5. TypeOK'
  <2>1. pc' \in [Requests -> Pcs] /\ authGen' \in [Requests -> 0 .. Gen]
    BY <1>0, <1>4 DEF TypeOK, Pcs
  <2>2. /\ liveGen' \in [Requests -> 0 .. Gen] /\ wire' \in [Requests -> Wires]
        /\ answer' \in [Requests -> Answers] /\ log' \in [Requests -> Logs]
    BY <1>0 DEF TypeOK, Wires, Logs
  <2> QED BY <1>0, <1>2, <2>1, <2>2, TypeStep
<1>6. \A s \in Requests \ {r} : SameRequest(s)
  BY <1>0, <1>3 DEF TypeOK, SameRequest
<1>7. pc'[r] = "verifying" /\ authGen'[r] = Gen /\ paid'[r] = {input[r].peer}
  BY <1>0, <1>3 DEF TypeOK
<1>8. Holds(r)'
  <2>1. Local(r)'
    BY <1>0, <1>1, <1>4, <1>7 DEF Local, Forwarded
  <2>2. Paying(r)'
    BY <1>0, <1>1, <1>4, <1>7 DEF Paying
  <2>3. AnswerOk(r)'
    BY <1>7 DEF AnswerOk
  <2> QED BY <2>1, <2>2, <2>3 DEF Holds
<1> QED BY <1>0, <1>2, <1>5, <1>6, <1>8, Assemble

(* What the end of the scan starts from.                                   *)
LEMMA VerifiedFacts ==
  ASSUME IInv, NEW r \in Requests, Verified(r)
  PROVE  /\ pc[r] = "verifying" /\ Local(r) /\ Paying(r)
         /\ authGen[r] # 0 /\ sent[r].gen <= authGen[r] /\ answer[r] = "none"
         /\ liveGen[r] = 0 /\ wire[r] = "none" /\ paid[r] \subseteq {input[r].peer}
         /\ UNCHANGED <<cfgs, left, refilled, now, input, sent, authGen, liveGen, paid, wire>>
         /\ Gen \in Nat \ {0} /\ Gen' = Gen
<1> USE DEF IInv
<1>1. /\ pc[r] = "verifying"
      /\ UNCHANGED <<cfgs, left, refilled, now, input, sent, authGen, liveGen, paid, wire>>
  BY DEF Verified, shared
<1>2. Gen \in Nat \ {0} /\ Gen' = Gen
  BY <1>1, InstalledConfigs DEF Gen
<1> QED BY <1>1, <1>2 DEF Local

LEMMA RefuseTokenStep ==
  ASSUME IInv, NEW r \in Requests, RefuseToken(r) \/ RefuseExpired(r)
  PROVE  IInv'
<1> USE DEF IInv
<1>0. Verified(r)
  BY DEF RefuseToken, RefuseExpired
<1>1. UNCHANGED <<cfgs, left, refilled, now, input, sent, authGen, liveGen, paid, wire>>
  BY <1>0, VerifiedFacts
<1>2. \E who \in Names \cup {"-"}, a \in {"unauthorized", "token_expired"},
         reason \in {"missing_token", "unknown_token", "token_expired"} :
        Rejected(r, who, reason, a)
  <2>1. CASE RefuseToken(r)
    BY <2>1 DEF RefuseToken
  <2>2. CASE RefuseExpired(r)
    <3>1. Token(r).name \in Names
      BY <1>0, <2>2, VerifiedFacts, ProvenToken DEF RefuseExpired
    <3> QED BY <2>2, <3>1 DEF RefuseExpired
  <2> QED BY <2>1, <2>2
<1>3. PICK who \in Names \cup {"-"}, a \in {"unauthorized", "token_expired"},
         reason \in {"missing_token", "unknown_token", "token_expired"} :
        Rejected(r, who, reason, a)
  BY <1>2
<1>4. /\ pc' = [pc EXCEPT ![r] = "done"] /\ answer' = [answer EXCEPT ![r] = a]
      /\ Write(r, <<Entry("-", reason)>>, <<Entry(who, reason)>>, 0, 0)
  BY <1>3 DEF Rejected, Answer
<1>5. TypeOK'
  <2>1. <<Entry("-", reason)>> \in Seq(LogEntry) /\ <<Entry(who, reason)>> \in Seq(LogEntry)
    BY DEF Entry, LogEntry, Outcomes, Answers
  <2>2. log' \in [Requests -> Logs]
    BY <1>4, <2>1, WriteType
  <2>3. pc' \in [Requests -> Pcs] /\ answer' \in [Requests -> Answers]
    BY <1>4 DEF TypeOK, Pcs, Answers
  <2> QED BY <1>1, <2>2, <2>3, TypeStep DEF TypeOK, Wires
<1>6. \A s \in Requests \ {r} : SameRequest(s)
  BY <1>1, <1>4 DEF TypeOK, SameRequest
<1>7. Holds(r)'
  <2>1. pc'[r] = "done" /\ answer'[r] = a
    BY <1>4 DEF TypeOK
  <2>2. /\ Local(r) /\ Paying(r) /\ answer[r] = "none" /\ liveGen[r] = 0 /\ wire[r] = "none"
        /\ Gen' = Gen /\ Gen \in Nat \ {0}
    BY <1>0, VerifiedFacts
  <2>3. Local(r)'
    BY <1>1, <2>1, <2>2 DEF Local, Forwarded
  <2>4. Paying(r)' /\ AnswerOk(r)'
    BY <1>1, <2>1, <2>2 DEF Paying, AnswerOk, Forwarded
  <2> QED BY <2>3, <2>4 DEF Holds
<1>8. BudgetsConserved'
  BY <1>1, SameBudgets
<1> QED BY <1>1, <1>5, <1>6, <1>7, <1>8, Assemble

(***************************************************************************)
(* Admission: the Caller is the token of the Live the extractor loaded.    *)
(***************************************************************************)
LEMMA AdmitStep ==
  ASSUME IInv, NEW r \in Requests, Admit(r)
  PROVE  IInv'
<1> USE DEF IInv
<1>0. /\ Verified(r) /\ UNCHANGED <<answer, log>>
      /\ CallerIndex(r) # 0 /\ ~IsExpiredAt(Token(r), now)
      /\ \E p \in {"reading", "ready"} :
           /\ pc' = [pc EXCEPT ![r] = p]
           /\ p = "ready" => input[r].op # "create"
  BY DEF Admit
<1>1. UNCHANGED <<cfgs, left, refilled, now, input, sent, authGen, liveGen, paid, wire>>
  BY <1>0, VerifiedFacts
<1>2. PICK p \in {"reading", "ready"} :
        /\ pc' = [pc EXCEPT ![r] = p]
        /\ p = "ready" => input[r].op # "create"
  BY <1>0
<1>3. TypeOK'
  <2>1. pc' \in [Requests -> Pcs]
    BY <1>2 DEF TypeOK, Pcs
  <2> QED BY <1>0, <1>1, <2>1, TypeStep DEF TypeOK, Wires, Logs
<1>4. \A s \in Requests \ {r} : SameRequest(s)
  BY <1>0, <1>1, <1>2 DEF TypeOK, SameRequest
<1>5. Admitted(r)
  <2>1. /\ authGen[r] # 0 /\ sent[r].gen <= authGen[r] /\ sent[r].at <= now
    BY <1>0, VerifiedFacts DEF Local
  <2>2. /\ CallerIndex(r) \in 1 .. Len(cfgs[authGen[r]].tokens)
        /\ Token(r).secret = input[r].secret /\ Token(r).expires \in Option(Nat)
    BY <1>0, <2>1, ProvenToken
  <2>3. sent[r].at \in Nat /\ now \in Nat
    BY DEF TypeOK
  <2>4. Token(r).expires = None \/ sent[r].at < Token(r).expires
    BY <1>0, <2>1, <2>2, <2>3 DEF IsExpiredAt, Option
  <2> QED BY <2>1, <2>2, <2>4 DEF Admitted
<1>6. Holds(r)'
  <2>1. /\ Local(r) /\ Paying(r) /\ answer[r] = "none" /\ liveGen[r] = 0 /\ wire[r] = "none"
        /\ paid[r] \subseteq {input[r].peer} /\ Gen' = Gen /\ Gen \in Nat \ {0}
    BY <1>0, VerifiedFacts
  <2>2. pc'[r] = p
    BY <1>2 DEF TypeOK
  <2>3. Admitted(r)'
    BY <1>1, <1>5 DEF Admitted, CallerIndex, Token
  <2>4. Local(r)'
    BY <1>0, <1>1, <1>2, <2>1, <2>2, <2>3 DEF Local, Forwarded
  <2>5. Paying(r)'
    BY <1>0, <1>1, <2>1 DEF Paying, Forwarded
  <2>6. AnswerOk(r)'
    BY <2>2 DEF AnswerOk
  <2> QED BY <2>4, <2>5, <2>6 DEF Holds
<1>7. BudgetsConserved'
  BY <1>1, SameBudgets
<1> QED BY <1>0, <1>1, <1>3, <1>4, <1>6, <1>7, Assemble

LEMMA ReadBodyStep ==
  ASSUME IInv, NEW r \in Requests, ReadBody(r)
  PROVE  IInv'
<1> USE DEF IInv
<1>1. /\ pc[r] = "reading"
      /\ UNCHANGED <<shared, input, sent, authGen, liveGen, paid, wire, log>>
      /\ \/ /\ input[r].payload \in {"malformed", "vouchers"}
            /\ pc' = [pc EXCEPT ![r] = "ready"] /\ UNCHANGED answer
         \/ /\ pc' = [pc EXCEPT ![r] = "done"]
            /\ answer' = [answer EXCEPT ![r] = "unreadable"]
  BY DEF ReadBody, Answer
<1>2. TypeOK'
  <2>1. /\ pc' \in [Requests -> Pcs] /\ answer' \in [Requests -> Answers]
        /\ UNCHANGED <<cfgs, now, input, sent, refilled, left, authGen, liveGen, paid, wire, log>>
    BY <1>1 DEF TypeOK, Pcs, shared, Answers
  <2> QED BY <2>1, TypeStep DEF TypeOK, Wires, Logs
<1>3. \A s \in Requests \ {r} : SameRequest(s)
  BY <1>1 DEF TypeOK, SameRequest
<1>4. Holds(r)'
  <2>1. Local(r) /\ Paying(r) /\ liveGen[r] = 0 /\ wire[r] = "none" /\ Admitted(r) /\ answer[r] = "none"
    BY <1>1 DEF Local
  <2>2. /\ Admitted(r)' /\ Gen' = Gen /\ Gen \in Nat \ {0}
    BY <1>1, <2>1, InstalledConfigs DEF Admitted, CallerIndex, Token, shared, Gen
  <2>3. \/ /\ input[r].payload \in {"malformed", "vouchers"}
           /\ pc'[r] = "ready" /\ UNCHANGED answer
        \/ pc'[r] = "done" /\ answer'[r] = "unreadable"
    BY <1>1 DEF TypeOK
  <2> QED BY <1>1, <2>1, <2>2, <2>3 DEF Holds, Local, Paying, AnswerOk, Forwarded, shared
<1>5. BudgetsConserved'
  BY <1>1, SameBudgets DEF shared
<1> QED BY <1>1, <1>2, <1>3, <1>4, <1>5, Assemble DEF shared

LEMMA DisconnectStep ==
  ASSUME IInv, NEW r \in Requests, Disconnect(r)
  PROVE  IInv'
<1> USE DEF IInv
<1>1. /\ pc[r] \in {"reading", "upstream"} /\ pc' = [pc EXCEPT ![r] = "gone"]
      /\ UNCHANGED <<shared, input, sent, authGen, liveGen, paid, wire, answer, log>>
  BY DEF Disconnect
<1>2. TypeOK'
  BY <1>1, TypeStep DEF TypeOK, Pcs, Wires, Logs, shared
<1>3. \A s \in Requests \ {r} : SameRequest(s)
  BY <1>1 DEF TypeOK, SameRequest
<1>4. Holds(r)'
  <2>1. Local(r) /\ Paying(r) /\ pc'[r] = "gone"
    BY <1>1 DEF TypeOK
  <2>2. /\ Gen' = Gen /\ Token(r)' = Token(r)
        /\ Admitted(r)' <=> Admitted(r)
        /\ Entitled(r)' <=> Entitled(r)
    BY <1>1 DEF Admitted, CallerIndex, Token, shared, Gen, Entitled
  <2> QED BY <1>1, <2>1, <2>2 DEF Holds, Local, Paying, MayAttempt, AnswerOk, Forwarded, shared
<1>5. BudgetsConserved'
  BY <1>1, SameBudgets DEF shared
<1> QED BY <1>1, <1>2, <1>3, <1>4, <1>5, Assemble DEF shared

-----------------------------------------------------------------------------
(* The handlers.                                                           *)

LEMMA AttemptPermitted ==
  ASSUME NEW r
  PROVE  MayAttempt(r) <=> Permits(Token(r), input[r])
BY DEF MayAttempt, Permits, HasScope, AllowsSite

LEMMA FinishType ==
  ASSUME TypeOK, NEW r \in Requests, Admitted(r), NEW outcome \in Answers,
         NEW before \in Seq(LogEntry), NEW issued \in Nat,
         Finish(r, outcome, before, issued)
  PROVE  /\ log' \in [Requests -> Logs]
         /\ pc' = [pc EXCEPT ![r] = "done"] /\ answer' = [answer EXCEPT ![r] = outcome]
<1> DEFINE entry == Entry(Token(r).name, outcome)
<1>1. entry \in LogEntry
  BY TokenType DEF Entry, LogEntry, Outcomes
<1>2. Append(before, entry) \in Seq(LogEntry) /\ <<entry>> \in Seq(LogEntry)
  BY <1>1
<1>3. Write(r, Append(before, entry), <<entry>>, 1, issued)
  BY DEF Finish
<1>4. log' \in [Requests -> Logs]
  <2> HIDE DEF entry
  <2> QED BY <1>2, <1>3, WriteType
<1> QED BY <1>4 DEF Finish, Answer

LEMMA InfoStep ==
  ASSUME IInv, NEW r \in Requests, Info(r)
  PROVE  IInv'
<1> USE DEF IInv
<1>1. /\ pc[r] = "ready" /\ input[r].op = "info"
      /\ pc' = [pc EXCEPT ![r] = "done"] /\ answer' = [answer EXCEPT ![r] = "ok"]
      /\ UNCHANGED <<shared, input, sent, authGen, liveGen, paid, wire>>
      /\ Write(r, <<>>, <<Entry(Token(r).name, "ok")>>, 0, 0)
  BY DEF Info, Answer
<1>2. Local(r) /\ Paying(r) /\ Admitted(r) /\ answer[r] = "none" /\ liveGen[r] = 0
      /\ wire[r] = "none"
  BY <1>1 DEF Local
<1>3. TypeOK'
  <2>1. <<>> \in Seq(LogEntry) /\ <<Entry(Token(r).name, "ok")>> \in Seq(LogEntry)
    BY <1>2, TokenType DEF Entry, LogEntry, Outcomes, Answers
  <2>2. log' \in [Requests -> Logs]
    BY <1>1, <2>1, WriteType
  <2>3. /\ pc' \in [Requests -> Pcs] /\ answer' \in [Requests -> Answers]
        /\ UNCHANGED <<cfgs, now, input, sent, refilled, left, authGen, liveGen, paid, wire>>
    BY <1>1 DEF TypeOK, Pcs, Answers, shared
  <2> QED BY <2>2, <2>3, TypeStep DEF TypeOK, Wires
<1>4. \A s \in Requests \ {r} : SameRequest(s)
  BY <1>1 DEF TypeOK, SameRequest
<1>5. Holds(r)'
  <2>1. pc'[r] = "done" /\ answer'[r] = "ok"
    BY <1>1 DEF TypeOK
  <2>2. Gen' = Gen /\ Gen \in Nat \ {0} /\ input[r].op \notin Calls
    BY <1>1, InstalledConfigs DEF shared, Gen, Calls
  <2> QED BY <1>1, <1>2, <2>1, <2>2 DEF Holds, Local, Paying, AnswerOk, Forwarded, shared
<1>6. BudgetsConserved'
  BY <1>1, SameBudgets DEF shared
<1> QED BY <1>1, <1>3, <1>4, <1>5, <1>6, Assemble DEF shared

(***************************************************************************)
(* What every handler starts from.                                         *)
(***************************************************************************)
LEMMA HandlingFacts ==
  ASSUME IInv, NEW r \in Requests, Handling(r)
  PROVE  /\ pc[r] = "ready" /\ input[r].op \in Calls
         /\ Local(r) /\ Paying(r) /\ Admitted(r)
         /\ answer[r] = "none" /\ liveGen[r] = 0 /\ wire[r] = "none"
         /\ paid[r] \subseteq {input[r].peer}
         /\ liveGen' = [liveGen EXCEPT ![r] = Gen] /\ liveGen' \in [Requests -> 0 .. Gen]
         /\ UNCHANGED <<cfgs, refilled, now, input, sent, authGen>>
         /\ Gen \in Nat \ {0}
         /\ Token(r).name \in Names
<1> USE DEF IInv
<1>1. /\ pc[r] = "ready" /\ input[r].op \in Calls
      /\ liveGen' = [liveGen EXCEPT ![r] = Gen]
      /\ UNCHANGED <<cfgs, refilled, now, input, sent, authGen>>
  BY DEF Handling
<1>2. Gen \in Nat \ {0}
  BY InstalledConfigs
<1>3. liveGen' \in [Requests -> 0 .. Gen]
  BY <1>1, <1>2 DEF TypeOK
<1>4. /\ Local(r) /\ Paying(r) /\ Admitted(r)
      /\ answer[r] = "none" /\ liveGen[r] = 0 /\ wire[r] = "none"
      /\ paid[r] \subseteq {input[r].peer}
  BY <1>1 DEF Local
<1> QED BY <1>1, <1>2, <1>3, <1>4, TokenType

(* The refusals of a handler leave the console alone.                      *)
LEMMA RefusedByHandler ==
  ASSUME IInv, NEW r \in Requests, Handling(r), wire' = wire,
         NEW outcome \in {"forbidden", "rate_limited", "bad_request"},
         NEW before \in Seq(LogEntry), Finish(r, outcome, before, 0),
         left' \in [Keys -> Nat], NEW p \in SUBSET Keys,
         paid' = [paid EXCEPT ![r] = p], paid[r] \subseteq p,
         Permits(Token(r), input[r]) => outcome = "rate_limited" \/ Token(r).name \in p,
         BudgetsConserved'
  PROVE  IInv'
<1> USE DEF IInv
<1>0. /\ UNCHANGED <<cfgs, refilled, now, input, sent, authGen, wire>>
      /\ liveGen' = [liveGen EXCEPT ![r] = Gen] /\ liveGen' \in [Requests -> 0 .. Gen]
  BY HandlingFacts
<1>1. /\ log' \in [Requests -> Logs]
      /\ pc' = [pc EXCEPT ![r] = "done"] /\ answer' = [answer EXCEPT ![r] = outcome]
  <2>1. TypeOK /\ Admitted(r) /\ outcome \in Answers /\ 0 \in Nat
    BY HandlingFacts DEF Answers
  <2> QED BY <2>1, FinishType
<1>2. TypeOK'
  <2>1. pc' \in [Requests -> Pcs] /\ answer' \in [Requests -> Answers]
    BY <1>1 DEF TypeOK, Pcs, Answers
  <2>2. /\ authGen' \in [Requests -> 0 .. Gen] /\ wire' \in [Requests -> Wires]
        /\ paid' \in [Requests -> SUBSET Keys]
    BY <1>0 DEF TypeOK, Wires
  <2> QED BY <1>0, <1>1, <2>1, <2>2, TypeStep
<1>3. \A s \in Requests \ {r} : SameRequest(s)
  <2>1. ASSUME NEW s \in Requests, s # r
        PROVE  paid'[s] = paid[s] /\ liveGen'[s] = liveGen[s] /\ pc'[s] = pc[s] /\ answer'[s] = answer[s]
    BY <1>0, <1>1, <2>1 DEF TypeOK
  <2> QED BY <1>0, <2>1 DEF SameRequest
<1>4. /\ pc'[r] = "done" /\ answer'[r] = outcome /\ liveGen'[r] = Gen /\ paid'[r] = p
      /\ wire'[r] = "none" /\ sent'[r] = sent[r] /\ authGen'[r] = authGen[r]
      /\ Gen' = Gen /\ Gen \in Nat \ {0}
  <2>1. pc'[r] = "done" /\ answer'[r] = outcome
    BY <1>1 DEF TypeOK
  <2>2. liveGen'[r] = Gen /\ paid'[r] = p
    BY <1>0 DEF TypeOK
  <2>3. wire[r] = "none" /\ Gen \in Nat \ {0}
    BY HandlingFacts
  <2> QED BY <1>0, <2>1, <2>2, <2>3 DEF Gen
<1>5. Token(r)' = Token(r) /\ Admitted(r)'
  BY HandlingFacts DEF Token, Admitted, CallerIndex
<1>6. Local(r)'
  BY <1>4, <1>5, HandlingFacts DEF Local, Forwarded
<1>7. Paying(r)'
  <2>1. input' = input
    BY <1>0
  <2>2. MayAttempt(r)' <=> Permits(Token(r), input[r])
    BY <1>5, <2>1, AttemptPermitted DEF MayAttempt
  <2> QED BY <1>4, <1>5, <2>1, <2>2, HandlingFacts DEF Paying
<1>8. AnswerOk(r)'
  BY <1>4 DEF AnswerOk
<1> QED BY <1>2, <1>3, <1>6, <1>7, <1>8, HandlingFacts, Assemble DEF Holds

LEMMA RefuseScopeOrSiteStep ==
  ASSUME IInv, NEW r \in Requests, RefuseScopeOrSite(r) \/ RefuseQuota(r)
  PROVE  IInv'
<1>1. Handling(r) /\ UNCHANGED <<left, paid, wire>>
  BY DEF RefuseScopeOrSite, RefuseQuota
<1>2. \E outcome \in {"forbidden", "rate_limited"}, before \in Seq(LogEntry) :
        /\ Finish(r, outcome, before, 0)
        /\ Permits(Token(r), input[r]) => outcome = "rate_limited"
  <2>1. <<>> \in Seq(LogEntry) /\ <<Entry("-", "rate_limited")>> \in Seq(LogEntry)
    BY DEF Entry, LogEntry, Outcomes, Answers
  <2> QED BY <2>1 DEF RefuseScopeOrSite, RefuseQuota
<1>3. PICK outcome \in {"forbidden", "rate_limited"}, before \in Seq(LogEntry) :
        /\ Finish(r, outcome, before, 0)
        /\ Permits(Token(r), input[r]) => outcome = "rate_limited"
  BY <1>2
<1>4. /\ left' \in [Keys -> Nat] /\ paid[r] \in SUBSET Keys
      /\ paid' = [paid EXCEPT ![r] = paid[r]]
  BY <1>1 DEF IInv, TypeOK
<1>5. BudgetsConserved'
  BY <1>1, HandlingFacts, SameBudgets DEF IInv
<1>6. PICK p \in SUBSET Keys : paid' = [paid EXCEPT ![r] = p] /\ paid[r] \subseteq p
  BY <1>4
<1>7. PICK told \in {"forbidden", "rate_limited", "bad_request"} :
        /\ Finish(r, told, before, 0)
        /\ Permits(Token(r), input[r]) => told = "rate_limited"
  BY <1>3
<1>8. /\ Handling(r) /\ wire' = wire /\ left' \in [Keys -> Nat]
      /\ Permits(Token(r), input[r]) => told = "rate_limited" \/ Token(r).name \in p
  BY <1>1, <1>4, <1>7
<1> QED BY <1>5, <1>6, <1>7, <1>8, RefusedByHandler

LEMMA ChargedBalances ==
  ASSUME IInv, NEW r \in Requests, Charged(r)
  PROVE  /\ Handling(r) /\ Permits(Token(r), input[r])
         /\ paid' = [paid EXCEPT ![r] = paid[r] \cup {Token(r).name}]
         /\ paid[r] \cup {Token(r).name} \in SUBSET Keys
         /\ left' \in [Keys -> Nat] /\ paid' \in [Requests -> SUBSET Keys]
         /\ BudgetsConserved'
<1> DEFINE k == Token(r).name
<1>1. /\ Handling(r) /\ Permits(Token(r), input[r]) /\ MaySpend(k) /\ Charge(r, k)
  BY DEF Charged
<1>2. k \in Keys /\ k \notin paid[r]
  <2>1. k \in Names /\ paid[r] \subseteq {input[r].peer} /\ input[r].peer \in Peers
    BY <1>1, HandlingFacts, RequestType DEF IInv
  <2> QED BY <2>1, KeyAssumption DEF Keys
<1>3. paid[r] \in SUBSET Keys
  BY DEF IInv, TypeOK
<1>4. cfgs' = cfgs /\ refilled' = refilled
  BY <1>1 DEF Handling
<1>5. /\ BudgetsConserved'
      /\ left' \in [Keys -> Nat] /\ paid' \in [Requests -> SUBSET Keys]
  <2> HIDE DEF k
  <2> QED BY <1>1, <1>2, <1>4, ChargeBalances DEF IInv
<1> QED BY <1>1, <1>2, <1>3, <1>5 DEF Charge

LEMMA RefuseBodyStep ==
  ASSUME IInv, NEW r \in Requests, RefuseBody(r)
  PROVE  IInv'
<1> DEFINE outcome == Checked(input[r], CallerCeilings(r))
<1>1. Charged(r) /\ outcome # "ok" /\ Finish(r, outcome, <<>>, 0) /\ wire' = wire
  BY DEF RefuseBody
<1>2. outcome \in {"forbidden", "bad_request"} /\ <<>> \in Seq(LogEntry)
  BY <1>1, CheckedType
<1> HIDE DEF outcome
<1> DEFINE p == paid[r] \cup {Token(r).name}
<1>3. /\ Handling(r) /\ paid' = [paid EXCEPT ![r] = p] /\ p \in SUBSET Keys
      /\ left' \in [Keys -> Nat] /\ BudgetsConserved'
  BY <1>1, ChargedBalances
<1>4. paid[r] \subseteq p /\ Token(r).name \in p
  OBVIOUS
<1> HIDE DEF p
<1> QED BY <1>1, <1>2, <1>3, <1>4, RefusedByHandler

LEMMA ForwardedIsEntitled ==
  ASSUME IInv, NEW r \in Requests, Handling(r), Permits(Token(r), input[r]),
         Checked(input[r], CallerCeilings(r)) = "ok"
  PROVE  Entitled(r)
<1> DEFINE c == cfgs[authGen[r]]
           i == input[r]
<1>1. Admitted(r) /\ input[r].op \in Calls /\ pc[r] = "ready" /\ Local(r)
  BY HandlingFacts
<1>2. Token(r) \in TokenEntry /\ c.limits \in Limits /\ i.ask \in Ask
  <2>1. authGen[r] \in 1 .. Gen /\ Token(r) \in TokenEntry
    BY <1>1, TokenType DEF IInv
  <2>2. c \in Config
    BY <2>1, InstalledConfigs DEF IInv
  <2> QED BY <2>1, <2>2, RequestType DEF IInv, Config, Input
<1>3. ASSUME i.op = "create" PROVE i.payload = "vouchers"
  <2>1. i.payload \in {"malformed", "vouchers"}
    BY <1>1, <1>3 DEF Local
  <2> QED BY <1>3, <2>1 DEF Checked
<1>4. /\ ScopeOf(i.op) \in Token(r).scopes
      /\ i.op # "list_sites" => i.plainIds /\ (i.site \in Token(r).sites \/ "*" \in Token(r).sites)
      /\ i.op = "create" => /\ i.ask.count \in 1 .. c.limits.maxVouchers
                            /\ Token(r).maxVouchers # None => i.ask.count <= Token(r).maxVouchers
                            /\ i.ask.minutes \in 1 .. c.limits.maxValidity
                            /\ Token(r).maxValidity # None => i.ask.minutes <= Token(r).maxValidity
  <2>1. Permits(Token(r), i) /\ Checked(i, Ceilings(Token(r), c.limits)) = "ok"
    BY DEF CallerCeilings
  <2> HIDE DEF c, i
  <2> QED BY <1>2, <2>1, PassedIsAllowed
<1> QED BY <1>1, <1>3, <1>4 DEF Entitled, Admitted

LEMMA ForwardStep ==
  ASSUME IInv, NEW r \in Requests, Forward(r)
  PROVE  IInv'
<1> USE DEF IInv
<1>1. /\ Charged(r) /\ Checked(input[r], CallerCeilings(r)) = "ok"
      /\ wire' = [wire EXCEPT ![r] = "sent"] /\ pc' = [pc EXCEPT ![r] = "upstream"]
      /\ UNCHANGED <<answer, log>>
  BY DEF Forward
<1> DEFINE p == paid[r] \cup {Token(r).name}
<1>2. /\ Handling(r) /\ Permits(Token(r), input[r])
      /\ paid' = [paid EXCEPT ![r] = p]
      /\ left' \in [Keys -> Nat] /\ paid' \in [Requests -> SUBSET Keys]
      /\ BudgetsConserved'
  BY <1>1, ChargedBalances
<1>3. /\ UNCHANGED <<cfgs, refilled, now, input, sent, authGen>>
      /\ liveGen' = [liveGen EXCEPT ![r] = Gen] /\ liveGen' \in [Requests -> 0 .. Gen]
  BY <1>2, HandlingFacts
<1>4. TypeOK'
  <2>1. pc' \in [Requests -> Pcs] /\ wire' \in [Requests -> Wires]
    BY <1>1 DEF TypeOK, Pcs, Wires
  <2>2. /\ authGen' \in [Requests -> 0 .. Gen] /\ answer' \in [Requests -> Answers]
        /\ log' \in [Requests -> Logs]
    BY <1>1, <1>3 DEF TypeOK, Logs
  <2> QED BY <1>2, <1>3, <2>1, <2>2, TypeStep
<1>5. \A s \in Requests \ {r} : SameRequest(s)
  <2>1. ASSUME NEW s \in Requests, s # r
        PROVE  paid'[s] = paid[s] /\ liveGen'[s] = liveGen[s] /\ pc'[s] = pc[s] /\ wire'[s] = wire[s]
    BY <1>1, <1>2, <1>3, <2>1 DEF TypeOK
  <2> QED BY <1>1, <1>3, <2>1 DEF SameRequest
<1>6. /\ pc'[r] = "upstream" /\ wire'[r] = "sent" /\ liveGen'[r] = Gen
      /\ Token(r).name \in paid'[r] /\ paid[r] \subseteq paid'[r]
  <2>1. pc'[r] = "upstream" /\ wire'[r] = "sent" /\ liveGen'[r] = Gen
    BY <1>1, <1>3 DEF TypeOK
  <2>2. paid'[r] = p
    BY <1>2 DEF TypeOK
  <2> QED BY <2>1, <2>2
<1>7. /\ Local(r) /\ Paying(r) /\ Admitted(r) /\ input[r].op \in Calls
      /\ answer[r] = "none" /\ Gen \in Nat \ {0} /\ Gen' = Gen
  BY <1>2, <1>3, HandlingFacts DEF Gen
<1>8. Token(r)' = Token(r) /\ Admitted(r)' /\ Entitled(r)'
  <2>1. Entitled(r)
    BY <1>1, <1>2, ForwardedIsEntitled
  <2> QED BY <1>3, <1>7, <2>1 DEF Token, Admitted, CallerIndex, Entitled
<1>9. Holds(r)'
  <2>1. Local(r)'
    BY <1>1, <1>3, <1>6, <1>7, <1>8 DEF Local, Forwarded
  <2>2. Paying(r)'
    BY <1>1, <1>3, <1>6, <1>7, <1>8 DEF Paying, Forwarded
  <2>3. AnswerOk(r)'
    BY <1>6 DEF AnswerOk
  <2> QED BY <2>1, <2>2, <2>3 DEF Holds
<1> QED BY <1>2, <1>3, <1>4, <1>5, <1>9, Assemble

(***************************************************************************)
(* The three ways back from the console.                                   *)
(***************************************************************************)
LEMMA ComeBackStep ==
  ASSUME IInv, NEW r \in Requests, Succeed(r) \/ Fail(r) \/ GiveUp(r)
  PROVE  IInv'
<1> USE DEF IInv
<1>1. /\ pc[r] = "upstream"
      /\ UNCHANGED <<shared, input, sent, authGen, liveGen, paid, wire>>
  BY DEF Succeed, Fail, GiveUp
<1>2. \E outcome \in {"ok", "upstream_error", "upstream_unreachable"}, n \in Nat :
        Finish(r, outcome, <<>>, n) /\ (outcome = "ok" => wire[r] = "applied")
  <2>1. Issued(r) \in Nat
    BY RequestType DEF Issued
  <2> QED BY <2>1 DEF Succeed, Fail, GiveUp
<1>3. PICK outcome \in {"ok", "upstream_error", "upstream_unreachable"}, n \in Nat :
        Finish(r, outcome, <<>>, n) /\ (outcome = "ok" => wire[r] = "applied")
  BY <1>2
<1>4. /\ Local(r) /\ Paying(r) /\ Admitted(r) /\ answer[r] = "none" /\ Forwarded(r)
      /\ Gen' = Gen /\ Gen \in Nat \ {0}
  BY <1>1, InstalledConfigs DEF Local, shared, Gen
<1>5. /\ log' \in [Requests -> Logs]
      /\ pc' = [pc EXCEPT ![r] = "done"] /\ answer' = [answer EXCEPT ![r] = outcome]
  <2>1. outcome \in Answers /\ <<>> \in Seq(LogEntry)
    BY DEF Answers
  <2> QED BY <1>3, <1>4, <2>1, FinishType
<1>6. TypeOK'
  <2>1. /\ pc' \in [Requests -> Pcs] /\ answer' \in [Requests -> Answers]
        /\ UNCHANGED <<cfgs, now, input, sent, refilled, left, authGen, liveGen, paid, wire>>
    BY <1>1, <1>5 DEF TypeOK, Pcs, Answers, shared
  <2> QED BY <1>5, <2>1, TypeStep DEF TypeOK, Wires
<1>7. \A s \in Requests \ {r} : SameRequest(s)
  BY <1>1, <1>5 DEF TypeOK, SameRequest
<1>8. Holds(r)'
  <2>1. pc'[r] = "done" /\ answer'[r] = outcome
    BY <1>5 DEF TypeOK
  <2>2. /\ Token(r)' = Token(r) /\ Admitted(r)'
        /\ Entitled(r)' <=> Entitled(r)
    BY <1>1, <1>4 DEF Admitted, CallerIndex, Token, shared, Entitled
  <2>3. Local(r)' /\ Paying(r)'
    BY <1>1, <1>4, <2>1, <2>2 DEF Local, Paying, MayAttempt, Forwarded, shared
  <2>4. AnswerOk(r)'
    BY <1>1, <1>3, <1>4, <2>1 DEF AnswerOk, Forwarded
  <2> QED BY <2>3, <2>4 DEF Holds
<1>9. BudgetsConserved'
  BY <1>1, SameBudgets DEF shared
<1> QED BY <1>1, <1>6, <1>7, <1>8, <1>9, Assemble DEF shared

-----------------------------------------------------------------------------
(* The console, the operator, the limiter's clock and the clock.           *)

LEMMA ConsoleStep ==
  ASSUME IInv, NEW r \in Requests, Console(r)
  PROVE  IInv'
<1> USE DEF IInv
<1>1. /\ wire[r] = "sent"
      /\ UNCHANGED <<shared, pc, input, sent, authGen, liveGen, paid, answer, log>>
      /\ \E result \in {"applied", "refused"} : wire' = [wire EXCEPT ![r] = result]
  BY DEF Console
<1>2. PICK result \in {"applied", "refused"} : wire' = [wire EXCEPT ![r] = result]
  BY <1>1
<1>3. TypeOK'
  <2>1. wire' \in [Requests -> Wires]
    BY <1>2 DEF TypeOK, Wires
  <2> QED BY <1>1, <2>1, TypeStep DEF TypeOK, Pcs, Logs, shared
<1>4. \A s \in Requests \ {r} : SameRequest(s)
  BY <1>1, <1>2 DEF TypeOK, SameRequest
<1>5. Holds(r)'
  <2>1. wire'[r] = result /\ Local(r) /\ Paying(r) /\ AnswerOk(r)
    BY <1>2 DEF TypeOK
  <2>2. /\ Token(r)' = Token(r) /\ Gen' = Gen
        /\ Admitted(r)' <=> Admitted(r)
        /\ Entitled(r)' <=> Entitled(r)
    BY <1>1 DEF Admitted, CallerIndex, Token, shared, Entitled, Gen
  <2>3. Local(r)' /\ Paying(r)'
    BY <1>1, <2>1, <2>2 DEF Local, Paying, MayAttempt, Forwarded, shared
  <2>4. AnswerOk(r)'
    BY <1>1, <2>1 DEF AnswerOk, Forwarded
  <2> QED BY <2>3, <2>4 DEF Holds
<1>6. BudgetsConserved'
  BY <1>1, SameBudgets DEF shared
<1> QED BY <1>1, <1>3, <1>4, <1>5, <1>6, Assemble DEF shared

LEMMA ReloadStep ==
  ASSUME IInv, NEW c \in Configs, Reload(c)
  PROVE  IInv'
<1> USE DEF IInv
<1>1. /\ Gen < MaxGen /\ cfgs' = Append(cfgs, c)
      /\ left' = [k \in Keys |-> Cap(c, k)] /\ refilled' = [k \in Keys |-> 0]
      /\ paid' = [r \in Requests |-> {}]
      /\ UNCHANGED <<now, pc, input, sent, authGen, liveGen, wire, answer, log>>
  BY DEF Reload
<1>2. cfgs \in Seq(Configs) /\ Gen \in Nat \ {0} /\ Gen = Len(cfgs)
  BY InstalledConfigs DEF TypeOK, Gen
<1>3. /\ cfgs' \in Seq(Configs) /\ Gen' = Gen + 1 /\ Live' = c
      /\ \A g \in 1 .. Gen : cfgs'[g] = cfgs[g]
  BY <1>1, <1>2 DEF Gen, Live
<1>4. \A k \in Keys : Cap(c, k) \in Nat
  BY CapType, ConfigAssumption
<1>5. TypeOK'
  <2>1. Gen' \in 1 .. (MaxGen + 1)
    BY <1>1, <1>2, <1>3, BoundAssumption
  <2>2. left' \in [Keys -> Nat] /\ refilled' \in [Keys -> Nat]
        /\ paid' \in [Requests -> SUBSET Keys]
    BY <1>1, <1>4
  <2>3. authGen' \in [Requests -> 0 .. Gen'] /\ liveGen' \in [Requests -> 0 .. Gen']
    <3>1. authGen \in [Requests -> 0 .. Gen] /\ liveGen \in [Requests -> 0 .. Gen]
      BY DEF TypeOK
    <3> QED BY <1>1, <1>2, <1>3, <3>1
  <2> QED BY <1>1, <1>3, <2>1, <2>2, <2>3 DEF TypeOK
<1>6. ASSUME NEW r \in Requests PROVE Holds(r)'
  <2>1. /\ Local(r) /\ AnswerOk(r)
        /\ authGen[r] \in 0 .. Gen /\ liveGen[r] \in 0 .. Gen /\ sent[r].gen \in Nat
    BY DEF TypeOK
  <2>2. paid'[r] = {}
    BY <1>1
  <2>3. ASSUME Admitted(r)
        PROVE  Token(r)' = Token(r) /\ Admitted(r)' /\ (Entitled(r)' <=> Entitled(r))
    <3>1. cfgs'[authGen'[r]] = cfgs[authGen[r]]
      BY <1>1, <1>2, <1>3, <2>1, <2>3 DEF Admitted
    <3>2. Token(r)' = Token(r) /\ CallerIndex(r)' = CallerIndex(r)
      BY <1>1, <3>1 DEF Token, CallerIndex
    <3>3. Admitted(r)'
      BY <1>1, <2>3, <3>1, <3>2 DEF Admitted
    <3>4. Entitled(r)' <=> Entitled(r)
      BY <1>1, <3>1, <3>2 DEF Entitled
    <3> QED BY <3>2, <3>3, <3>4
  <2>4. sent'[r].gen <= Gen' /\ sent'[r].at <= now'
    BY <1>1, <1>2, <1>3, <2>1 DEF Local
  <2>5. Local(r)'
    BY <1>1, <2>1, <2>2, <2>3, <2>4 DEF Local, Forwarded
  <2>6. Paying(r)'
    <3>1. authGen'[r] # Gen' /\ liveGen'[r] # Gen'
      BY <1>1, <1>2, <1>3, <2>1
    <3> QED BY <3>1 DEF Paying
  <2>7. AnswerOk(r)'
    BY <1>1, <2>1 DEF AnswerOk, Forwarded
  <2> QED BY <2>5, <2>6, <2>7 DEF Holds
<1>7. BudgetsConserved'
  <2>1. \A k \in Keys : Payers(k)' = {}
    BY <1>1 DEF Payers
  <2>2. \A k \in Keys : left'[k] = Cap(c, k) /\ refilled'[k] = 0
    BY <1>1
  <2> QED BY <1>3, <1>4, <2>1, <2>2, FS_EmptySet DEF BudgetsConserved
<1> QED BY <1>5, <1>6, <1>7 DEF Holds

LEMMA Undisturbed ==
  ASSUME IInv, UNCHANGED <<cfgs, now, input>>, \A s \in Requests : SameRequest(s),
         TypeOK', BudgetsConserved'
  PROVE  IInv'
<1>1. ASSUME NEW s \in Requests PROVE Holds(s)'
  BY Frame DEF IInv, Holds
<1> QED BY <1>1 DEF IInv, Holds

LEMMA ReplenishStep ==
  ASSUME IInv, NEW k \in Keys, Replenish(k)
  PROVE  IInv'
<1> USE DEF IInv
<1>1. /\ left' = [left EXCEPT ![k] = left[k] + 1]
      /\ refilled' = [refilled EXCEPT ![k] = refilled[k] + 1]
      /\ UNCHANGED <<cfgs, now, pc, input, sent, authGen, liveGen, paid, wire, answer, log>>
  BY DEF Replenish
<1>2. Gen' = Gen /\ Live' = Live /\ \A j \in Keys : Payers(j)' = Payers(j)
  BY <1>1 DEF Gen, Live, Payers
<1>3. TypeOK'
  <2>1. left \in [Keys -> Nat] /\ refilled \in [Keys -> Nat]
    BY DEF TypeOK
  <2>2. left' \in [Keys -> Nat] /\ refilled' \in [Keys -> Nat]
    BY <1>1, <2>1
  <2> QED BY <1>1, <1>2, <2>2 DEF TypeOK
<1>4. \A j \in Keys : /\ Cap(Live, j) \in Nat /\ left[j] \in Nat /\ refilled[j] \in Nat
                      /\ Cardinality(Payers(j)) \in Nat
  <2>1. \A j \in Keys : Payers(j) \in SUBSET Requests /\ IsFiniteSet(Payers(j))
    BY RequestAssumption, FS_Subset DEF Payers
  <2> QED BY <2>1, InstalledConfigs, CapType, FS_CardinalityType DEF TypeOK
<1>5. BudgetsConserved'
  <2>1. ASSUME NEW j \in Keys, Cap(Live, j) # 0
        PROVE  left'[j] + Cardinality(Payers(j)) = Cap(Live, j) + refilled'[j]
    <3>1. left[j] + Cardinality(Payers(j)) = Cap(Live, j) + refilled[j]
      BY <2>1 DEF BudgetsConserved
    <3>2. \/ left'[j] = left[j] /\ refilled'[j] = refilled[j]
          \/ left'[j] = left[j] + 1 /\ refilled'[j] = refilled[j] + 1
      BY <1>1 DEF TypeOK
    <3> QED BY <1>4, <3>1, <3>2
  <2> QED BY <1>2, <2>1 DEF BudgetsConserved
<1> QED BY <1>1, <1>3, <1>5, Undisturbed DEF SameRequest

LEMMA TickStep ==
  ASSUME IInv, Tick
  PROVE  IInv'
<1> USE DEF IInv
<1>1. /\ now' = now + 1
      /\ UNCHANGED <<cfgs, left, refilled, pc, input, sent, authGen, liveGen, paid,
                     wire, answer, log>>
  BY DEF Tick
<1>2. TypeOK'
  BY <1>1 DEF TypeOK, Gen
<1>3. ASSUME NEW r \in Requests PROVE Holds(r)'
  <2>1. /\ Token(r)' = Token(r) /\ Gen' = Gen
        /\ Admitted(r)' <=> Admitted(r)
        /\ Entitled(r)' <=> Entitled(r)
    BY <1>1 DEF Admitted, CallerIndex, Token, Entitled, Gen
  <2>2. sent'[r].at <= now'
    BY <1>1 DEF TypeOK, Local
  <2>3. Local(r)'
    BY <1>1, <2>1, <2>2 DEF Local, Forwarded
  <2>4. Paying(r)' /\ AnswerOk(r)'
    BY <1>1, <2>1 DEF Paying, MayAttempt, AnswerOk, Forwarded
  <2> QED BY <2>3, <2>4 DEF Holds
<1>4. BudgetsConserved'
  BY <1>1, SameBudgets
<1> QED BY <1>2, <1>3, <1>4 DEF Holds

-----------------------------------------------------------------------------
(* The inductive invariant.                                                *)

LEMMA InitIInv == Init => IInv
<1> SUFFICES ASSUME Init PROVE IInv
  OBVIOUS
<1>1. PICK c \in Configs : cfgs = <<c>> /\ left = [k \in Keys |-> Cap(c, k)]
  BY DEF Init
<1>2. Gen = 1 /\ Live = c /\ cfgs \in Seq(Configs)
  BY <1>1 DEF Gen, Live
<1>3. \A k \in Keys : Cap(c, k) \in Nat
  BY CapType, ConfigAssumption
<1>4. TypeOK
  <2>1. Gen \in 1 .. (MaxGen + 1)
    BY <1>2, BoundAssumption
  <2>2. log \in [Requests -> [audit : Seq(LogEntry), counted : Seq(LogEntry),
                              calls : Nat, issued : Nat]]
    <3>1. <<>> \in Seq(LogEntry)
      OBVIOUS
    <3> QED BY <3>1 DEF Init
  <2>3. left \in [Keys -> Nat]
    BY <1>1, <1>3
  <2> QED BY <1>2, <2>1, <2>2, <2>3 DEF Init, TypeOK, Answers
<1>5. ASSUME NEW r \in Requests PROVE Holds(r)
  BY <1>2 DEF Init, Holds, Local, Paying, AnswerOk, Forwarded
<1>6. BudgetsConserved
  <2>1. \A k \in Keys : Payers(k) = {}
    BY DEF Init, Payers
  <2>2. \A k \in Keys : left[k] = Cap(c, k) /\ refilled[k] = 0
    BY <1>1 DEF Init
  <2> QED BY <1>2, <1>3, <2>1, <2>2, FS_EmptySet DEF BudgetsConserved
<1> QED BY <1>4, <1>5, <1>6 DEF IInv, Holds

LEMMA NextIInv == IInv /\ [Next]_vars => IInv'
<1> SUFFICES ASSUME IInv, [Next]_vars PROVE IInv'
  OBVIOUS
<1>1. CASE UNCHANGED vars
  <2>1. UNCHANGED <<cfgs, left, refilled, now, pc, input, sent, authGen, liveGen,
                    paid, wire, answer, log>>
    BY <1>1 DEF vars
  <2>2. TypeOK'
    BY <2>1 DEF IInv, TypeOK, Gen
  <2>3. BudgetsConserved'
    BY <2>1, SameBudgets DEF IInv
  <2> QED BY <2>1, <2>2, <2>3, Undisturbed DEF SameRequest
<1>2. ASSUME NEW r \in Requests, Handle(r) PROVE IInv'
  <2>1. CASE RefuseLength(r) \/ Healthz(r) \/ NotAllowed(r)
    BY <2>1, DoorStep
  <2>2. CASE RefuseIp(r)
    BY <2>2, RefuseIpStep
  <2>3. CASE RefuseToken(r) \/ RefuseExpired(r)
    BY <2>3, RefuseTokenStep
  <2>4. CASE PassIp(r) \/ Admit(r)
    BY <2>4, PassIpStep, AdmitStep
  <2>5. CASE Info(r)
    BY <2>5, InfoStep
  <2>6. CASE RefuseScopeOrSite(r) \/ RefuseQuota(r)
    BY <2>6, RefuseScopeOrSiteStep
  <2>7. CASE RefuseBody(r)
    BY <2>7, RefuseBodyStep
  <2>8. CASE Forward(r)
    BY <2>8, ForwardStep
  <2>9. CASE Succeed(r) \/ Fail(r) \/ GiveUp(r)
    BY <2>9, ComeBackStep
  <2> QED
    BY <1>2, <2>1, <2>2, <2>3, <2>4, <2>5, <2>6, <2>7, <2>8, <2>9 DEF Handle
<1>3. ASSUME NEW r \in Requests, Arrive(r) \/ ReadBody(r) \/ Disconnect(r) \/ Console(r)
      PROVE  IInv'
  BY <1>3, ArriveStep, ReadBodyStep, DisconnectStep, ConsoleStep
<1>4. ASSUME NEW c \in Configs, Reload(c) PROVE IInv'
  BY <1>4, ReloadStep
<1>5. ASSUME NEW k \in Keys, Replenish(k) PROVE IInv'
  BY <1>5, ReplenishStep
<1>6. CASE Tick
  BY <1>6, TickStep
<1> QED BY <1>1, <1>2, <1>3, <1>4, <1>5, <1>6 DEF Next

LEMMA Invariance == Spec => []IInv
BY InitIInv, NextIInv, PTL DEF Spec

-----------------------------------------------------------------------------
(***************************************************************************)
(* Every variable has its type, whatever the requests, configurations and  *)
(* clients: in particular no budget is overdrawn by concurrent requests    *)
(* (ratelimit.rs:63-79).                                                   *)
(***************************************************************************)
THEOREM Typing == Spec => []TypeOK
<1>1. IInv => TypeOK
  BY DEF IInv
<1> QED BY <1>1, Invariance, PTL

(***************************************************************************)
(* No unit of a budget is lost or made up: what is left and what the       *)
(* requests of the configuration paid is the quota and what time gave back *)
(* (ratelimit.rs:63-79).                                                   *)
(***************************************************************************)
THEOREM Conservation == Spec => []BudgetsConserved
<1>1. IInv => BudgetsConserved
  BY DEF IInv
<1> QED BY <1>1, Invariance, PTL

(* Fewer requests than paid for a budget are within it.                    *)
LEMMA WithinBudget ==
  ASSUME IInv, NEW k \in Keys, Cap(Live, k) # 0, NEW S, S \subseteq Payers(k)
  PROVE  Cardinality(S) <= Cap(Live, k) + refilled[k]
<1>1. IsFiniteSet(Payers(k))
  BY RequestAssumption, FS_Subset DEF Payers
<1>2. /\ IsFiniteSet(S) /\ Cardinality(S) <= Cardinality(Payers(k))
      /\ Cardinality(S) \in Nat /\ Cardinality(Payers(k)) \in Nat
  BY <1>1, FS_Subset, FS_CardinalityType
<1>3. left[k] + Cardinality(Payers(k)) = Cap(Live, k) + refilled[k]
  BY DEF IInv, BudgetsConserved
<1>4. left[k] \in Nat /\ refilled[k] \in Nat /\ Cap(Live, k) \in Nat
  BY InstalledConfigs, CapType DEF IInv, TypeOK
<1> QED BY <1>2, <1>3, <1>4

(***************************************************************************)
(* Under one configuration the requests of a token that may attempt their  *)
(* operation and are not turned away by its quota stay within that quota   *)
(* and what time gave back: those that reach the console and those whose   *)
(* body is held against the ceilings alike (state.rs:128).                 *)
(***************************************************************************)
THEOREM QuotaBoundsWork == Spec => []WorkWithinQuota
<1>1. ASSUME IInv, NEW n \in Names, Cap(Live, n) # 0
      PROVE  Cardinality(Worked(n)) <= Cap(Live, n) + refilled[n]
  <2>1. Worked(n) \subseteq Payers(n)
    BY <1>1 DEF Worked, Payers, IInv, Paying
  <2>2. n \in Keys
    BY DEF Keys
  <2> HIDE DEF Worked
  <2> QED BY <1>1, <2>1, <2>2, WithinBudget
<1>2. IInv => WorkWithinQuota
  BY <1>1 DEF WorkWithinQuota
<1> QED BY <1>2, Invariance, PTL

(***************************************************************************)
(* The requests of one address whose token is looked at stay within the    *)
(* address's quota and what time gave back, known token or not             *)
(* (state.rs:164).                                                         *)
(***************************************************************************)
THEOREM IpQuotaBoundsLogons == Spec => []LogonsWithinIpQuota
<1>1. ASSUME IInv, NEW p \in Peers, Cap(Live, p) # 0
      PROVE  Cardinality(LookedAt(p)) <= Cap(Live, p) + refilled[p]
  <2>1. LookedAt(p) \subseteq Payers(p)
    BY <1>1 DEF LookedAt, Payers, IInv, Paying
  <2>2. p \in Keys
    BY DEF Keys
  <2> HIDE DEF LookedAt
  <2> QED BY <1>1, <2>1, <2>2, WithinBudget
<1>2. IInv => LogonsWithinIpQuota
  BY <1>1 DEF LogonsWithinIpQuota
<1> QED BY <1>2, Invariance, PTL

(***************************************************************************)
(* Whatever the console is sent was asked for with a token in force, with  *)
(* the scope, the site and the ceilings for it, through every reload,      *)
(* expiry and interleaving (state.rs:111-152, policy.rs:55-91).            *)
(***************************************************************************)
THEOREM OnlyEntitled == Spec => []OnlyEntitledIsForwarded
<1>1. IInv => OnlyEntitledIsForwarded
  BY DEF IInv, Local, OnlyEntitledIsForwarded
<1> QED BY <1>1, Invariance, PTL

(***************************************************************************)
(* A refusal means that the console never saw the request, an ok that it   *)
(* carried it out (routes.rs:189-214, upstream.rs:109).                    *)
(***************************************************************************)
THEOREM AnswersAreTrue == Spec => []AnswerMatchesTraffic
<1>1. IInv => AnswerMatchesTraffic
  BY DEF IInv, AnswerOk, AnswerMatchesTraffic
<1> QED BY <1>1, Invariance, PTL

-----------------------------------------------------------------------------
(***************************************************************************)
(* The records. What a request left in the log is nothing until its last   *)
(* step, and that step writes the outcome it tells; a voucher is counted   *)
(* only by the step that has seen the console's 2xx. The invariant is      *)
(* inductive given IInv: a request with a liveGen keeps its token, and     *)
(* what the console applied stays applied.                                 *)
(***************************************************************************)
Early == {"idle", "arrived", "verifying", "reading", "ready", "upstream"}

Blank(r) == log[r].audit = <<>> /\ log[r].counted = <<>> /\ log[r].issued = 0

Recorded(r) ==
  LET entry == Entry(Token(r).name, answer[r]) IN
  /\ Settled(r) => /\ log[r].counted = <<entry>>
                   /\ log[r].audit # <<>> /\ log[r].audit[Len(log[r].audit)] = entry
  /\ log[r].issued # 0 => /\ input[r].op = "create" /\ wire[r] = "applied"
                          /\ log[r].issued = input[r].ask.count

LogInv == \A r \in Requests : Recorded(r) /\ (pc[r] \in Early => Blank(r))

(* A request that writes nothing and ends, if at all, before its handler.  *)
LEMMA SilentStep ==
  ASSUME NEW r, Recorded(r), pc[r] \in Early => Blank(r),
         log'[r] = log[r], UNCHANGED input, wire[r] = "applied" => wire'[r] = "applied",
         \/ /\ pc'[r] = pc[r] /\ answer'[r] = answer[r] /\ liveGen'[r] = liveGen[r]
            /\ liveGen[r] # 0 => Token(r)' = Token(r)
         \/ pc[r] \in Early /\ (pc'[r] # "done" \/ liveGen'[r] = 0)
  PROVE  Recorded(r)' /\ (pc'[r] \in Early => Blank(r)')
<1>1. CASE /\ pc'[r] = pc[r] /\ answer'[r] = answer[r] /\ liveGen'[r] = liveGen[r]
           /\ liveGen[r] # 0 => Token(r)' = Token(r)
  BY <1>1 DEF Recorded, Settled, Blank, Entry
<1>2. CASE pc[r] \in Early /\ (pc'[r] # "done" \/ liveGen'[r] = 0)
  BY <1>2 DEF Recorded, Settled, Blank
<1> QED BY <1>1, <1>2

(* What Write leaves of a log that was blank.                              *)
LEMMA FirstWrite ==
  ASSUME TypeOK, NEW r \in Requests, Blank(r),
         NEW audited \in Seq(LogEntry), NEW counted \in Seq(LogEntry),
         NEW calls \in Nat, NEW issued \in Nat,
         Write(r, audited, counted, calls, issued)
  PROVE  /\ log'[r].audit = audited /\ log'[r].counted = counted /\ log'[r].issued = issued
         /\ \A s \in Requests \ {r} : log'[s] = log[s]
<1>1. log \in [Requests -> Logs]
  BY DEF TypeOK, Logs
<1>2. log'[r] = [audit |-> log[r].audit \o audited, counted |-> log[r].counted \o counted,
                 calls |-> log[r].calls + calls, issued |-> log[r].issued + issued]
  BY <1>1 DEF Write
<1>3. <<>> \o audited = audited /\ <<>> \o counted = counted
  OBVIOUS
<1>4. \A s \in Requests \ {r} : log'[s] = log[s]
  BY <1>1 DEF Write
<1> QED BY <1>2, <1>3, <1>4 DEF Blank

(* A request that ends before its handler leaves no voucher.               *)
LEMMA EarlyRecord ==
  ASSUME TypeOK, NEW r \in Requests, Blank(r), pc'[r] = "done", liveGen'[r] = 0,
         NEW audited \in Seq(LogEntry), NEW counted \in Seq(LogEntry), NEW calls \in Nat,
         Write(r, audited, counted, calls, 0)
  PROVE  /\ Recorded(r)' /\ (pc'[r] \in Early => Blank(r)')
         /\ \A s \in Requests \ {r} : log'[s] = log[s]
<1>1. log'[r].issued = 0 /\ \A s \in Requests \ {r} : log'[s] = log[s]
  BY FirstWrite
<1> QED BY <1>1 DEF Recorded, Settled, Early

(* Every exit of a handler runs through finish.                            *)
LEMMA FinishRecord ==
  ASSUME TypeOK, NEW r \in Requests, Admitted(r), Blank(r),
         NEW outcome \in Answers, NEW before \in Seq(LogEntry), NEW issued \in Nat,
         Finish(r, outcome, before, issued), UNCHANGED <<cfgs, authGen, input>>,
         issued # 0 => /\ input[r].op = "create" /\ wire'[r] = "applied"
                       /\ issued = input[r].ask.count
  PROVE  /\ Recorded(r)' /\ (pc'[r] \in Early => Blank(r)')
         /\ \A s \in Requests \ {r} : log'[s] = log[s]
<1> DEFINE entry == Entry(Token(r).name, outcome)
           audited == Append(before, entry)
<1>1. entry \in LogEntry
  BY TokenType DEF Entry, LogEntry, Outcomes
<1>2. /\ audited \in Seq(LogEntry) /\ <<entry>> \in Seq(LogEntry)
      /\ audited # <<>> /\ audited[Len(audited)] = entry
  <2> HIDE DEF entry
  <2> QED BY <1>1
<1>3. /\ Write(r, audited, <<entry>>, 1, issued)
      /\ pc'[r] = "done" /\ answer'[r] = outcome
  BY DEF Finish, Answer, TypeOK
<1>4. Entry(Token(r)'.name, answer'[r]) = entry
  BY <1>3 DEF Token, CallerIndex
<1> HIDE DEF entry, audited
<1>5. /\ log'[r].audit = audited /\ log'[r].counted = <<entry>> /\ log'[r].issued = issued
      /\ \A s \in Requests \ {r} : log'[s] = log[s]
  BY <1>2, <1>3, FirstWrite
<1>6. Recorded(r)'
  BY <1>2, <1>4, <1>5 DEF Recorded
<1> QED BY <1>3, <1>5, <1>6 DEF Early

(* A step of one request leaves the records of the others.                 *)
LEMMA OthersRecorded ==
  ASSUME LogInv, NEW r \in Requests, UNCHANGED <<cfgs, input>>,
         \A s \in Requests \ {r} : SameRequest(s) /\ log'[s] = log[s],
         Recorded(r)' /\ (pc'[r] \in Early => Blank(r)')
  PROVE  LogInv'
<1>1. ASSUME NEW s \in Requests, s # r
      PROVE  Recorded(s)' /\ (pc'[s] \in Early => Blank(s)')
  <2>1. Token(s)' = Token(s)
    BY <1>1 DEF SameRequest, Token, CallerIndex
  <2> QED BY <1>1, <2>1, SilentStep DEF LogInv, SameRequest
<1> QED BY <1>1 DEF LogInv

LEMMA HandleRecords ==
  ASSUME IInv, LogInv, NEW r \in Requests,
         Handle(r) \/ Arrive(r) \/ ReadBody(r) \/ Disconnect(r) \/ Console(r)
  PROVE  LogInv'
<1> USE DEF IInv
<1>0. /\ TypeOK /\ Local(r) /\ Recorded(r) /\ (pc[r] \in Early => Blank(r))
      /\ pc \in [Requests -> Pcs] /\ answer \in [Requests -> Answers]
      /\ wire \in [Requests -> Wires]
  BY DEF LogInv, TypeOK, Pcs, Wires
<1>1. CASE \/ RefuseLength(r) \/ Healthz(r) \/ PassIp(r) \/ Admit(r)
           \/ Arrive(r) \/ ReadBody(r) \/ Disconnect(r) \/ Forward(r)
  <2>1. /\ pc[r] \in Early /\ UNCHANGED <<cfgs, input, log>>
        /\ pc'[r] # "done" \/ liveGen'[r] = 0
        /\ wire[r] # "applied" \/ wire' = wire
        /\ \A s \in Requests \ {r} : SameRequest(s)
    <3>1. CASE RefuseLength(r) \/ Healthz(r)
      BY <1>0, <3>1 DEF RefuseLength, Healthz, Answer, shared, Local, Early, SameRequest
    <3>2. CASE PassIp(r)
      <4>1. /\ pc[r] = "arrived" /\ pc' = [pc EXCEPT ![r] = "verifying"]
            /\ authGen' = [authGen EXCEPT ![r] = Gen]
            /\ \E p : paid' = [paid EXCEPT ![r] = p]
            /\ UNCHANGED <<cfgs, input, sent, liveGen, wire, answer, log>>
        BY <3>2 DEF PassIp, Extracting, Charge
      <4> QED BY <1>0, <4>1 DEF TypeOK, Early, SameRequest
    <3>3. CASE Admit(r) \/ Arrive(r) \/ Disconnect(r)
      <4>1. /\ pc[r] \in Early /\ \E p \in Pcs \ {"done"} : pc' = [pc EXCEPT ![r] = p]
            /\ UNCHANGED <<cfgs, input, authGen, liveGen, paid, wire, answer, log>>
            /\ sent' = sent \/ \E m : sent' = [sent EXCEPT ![r] = m]
        BY <3>3 DEF Admit, Verified, Arrive, Disconnect, shared, Early, Pcs
      <4> QED BY <1>0, <4>1 DEF TypeOK, SameRequest
    <3>4. CASE ReadBody(r)
      <4>1. /\ pc[r] = "reading" /\ \E p \in Pcs : pc' = [pc EXCEPT ![r] = p]
            /\ answer' = answer \/ \E a : answer' = [answer EXCEPT ![r] = a]
            /\ UNCHANGED <<cfgs, input, sent, authGen, liveGen, paid, wire, log>>
        BY <3>4 DEF ReadBody, Answer, shared, Pcs
      <4> QED BY <1>0, <4>1 DEF TypeOK, Local, Early, SameRequest
    <3>5. CASE Forward(r)
      <4>1. /\ pc[r] = "ready" /\ pc' = [pc EXCEPT ![r] = "upstream"]
            /\ wire' = [wire EXCEPT ![r] = "sent"]
            /\ liveGen' = [liveGen EXCEPT ![r] = Gen]
            /\ \E p : paid' = [paid EXCEPT ![r] = p]
            /\ UNCHANGED <<cfgs, input, sent, authGen, answer, log>>
        BY <3>5 DEF Forward, Charged, Handling, Charge
      <4> QED BY <1>0, <4>1 DEF TypeOK, Local, Early, SameRequest
    <3> QED BY <1>1, <3>1, <3>2, <3>3, <3>4, <3>5
  <2> QED BY <1>0, <2>1, SilentStep, OthersRecorded
<1>2. CASE Console(r)
  <2>1. /\ wire[r] # "applied" /\ UNCHANGED <<cfgs, input, log, pc, answer, liveGen, authGen>>
        /\ \A s \in Requests \ {r} : SameRequest(s)
    BY <1>0, <1>2 DEF Console, shared, SameRequest
  <2>2. Token(r)' = Token(r)
    BY <2>1 DEF Token, CallerIndex
  <2> QED BY <1>0, <2>1, <2>2, SilentStep, OthersRecorded
<1>3. CASE NotAllowed(r) \/ RefuseIp(r) \/ RefuseToken(r) \/ RefuseExpired(r) \/ Info(r)
  <2>1. /\ pc[r] \in Early /\ pc' = [pc EXCEPT ![r] = "done"] /\ liveGen' = liveGen
        /\ liveGen[r] = 0 /\ UNCHANGED <<cfgs, input, sent, paid, wire>>
        /\ \E a : answer' = [answer EXCEPT ![r] = a]
        /\ authGen' = authGen \/ \E g : authGen' = [authGen EXCEPT ![r] = g]
    <3>1. CASE NotAllowed(r) \/ Info(r)
      BY <1>0, <3>1 DEF NotAllowed, Info, Answer, shared, Local, Early
    <3>2. CASE RefuseIp(r)
      BY <1>0, <3>2 DEF RefuseIp, Extracting, Rejected, Answer, shared, Local, Early
    <3>3. CASE RefuseToken(r) \/ RefuseExpired(r)
      BY <1>0, <3>3 DEF RefuseToken, RefuseExpired, Verified, Rejected, Answer, shared,
                        Local, Early
    <3> QED BY <1>3, <3>1, <3>2, <3>3
  <2>2. \E audited \in Seq(LogEntry), counted \in Seq(LogEntry) :
          Write(r, audited, counted, 0, 0)
    <3>0. <<>> \in Seq(LogEntry) /\ \A e \in LogEntry : <<e>> \in Seq(LogEntry)
      OBVIOUS
    <3>1. \A who \in Names \cup {"-"}, outcome \in Outcomes : Entry(who, outcome) \in LogEntry
      BY DEF Entry, LogEntry
    <3>2. CASE NotAllowed(r)
      BY <3>0, <3>1, <3>2 DEF NotAllowed, Outcomes
    <3>3. CASE RefuseIp(r) \/ RefuseToken(r)
      BY <3>0, <3>1, <3>3 DEF RefuseIp, RefuseToken, Rejected, Outcomes, Answers
    <3>4. CASE RefuseExpired(r)
      <4>1. Token(r).name \in Names
        BY <3>4, VerifiedFacts, ProvenToken DEF RefuseExpired
      <4> QED BY <3>0, <3>1, <3>4, <4>1 DEF RefuseExpired, Rejected, Outcomes, Answers
    <3>5. CASE Info(r)
      <4>1. Token(r).name \in Names
        BY <1>0, <3>5, TokenType DEF Info, Local
      <4> QED BY <3>0, <3>1, <3>5, <4>1 DEF Info, Outcomes, Answers
    <3> QED BY <1>3, <3>2, <3>3, <3>4, <3>5
  <2>3. \A s \in Requests \ {r} : SameRequest(s)
    BY <1>0, <2>1 DEF TypeOK, SameRequest
  <2>4. /\ Recorded(r)' /\ (pc'[r] \in Early => Blank(r)')
        /\ \A s \in Requests \ {r} : log'[s] = log[s]
    BY <1>0, <2>1, <2>2, EarlyRecord
  <2> QED BY <2>1, <2>3, <2>4, OthersRecorded
<1>4. CASE \/ RefuseScopeOrSite(r) \/ RefuseQuota(r) \/ RefuseBody(r)
           \/ Succeed(r) \/ Fail(r) \/ GiveUp(r)
  <2>1. /\ pc[r] \in {"ready", "upstream"} /\ Admitted(r) /\ Blank(r)
        /\ pc' = [pc EXCEPT ![r] = "done"]
        /\ UNCHANGED <<cfgs, input, sent, authGen, wire>>
        /\ \E a : answer' = [answer EXCEPT ![r] = a]
        /\ paid' = paid \/ \E p : paid' = [paid EXCEPT ![r] = p]
        /\ liveGen' = liveGen \/ liveGen' = [liveGen EXCEPT ![r] = Gen]
    <3>1. CASE RefuseScopeOrSite(r) \/ RefuseQuota(r) \/ RefuseBody(r)
      BY <1>0, <3>1 DEF RefuseScopeOrSite, RefuseQuota, RefuseBody, Charged, Handling,
                        Charge, Finish, Answer, Local, Early
    <3>2. CASE Succeed(r) \/ Fail(r) \/ GiveUp(r)
      BY <1>0, <3>2 DEF Succeed, Fail, GiveUp, Finish, Answer, shared, Local, Early
    <3> QED BY <1>4, <3>1, <3>2
  <2>2. \E outcome \in Answers : \E before \in Seq(LogEntry), issued \in Nat :
          /\ Finish(r, outcome, before, issued)
          /\ issued # 0 => /\ input[r].op = "create" /\ wire'[r] = "applied"
                           /\ issued = input[r].ask.count
    <3>1. <<>> \in Seq(LogEntry) /\ <<Entry("-", "rate_limited")>> \in Seq(LogEntry)
      BY DEF Entry, LogEntry, Outcomes, Answers
    <3>2. CASE RefuseScopeOrSite(r) \/ RefuseQuota(r)
      BY <3>1, <3>2 DEF RefuseScopeOrSite, RefuseQuota, Answers
    <3>3. CASE RefuseBody(r)
      BY <3>1, <3>3, CheckedType DEF RefuseBody, Answers
    <3>4. CASE Succeed(r)
      <4>1. Issued(r) \in Nat /\ (Issued(r) # 0 => /\ input[r].op = "create"
                                                   /\ Issued(r) = input[r].ask.count)
        BY <1>0, RequestType DEF Issued
      <4> QED BY <2>1, <3>1, <3>4, <4>1 DEF Succeed, Answers
    <3>5. CASE Fail(r) \/ GiveUp(r)
      BY <3>1, <3>5 DEF Fail, GiveUp, Answers
    <3> QED BY <1>4, <3>2, <3>3, <3>4, <3>5
  <2>3. \A s \in Requests \ {r} : SameRequest(s)
    <3>1. /\ pc \in [Requests -> Pcs] /\ DOMAIN answer = Requests
          /\ DOMAIN paid = Requests /\ DOMAIN liveGen = Requests
      BY <1>0 DEF TypeOK
    <3>2. \A s \in Requests \ {r} :
            pc'[s] = pc[s] /\ answer'[s] = answer[s] /\ paid'[s] = paid[s]
      BY <2>1, <3>1
    <3>3. \A s \in Requests \ {r} : liveGen'[s] = liveGen[s]
      BY <2>1, <3>1
    <3> QED BY <2>1, <3>2, <3>3 DEF SameRequest
  <2>4. /\ Recorded(r)' /\ (pc'[r] \in Early => Blank(r)')
        /\ \A s \in Requests \ {r} : log'[s] = log[s]
    BY <1>0, <2>1, <2>2, FinishRecord
  <2> QED BY <2>1, <2>3, <2>4, OthersRecorded
<1> QED BY <1>1, <1>2, <1>3, <1>4 DEF Handle

LEMMA InitLogInv == Init => LogInv
BY DEF Init, LogInv, Recorded, Settled, Blank, Early

LEMMA NextLogInv == IInv /\ LogInv /\ [Next]_vars => LogInv'
<1> SUFFICES ASSUME IInv, LogInv, [Next]_vars PROVE LogInv'
  OBVIOUS
<1>1. ASSUME UNCHANGED <<log, input, wire, pc, answer, liveGen, authGen>>,
             \A r \in Requests : liveGen[r] # 0 => Token(r)' = Token(r)
      PROVE  LogInv'
  BY <1>1, SilentStep DEF LogInv
<1>2. CASE UNCHANGED vars \/ Tick \/ \E k \in Keys : Replenish(k)
  <2>1. UNCHANGED <<cfgs, log, input, wire, pc, answer, liveGen, authGen>>
    BY <1>2 DEF vars, Tick, Replenish
  <2>2. \A r \in Requests : Token(r)' = Token(r)
    BY <2>1 DEF Token, CallerIndex
  <2> QED BY <1>1, <2>1, <2>2
<1>3. ASSUME NEW c \in Configs, Reload(c) PROVE LogInv'
  <2>1. UNCHANGED <<log, input, wire, pc, answer, liveGen, authGen>> /\ cfgs' = Append(cfgs, c)
    BY <1>3 DEF Reload
  <2>2. ASSUME NEW r \in Requests, liveGen[r] # 0 PROVE Token(r)' = Token(r)
    <3>1. authGen[r] \in 1 .. Len(cfgs) /\ cfgs \in Seq(Configs)
      BY <2>2, TokenType DEF IInv, TypeOK, Local, Gen
    <3>2. cfgs'[authGen[r]] = cfgs[authGen[r]]
      BY <2>1, <3>1
    <3> QED BY <2>1, <3>2 DEF Token, CallerIndex
  <2> QED BY <1>1, <2>1, <2>2
<1>4. ASSUME NEW r \in Requests,
             Handle(r) \/ Arrive(r) \/ ReadBody(r) \/ Disconnect(r) \/ Console(r)
      PROVE  LogInv'
  BY <1>4, HandleRecords
<1> QED BY <1>2, <1>3, <1>4 DEF Next

LEMMA Records == Spec => []LogInv
BY InitIInv, NextIInv, InitLogInv, NextLogInv, PTL DEF Spec

(***************************************************************************)
(* Whatever other requests, reloads and the console do in the meantime, a  *)
(* handler that ends counts its request exactly once, under the outcome it *)
(* tells and the name it was admitted with, and its last audit line says   *)
(* the same (routes.rs:189-214, 366-389).                                  *)
(***************************************************************************)
THEOREM EveryExitIsRecorded == Spec => []RecordsAgree
<1>1. LogInv => RecordsAgree
  BY DEF LogInv, Recorded, RecordsAgree
<1> QED BY <1>1, Records, PTL

(***************************************************************************)
(* The voucher counter never runs ahead of the console: what a request     *)
(* added to it, the console was asked for and carried out (metrics.rs:37). *)
(***************************************************************************)
THEOREM OnlyIssuedAreCounted == Spec => []CountedVouchersWereIssued
<1>1. LogInv => CountedVouchersWereIssued
  BY DEF LogInv, Recorded, CountedVouchersWereIssued
<1> QED BY <1>1, Records, PTL

-----------------------------------------------------------------------------
(***************************************************************************)
(* Every step of the proxy is a step of Mediation for one request, or none.*)
(***************************************************************************)
Acted(r) == wire[r] = "applied"

Unmoved(r) == Verdict(r)' = Verdict(r) /\ Acted(r)' = Acted(r) /\ Told(r)' = Told(r)

Mediated(r) ==
  \/ Unmoved(r)
  \/ /\ Verdict(r) = "open" /\ Verdict(r)' = "granted"
     /\ Acted(r)' = Acted(r) /\ Told(r)' = Told(r)
  \/ /\ Verdict(r) = "open" /\ Verdict(r)' = "denied" /\ Told(r)' = "refusal"
     /\ Acted(r)' = Acted(r)
  \/ /\ Verdict(r) = "granted" /\ ~Acted(r) /\ Acted(r)'
     /\ Verdict(r)' = Verdict(r) /\ Told(r)' = Told(r)
  \/ /\ Verdict(r) = "granted" /\ Told(r) = "nothing"
     /\ Told(r)' = "failure" \/ (Told(r)' = "success" /\ Acted(r))
     /\ Verdict(r)' = Verdict(r) /\ Acted(r)' = Acted(r)

LEMMA MediatedStep ==
  ASSUME NEW r \in Requests, \A s \in Requests \ {r} : Unmoved(s), Mediated(r)
  PROVE  [M!Next]_M!vars
<1> DEFINE V == [s \in Requests |-> Verdict(s)]
           A == [s \in Requests |-> wire[s] = "applied"]
           T == [s \in Requests |-> Told(s)]
<1>1. ASSUME Unmoved(r) PROVE UNCHANGED M!vars
  <2>1. \A s \in Requests : Unmoved(s)
    BY <1>1
  <2>2. V' = V /\ A' = A /\ T' = T
    BY <2>1 DEF Unmoved, Acted
  <2> QED BY <2>2 DEF M!vars
<1>2. ASSUME Verdict(r)' = Verdict(r) PROVE V' = V
  BY <1>2 DEF Unmoved
<1>3. ASSUME Acted(r)' = Acted(r) PROVE A' = A
  BY <1>3 DEF Unmoved, Acted
<1>4. ASSUME Told(r)' = Told(r) PROVE T' = T
  BY <1>4 DEF Unmoved
<1>5. /\ V' = [V EXCEPT ![r] = Verdict(r)']
      /\ A' = [A EXCEPT ![r] = Acted(r)']
      /\ T' = [T EXCEPT ![r] = Told(r)']
  BY DEF Unmoved, Acted
<1>6. /\ V[r] = Verdict(r) /\ A[r] = Acted(r) /\ T[r] = Told(r)
  BY DEF Acted
<1>7. CASE /\ Verdict(r) = "open" /\ Verdict(r)' = "granted"
           /\ Acted(r)' = Acted(r) /\ Told(r)' = Told(r)
  <2>1. M!Grant(r)
    <3>1. V[r] = "open" /\ V' = [V EXCEPT ![r] = "granted"] /\ A' = A /\ T' = T
      <4> HIDE DEF V, A, T
      <4> QED BY <1>3, <1>4, <1>5, <1>6, <1>7
    <3> QED BY <3>1 DEF M!Grant
  <2> QED BY <2>1 DEF M!Next
<1>8. CASE /\ Verdict(r) = "open" /\ Verdict(r)' = "denied" /\ Told(r)' = "refusal"
           /\ Acted(r)' = Acted(r)
  <2>1. M!Deny(r)
    <3>1. /\ V[r] = "open" /\ V' = [V EXCEPT ![r] = "denied"] /\ A' = A
          /\ T' = [T EXCEPT ![r] = "refusal"]
      <4> HIDE DEF V, A, T
      <4> QED BY <1>3, <1>5, <1>6, <1>8
    <3> QED BY <3>1 DEF M!Deny
  <2> QED BY <2>1 DEF M!Next
<1>9. CASE /\ Verdict(r) = "granted" /\ ~Acted(r) /\ Acted(r)'
           /\ Verdict(r)' = Verdict(r) /\ Told(r)' = Told(r)
  <2>1. M!Act(r)
    <3>1. V[r] = "granted" /\ ~A[r] /\ V' = V /\ T' = T
      <4> HIDE DEF V, A, T
      <4> QED BY <1>2, <1>4, <1>6, <1>9
    <3>2. A' = [A EXCEPT ![r] = TRUE]
      BY <1>9 DEF Unmoved, Acted
    <3> QED BY <3>1, <3>2 DEF M!Act
  <2> QED BY <2>1 DEF M!Next
<1>10. CASE /\ Verdict(r) = "granted" /\ Told(r) = "nothing"
            /\ Told(r)' = "failure" \/ (Told(r)' = "success" /\ Acted(r))
            /\ Verdict(r)' = Verdict(r) /\ Acted(r)' = Acted(r)
  <2>1. M!Tell(r)
    <3>1. /\ V[r] = "granted" /\ T[r] = "nothing" /\ V' = V /\ A' = A
          /\ T' = [T EXCEPT ![r] = Told(r)']
          /\ Told(r)' \in {"success", "failure"} /\ (Told(r)' = "success" => A[r])
      <4> HIDE DEF V, A, T
      <4> QED BY <1>2, <1>3, <1>5, <1>6, <1>10
    <3> QED BY <3>1 DEF M!Tell
  <2> QED BY <2>1 DEF M!Next
<1> QED BY <1>1, <1>7, <1>8, <1>9, <1>10 DEF Mediated

(* A request that is not touched keeps its part of Mediation's state.      *)
LEMMA UnmovedWhen ==
  ASSUME NEW s, UNCHANGED input, pc'[s] = pc[s], wire'[s] = wire[s], answer'[s] = answer[s]
  PROVE  Unmoved(s)
<1>1. Told(s)' = Told(s)
  BY DEF Told, Forwarded
<1> QED BY <1>1 DEF Unmoved, Acted, Verdict, Forwarded

(* A request that ends without a call is denied, if it was for a call.     *)
LEMMA EndsUnforwarded ==
  ASSUME NEW r, UNCHANGED input, pc[r] # "done", pc'[r] = "done",
         wire[r] = "none", wire'[r] = "none"
  PROVE  Mediated(r)
<1>1. Told(r) = "nothing" /\ Verdict(r) = "open"
  BY DEF Told, Verdict, Forwarded
<1>2. CASE input[r].op \in Calls
  <2>1. Told(r)' = "refusal" /\ Verdict(r)' = "denied"
    BY <1>2 DEF Told, Verdict, Forwarded
  <2> QED BY <1>1, <2>1 DEF Mediated, Acted
<1>3. CASE input[r].op \notin Calls
  <2>1. Told(r)' = "nothing" /\ Verdict(r)' = "open"
    BY <1>3 DEF Told, Verdict, Forwarded
  <2> QED BY <1>1, <2>1 DEF Mediated, Unmoved, Acted
<1> QED BY <1>2, <1>3

(* A request that goes on without a call is left as it is.                 *)
LEMMA GoesOn ==
  ASSUME NEW r, pc[r] # "done", pc'[r] # "done", wire'[r] = wire[r]
  PROVE  Mediated(r)
<1>1. Told(r) = "nothing" /\ Told(r)' = "nothing"
  BY DEF Told
<1>2. Verdict(r)' = Verdict(r)
  BY <1>1 DEF Verdict, Forwarded
<1> QED BY <1>1, <1>2 DEF Mediated, Unmoved, Acted

LEMMA HandleMediates ==
  ASSUME IInv, NEW r \in Requests,
         Handle(r) \/ Arrive(r) \/ ReadBody(r) \/ Disconnect(r) \/ Console(r)
  PROVE  [M!Next]_M!vars
<1> USE DEF IInv
<1>0. /\ pc \in [Requests -> Pcs] /\ wire \in [Requests -> Wires]
      /\ answer \in [Requests -> Answers] /\ Local(r)
  BY DEF TypeOK, Pcs, Wires
<1> SUFFICES /\ \A s \in Requests \ {r} : Unmoved(s)
             /\ Mediated(r)
  BY MediatedStep
<1>1. CASE RefuseLength(r) \/ Healthz(r) \/ NotAllowed(r) \/ RefuseIp(r) \/ RefuseToken(r)
           \/ RefuseExpired(r) \/ Info(r) \/ RefuseScopeOrSite(r) \/ RefuseQuota(r) \/ RefuseBody(r)
  <2>1. /\ pc[r] \in {"arrived", "verifying", "ready"} /\ pc' = [pc EXCEPT ![r] = "done"]
        /\ \E a : answer' = [answer EXCEPT ![r] = a]
        /\ UNCHANGED <<input, wire>>
    <3>1. CASE RefuseLength(r) \/ Healthz(r) \/ NotAllowed(r)
      BY <3>1 DEF RefuseLength, Healthz, NotAllowed, Answer
    <3>2. CASE RefuseIp(r) \/ RefuseToken(r) \/ RefuseExpired(r)
      BY <3>2 DEF RefuseIp, RefuseToken, RefuseExpired, Verified, Extracting, Rejected, Answer
    <3>3. CASE Info(r)
      BY <3>3 DEF Info, Answer
    <3>4. CASE RefuseScopeOrSite(r) \/ RefuseQuota(r) \/ RefuseBody(r)
      BY <3>4 DEF RefuseScopeOrSite, RefuseQuota, RefuseBody, Charged, Handling, Finish, Answer
    <3> QED BY <1>1, <3>1, <3>2, <3>3, <3>4
  <2>2. wire[r] = "none" /\ pc'[r] = "done" /\ wire'[r] = "none"
    BY <1>0, <2>1 DEF Local
  <2>3. Mediated(r)
    BY <2>1, <2>2, EndsUnforwarded
  <2>4. \A s \in Requests \ {r} : Unmoved(s)
    BY <1>0, <2>1, UnmovedWhen
  <2> QED BY <2>3, <2>4
<1>2. CASE PassIp(r) \/ Admit(r) \/ Arrive(r) \/ Disconnect(r)
  <2>1. /\ pc[r] # "done" /\ \E p \in Pcs \ {"done"} : pc' = [pc EXCEPT ![r] = p]
        /\ UNCHANGED <<input, wire, answer>>
    <3>1. CASE PassIp(r) \/ Admit(r)
      BY <3>1 DEF PassIp, Extracting, Admit, Verified, Pcs
    <3>2. CASE Arrive(r)
      BY <3>2 DEF Arrive, Pcs
    <3>3. CASE Disconnect(r)
      BY <3>3 DEF Disconnect, Pcs
    <3> QED BY <1>2, <3>1, <3>2, <3>3
  <2>2. pc'[r] # "done"
    BY <1>0, <2>1
  <2>3. Mediated(r)
    BY <2>1, <2>2, GoesOn
  <2>4. \A s \in Requests \ {r} : Unmoved(s)
    BY <1>0, <2>1, UnmovedWhen
  <2> QED BY <2>3, <2>4
<1>3. CASE ReadBody(r)
  <2>1. /\ pc[r] = "reading" /\ UNCHANGED <<input, wire>>
        /\ \/ pc' = [pc EXCEPT ![r] = "ready"] /\ UNCHANGED answer
           \/ /\ pc' = [pc EXCEPT ![r] = "done"]
              /\ answer' = [answer EXCEPT ![r] = "unreadable"]
    BY <1>3 DEF ReadBody, Answer
  <2>2. wire[r] = "none" /\ wire'[r] = "none" /\ pc'[r] \in {"ready", "done"}
    BY <1>0, <2>1 DEF Local
  <2>3. Mediated(r)
    BY <2>1, <2>2, GoesOn, EndsUnforwarded
  <2>4. \A s \in Requests \ {r} : Unmoved(s)
    BY <1>0, <2>1, UnmovedWhen
  <2> QED BY <2>3, <2>4
<1>4. CASE Forward(r)
  <2>1. /\ pc[r] = "ready" /\ UNCHANGED <<input, answer>>
        /\ pc' = [pc EXCEPT ![r] = "upstream"] /\ wire' = [wire EXCEPT ![r] = "sent"]
    BY <1>4 DEF Forward, Charged, Handling
  <2>2. wire[r] = "none" /\ wire'[r] = "sent" /\ pc'[r] = "upstream"
    BY <1>0, <2>1 DEF Local
  <2>3. /\ Told(r) = "nothing" /\ Told(r)' = "nothing"
        /\ Verdict(r) = "open" /\ Verdict(r)' = "granted"
    BY <2>1, <2>2 DEF Told, Verdict, Forwarded
  <2>4. Mediated(r)
    BY <2>2, <2>3 DEF Mediated, Acted
  <2>5. \A s \in Requests \ {r} : Unmoved(s)
    BY <1>0, <2>1, UnmovedWhen
  <2> QED BY <2>4, <2>5
<1>5. CASE Succeed(r) \/ Fail(r) \/ GiveUp(r)
  <2>1. /\ pc[r] = "upstream" /\ pc' = [pc EXCEPT ![r] = "done"]
        /\ \E a : /\ answer' = [answer EXCEPT ![r] = a]
                  /\ a = "ok" => wire[r] = "applied"
        /\ UNCHANGED <<input, wire>>
    BY <1>5 DEF Succeed, Fail, GiveUp, Finish, Answer
  <2>2. /\ Forwarded(r) /\ input[r].op \in Calls /\ pc'[r] = "done"
        /\ answer'[r] = "ok" => wire[r] = "applied"
    BY <1>0, <2>1 DEF Local
  <2>3. /\ Verdict(r) = "granted" /\ Verdict(r)' = "granted" /\ Told(r) = "nothing"
        /\ Told(r)' = "failure" \/ (Told(r)' = "success" /\ answer'[r] = "ok")
    <3>1. Told(r) = "nothing"
      BY <2>1 DEF Told
    <3>2. Forwarded(r)' /\ Verdict(r) = "granted" /\ Verdict(r)' = "granted"
      BY <2>1, <2>2 DEF Verdict, Forwarded
    <3>3. Told(r)' = IF answer'[r] = "ok" THEN "success" ELSE "failure"
      BY <2>1, <2>2, <3>2 DEF Told
    <3> QED BY <3>1, <3>2, <3>3
  <2>4. Mediated(r)
    BY <2>1, <2>2, <2>3 DEF Mediated, Acted
  <2>5. \A s \in Requests \ {r} : Unmoved(s)
    BY <1>0, <2>1, UnmovedWhen
  <2> QED BY <2>4, <2>5
<1>6. CASE Console(r)
  <2>1. /\ wire[r] = "sent" /\ UNCHANGED <<input, pc, answer>>
        /\ \E result \in {"applied", "refused"} : wire' = [wire EXCEPT ![r] = result]
    BY <1>6 DEF Console
  <2>2. wire'[r] \in {"applied", "refused"}
    BY <1>0, <2>1
  <2>3. Told(r)' = Told(r) /\ Verdict(r) = "granted" /\ Verdict(r)' = "granted"
    BY <2>1, <2>2 DEF Told, Verdict, Forwarded
  <2>4. Mediated(r)
    BY <2>1, <2>2, <2>3 DEF Mediated, Unmoved, Acted
  <2>5. \A s \in Requests \ {r} : Unmoved(s)
    BY <1>0, <2>1, UnmovedWhen
  <2> QED BY <2>4, <2>5
<1> QED BY <1>1, <1>2, <1>3, <1>4, <1>5, <1>6 DEF Handle

(***************************************************************************)
(* The proxy implements Mediation: whatever happens inside, the console    *)
(* acts only for requests that were granted, once for each, and clients    *)
(* are told the truth about it (routes.rs:185-389, upstream.rs:49-109).    *)
(***************************************************************************)
THEOREM ImplementsMediation == Spec => MediatesCalls
<1>1. Init => M!Init
  <2> SUFFICES ASSUME Init PROVE M!Init
    OBVIOUS
  <2>1. \A r \in Requests : pc[r] = "idle" /\ wire[r] = "none"
    BY DEF Init
  <2>2. \A r \in Requests : Told(r) = "nothing" /\ Verdict(r) = "open" /\ wire[r] # "applied"
    BY <2>1 DEF Told, Verdict, Forwarded
  <2> QED BY <2>2 DEF M!Init
<1>2. IInv /\ [Next]_vars => [M!Next]_M!vars
  <2> SUFFICES ASSUME IInv, [Next]_vars PROVE [M!Next]_M!vars
    OBVIOUS
  <2>1. ASSUME NEW r \in Requests,
               Handle(r) \/ Arrive(r) \/ ReadBody(r) \/ Disconnect(r) \/ Console(r)
        PROVE  [M!Next]_M!vars
    BY <2>1, HandleMediates
  <2>2. ASSUME UNCHANGED <<input, pc, wire, answer>> PROVE UNCHANGED M!vars
    <3>1. \A s \in Requests : Verdict(s)' = Verdict(s) /\ Told(s)' = Told(s) /\ wire'[s] = wire[s]
      BY <2>2, UnmovedWhen DEF Unmoved
    <3> QED BY <3>1 DEF M!vars
  <2>3. CASE \/ UNCHANGED vars \/ Tick
             \/ \E c \in Configs : Reload(c)
             \/ \E k \in Keys : Replenish(k)
    <3>1. UNCHANGED <<input, pc, wire, answer>>
      BY <2>3 DEF vars, Tick, Reload, Replenish
    <3> QED BY <2>2, <3>1
  <2> QED BY <2>1, <2>3 DEF Next
<1> QED BY <1>1, <1>2, Invariance, PTL DEF Spec, MediatesCalls, M!Spec

=============================================================================
