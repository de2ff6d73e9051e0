---------------------------- MODULE GraphQLProofs ----------------------------
(***************************************************************************)
(* Proofs about GraphQL, for any number of documents, fields, tokens and   *)
(* configurations.                                                         *)
(***************************************************************************)
EXTENDS GraphQLProperties, CallerLemmas, SequenceTheorems

-----------------------------------------------------------------------------
(***************************************************************************)
(* The inductive invariant, document by document. Progress relates where   *)
(* a document is to where its fields are and to what its client was told;  *)
(* FieldSound says what each field's own call was allowed and came to. A   *)
(* field's liveGen is the receipt of its charge: the budget of a token is  *)
(* what is left and what the fields with a receipt of the Live paid.       *)
(***************************************************************************)
Pcs == {"idle", "reading", "executing", "done", "gone"}
Wires == {"none", "sent", "applied", "refused"}
Logs == [audit : Seq(LogEntry), counted : Seq(LogEntry),
         gained : [calls : Nat, issued : Nat]]

Admitted(d) ==
  authGen[d] # 0 /\ Authenticate(cfgs[authGen[d]].tokens, text[d].secret) # 0

Progress(d) ==
  /\ pc[d] = "idle" => authGen[d] = 0
  /\ pc[d] # "idle" => Admitted(d)
  /\ pc[d] # "done" => answer[d] = "none"
  /\ pc[d] \in {"idle", "reading"} => \A i \in FieldsOf(d) : field[d][i] = "waiting"
  /\ pc[d] = "executing" => /\ \A i \in FieldsOf(d) : field[d][i] \in {"waiting", "calling", "ok"}
                            /\ \E i \in FieldsOf(d) : field[d][i] # "ok"
  /\ pc[d] = "done" =>
       \/ answer[d] = "ok" /\ \A i \in FieldsOf(d) : field[d][i] = "ok"
       \/ /\ answer[d] \in {"unreadable", "graphql_errors"}
          /\ \A i \in FieldsOf(d) : field[d][i] = "waiting"
       \/ /\ answer[d] = "graphql_errors"
          /\ \E f \in FieldsOf(d) :
               /\ field[d][f] = "failed"
               /\ \A i \in FieldsOf(d) \ {f} : field[d][i] \in {"ok", "dropped"}

FieldSound(d, i) ==
  /\ liveGen[d][i] # 0 => pc[d] # "idle" /\ field[d][i] # "waiting"
  /\ field[d][i] = "calling" => Called(d, i)
  /\ field[d][i] = "ok" /\ text[d].fields[i].op \in Calls => wire[d][i] = "applied"
  /\ Called(d, i) => /\ text[d].fields[i].op \in Calls
                     /\ liveGen[d][i] # 0 /\ AllowedByRest(d, i)

InTurn(d) ==
  text[d].kind = "mutation" =>
    \A i, j \in FieldsOf(d) : i < j /\ Called(d, j) => field[d][i] = "ok"

Sound(d) ==
  /\ Progress(d) /\ InTurn(d) /\ RecordedOnce(d) /\ Tallied(d)
  /\ \A i \in FieldsOf(d) : FieldSound(d, i)

ChargedTo(n) ==
  {p \in Places : liveGen[p[1]][p[2]] = Gen /\ Token(p[1]).name = n}

BudgetsConserved ==
  \A n \in Names :
    TokenCap(Live, n) # 0 =>
      left[n] + Cardinality(ChargedTo(n)) = TokenCap(Live, n) + refilled[n]

TypeInv ==
  /\ TypeOK
  /\ field = [d \in Documents |-> field[d]]
  /\ liveGen = [d \in Documents |-> liveGen[d]]
  /\ wire = [d \in Documents |-> wire[d]]

IInv == TypeInv /\ (\A d \in Documents : Sound(d)) /\ BudgetsConserved

-----------------------------------------------------------------------------
(* Types of what the actions look up.                                      *)

LEMMA InstalledConfigs ==
  ASSUME TypeOK
  PROVE  /\ Gen \in Nat \ {0} /\ Live \in Config /\ cfgs \in Seq(Config)
         /\ \A g \in 1 .. Gen : cfgs[g] \in Config
         /\ \A n \in Names : TokenCap(Live, n) \in Nat
<1>1. cfgs \in Seq(Config) /\ Gen \in Nat /\ Gen >= 1
  BY ConfigAssumption, BoundAssumption DEF TypeOK
<1>2. \A g \in 1 .. Gen : cfgs[g] \in Config
  BY <1>1 DEF Gen
<1>3. Live \in Config
  BY <1>1, <1>2 DEF Live
<1> QED BY <1>1, <1>2, <1>3, TokenCapType

LEMMA TextType ==
  ASSUME TypeOK, NEW d \in Documents
  PROVE  /\ text[d] \in Text /\ Len(text[d].fields) \in Nat
         /\ FieldsOf(d) = 1 .. Len(text[d].fields)
         /\ \A i \in FieldsOf(d) : /\ text[d].fields[i] \in Field
                                   /\ text[d].fields[i].ask \in Ask
                                   /\ Issued(d, i) \in Nat
<1>1. text[d] \in Text /\ text[d].fields \in Seq(Field)
  BY TextAssumption DEF TypeOK, Text
<1>2. FieldsOf(d) = 1 .. Len(text[d].fields)
  BY <1>1 DEF FieldsOf
<1>3. ASSUME NEW i \in FieldsOf(d)
      PROVE  text[d].fields[i] \in Field
  BY <1>1, <1>2
<1>4. \A f \in Field : f.ask \in Ask /\ f.ask.count \in Nat
  BY DEF Field, Ask
<1> QED BY <1>1, <1>2, <1>3, <1>4 DEF Issued

LEMMA TokenType ==
  ASSUME TypeOK, NEW d \in Documents, Admitted(d)
  PROVE  /\ authGen[d] \in 1 .. Gen /\ cfgs[authGen[d]] \in Config
         /\ Token(d) \in TokenEntry /\ Token(d).secret = text[d].secret
         /\ Token(d).name \in Names
<1>1. authGen[d] \in 1 .. Gen /\ cfgs[authGen[d]] \in Config
  BY InstalledConfigs DEF TypeOK, Admitted
<1> QED BY <1>1, ProvenEntry DEF Token, Admitted

(***************************************************************************)
(* A step of one document, as what it makes of that document's part of     *)
(* each variable.                                                          *)
(***************************************************************************)
StepOf(d, p, a, f, g, w, o, l) ==
  /\ pc' = [pc EXCEPT ![d] = p]
  /\ authGen' = [authGen EXCEPT ![d] = a]
  /\ field' = [field EXCEPT ![d] = f]
  /\ liveGen' = [liveGen EXCEPT ![d] = g]
  /\ wire' = [wire EXCEPT ![d] = w]
  /\ answer' = [answer EXCEPT ![d] = o]
  /\ log' = [log EXCEPT ![d] = l]
  /\ UNCHANGED <<cfgs, refilled, text>>

Becomes(d, p, a, f, g, w, o, l) ==
  /\ pc'[d] = p /\ authGen'[d] = a /\ field'[d] = f /\ liveGen'[d] = g
  /\ wire'[d] = w /\ answer'[d] = o /\ log'[d] = l

SameDocument(e) ==
  /\ pc'[e] = pc[e] /\ authGen'[e] = authGen[e] /\ field'[e] = field[e]
  /\ liveGen'[e] = liveGen[e] /\ wire'[e] = wire[e] /\ answer'[e] = answer[e]
  /\ log'[e] = log[e]

LEMMA StepEffect ==
  ASSUME TypeInv, NEW d \in Documents, left' \in [Names -> Nat],
         NEW p \in Pcs, NEW a \in 0 .. Gen, NEW f \in [FieldsOf(d) -> Statuses],
         NEW g \in [FieldsOf(d) -> 0 .. Gen], NEW w \in [FieldsOf(d) -> Wires],
         NEW o \in DocumentOutcomes, NEW l \in Logs,
         StepOf(d, p, a, f, g, w, o, l)
  PROVE  /\ TypeInv' /\ Becomes(d, p, a, f, g, w, o, l)
         /\ \A e \in Documents \ {d} : SameDocument(e)
         /\ Gen' = Gen /\ Live' = Live
         /\ \A e \in Documents : FieldsOf(e)' = FieldsOf(e)
<1>1. /\ Gen' = Gen /\ Live' = Live
      /\ \A e \in Documents : FieldsOf(e)' = FieldsOf(e)
  BY DEF StepOf, Gen, Live, FieldsOf
<1>2. Becomes(d, p, a, f, g, w, o, l) /\ \A e \in Documents \ {d} : SameDocument(e)
  BY DEF TypeInv, TypeOK, StepOf, Becomes, SameDocument
<1>3. /\ pc' \in [Documents -> Pcs] /\ authGen' \in [Documents -> 0 .. Gen]
      /\ answer' \in [Documents -> DocumentOutcomes] /\ log' \in [Documents -> Logs]
  BY DEF TypeInv, TypeOK, StepOf, Pcs, Logs
<1>4. /\ DOMAIN field' = Documents /\ DOMAIN liveGen' = Documents /\ DOMAIN wire' = Documents
      /\ field' = [e \in Documents |-> field'[e]]
      /\ liveGen' = [e \in Documents |-> liveGen'[e]]
      /\ wire' = [e \in Documents |-> wire'[e]]
  BY DEF TypeInv, TypeOK, StepOf
<1>5. ASSUME NEW e \in Documents
      PROVE  /\ field'[e] \in [FieldsOf(e) -> Statuses]
             /\ liveGen'[e] \in [FieldsOf(e) -> 0 .. Gen]
             /\ wire'[e] \in [FieldsOf(e) -> Wires]
  <2>1. CASE e = d
    BY <1>2, <2>1 DEF Becomes
  <2>2. CASE e # d
    BY <1>2, <2>2 DEF SameDocument, TypeInv, TypeOK, Wires
  <2> QED BY <2>1, <2>2
<1>6. TypeOK'
  BY <1>1, <1>3, <1>4, <1>5 DEF TypeInv, TypeOK, StepOf, Pcs, Wires, Logs
<1> QED BY <1>1, <1>2, <1>4, <1>6 DEF TypeInv

(* The counters keep what they have of calls that came back before.        *)
LEMMA TallySame ==
  ASSUME TypeInv, NEW d \in Documents, Tallied(d), UNCHANGED text,
         log'[d].gained = log[d].gained,
         \A i \in FieldsOf(d) : /\ field'[d][i] = "ok" <=> field[d][i] = "ok"
                                                           \/ (text[d].fields[i].op \notin Calls
                                                               /\ field'[d][i] = "ok")
                                /\ wire[d][i] = "applied" => wire'[d][i] = "applied"
  PROVE  Tallied(d)'
<1>1. FieldsOf(d)' = FieldsOf(d)
  BY DEF FieldsOf
<1>2. CameBack(d)' = CameBack(d)
  BY <1>1 DEF CameBack
<1>3. \A s : Totals(d, s)' <=> Totals(d, s)
  BY <1>1, <1>2 DEF Totals, Issued
<1>4. \A i \in CameBack(d)' : wire'[d][i] = "applied"
  BY <1>2 DEF Tallied, CameBack
<1> QED BY <1>2, <1>3, <1>4 DEF Tallied

(* A document that is not touched is as sound as before.                   *)
LEMMA Frame ==
  ASSUME TypeInv, NEW e \in Documents, Sound(e), SameDocument(e), UNCHANGED text,
         authGen[e] \in 1 .. Gen => cfgs'[authGen[e]] = cfgs[authGen[e]]
  PROVE  Sound(e)'
<1>1. FieldsOf(e)' = FieldsOf(e) /\ authGen[e] \in 0 .. Gen /\ Gen \in Nat
  BY InstalledConfigs DEF FieldsOf, TypeInv, TypeOK
<1>0. Tallied(e)'
  BY TallySame DEF Sound, SameDocument
<1>2. CASE authGen[e] = 0
  <2>1. pc[e] = "idle"
    BY <1>2 DEF Sound, Progress, Admitted
  <2>2. Progress(e)'
    BY <1>1, <1>2, <2>1 DEF Sound, Progress, SameDocument
  <2>3. InTurn(e)' /\ \A i \in FieldsOf(e) : FieldSound(e, i)'
    BY <1>1, <2>1 DEF Sound, InTurn, FieldSound, SameDocument, Called
  <2>4. RecordedOnce(e)'
    BY <2>1 DEF Sound, RecordedOnce, SameDocument
  <2> QED BY <1>1, <1>0, <2>2, <2>3, <2>4 DEF Sound
<1>3. CASE authGen[e] # 0
  <2>1. cfgs'[authGen'[e]] = cfgs[authGen[e]]
    BY <1>1, <1>3 DEF SameDocument
  <2>2. Token(e)' = Token(e) /\ (Admitted(e)' <=> Admitted(e))
    BY <2>1 DEF Token, Admitted, SameDocument
  <2>3. \A i : AllowedByRest(e, i)' <=> AllowedByRest(e, i)
    BY <2>1, <2>2 DEF AllowedByRest
  <2>4. Progress(e)'
    BY <1>1, <2>2 DEF Sound, Progress, SameDocument
  <2>5. InTurn(e)' /\ \A i \in FieldsOf(e) : FieldSound(e, i)'
    BY <1>1, <2>3 DEF Sound, InTurn, FieldSound, SameDocument, Called
  <2>6. RecordedOnce(e)'
    BY <2>2 DEF Sound, RecordedOnce, SameDocument
  <2> QED BY <1>0, <1>1, <2>4, <2>5, <2>6 DEF Sound
<1> QED BY <1>2, <1>3

LEMMA Assemble ==
  ASSUME IInv, NEW d \in Documents, UNCHANGED <<cfgs, text>>,
         \A e \in Documents \ {d} : SameDocument(e),
         TypeInv', Sound(d)', BudgetsConserved'
  PROVE  IInv'
<1>1. ASSUME NEW e \in Documents, e # d PROVE Sound(e)'
  BY <1>1, Frame DEF IInv
<1> QED BY <1>1 DEF IInv

-----------------------------------------------------------------------------
(* Budgets: the places of all fields are finitely many, and a field that   *)
(* takes a unit is one place more that was charged.                        *)

LEMMA PlacesAreFinite ==
  ASSUME TypeOK
  PROVE  /\ IsFiniteSet(Places)
         /\ \A n : IsFiniteSet(ChargedTo(n)) /\ Cardinality(ChargedTo(n)) \in Nat
<1> DEFINE Rows == {{d} \X FieldsOf(d) : d \in Documents}
           row == [d \in Documents |-> {d} \X FieldsOf(d)]
<1>1. row \in Surjection(Documents, Rows)
  BY DEF Surjection
<1>2. IsFiniteSet(Rows)
  <2> HIDE DEF row, Rows
  <2> QED BY <1>1, DocumentAssumption, FS_Surjection
<1>3. ASSUME NEW d \in Documents PROVE IsFiniteSet({d} \X FieldsOf(d))
  <2>1. FieldsOf(d) = 1 .. Len(text[d].fields) /\ Len(text[d].fields) \in Nat
    BY TextType
  <2>2. IsFiniteSet(FieldsOf(d)) /\ IsFiniteSet({d})
    BY <2>1, IndicesAreFinite, FS_Singleton
  <2> QED BY <2>2, FS_Product
<1>4. IsFiniteSet(UNION Rows)
  <2>1. \A S \in Rows : IsFiniteSet(S)
    BY <1>3
  <2> HIDE DEF Rows
  <2> QED BY <1>2, <2>1, FS_UNION
<1>5. IsFiniteSet(Places)
  BY <1>4 DEF Places
<1> QED BY <1>5, FS_Subset, FS_CardinalityType DEF ChargedTo

LEMMA PlacesOf ==
  ASSUME NEW d \in Documents, NEW i \in FieldsOf(d)
  PROVE  <<d, i>> \in Places
BY DEF Places

LEMMA PlaceType ==
  ASSUME NEW p \in Places
  PROVE  p[1] \in Documents /\ p[2] \in FieldsOf(p[1]) /\ p = <<p[1], p[2]>>
BY DEF Places

LEMMA SameBudgets ==
  ASSUME BudgetsConserved, UNCHANGED <<cfgs, left, refilled, text, liveGen>>,
         \A d \in Documents : \A i \in FieldsOf(d) :
           liveGen[d][i] = Gen => Token(d)' = Token(d)
  PROVE  BudgetsConserved'
<1>1. Gen' = Gen /\ Live' = Live /\ Places' = Places
  BY DEF Gen, Live, Places, FieldsOf
<1>2. ASSUME NEW n PROVE ChargedTo(n)' = ChargedTo(n)
  BY <1>1, PlaceType DEF ChargedTo
<1> QED BY <1>1, <1>2 DEF BudgetsConserved

LEMMA ChargeBalances ==
  ASSUME TypeInv, BudgetsConserved, NEW d \in Documents, NEW i \in FieldsOf(d),
         liveGen[d][i] = 0, NEW m \in Names, m = Token(d).name,
         MaySpend(m), Charge(d, i),
         UNCHANGED <<cfgs, refilled, text, authGen>>
  PROVE  /\ BudgetsConserved' /\ left' \in [Names -> Nat]
         /\ liveGen' = [liveGen EXCEPT ![d] = [liveGen[d] EXCEPT ![i] = Gen]]
<1> DEFINE q == <<d, i>>
<1>0. TypeOK /\ Gen \in Nat \ {0} /\ \A n \in Names : TokenCap(Live, n) \in Nat
  BY InstalledConfigs DEF TypeInv
<1>1. /\ left' = IF TokenCap(Live, m) = 0 THEN left ELSE [left EXCEPT ![m] = left[m] - 1]
      /\ liveGen' = [liveGen EXCEPT ![d] = [liveGen[d] EXCEPT ![i] = Gen]]
  BY DEF Charge
<1>2. left' \in [Names -> Nat]
  <2>1. left \in [Names -> Nat]
    BY <1>0 DEF TypeOK
  <2>2. TokenCap(Live, m) # 0 => left[m] - 1 \in Nat
    BY <2>1 DEF MaySpend
  <2> QED BY <1>1, <2>1, <2>2
<1>3. /\ Gen' = Gen /\ Live' = Live /\ Places' = Places
      /\ \A e \in Documents : Token(e)' = Token(e)
  BY DEF Gen, Live, Places, FieldsOf, Token
<1>4. \A p \in Places : liveGen'[p[1]][p[2]] = IF p = q THEN Gen ELSE liveGen[p[1]][p[2]]
  <2>1. liveGen[d] \in [FieldsOf(d) -> 0 .. Gen] /\ DOMAIN liveGen = Documents
    BY <1>0 DEF TypeOK
  <2> QED BY <1>1, <2>1, PlaceType
<1>5. q \in Places /\ liveGen[q[1]][q[2]] = 0 /\ Token(q[1]).name = m
  BY PlacesOf
<1> HIDE DEF q
<1>6. ASSUME NEW n, n # m PROVE ChargedTo(n)' = ChargedTo(n)
  BY <1>3, <1>4, <1>5, <1>6, PlaceType DEF ChargedTo
<1>7. ChargedTo(m)' = ChargedTo(m) \cup {q} /\ q \notin ChargedTo(m)
  BY <1>0, <1>3, <1>4, <1>5, PlaceType DEF ChargedTo
<1>8. /\ Cardinality(ChargedTo(m)') = Cardinality(ChargedTo(m)) + 1
      /\ \A n : Cardinality(ChargedTo(n)) \in Nat
  <2>1. \A n : IsFiniteSet(ChargedTo(n)) /\ Cardinality(ChargedTo(n)) \in Nat
    BY <1>0, PlacesAreFinite
  <2>2. IsFiniteSet(ChargedTo(m))
    BY <2>1
  <2>3. Cardinality(ChargedTo(m) \cup {q}) = Cardinality(ChargedTo(m)) + 1
    BY <1>7, <2>2, FS_AddElement
  <2> QED BY <1>7, <2>1, <2>3
<1>9. ASSUME NEW n \in Names, TokenCap(Live, n) # 0
      PROVE  left'[n] + Cardinality(ChargedTo(n)') = TokenCap(Live, n) + refilled[n]
  <2>1. left[n] + Cardinality(ChargedTo(n)) = TokenCap(Live, n) + refilled[n]
    BY <1>9 DEF BudgetsConserved
  <2>2. left[n] \in Nat /\ refilled[n] \in Nat
    BY <1>0 DEF TypeOK
  <2>3. CASE n = m
    <3>1. left'[n] = left[n] - 1
      BY <1>0, <1>1, <1>9, <2>3 DEF TypeOK
    <3> QED BY <1>0, <1>8, <2>1, <2>2, <2>3, <3>1
  <2>4. CASE n # m
    <3>1. left'[n] = left[n]
      BY <1>0, <1>1, <2>4 DEF TypeOK
    <3> QED BY <1>6, <2>1, <2>4, <3>1
  <2> QED BY <2>3, <2>4
<1>10. BudgetsConserved'
  BY <1>3, <1>9 DEF BudgetsConserved
<1> QED BY <1>1, <1>2, <1>10

-----------------------------------------------------------------------------
(* Records: what a conclusion leaves, and what a resolver adds.            *)

LEMMA TwoInARow ==
  ASSUME NEW S, NEW a \in S, NEW b \in S
  PROVE  <<a>> \o <<b>> = <<a, b>>
<1> DEFINE u == <<a>> \o <<b>>
<1>1. <<a>> \in Seq(S) /\ <<b>> \in Seq(S) /\ Len(<<a>>) = 1 /\ Len(<<b>>) = 1
  OBVIOUS
<1>2. u \in Seq(S) /\ Len(u) = 2 /\ u[1] = a /\ u[2] = b
  BY <1>1, ConcatProperties
<1> HIDE DEF u
<1>3. u = <<a, b>>
  BY <1>2
<1> QED BY <1>3 DEF u

(* What the end of a step makes of a document, and of what it records.     *)
Concludes(d, outcome, calls, issued) ==
  \E p \in Pcs, l \in Logs :
    /\ pc' = [pc EXCEPT ![d] = p] /\ p = (IF outcome = "none" THEN pc[d] ELSE "done")
    /\ answer' = [answer EXCEPT ![d] = outcome]
    /\ log' = [log EXCEPT ![d] = l]
    /\ l.gained = [calls |-> log[d].gained.calls + calls,
                   issued |-> log[d].gained.issued + issued]
    /\ RecordedOnce(d)'

LEMMA Concluded ==
  ASSUME TypeInv, NEW d \in Documents, Progress(d), RecordedOnce(d),
         pc[d] \in {"reading", "executing"},
         NEW outcome \in {"none", "ok", "graphql_errors"},
         NEW before \in {<<>>, <<Line("-", "rate_limited")>>},
         before # <<>> => outcome = "graphql_errors",
         NEW calls \in Nat, NEW issued \in Nat,
         Conclude(d, outcome, before, calls, issued), UNCHANGED <<cfgs, text, authGen>>
  PROVE  Concludes(d, outcome, calls, issued)
<1> DEFINE own == Line(Token(d).name, outcome)
           end == IF outcome = "none" THEN <<>> ELSE <<own>>
           p == IF outcome = "none" THEN pc[d] ELSE "done"
           l == [audit |-> log[d].audit \o before \o end,
                 counted |-> IF outcome = "none" THEN log[d].counted
                             ELSE Append(log[d].counted, own),
                 gained |-> Gain(log[d].gained, calls, issued)]
<1>0. TypeOK /\ Admitted(d) /\ Token(d).name \in Names
  BY TokenType DEF TypeInv, Progress
<1>1. /\ pc' = [pc EXCEPT ![d] = p] /\ answer' = [answer EXCEPT ![d] = outcome]
      /\ log' = [log EXCEPT ![d] = l]
  BY DEF Conclude, Line, Count
<1>2. log[d].audit = <<>> /\ log[d].counted = <<>>
  BY DEF RecordedOnce
<1>3. Line("-", "rate_limited") \in LogEntry /\ own \in LogEntry
  BY <1>0 DEF Line, LogEntry, DocumentOutcomes
<1> HIDE DEF own
<1>4. /\ outcome = "none" => l.audit = <<>> /\ l.counted = <<>>
      /\ outcome # "none" =>
           /\ l.counted = <<own>>
           /\ l.audit = <<own>> \/ (/\ outcome = "graphql_errors"
                                    /\ l.audit = <<Line("-", "rate_limited"), own>>)
  <2>1. l.audit = before \o end /\ l.counted = (IF outcome = "none" THEN <<>> ELSE <<own>>)
    BY <1>2, <1>3
  <2>2. before = <<>> => before \o end = end
    BY <1>3
  <2>3. ASSUME before # <<>> PROVE before \o end = <<Line("-", "rate_limited"), own>>
    <3>1. before = <<Line("-", "rate_limited")>> /\ end = <<own>>
      BY <2>3
    <3> QED BY <1>3, <3>1, TwoInARow
  <2> QED BY <2>1, <2>2, <2>3
<1>5. /\ l.audit \in Seq(LogEntry) /\ l.counted \in Seq(LogEntry)
      /\ l.gained = [calls |-> log[d].gained.calls + calls,
                     issued |-> log[d].gained.issued + issued]
      /\ log[d].gained \in [calls : Nat, issued : Nat]
  <2>1. /\ <<>> \in Seq(LogEntry) /\ <<own>> \in Seq(LogEntry)
        /\ <<Line("-", "rate_limited"), own>> \in Seq(LogEntry)
    BY <1>3
  <2> QED BY <1>0, <1>4, <2>1 DEF Gain, TypeOK
<1>6. l \in Logs
  <2>1. l.gained \in [calls : Nat, issued : Nat]
    BY <1>5
  <2> QED BY <1>5, <2>1 DEF Logs
<1>7. p \in Pcs
  BY DEF Pcs
<1>8. /\ pc'[d] = p /\ answer'[d] = outcome /\ log'[d] = l /\ Token(d)' = Token(d)
  BY <1>0, <1>1 DEF TypeOK, Token
<1>9. RecordedOnce(d)'
  <2> HIDE DEF l
  <2> QED BY <1>4, <1>8 DEF RecordedOnce, own, Count, Line
<1> HIDE DEF l, p
<1>10. p = (IF outcome = "none" THEN pc[d] ELSE "done")
  BY DEF p
<1> QED BY <1>1, <1>5, <1>6, <1>7, <1>9, <1>10 DEF Concludes

(* A call that comes back adds itself, and the vouchers of a create.       *)
LEMMA TallyMore ==
  ASSUME TypeInv, NEW d \in Documents, NEW i \in FieldsOf(d), Tallied(d), UNCHANGED text,
         text[d].fields[i].op \in Calls, field[d][i] # "ok",
         field'[d] = [field[d] EXCEPT ![i] = "ok"],
         wire'[d] = wire[d], wire[d][i] = "applied",
         log'[d].gained = [calls |-> log[d].gained.calls + 1,
                           issued |-> log[d].gained.issued + Issued(d, i)]
  PROVE  Tallied(d)'
<1> DEFINE n == Len(text[d].fields)
           m == log[d].gained.issued
           x == Issued(d, i)
<1>0. /\ TypeOK /\ n \in Nat /\ m \in Nat /\ x \in Nat /\ FieldsOf(d) = 1 .. n
      /\ i \in 1 .. n /\ log[d].gained.calls \in Nat
  <2>1. log[d].gained \in [calls : Nat, issued : Nat]
    BY DEF TypeInv, TypeOK
  <2> QED BY <2>1, TextType DEF TypeInv
<1>1. FieldsOf(d)' = FieldsOf(d) /\ \A k : Issued(d, k)' = Issued(d, k)
  BY DEF FieldsOf, Issued
<1>2. CameBack(d)' = CameBack(d) \cup {i} /\ i \notin CameBack(d) /\ CameBack(d) \subseteq 1 .. n
  <2>1. field[d] \in [FieldsOf(d) -> Statuses]
    BY <1>0 DEF TypeOK
  <2>2. field'[d][i] = "ok" /\ \A k \in FieldsOf(d) \ {i} : field'[d][k] = field[d][k]
    BY <2>1
  <2> QED BY <1>0, <1>1, <2>2 DEF CameBack
<1>3. Cardinality(CameBack(d)') = Cardinality(CameBack(d)) + 1
  <2>1. IsFiniteSet(1 .. n)
    BY <1>0, IndicesAreFinite
  <2>2. IsFiniteSet(CameBack(d))
    BY <1>2, <2>1, FS_Subset
  <2> QED BY <1>2, <2>2, FS_AddElement
<1>4. PICK s \in [0 .. n -> 0 .. m] : Totals(d, s) /\ s[n] = m
  BY DEF Tallied
<1>5. \A k \in 1 .. n : /\ s[k] = s[k - 1] + (IF k \in CameBack(d) THEN Issued(d, k) ELSE 0)
                         /\ s[k] \in Nat /\ s[k - 1] \in Nat /\ Issued(d, k) \in Nat
  <2>1. ASSUME NEW k \in 1 .. n
        PROVE  s[k] = s[k - 1] + (IF k \in CameBack(d) THEN Issued(d, k) ELSE 0)
    BY <1>0, <1>4 DEF Totals
  <2>2. ASSUME NEW k \in 1 .. n PROVE s[k] \in Nat /\ s[k - 1] \in Nat
    <3>1. k \in 0 .. n /\ k - 1 \in 0 .. n
      BY <1>0
    <3> HIDE DEF n, m
    <3> QED BY <1>0, <1>4, <3>1
  <2>3. ASSUME NEW k \in 1 .. n PROVE Issued(d, k) \in Nat
    BY <1>0, TextType
  <2> QED BY <2>1, <2>2, <2>3
<1>6. PICK t \in [0 .. n -> 0 .. (m + x)] :
        t[0] = 0 /\ \A k \in 0 .. n : t[k] = IF k < i THEN s[k] ELSE s[k] + x
  <2> DEFINE u == [k \in 0 .. n |-> IF k < i THEN s[k] ELSE s[k] + x]
  <2>1. s[0] = 0 /\ \A k \in 0 .. n : s[k] \in 0 .. m
    BY <1>4 DEF Totals
  <2>2. u \in [0 .. n -> 0 .. (m + x)] /\ u[0] = 0
    <3> HIDE DEF m, x, n
    <3> QED BY <1>0, <2>1
  <2> QED BY <2>2
<1>7. ASSUME NEW k \in 1 .. n
      PROVE  t[k] = t[k - 1] + (IF k \in CameBack(d) \cup {i} THEN Issued(d, k) ELSE 0)
  <2>0. /\ k \in Int /\ i \in Int /\ k \in 0 .. n /\ k - 1 \in 0 .. n
        /\ t[k] = IF k < i THEN s[k] ELSE s[k] + x
        /\ t[k - 1] = IF k - 1 < i THEN s[k - 1] ELSE s[k - 1] + x
    <3>1. k \in Int /\ i \in Int /\ k \in 0 .. n /\ k - 1 \in 0 .. n
      BY <1>0
    <3> HIDE DEF n, x
    <3> QED BY <1>6, <3>1
  <2>1. CASE k < i
    <3>1. t[k] = s[k] /\ t[k - 1] = s[k - 1] /\ k # i
      BY <2>0, <2>1
    <3> QED BY <1>5, <3>1
  <2>2. CASE k = i
    <3>1. t[k] = s[k] + x /\ t[k - 1] = s[k - 1]
      BY <2>0, <2>2
    <3>2. s[k] = s[k - 1] + 0 /\ s[k - 1] \in Nat
      BY <1>2, <1>5, <2>2
    <3> QED BY <1>0, <2>2, <3>1, <3>2
  <2>3. CASE k > i
    <3> DEFINE y == IF k \in CameBack(d) THEN Issued(d, k) ELSE 0
    <3>1. t[k] = s[k] + x /\ t[k - 1] = s[k - 1] + x /\ k # i
      BY <2>0, <2>3
    <3>2. s[k] = s[k - 1] + y /\ y \in Nat /\ s[k - 1] \in Nat
      BY <1>5
    <3>3. y = IF k \in CameBack(d) \cup {i} THEN Issued(d, k) ELSE 0
      BY <3>1
    <3> HIDE DEF x, y
    <3> QED BY <1>0, <3>1, <3>2, <3>3
  <2> QED BY <2>0, <2>1, <2>2, <2>3
<1>8. Totals(d, t)'
  BY <1>0, <1>1, <1>2, <1>6, <1>7 DEF Totals
<1>9. /\ log'[d].gained.issued = m + x /\ log'[d].gained.calls = log[d].gained.calls + 1
      /\ Len(text'[d].fields) = n /\ log[d].gained.calls = Cardinality(CameBack(d))
      /\ t[n] = m + x
  <2>1. t[n] = s[n] + x
    <3>1. n \in 0 .. n /\ ~(n < i)
      BY <1>0
    <3> HIDE DEF n, x
    <3> QED BY <1>6, <3>1
  <2> QED BY <1>4, <2>1 DEF Tallied
<1>10. \A j \in CameBack(d)' : wire'[d][j] = "applied"
  BY <1>2 DEF Tallied
<1> HIDE DEF m, x, n
<1> QED BY <1>3, <1>6, <1>8, <1>9, <1>10 DEF Tallied

-----------------------------------------------------------------------------
(* One lemma per kind of step. First the steps of a document that has not  *)
(* started its fields.                                                     *)

LEMMA PartTypes ==
  ASSUME TypeInv, NEW d \in Documents
  PROVE  /\ pc[d] \in Pcs /\ authGen[d] \in 0 .. Gen /\ answer[d] \in DocumentOutcomes
         /\ field[d] \in [FieldsOf(d) -> Statuses] /\ liveGen[d] \in [FieldsOf(d) -> 0 .. Gen]
         /\ wire[d] \in [FieldsOf(d) -> Wires] /\ log[d] \in Logs
         /\ Gen \in Nat \ {0} /\ left \in [Names -> Nat]
         /\ pc = [pc EXCEPT ![d] = pc[d]] /\ authGen = [authGen EXCEPT ![d] = authGen[d]]
         /\ field = [field EXCEPT ![d] = field[d]]
         /\ liveGen = [liveGen EXCEPT ![d] = liveGen[d]]
         /\ wire = [wire EXCEPT ![d] = wire[d]]
         /\ answer = [answer EXCEPT ![d] = answer[d]] /\ log = [log EXCEPT ![d] = log[d]]
<1>1. TypeOK /\ Gen \in Nat \ {0}
  BY InstalledConfigs DEF TypeInv
<1>2. /\ pc[d] \in Pcs /\ authGen[d] \in 0 .. Gen /\ answer[d] \in DocumentOutcomes
      /\ field[d] \in [FieldsOf(d) -> Statuses] /\ liveGen[d] \in [FieldsOf(d) -> 0 .. Gen]
      /\ wire[d] \in [FieldsOf(d) -> Wires] /\ log[d] \in Logs /\ left \in [Names -> Nat]
  BY <1>1 DEF TypeOK, Pcs, Wires, Logs
<1>3. /\ pc = [pc EXCEPT ![d] = pc[d]] /\ authGen = [authGen EXCEPT ![d] = authGen[d]]
      /\ answer = [answer EXCEPT ![d] = answer[d]] /\ log = [log EXCEPT ![d] = log[d]]
  BY <1>1 DEF TypeOK
<1>4. /\ field = [field EXCEPT ![d] = field[d]]
      /\ liveGen = [liveGen EXCEPT ![d] = liveGen[d]]
      /\ wire = [wire EXCEPT ![d] = wire[d]]
  BY DEF TypeInv
<1> QED BY <1>1, <1>2, <1>3, <1>4

LEMMA WaitingFields ==
  ASSUME TypeInv, NEW d \in Documents, Sound(d), pc[d] \in {"idle", "reading"},
         UNCHANGED text, pc'[d] # "idle",
         field'[d] = field[d], liveGen'[d] = liveGen[d], wire'[d] = wire[d],
         log'[d].gained = log[d].gained
  PROVE  InTurn(d)' /\ (\A i \in FieldsOf(d)' : FieldSound(d, i)') /\ Tallied(d)'
<1>1. FieldsOf(d)' = FieldsOf(d)
  BY DEF FieldsOf
<1>2. \A i \in FieldsOf(d) : field[d][i] = "waiting" /\ ~Called(d, i)
  BY DEF Sound, Progress, FieldSound
<1>3. InTurn(d)' /\ \A i \in FieldsOf(d) : FieldSound(d, i)'
  BY <1>1, <1>2 DEF InTurn, FieldSound, Called, Sound
<1>4. Tallied(d)'
  BY TallySame DEF Sound
<1> QED BY <1>1, <1>3, <1>4

LEMMA AdmitStep ==
  ASSUME IInv, NEW d \in Documents, Admit(d)
  PROVE  IInv'
<1> USE DEF IInv
<1>1. /\ pc[d] = "idle" /\ Authenticate(Live.tokens, text[d].secret) # 0 /\ left' = left
      /\ UNCHANGED <<cfgs, refilled, text, liveGen>>
      /\ StepOf(d, "reading", Gen, field[d], liveGen[d], wire[d], answer[d], log[d])
  BY PartTypes DEF Admit, StepOf, budgets
<1>2. /\ TypeInv' /\ Becomes(d, "reading", Gen, field[d], liveGen[d], wire[d], answer[d], log[d])
      /\ \A e \in Documents \ {d} : SameDocument(e)
      /\ Gen' = Gen /\ Live' = Live /\ FieldsOf(d)' = FieldsOf(d)
  <2>1. "reading" \in Pcs /\ Gen \in 0 .. Gen /\ left' \in [Names -> Nat]
    BY <1>1, PartTypes DEF Pcs
  <2> QED BY <1>1, <2>1, PartTypes, StepEffect
<1>3. Progress(d)'
  <2>1. Admitted(d)' /\ Gen \in Nat \ {0}
    BY <1>1, <1>2, PartTypes DEF Admitted, Becomes, Live, Gen
  <2> QED BY <1>1, <1>2, <2>1 DEF Becomes, Progress, Sound
<1>4. RecordedOnce(d)'
  BY <1>1, <1>2 DEF Becomes, RecordedOnce, Sound
<1>5. Sound(d)'
  BY <1>1, <1>2, <1>3, <1>4, WaitingFields DEF Becomes, Sound
<1>6. BudgetsConserved'
  <2>1. \A i \in FieldsOf(d) : liveGen[d][i] # Gen
    BY <1>1, PartTypes DEF Sound, Progress, FieldSound
  <2>2. ASSUME NEW e \in Documents, e # d PROVE Token(e)' = Token(e)
    BY <1>1, <1>2, <2>2 DEF SameDocument, Token
  <2> QED BY <1>1, <2>1, <2>2, SameBudgets
<1> QED BY <1>1, <1>2, <1>5, <1>6, Assemble

(* What a step that leaves receipts and Callers alone does to budgets.     *)
LEMMA FreeStep ==
  ASSUME IInv, UNCHANGED <<cfgs, left, refilled, text, authGen, liveGen>>
  PROVE  BudgetsConserved'
<1>1. \A d \in Documents : Token(d)' = Token(d)
  BY DEF Token
<1> QED BY <1>1, SameBudgets DEF IInv

LEMMA UnreadableStep ==
  ASSUME IInv, NEW d \in Documents, Unreadable(d)
  PROVE  IInv'
<1> USE DEF IInv
<1>1. /\ pc[d] = "reading" /\ UNCHANGED <<cfgs, left, refilled, text, authGen, liveGen>>
      /\ StepOf(d, "done", authGen[d], field[d], liveGen[d], wire[d], "unreadable", log[d])
  BY PartTypes DEF Unreadable, StepOf, budgets
<1>2. /\ TypeInv'
      /\ Becomes(d, "done", authGen[d], field[d], liveGen[d], wire[d], "unreadable", log[d])
      /\ \A e \in Documents \ {d} : SameDocument(e)
      /\ FieldsOf(d)' = FieldsOf(d)
  BY <1>1, PartTypes, StepEffect DEF Pcs, DocumentOutcomes
<1>3. Progress(d)'
  <2>1. Admitted(d)'
    BY <1>1 DEF Admitted, Progress, Sound
  <2> QED BY <1>1, <1>2, <2>1 DEF Becomes, Progress, Sound
<1>4. RecordedOnce(d)'
  BY <1>1, <1>2 DEF Becomes, RecordedOnce, Sound
<1>5. Sound(d)'
  BY <1>1, <1>2, <1>3, <1>4, WaitingFields DEF Becomes, Sound
<1> QED BY <1>1, <1>2, <1>5, FreeStep, Assemble

LEMMA ExecuteStep ==
  ASSUME IInv, NEW d \in Documents, Execute(d)
  PROVE  IInv'
<1> USE DEF IInv
<1>1. /\ pc[d] = "reading" /\ FieldsOf(d) # {}
      /\ UNCHANGED <<cfgs, left, refilled, text, authGen, liveGen>>
      /\ StepOf(d, "executing", authGen[d], field[d], liveGen[d], wire[d], answer[d], log[d])
  BY PartTypes DEF Execute, StepOf, budgets
<1>2. /\ TypeInv'
      /\ Becomes(d, "executing", authGen[d], field[d], liveGen[d], wire[d], answer[d], log[d])
      /\ \A e \in Documents \ {d} : SameDocument(e)
      /\ FieldsOf(d)' = FieldsOf(d)
  BY <1>1, PartTypes, StepEffect DEF Pcs
<1>3. Progress(d)'
  <2>1. Admitted(d)'
    BY <1>1 DEF Admitted, Progress, Sound
  <2>2. \A i \in FieldsOf(d) : field[d][i] = "waiting"
    BY <1>1 DEF Progress, Sound
  <2> QED BY <1>1, <1>2, <2>1, <2>2 DEF Becomes, Progress, Sound
<1>4. RecordedOnce(d)'
  BY <1>1, <1>2 DEF Becomes, RecordedOnce, Sound
<1>5. Sound(d)'
  BY <1>1, <1>2, <1>3, <1>4, WaitingFields DEF Becomes, Sound
<1> QED BY <1>1, <1>2, <1>5, FreeStep, Assemble

(* A document refused as a whole, or with no field to execute.             *)
LEMMA RefuseDocumentStep ==
  ASSUME IInv, NEW d \in Documents, RefuseDocument(d) \/ SkipAll(d)
  PROVE  IInv'
<1> USE DEF IInv
<1>1. /\ pc[d] = "reading"
      /\ UNCHANGED <<cfgs, left, refilled, text, authGen, field, liveGen, wire>>
      /\ \E o \in {"ok", "graphql_errors"} :
           Conclude(d, o, <<>>, 0, 0) /\ (o = "ok" => FieldsOf(d) = {})
  BY DEF RefuseDocument, SkipAll, budgets
<1>2. PICK o \in {"ok", "graphql_errors"} :
        Conclude(d, o, <<>>, 0, 0) /\ (o = "ok" => FieldsOf(d) = {})
  BY <1>1
<1>3. PICK l \in Logs :
        /\ pc' = [pc EXCEPT ![d] = "done"] /\ answer' = [answer EXCEPT ![d] = o]
        /\ log' = [log EXCEPT ![d] = l] /\ RecordedOnce(d)'
        /\ l.gained = [calls |-> log[d].gained.calls + 0,
                       issued |-> log[d].gained.issued + 0]
  <2>1. Progress(d) /\ RecordedOnce(d) /\ 0 \in Nat
    BY DEF Sound
  <2>2. Concludes(d, o, 0, 0)
    BY <1>1, <1>2, <2>1, Concluded
  <2> QED BY <2>2 DEF Concludes
<1>4. StepOf(d, "done", authGen[d], field[d], liveGen[d], wire[d], o, l)
  BY <1>1, <1>3, PartTypes DEF StepOf
<1>5. /\ TypeInv'
      /\ Becomes(d, "done", authGen[d], field[d], liveGen[d], wire[d], o, l)
      /\ \A e \in Documents \ {d} : SameDocument(e)
      /\ FieldsOf(d)' = FieldsOf(d)
  <2>1. "done" \in Pcs /\ o \in DocumentOutcomes /\ left' \in [Names -> Nat]
    BY <1>1, PartTypes DEF Pcs, DocumentOutcomes
  <2> QED BY <1>1, <1>4, <2>1, PartTypes, StepEffect
<1>6. Progress(d)'
  <2>1. Admitted(d)'
    BY <1>1 DEF Admitted, Progress, Sound
  <2>2. \A i \in FieldsOf(d) : field[d][i] = "waiting"
    BY <1>1 DEF Progress, Sound
  <2> QED BY <1>2, <1>5, <2>1, <2>2 DEF Becomes, Progress
<1>7. log'[d].gained = log[d].gained
  <2>1. log[d].gained \in [calls : Nat, issued : Nat]
    BY PartTypes DEF Logs
  <2> QED BY <1>3, <1>5, <2>1 DEF Becomes
<1>8. Sound(d)'
  BY <1>1, <1>3, <1>5, <1>6, <1>7, WaitingFields DEF Becomes, Sound
<1> QED BY <1>1, <1>5, <1>8, FreeStep, Assemble

-----------------------------------------------------------------------------
(* The steps of a field. A field that fails ends the document and drops    *)
(* the others, whatever they had come to; g is what the receipts become.   *)

LEMMA FailedStep ==
  ASSUME IInv, NEW d \in Documents, NEW i \in FieldsOf(d),
         pc[d] = "executing", field[d][i] \in {"waiting", "calling"},
         NEW before \in {<<>>, <<Line("-", "rate_limited")>>}, FailField(d, i, before),
         NEW g \in [FieldsOf(d) -> 0 .. Gen], liveGen' = [liveGen EXCEPT ![d] = g],
         \A j \in FieldsOf(d) : liveGen[d][j] # 0 => g[j] # 0,
         UNCHANGED <<cfgs, refilled, text, authGen, wire>>,
         left' \in [Names -> Nat], BudgetsConserved'
  PROVE  IInv'
<1> DEFINE f == [j \in FieldsOf(d) |->
                   IF j = i THEN "failed"
                   ELSE IF field[d][j] \in {"waiting", "calling"} THEN "dropped"
                   ELSE field[d][j]]
<1> USE DEF IInv
<1>0. /\ Sound(d) /\ TypeOK /\ FieldsOf(d)' = FieldsOf(d) /\ Token(d)' = Token(d)
      /\ \A j \in FieldsOf(d) : field[d][j] \in {"waiting", "calling", "ok"}
  BY DEF FieldsOf, Token, Sound, Progress, TypeInv
<1>1. PICK l \in Logs :
        /\ pc' = [pc EXCEPT ![d] = "done"] /\ answer' = [answer EXCEPT ![d] = "graphql_errors"]
        /\ log' = [log EXCEPT ![d] = l] /\ RecordedOnce(d)'
        /\ l.gained = [calls |-> log[d].gained.calls + 0,
                       issued |-> log[d].gained.issued + 0]
  <2>1. /\ TypeInv /\ Progress(d) /\ RecordedOnce(d) /\ 0 \in Nat
        /\ pc[d] \in {"reading", "executing"}
        /\ UNCHANGED <<cfgs, text, authGen>>
    BY DEF Sound
  <2>2. Conclude(d, "graphql_errors", before, 0, 0)
    BY DEF FailField
  <2> QED
    <3> HIDE DEF f, IInv
    <3>1. PICK o \in {"none", "ok", "graphql_errors"} : o = "graphql_errors"
      OBVIOUS
    <3>2. Conclude(d, o, before, 0, 0) /\ (before # <<>> => o = "graphql_errors")
      BY <2>2, <3>1
    <3>3. Concludes(d, o, 0, 0)
      BY <2>1, <3>2, Concluded
    <3> QED BY <3>1, <3>3 DEF Concludes
<1>2. f \in [FieldsOf(d) -> Statuses] /\ field' = [field EXCEPT ![d] = f]
  <2>1. f \in [FieldsOf(d) -> Statuses]
    BY <1>0 DEF Statuses
  <2>2. field' = [field EXCEPT ![d] = f]
    BY <1>0 DEF FailField, TypeOK
  <2> QED BY <2>1, <2>2
<1>3. \A j \in FieldsOf(d) : /\ f[j] = "ok" <=> field[d][j] = "ok"
                             /\ f[j] \in {"failed", "ok", "dropped"}
                             /\ f[j] = "failed" <=> j = i
  BY <1>0
<1> HIDE DEF f
<1>4. StepOf(d, "done", authGen[d], f, g, wire[d], "graphql_errors", l)
  BY <1>1, <1>2, PartTypes DEF StepOf
<1>5. /\ TypeInv' /\ Becomes(d, "done", authGen[d], f, g, wire[d], "graphql_errors", l)
      /\ \A e \in Documents \ {d} : SameDocument(e)
  <2>1. "done" \in Pcs /\ "graphql_errors" \in DocumentOutcomes
    BY DEF Pcs, DocumentOutcomes
  <2> QED BY <1>2, <1>4, <2>1, PartTypes, StepEffect
<1>6. Progress(d)'
  <2>1. Admitted(d)'
    BY <1>0 DEF Admitted, Progress, Sound
  <2> QED BY <1>0, <1>3, <1>5, <2>1 DEF Becomes, Progress
<1>7. InTurn(d)' /\ \A j \in FieldsOf(d)' : FieldSound(d, j)'
  <2>1. \A j : Called(d, j)' <=> Called(d, j)
    BY DEF Called
  <2>2. \A j : AllowedByRest(d, j) => AllowedByRest(d, j)'
    BY <1>0 DEF AllowedByRest
  <2>3. InTurn(d)'
    BY <1>0, <1>3, <1>5, <2>1 DEF Sound, InTurn, Becomes
  <2>4. ASSUME NEW j \in FieldsOf(d) PROVE FieldSound(d, j)'
    BY <1>0, <1>3, <1>5, <2>1, <2>2 DEF Sound, FieldSound, Becomes
  <2> QED BY <1>0, <2>3, <2>4
<1>8. Tallied(d)'
  <2>1. log'[d].gained = log[d].gained
    <3>1. log[d].gained \in [calls : Nat, issued : Nat]
      BY PartTypes DEF Logs
    <3> QED BY <1>1, <1>5, <3>1 DEF Becomes
  <2> QED BY <1>0, <1>3, <1>5, <2>1, TallySame DEF Sound, Becomes
<1> QED BY <1>1, <1>5, <1>6, <1>7, <1>8, Assemble DEF Sound

LEMMA RefuseStep ==
  ASSUME IInv, NEW d \in Documents, NEW i \in FieldsOf(d),
         RefuseScopeOrSite(d, i) \/ RefuseQuota(d, i) \/ Fail(d, i) \/ GiveUp(d, i)
  PROVE  IInv'
<1>1. /\ pc[d] = "executing" /\ field[d][i] \in {"waiting", "calling"}
      /\ UNCHANGED <<cfgs, left, refilled, text, authGen, liveGen, wire>>
      /\ FailField(d, i, <<>>) \/ FailField(d, i, <<Line("-", "rate_limited")>>)
  BY DEF RefuseScopeOrSite, RefuseQuota, Fail, GiveUp, Attempts, Starts, Waits, budgets
<1>2. PICK before \in {<<>>, <<Line("-", "rate_limited")>>} : FailField(d, i, before)
  BY <1>1
<1>3. /\ liveGen[d] \in [FieldsOf(d) -> 0 .. Gen] /\ liveGen' = [liveGen EXCEPT ![d] = liveGen[d]]
      /\ left' \in [Names -> Nat]
  BY <1>1, PartTypes DEF IInv
<1>4. BudgetsConserved'
  BY <1>1, FreeStep
<1> QED BY <1>1, <1>2, <1>3, <1>4, FailedStep

(***************************************************************************)
(* What every charged field has: a Caller, no receipt yet, and one after.  *)
(***************************************************************************)
LEMMA ChargedStep ==
  ASSUME IInv, NEW d \in Documents, NEW i \in FieldsOf(d), Charged(d, i)
  PROVE  LET g == [liveGen[d] EXCEPT ![i] = Gen] IN
         /\ Admitted(d) /\ pc[d] = "executing" /\ field[d][i] = "waiting"
         /\ text[d].fields[i].op \in Calls /\ Permits(Token(d), text[d].fields[i])
         /\ text[d].kind = "mutation" => \A j \in 1 .. (i - 1) : field[d][j] = "ok"
         /\ g \in [FieldsOf(d) -> 0 .. Gen] /\ liveGen' = [liveGen EXCEPT ![d] = g]
         /\ g[i] = Gen /\ g[i] # 0 /\ \A j \in FieldsOf(d) \ {i} : g[j] = liveGen[d][j]
         /\ UNCHANGED <<cfgs, refilled, text, authGen>>
         /\ left' \in [Names -> Nat] /\ BudgetsConserved'
<1> DEFINE g == [liveGen[d] EXCEPT ![i] = Gen]
<1>1. /\ pc[d] = "executing" /\ field[d][i] = "waiting"
      /\ text[d].fields[i].op \in Calls /\ Permits(Token(d), text[d].fields[i])
      /\ text[d].kind = "mutation" => \A j \in 1 .. (i - 1) : field[d][j] = "ok"
      /\ UNCHANGED <<cfgs, refilled, text, authGen>>
      /\ MaySpend(Token(d).name) /\ Charge(d, i)
  BY DEF Charged, Attempts, Starts
<1>2. Admitted(d) /\ liveGen[d][i] = 0
  <2>1. Sound(d)
    BY DEF IInv
  <2> QED BY <1>1, <2>1 DEF Sound, Progress, FieldSound
<1>3. PICK m \in Names : m = Token(d).name
  BY <1>2, TokenType DEF IInv, TypeInv
<1>4. /\ BudgetsConserved' /\ left' \in [Names -> Nat] /\ liveGen' = [liveGen EXCEPT ![d] = g]
  BY <1>1, <1>2, <1>3, ChargeBalances DEF IInv
<1>5. /\ g \in [FieldsOf(d) -> 0 .. Gen] /\ g[i] = Gen /\ g[i] # 0
      /\ \A j \in FieldsOf(d) \ {i} : g[j] = liveGen[d][j]
  <2>1. liveGen[d] \in [FieldsOf(d) -> 0 .. Gen] /\ Gen \in Nat \ {0}
    BY PartTypes DEF IInv
  <2> QED BY <2>1
<1> HIDE DEF g
<1>6. /\ Admitted(d) /\ pc[d] = "executing" /\ field[d][i] = "waiting"
      /\ text[d].fields[i].op \in Calls /\ Permits(Token(d), text[d].fields[i])
      /\ text[d].kind = "mutation" => \A j \in 1 .. (i - 1) : field[d][j] = "ok"
      /\ g \in [FieldsOf(d) -> 0 .. Gen] /\ liveGen' = [liveGen EXCEPT ![d] = g]
      /\ g[i] = Gen /\ g[i] # 0 /\ \A j \in FieldsOf(d) \ {i} : g[j] = liveGen[d][j]
      /\ UNCHANGED <<cfgs, refilled, text, authGen>>
      /\ left' \in [Names -> Nat] /\ BudgetsConserved'
  BY <1>1, <1>2, <1>4, <1>5
<1> QED BY <1>6 DEF g

LEMMA RefuseInputStep ==
  ASSUME IInv, NEW d \in Documents, NEW i \in FieldsOf(d), RefuseInput(d, i)
  PROVE  IInv'
<1>1. Charged(d, i) /\ FailField(d, i, <<>>) /\ wire' = wire
  BY DEF RefuseInput
<1> DEFINE g == [liveGen[d] EXCEPT ![i] = Gen]
<1>2. /\ pc[d] = "executing" /\ field[d][i] = "waiting"
      /\ g \in [FieldsOf(d) -> 0 .. Gen] /\ liveGen' = [liveGen EXCEPT ![d] = g]
      /\ g[i] # 0 /\ \A j \in FieldsOf(d) \ {i} : g[j] = liveGen[d][j]
      /\ UNCHANGED <<cfgs, refilled, text, authGen>>
      /\ left' \in [Names -> Nat] /\ BudgetsConserved'
  BY <1>1, ChargedStep
<1> HIDE DEF g
<1>3. PICK before \in {<<>>, <<Line("-", "rate_limited")>>} : FailField(d, i, before)
  BY <1>1
<1>4. \A j \in FieldsOf(d) : liveGen[d][j] # 0 => g[j] # 0
  BY <1>2
<1>5. field[d][i] \in {"waiting", "calling"} /\ UNCHANGED <<cfgs, refilled, text, authGen, wire>>
  BY <1>1, <1>2
<1> QED BY <1>2, <1>3, <1>4, <1>5, FailedStep

(* A call that goes out is one REST would have let out, and in its turn.   *)
LEMMA SendStep ==
  ASSUME IInv, NEW d \in Documents, NEW i \in FieldsOf(d), Send(d, i)
  PROVE  IInv'
<1> DEFINE g == [liveGen[d] EXCEPT ![i] = Gen]
           f == [field[d] EXCEPT ![i] = "calling"]
           w == [wire[d] EXCEPT ![i] = "sent"]
<1>0. /\ TypeInv /\ TypeOK /\ Sound(d)
      /\ field[d] \in [FieldsOf(d) -> Statuses] /\ wire[d] \in [FieldsOf(d) -> Wires]
      /\ FieldsOf(d) = 1 .. Len(text[d].fields) /\ Len(text[d].fields) \in Nat
  BY PartTypes, TextType DEF IInv, TypeInv
<1>1. /\ Charged(d, i) /\ Checked(text[d].fields[i], CallerCeilings(d)) = "ok"
      /\ field' = [field EXCEPT ![d] = f] /\ wire' = [wire EXCEPT ![d] = w]
      /\ UNCHANGED <<pc, answer, log>>
  BY DEF Send
<1>2. /\ f \in [FieldsOf(d) -> Statuses] /\ w \in [FieldsOf(d) -> Wires]
      /\ f[i] = "calling" /\ w[i] = "sent"
      /\ \A j \in FieldsOf(d) \ {i} : f[j] = field[d][j] /\ w[j] = wire[d][j]
  BY <1>0 DEF Statuses, Wires
<1>3. /\ Admitted(d) /\ pc[d] = "executing" /\ field[d][i] = "waiting"
      /\ text[d].fields[i].op \in Calls /\ Permits(Token(d), text[d].fields[i])
      /\ text[d].kind = "mutation" => \A j \in 1 .. (i - 1) : field[d][j] = "ok"
      /\ g \in [FieldsOf(d) -> 0 .. Gen] /\ liveGen' = [liveGen EXCEPT ![d] = g]
      /\ g[i] # 0 /\ \A j \in FieldsOf(d) \ {i} : g[j] = liveGen[d][j]
      /\ UNCHANGED <<cfgs, refilled, text, authGen>>
      /\ left' \in [Names -> Nat] /\ BudgetsConserved'
  BY <1>1, ChargedStep
<1> HIDE DEF g, f, w
<1>4. StepOf(d, pc[d], authGen[d], f, g, w, answer[d], log[d])
  BY <1>0, <1>1, <1>3, PartTypes DEF StepOf
<1>5. /\ TypeInv' /\ Becomes(d, pc[d], authGen[d], f, g, w, answer[d], log[d])
      /\ \A e \in Documents \ {d} : SameDocument(e)
      /\ FieldsOf(d)' = FieldsOf(d) /\ Token(d)' = Token(d)
  <2>1. Token(d)' = Token(d)
    BY <1>3 DEF Token
  <2> QED BY <1>0, <1>2, <1>3, <1>4, <2>1, PartTypes, StepEffect
<1>6. AllowedByRest(d, i)
  <2>1. PICK t \in TokenEntry : t = Token(d) /\ t.secret = text[d].secret
    BY <1>0, <1>3, TokenType
  <2>2. PICK l \in Limits : l = cfgs[authGen[d]].limits
    BY <1>0, <1>3, TokenType DEF Config
  <2>3. PICK c \in Field : c = text[d].fields[i] /\ c.ask \in Ask
    BY <1>0, TextType
  <2>4. Permits(t, c) /\ Checked(c, Ceilings(t, l)) = "ok"
    BY <1>1, <1>3, <2>1, <2>2, <2>3 DEF CallerCeilings
  <2>5. /\ ScopeOf(c.op) \in t.scopes
        /\ c.op # "list_sites" => c.plainIds /\ (c.site \in t.sites \/ "*" \in t.sites)
        /\ c.op = "create" => /\ c.ask.count \in 1 .. l.maxVouchers
                              /\ t.maxVouchers # None => c.ask.count <= t.maxVouchers
                              /\ c.ask.minutes \in 1 .. l.maxValidity
                              /\ t.maxValidity # None => c.ask.minutes <= t.maxValidity
    BY <2>3, <2>4, PassedIsAllowed
  <2> QED BY <2>1, <2>2, <2>3, <2>5 DEF AllowedByRest
<1>7. Progress(d)'
  <2>1. Admitted(d)'
    BY <1>3 DEF Admitted
  <2>2. /\ answer[d] = "none" /\ f[i] # "ok"
        /\ \A j \in FieldsOf(d) : field[d][j] \in {"waiting", "calling", "ok"}
    BY <1>0, <1>2, <1>3 DEF Sound, Progress
  <2>3. \A j \in FieldsOf(d) : f[j] \in {"waiting", "calling", "ok"}
    BY <1>2, <2>2
  <2>4. /\ pc'[d] = "executing" /\ answer'[d] = "none" /\ field'[d] = f
        /\ FieldsOf(d)' = FieldsOf(d)
    BY <1>3, <1>5, <2>2 DEF Becomes
  <2> QED BY <2>1, <2>2, <2>3, <2>4 DEF Progress
<1>8. InTurn(d)'
  <2>1. ASSUME text[d].kind = "mutation", NEW a \in FieldsOf(d), NEW b \in FieldsOf(d),
               a < b, w[b] # "none"
        PROVE  f[a] = "ok"
    <3>1. CASE b = i
      <4>1. a \in 1 .. (i - 1) /\ a # i
        BY <1>0, <2>1, <3>1
      <4> QED BY <1>2, <1>3, <2>1, <4>1
    <3>2. CASE b # i
      <4>1. field[d][a] = "ok"
        BY <1>0, <1>2, <2>1, <3>2 DEF Sound, InTurn, Called
      <4> QED BY <1>2, <1>3, <4>1
    <3> QED BY <3>1, <3>2
  <2> QED BY <1>3, <1>5, <2>1 DEF InTurn, Called, Becomes
<1>9. ASSUME NEW j \in FieldsOf(d) PROVE FieldSound(d, j)'
  <2>1. AllowedByRest(d, j) => AllowedByRest(d, j)'
    BY <1>3, <1>5 DEF AllowedByRest
  <2>2. CASE j = i
    BY <1>2, <1>3, <1>5, <1>6, <2>1, <2>2 DEF FieldSound, Called, Becomes
  <2>3. CASE j # i
    BY <1>0, <1>2, <1>3, <1>5, <2>1, <2>3 DEF Sound, FieldSound, Called, Becomes
  <2> QED BY <2>2, <2>3
<1>10. RecordedOnce(d)'
  BY <1>0, <1>3, <1>5 DEF Sound, RecordedOnce, Becomes
<1>11. Tallied(d)'
  <2>1. \A j \in FieldsOf(d) : /\ field'[d][j] = "ok" <=> field[d][j] = "ok"
                               /\ wire[d][j] = "applied" => wire'[d][j] = "applied"
    <3>1. wire[d][i] # "applied"
      BY <1>0, <1>3 DEF Sound, FieldSound, Called
    <3> QED BY <1>2, <1>3, <1>5, <3>1 DEF Becomes
  <2> QED BY <1>0, <1>3, <1>5, <2>1, TallySame DEF Sound, Becomes
<1>12. Sound(d)'
  BY <1>5, <1>7, <1>8, <1>9, <1>10, <1>11 DEF Sound
<1> QED BY <1>3, <1>5, <1>12, Assemble

(* A resolver that returns: info, or a call the console carried out.       *)
LEMMA ResolvedStep ==
  ASSUME IInv, NEW d \in Documents, NEW i \in FieldsOf(d), Info(d, i) \/ Succeed(d, i)
  PROVE  IInv'
<1> DEFINE f == [field[d] EXCEPT ![i] = "ok"]
           isCall == text[d].fields[i].op \in Calls
<1>0. /\ TypeInv /\ TypeOK /\ Sound(d) /\ Issued(d, i) \in Nat
      /\ field[d] \in [FieldsOf(d) -> Statuses] /\ log[d].gained \in [calls : Nat, issued : Nat]
  BY PartTypes, TextType DEF IInv, TypeInv, Logs
<1>1. PICK calls \in Nat, issued \in Nat :
        /\ Resolve(d, i, calls, issued)
        /\ IF isCall THEN calls = 1 /\ issued = Issued(d, i) /\ wire[d][i] = "applied"
                     ELSE calls = 0 /\ issued = 0
  <2>1. CASE Info(d, i)
    <3>1. Resolve(d, i, 0, 0) /\ ~isCall /\ 0 \in Nat
      BY <2>1 DEF Info, Calls
    <3> HIDE DEF f, isCall
    <3> QED BY <3>1
  <2>2. CASE Succeed(d, i)
    <3>1. Resolve(d, i, 1, Issued(d, i)) /\ wire[d][i] = "applied" /\ 1 \in Nat
      BY <2>2 DEF Succeed
    <3>2. isCall
      BY <1>0, <2>2 DEF Succeed, Waits, Sound, FieldSound
    <3> HIDE DEF f, isCall
    <3> QED BY <1>0, <3>1, <3>2
  <2> QED BY <2>1, <2>2
<1>2. /\ pc[d] = "executing" /\ field[d][i] \in {"waiting", "calling"}
      /\ text[d].kind = "mutation" /\ field[d][i] = "waiting" =>
           \A j \in 1 .. (i - 1) : field[d][j] = "ok"
      /\ UNCHANGED <<cfgs, left, refilled, text, authGen, liveGen, wire>>
  BY DEF Info, Succeed, Waits, Starts, budgets
<1>3. /\ f \in [FieldsOf(d) -> Statuses] /\ field' = [field EXCEPT ![d] = f]
      /\ f[i] = "ok" /\ \A j \in FieldsOf(d) \ {i} : f[j] = field[d][j]
  BY <1>0, <1>1 DEF Statuses, Resolve, Resolved
<1>4. PICK outcome \in {"none", "ok", "graphql_errors"} :
        /\ outcome = IF \A j \in FieldsOf(d) : f[j] = "ok" THEN "ok" ELSE "none"
        /\ Conclude(d, outcome, <<>>, calls, issued)
  BY <1>1 DEF Resolve, Resolved
<1> HIDE DEF f, isCall
<1>5. PICK p \in Pcs, l \in Logs :
        /\ pc' = [pc EXCEPT ![d] = p] /\ p = (IF outcome = "none" THEN pc[d] ELSE "done")
        /\ answer' = [answer EXCEPT ![d] = outcome] /\ log' = [log EXCEPT ![d] = l]
        /\ l.gained = [calls |-> log[d].gained.calls + calls,
                       issued |-> log[d].gained.issued + issued]
        /\ RecordedOnce(d)'
  <2>1. /\ Progress(d) /\ RecordedOnce(d) /\ pc[d] \in {"reading", "executing"}
        /\ UNCHANGED <<cfgs, text, authGen>>
    BY <1>0, <1>2 DEF Sound
  <2>2. PICK before \in {<<>>, <<Line("-", "rate_limited")>>} : before = <<>>
    OBVIOUS
  <2>3. /\ Conclude(d, outcome, before, calls, issued)
        /\ before # <<>> => outcome = "graphql_errors"
    BY <1>4, <2>2
  <2> HIDE DEF IInv
  <2>4. Concludes(d, outcome, calls, issued)
    BY <1>0, <2>1, <2>3, Concluded
  <2> QED BY <2>4 DEF Concludes
<1>6. StepOf(d, p, authGen[d], f, liveGen[d], wire[d], outcome, l)
  BY <1>0, <1>2, <1>3, <1>5, PartTypes DEF StepOf
<1>7. /\ TypeInv' /\ Becomes(d, p, authGen[d], f, liveGen[d], wire[d], outcome, l)
      /\ \A e \in Documents \ {d} : SameDocument(e)
      /\ FieldsOf(d)' = FieldsOf(d) /\ Token(d)' = Token(d)
  <2>1. Token(d)' = Token(d)
    BY <1>2 DEF Token
  <2>2. outcome \in DocumentOutcomes /\ left' \in [Names -> Nat]
    BY <1>0, <1>2, PartTypes DEF DocumentOutcomes
  <2> QED BY <1>0, <1>3, <1>6, <2>1, <2>2, PartTypes, StepEffect
<1>8. Progress(d)'
  <2>1. Admitted(d)'
    BY <1>0, <1>2 DEF Admitted, Progress, Sound
  <2>2. \A j \in FieldsOf(d) : f[j] \in {"waiting", "calling", "ok"}
    BY <1>0, <1>2, <1>3 DEF Sound, Progress
  <2>3. /\ pc'[d] = p /\ answer'[d] = outcome /\ field'[d] = f
        /\ FieldsOf(d)' = FieldsOf(d)
    BY <1>7 DEF Becomes
  <2>4. CASE \A j \in FieldsOf(d) : f[j] = "ok"
    <3>1. outcome = "ok" /\ p = "done"
      BY <1>4, <1>5, <2>4
    <3> QED BY <2>1, <2>3, <2>4, <3>1 DEF Progress
  <2>5. CASE \E j \in FieldsOf(d) : f[j] # "ok"
    <3>1. outcome = "none" /\ p = "executing"
      BY <1>2, <1>4, <1>5, <2>5
    <3> QED BY <2>1, <2>2, <2>3, <2>5, <3>1 DEF Progress
  <2> QED BY <2>4, <2>5
<1>9. InTurn(d)' /\ \A j \in FieldsOf(d)' : FieldSound(d, j)'
  <2>0. pc'[d] # "idle"
    BY <1>2, <1>5, <1>7 DEF Becomes
  <2>1. \A j : Called(d, j)' <=> Called(d, j)
    BY <1>2 DEF Called
  <2>2. \A j : AllowedByRest(d, j) => AllowedByRest(d, j)'
    BY <1>2, <1>7 DEF AllowedByRest
  <2>3. InTurn(d)'
    BY <1>0, <1>2, <1>3, <1>7, <2>1 DEF Sound, InTurn, Becomes
  <2>4. ASSUME NEW j \in FieldsOf(d) PROVE FieldSound(d, j)'
    <3>1. CASE j = i
      BY <1>0, <1>1, <1>2, <1>3, <1>7, <2>0, <2>1, <2>2, <3>1
      DEF Sound, FieldSound, Becomes, isCall
    <3>2. CASE j # i
      BY <1>0, <1>2, <1>3, <1>7, <2>0, <2>1, <2>2, <3>2 DEF Sound, FieldSound, Becomes
    <3> QED BY <3>1, <3>2
  <2> QED BY <1>7, <2>3, <2>4
<1>10. Tallied(d)'
  <2>1. CASE isCall
    <3>1. text[d].fields[i].op \in Calls /\ field[d][i] # "ok" /\ wire[d][i] = "applied"
      BY <1>1, <1>2, <2>1 DEF isCall
    <3>2. /\ field'[d] = [field[d] EXCEPT ![i] = "ok"] /\ wire'[d] = wire[d]
          /\ log'[d].gained = [calls |-> log[d].gained.calls + 1,
                               issued |-> log[d].gained.issued + Issued(d, i)]
      BY <1>1, <1>5, <1>7, <2>1 DEF Becomes, f
    <3> QED BY <1>0, <1>2, <3>1, <3>2, TallyMore DEF Sound
  <2>2. CASE ~isCall
    <3>1. log'[d].gained = log[d].gained
      BY <1>0, <1>1, <1>5, <1>7, <2>2 DEF Becomes
    <3>2. \A j \in FieldsOf(d) :
            /\ field'[d][j] = "ok" <=> field[d][j] = "ok"
                                       \/ (text[d].fields[j].op \notin Calls
                                           /\ field'[d][j] = "ok")
            /\ wire[d][j] = "applied" => wire'[d][j] = "applied"
      BY <1>2, <1>3, <1>7, <2>2 DEF Becomes, isCall
    <3> QED BY <1>0, <1>2, <3>1, <3>2, TallySame DEF Sound
  <2> QED BY <2>1, <2>2
<1>11. BudgetsConserved'
  BY <1>2, FreeStep
<1> QED BY <1>2, <1>5, <1>7, <1>8, <1>9, <1>10, <1>11, Assemble DEF Sound

(* The client leaves: what was out stays out, and nothing more goes out.   *)
LEMMA DisconnectStep ==
  ASSUME IInv, NEW d \in Documents, Disconnect(d)
  PROVE  IInv'
<1> DEFINE f == [j \in FieldsOf(d) |->
                   IF field[d][j] \in {"waiting", "calling"} THEN "dropped" ELSE field[d][j]]
<1>0. /\ TypeInv /\ TypeOK /\ Sound(d) /\ pc[d] \in {"reading", "executing"}
      /\ field[d] \in [FieldsOf(d) -> Statuses]
      /\ UNCHANGED <<cfgs, left, refilled, text, authGen, liveGen, wire, answer, log>>
  BY PartTypes DEF IInv, TypeInv, Disconnect, budgets
<1>1. f \in [FieldsOf(d) -> Statuses] /\ field' = [field EXCEPT ![d] = f]
  <2>1. f \in [FieldsOf(d) -> Statuses]
    BY <1>0 DEF Statuses
  <2>2. field' = [field EXCEPT ![d] = f]
    BY <1>0 DEF Disconnect, TypeOK
  <2> QED BY <2>1, <2>2
<1>2. \A j \in FieldsOf(d) : /\ f[j] = "ok" <=> field[d][j] = "ok"
                             /\ f[j] \notin {"waiting", "calling"}
  OBVIOUS
<1> HIDE DEF f
<1>3. StepOf(d, "gone", authGen[d], f, liveGen[d], wire[d], answer[d], log[d])
  BY <1>0, <1>1, PartTypes DEF StepOf, Disconnect
<1>4. /\ TypeInv' /\ Becomes(d, "gone", authGen[d], f, liveGen[d], wire[d], answer[d], log[d])
      /\ \A e \in Documents \ {d} : SameDocument(e)
      /\ FieldsOf(d)' = FieldsOf(d) /\ Token(d)' = Token(d)
  <2>1. Token(d)' = Token(d)
    BY <1>0 DEF Token
  <2>2. "gone" \in Pcs /\ left' \in [Names -> Nat]
    BY <1>0, PartTypes DEF Pcs
  <2> QED BY <1>0, <1>1, <1>3, <2>1, <2>2, PartTypes, StepEffect
<1>5. Progress(d)'
  <2>1. Admitted(d)'
    BY <1>0 DEF Admitted, Progress, Sound
  <2> QED BY <1>0, <1>4, <2>1 DEF Becomes, Progress, Sound
<1>6. InTurn(d)' /\ \A j \in FieldsOf(d)' : FieldSound(d, j)'
  <2>1. \A j : Called(d, j)' <=> Called(d, j)
    BY <1>0 DEF Called
  <2>2. \A j : AllowedByRest(d, j) => AllowedByRest(d, j)'
    BY <1>0, <1>4 DEF AllowedByRest
  <2>3. InTurn(d)'
    BY <1>0, <1>2, <1>4, <2>1 DEF Sound, InTurn, Becomes
  <2>4. ASSUME NEW j \in FieldsOf(d) PROVE FieldSound(d, j)'
    BY <1>0, <1>2, <1>4, <2>1, <2>2 DEF Sound, FieldSound, Becomes
  <2> QED BY <1>4, <2>3, <2>4
<1>7. RecordedOnce(d)' /\ Tallied(d)'
  <2>1. RecordedOnce(d)'
    BY <1>0, <1>4 DEF Becomes, RecordedOnce, Sound
  <2>2. \A j \in FieldsOf(d) : /\ field'[d][j] = "ok" <=> field[d][j] = "ok"
                               /\ wire[d][j] = "applied" => wire'[d][j] = "applied"
    BY <1>0, <1>2, <1>4 DEF Becomes
  <2>3. Tallied(d)'
    BY <1>0, <2>2, TallySame DEF Sound
  <2> QED BY <2>1, <2>3
<1>8. BudgetsConserved'
  BY <1>0, FreeStep
<1> QED BY <1>0, <1>4, <1>5, <1>6, <1>7, <1>8, Assemble DEF Sound

LEMMA ConsoleStep ==
  ASSUME IInv, NEW d \in Documents, NEW i \in FieldsOf(d), Console(d, i)
  PROVE  IInv'
<1>0. /\ TypeInv /\ TypeOK /\ Sound(d) /\ wire[d] \in [FieldsOf(d) -> Wires] /\ wire[d][i] = "sent"
      /\ UNCHANGED <<cfgs, left, refilled, pc, text, authGen, field, liveGen, answer, log>>
  BY PartTypes DEF IInv, TypeInv, Console, budgets
<1>1. PICK w \in [FieldsOf(d) -> Wires] :
        /\ wire' = [wire EXCEPT ![d] = w] /\ w[i] \in {"applied", "refused"}
        /\ \A j \in FieldsOf(d) \ {i} : w[j] = wire[d][j]
  <2>1. PICK result \in {"applied", "refused"} : wire' = [wire EXCEPT ![d][i] = result]
    BY DEF Console
  <2> DEFINE w == [wire[d] EXCEPT ![i] = result]
  <2>2. /\ w \in [FieldsOf(d) -> Wires] /\ w[i] = result
        /\ \A j \in FieldsOf(d) \ {i} : w[j] = wire[d][j]
    BY <1>0 DEF Wires
  <2>3. wire' = [wire EXCEPT ![d] = w]
    BY <2>1
  <2> HIDE DEF w
  <2> QED BY <2>2, <2>3
<1>2. StepOf(d, pc[d], authGen[d], field[d], liveGen[d], w, answer[d], log[d])
  BY <1>0, <1>1, PartTypes DEF StepOf
<1>3. /\ TypeInv' /\ Becomes(d, pc[d], authGen[d], field[d], liveGen[d], w, answer[d], log[d])
      /\ \A e \in Documents \ {d} : SameDocument(e)
      /\ FieldsOf(d)' = FieldsOf(d) /\ Token(d)' = Token(d)
  <2>1. Token(d)' = Token(d)
    BY <1>0 DEF Token
  <2>2. left' \in [Names -> Nat]
    BY <1>0, PartTypes
  <2> QED BY <1>0, <1>1, <1>2, <2>1, <2>2, PartTypes, StepEffect
<1>4. /\ \A j \in FieldsOf(d) : Called(d, j)' <=> Called(d, j)
      /\ \A j \in FieldsOf(d) : wire[d][j] = "applied" => wire'[d][j] = "applied"
      /\ \A j : AllowedByRest(d, j) => AllowedByRest(d, j)'
  <2>1. wire'[d] = w
    BY <1>3 DEF Becomes
  <2> QED BY <1>0, <1>1, <1>3, <2>1 DEF Called, AllowedByRest
<1>5. Progress(d)' /\ RecordedOnce(d)'
  <2>1. Admitted(d) => Admitted(d)'
    BY <1>0 DEF Admitted
  <2> QED BY <1>0, <1>3, <2>1 DEF Progress, RecordedOnce, Sound
<1>6. InTurn(d)' /\ \A j \in FieldsOf(d)' : FieldSound(d, j)'
  <2>1. InTurn(d)'
    BY <1>0, <1>3, <1>4 DEF Sound, InTurn
  <2>2. ASSUME NEW j \in FieldsOf(d) PROVE FieldSound(d, j)'
    BY <1>0, <1>3, <1>4 DEF Sound, FieldSound
  <2> QED BY <1>3, <2>1, <2>2
<1>7. Tallied(d)'
  BY <1>0, <1>4, TallySame DEF Sound
<1>8. BudgetsConserved'
  BY <1>0, FreeStep
<1> QED BY <1>0, <1>3, <1>5, <1>6, <1>7, <1>8, Assemble DEF Sound

-----------------------------------------------------------------------------
(* The steps that no document takes.                                       *)

(* A new Live starts with full budgets, and no field has a receipt of it.  *)
LEMMA ReloadStep ==
  ASSUME IInv, NEW c \in Configs, Reload(c)
  PROVE  IInv'
<1>0. /\ TypeInv /\ TypeOK /\ Gen \in Nat \ {0} /\ cfgs \in Seq(Configs) /\ c \in Config
      /\ Gen < MaxGen /\ cfgs' = Append(cfgs, c)
      /\ left' = [n \in Names |-> TokenCap(c, n)] /\ refilled' = [n \in Names |-> 0]
      /\ UNCHANGED <<pc, text, authGen, field, liveGen, wire, answer, log>>
  BY InstalledConfigs, ConfigAssumption DEF IInv, TypeInv, TypeOK, Reload
<1>1. /\ cfgs' \in Seq(Configs) /\ Gen' = Gen + 1 /\ Live' = c
      /\ \A g \in 1 .. Gen : cfgs'[g] = cfgs[g]
  BY <1>0 DEF Gen, Live
<1>2. left' \in [Names -> Nat] /\ refilled' \in [Names -> Nat]
  BY <1>0, TokenCapType
<1>3. /\ \A d \in Documents : FieldsOf(d)' = FieldsOf(d) /\ SameDocument(d)
      /\ Places' = Places
  BY <1>0 DEF FieldsOf, Places, SameDocument
<1>4. 0 .. Gen \subseteq 0 .. (Gen + 1) /\ Gen + 1 \in 1 .. (MaxGen + 1)
  BY <1>0, BoundAssumption
<1>5. TypeInv'
  <2>1. /\ authGen' \in [Documents -> 0 .. Gen'] /\ Gen' \in 1 .. (MaxGen + 1)
        /\ \A d \in Documents : liveGen'[d] \in [FieldsOf(d)' -> 0 .. Gen']
    BY <1>0, <1>1, <1>3, <1>4 DEF TypeOK
  <2>2. /\ \A d \in Documents : /\ field'[d] \in [FieldsOf(d)' -> Statuses]
                                /\ wire'[d] \in [FieldsOf(d)' -> Wires]
        /\ DOMAIN field' = Documents /\ DOMAIN liveGen' = Documents /\ DOMAIN wire' = Documents
    BY <1>0, <1>3 DEF TypeOK, Wires
  <2> QED BY <1>0, <1>1, <1>2, <2>1, <2>2 DEF TypeInv, TypeOK, Wires
<1>6. ASSUME NEW d \in Documents PROVE Sound(d)'
  <2>1. Sound(d)
    BY DEF IInv
  <2> QED BY <1>0, <1>1, <1>3, <2>1, Frame
<1>7. ASSUME NEW n \in Names, TokenCap(c, n) # 0
      PROVE  left'[n] + Cardinality(ChargedTo(n)') = TokenCap(c, n) + refilled'[n]
  <2>1. \A p \in Places : liveGen[p[1]][p[2]] # Gen + 1
    <3>1. \A d \in Documents : liveGen[d] \in [FieldsOf(d) -> 0 .. Gen]
      BY <1>0 DEF TypeOK
    <3> QED BY <1>0, <3>1, PlaceType
  <2>2. ChargedTo(n)' = {}
    BY <1>0, <1>1, <1>3, <2>1 DEF ChargedTo
  <2>3. TokenCap(c, n) \in Nat
    BY <1>0, TokenCapType
  <2> QED BY <1>0, <2>2, <2>3, FS_EmptySet
<1>8. BudgetsConserved'
  BY <1>1, <1>7 DEF BudgetsConserved
<1> QED BY <1>5, <1>6, <1>8 DEF IInv

LEMMA ReplenishStep ==
  ASSUME IInv, NEW n \in Names, Replenish(n)
  PROVE  IInv'
<1>0. /\ TypeInv /\ TypeOK /\ BudgetsConserved /\ left[n] < TokenCap(Live, n)
      /\ left' = [left EXCEPT ![n] = left[n] + 1]
      /\ refilled' = [refilled EXCEPT ![n] = refilled[n] + 1]
      /\ UNCHANGED <<cfgs, pc, text, authGen, field, liveGen, wire, answer, log>>
  BY DEF IInv, TypeInv, Replenish
<1>1. /\ Gen' = Gen /\ Live' = Live /\ Places' = Places
      /\ \A d \in Documents : FieldsOf(d)' = FieldsOf(d) /\ SameDocument(d)
      /\ \A m : ChargedTo(m)' = ChargedTo(m)
  BY <1>0 DEF Gen, Live, Places, FieldsOf, SameDocument, ChargedTo, Token
<1>2. left' \in [Names -> Nat] /\ refilled' \in [Names -> Nat]
  BY <1>0 DEF TypeOK
<1>3. TypeInv'
  BY <1>0, <1>1, <1>2 DEF TypeInv, TypeOK
<1>4. ASSUME NEW d \in Documents PROVE Sound(d)'
  <2>1. Sound(d)
    BY DEF IInv
  <2> QED BY <1>0, <1>1, <2>1, Frame
<1>5. ASSUME NEW m \in Names, TokenCap(Live, m) # 0
      PROVE  left'[m] + Cardinality(ChargedTo(m)) = TokenCap(Live, m) + refilled'[m]
  <2>1. /\ left[m] + Cardinality(ChargedTo(m)) = TokenCap(Live, m) + refilled[m]
        /\ left[m] \in Nat /\ refilled[m] \in Nat
        /\ Cardinality(ChargedTo(m)) \in Nat /\ TokenCap(Live, m) \in Nat
    BY <1>0, <1>5, PlacesAreFinite, InstalledConfigs DEF BudgetsConserved, TypeOK
  <2>2. CASE m = n
    <3>1. left'[m] = left[m] + 1 /\ refilled'[m] = refilled[m] + 1
      BY <1>0, <2>2 DEF TypeOK
    <3> QED BY <2>1, <3>1
  <2>3. CASE m # n
    <3>1. left'[m] = left[m] /\ refilled'[m] = refilled[m]
      BY <1>0, <2>3 DEF TypeOK
    <3> QED BY <2>1, <3>1
  <2> QED BY <2>2, <2>3
<1>6. BudgetsConserved'
  BY <1>1, <1>5 DEF BudgetsConserved
<1> QED BY <1>3, <1>4, <1>6 DEF IInv

LEMMA StutterStep ==
  ASSUME IInv, UNCHANGED vars
  PROVE  IInv'
<1>1. /\ TypeInv /\ Gen' = Gen /\ Live' = Live /\ Places' = Places
      /\ \A d \in Documents : FieldsOf(d)' = FieldsOf(d) /\ SameDocument(d)
  BY DEF vars, Gen, Live, Places, FieldsOf, SameDocument, IInv
<1>2. TypeInv'
  BY <1>1 DEF TypeInv, TypeOK, vars
<1>3. ASSUME NEW d \in Documents PROVE Sound(d)'
  <2>1. Sound(d)
    BY DEF IInv
  <2> QED BY <1>1, <2>1, Frame DEF vars
<1>4. BudgetsConserved'
  BY FreeStep DEF vars
<1> QED BY <1>2, <1>3, <1>4 DEF IInv

-----------------------------------------------------------------------------
LEMMA InitIInv ==
  ASSUME Init
  PROVE  IInv
<1>1. PICK c \in Configs : /\ cfgs = <<c>>
                           /\ left = [n \in Names |-> TokenCap(c, n)]
  BY DEF Init
<1>2. c \in Config /\ cfgs \in Seq(Configs) /\ Gen = 1 /\ Live = c
  BY <1>1, ConfigAssumption DEF Gen, Live
<1>3. /\ refilled = [n \in Names |-> 0] /\ pc = [d \in Documents |-> "idle"]
      /\ text \in [Documents -> Texts] /\ authGen = [d \in Documents |-> 0]
      /\ field = [d \in Documents |-> [i \in FieldsOf(d) |-> "waiting"]]
      /\ liveGen = [d \in Documents |-> [i \in FieldsOf(d) |-> 0]]
      /\ wire = [d \in Documents |-> [i \in FieldsOf(d) |-> "none"]]
      /\ answer = [d \in Documents |-> "none"]
      /\ log = [d \in Documents |->
                  [audit |-> <<>>, counted |-> <<>>, gained |-> [calls |-> 0, issued |-> 0]]]
  BY DEF Init
<1>4. left \in [Names -> Nat] /\ refilled \in [Names -> Nat] /\ Gen \in 1 .. (MaxGen + 1)
  BY <1>1, <1>2, <1>3, TokenCapType, BoundAssumption
<1>5. log \in [Documents -> Logs]
  <2>1. <<>> \in Seq(LogEntry)
    OBVIOUS
  <2> QED BY <1>3, <2>1 DEF Logs
<1>6. TypeInv
  <2>1. /\ DOMAIN field = Documents /\ DOMAIN liveGen = Documents /\ DOMAIN wire = Documents
        /\ \A d \in Documents : /\ field[d] \in [FieldsOf(d) -> Statuses]
                                /\ liveGen[d] \in [FieldsOf(d) -> 0 .. Gen]
                                /\ wire[d] \in [FieldsOf(d) -> Wires]
    BY <1>2, <1>3 DEF Statuses, Wires
  <2>2. /\ pc \in [Documents -> Pcs] /\ answer \in [Documents -> DocumentOutcomes]
        /\ authGen \in [Documents -> 0 .. Gen]
    BY <1>2, <1>3 DEF Pcs, DocumentOutcomes
  <2>3. /\ field = [d \in Documents |-> field[d]] /\ liveGen = [d \in Documents |-> liveGen[d]]
        /\ wire = [d \in Documents |-> wire[d]]
    BY <1>3
  <2> QED BY <1>2, <1>3, <1>4, <1>5, <2>1, <2>2, <2>3
          DEF TypeInv, TypeOK, Pcs, Wires, Logs
<1>7. ASSUME NEW d \in Documents PROVE Sound(d)
  <2>1. /\ pc[d] = "idle" /\ authGen[d] = 0 /\ answer[d] = "none"
        /\ \A i \in FieldsOf(d) : /\ field[d][i] = "waiting" /\ liveGen[d][i] = 0
                                  /\ wire[d][i] = "none"
        /\ log[d].audit = <<>> /\ log[d].counted = <<>>
        /\ log[d].gained.calls = 0 /\ log[d].gained.issued = 0
    BY <1>3
  <2>2. Progress(d) /\ InTurn(d) /\ RecordedOnce(d)
        /\ \A i \in FieldsOf(d) : FieldSound(d, i)
    BY <2>1 DEF Progress, InTurn, RecordedOnce, FieldSound, Called
  <2>3. Tallied(d)
    <3> DEFINE n == Len(text[d].fields)
               s == [k \in 0 .. n |-> 0]
    <3>1. FieldsOf(d) = 1 .. n /\ n \in Nat
      BY <1>6, TextType DEF TypeInv
    <3>2. CameBack(d) = {} /\ Cardinality(CameBack(d)) = 0
      BY <2>1, FS_EmptySet DEF CameBack
    <3>3. s \in [0 .. n -> 0 .. 0] /\ s[n] = 0 /\ s[0] = 0
      BY <3>1
    <3>4. ASSUME NEW k \in FieldsOf(d) PROVE s[k] = s[k - 1] + 0
      BY <3>1
    <3>5. Totals(d, s)
      <4> HIDE DEF s, n
      <4> QED BY <3>2, <3>3, <3>4 DEF Totals
    <3> HIDE DEF s
    <3> QED BY <2>1, <3>2, <3>3, <3>5 DEF Tallied
  <2> QED BY <2>2, <2>3 DEF Sound
<1>8. BudgetsConserved
  <2>1. ASSUME NEW n \in Names
        PROVE  ChargedTo(n) = {} /\ left[n] = TokenCap(Live, n) /\ refilled[n] = 0
    BY <1>1, <1>2, <1>3, PlaceType DEF ChargedTo
  <2>2. \A n \in Names : TokenCap(Live, n) \in Nat
    BY <1>2, TokenCapType
  <2> QED BY <2>1, <2>2, FS_EmptySet DEF BudgetsConserved
<1> QED BY <1>6, <1>7, <1>8 DEF IInv

LEMMA NextIInv ==
  ASSUME IInv, [Next]_vars
  PROVE  IInv'
<1>1. ASSUME NEW d \in Documents, Admit(d) PROVE IInv'
  BY <1>1, AdmitStep
<1>2. ASSUME NEW d \in Documents, Unreadable(d) PROVE IInv'
  BY <1>2, UnreadableStep
<1>3. ASSUME NEW d \in Documents, RefuseDocument(d) \/ SkipAll(d) PROVE IInv'
  BY <1>3, RefuseDocumentStep
<1>4. ASSUME NEW d \in Documents, Execute(d) PROVE IInv'
  BY <1>4, ExecuteStep
<1>5. ASSUME NEW d \in Documents, Run(d) PROVE IInv'
  <2>1. PICK i \in FieldsOf(d) :
          \/ Info(d, i) \/ RefuseScopeOrSite(d, i) \/ RefuseQuota(d, i) \/ RefuseInput(d, i)
          \/ Send(d, i) \/ Succeed(d, i) \/ Fail(d, i) \/ GiveUp(d, i)
    BY <1>5 DEF Run
  <2>2. CASE Info(d, i) \/ Succeed(d, i)
    BY <2>2, ResolvedStep
  <2>3. CASE RefuseScopeOrSite(d, i) \/ RefuseQuota(d, i) \/ Fail(d, i) \/ GiveUp(d, i)
    BY <2>3, RefuseStep
  <2>4. CASE RefuseInput(d, i)
    BY <2>4, RefuseInputStep
  <2>5. CASE Send(d, i)
    BY <2>5, SendStep
  <2> QED BY <2>1, <2>2, <2>3, <2>4, <2>5
<1>6. ASSUME NEW d \in Documents, Disconnect(d) PROVE IInv'
  BY <1>6, DisconnectStep
<1>7. ASSUME NEW d \in Documents, NEW i \in FieldsOf(d), Console(d, i) PROVE IInv'
  BY <1>7, ConsoleStep
<1>8. ASSUME NEW c \in Configs, Reload(c) PROVE IInv'
  BY <1>8, ReloadStep
<1>9. ASSUME NEW n \in Names, Replenish(n) PROVE IInv'
  BY <1>9, ReplenishStep
<1>10. CASE UNCHANGED vars
  BY <1>10, StutterStep
<1> QED BY <1>1, <1>2, <1>3, <1>4, <1>5, <1>6, <1>7, <1>8, <1>9, <1>10 DEF Next

LEMMA Invariance == Spec => []IInv
<1>1. Init => IInv
  BY InitIInv
<1>2. IInv /\ [Next]_vars => IInv'
  BY NextIInv
<1> QED BY <1>1, <1>2, PTL DEF Spec

-----------------------------------------------------------------------------
(* The theorems.                                                           *)

(* Every variable keeps its type for any number of documents and fields:   *)
(* no field overdraws a budget (Caller::charge, state.rs:134), and no      *)
(* document has a Caller of a configuration that was not installed.        *)
THEOREM Typing == Spec => []TypeOK
<1>1. IInv => TypeOK
  BY DEF IInv, TypeInv
<1> QED BY Invariance, <1>1, PTL

(* "Each upstream call is charged against the caller's quota individually" *)
(* (graphql.rs:8): whatever many documents ask for at once, the calls made *)
(* on a budget are no more than it has given.                              *)
THEOREM Quota == Spec => []CallsWithinQuota
<1>1. ASSUME IInv PROVE CallsWithinQuota
  <2>0. TypeOK /\ \A n \in Names : TokenCap(Live, n) \in Nat
    BY <1>1, InstalledConfigs DEF IInv, TypeInv
  <2>1. ASSUME NEW n \in Names, TokenCap(Live, n) # 0
        PROVE  Cardinality(CallsOf(n)) <= TokenCap(Live, n) + refilled[n]
    <3>1. CallsOf(n) \subseteq ChargedTo(n)
      BY DEF CallsOf, ChargedTo
    <3>2. IsFiniteSet(ChargedTo(n)) /\ Cardinality(ChargedTo(n)) \in Nat
      BY <2>0, PlacesAreFinite
    <3>3. /\ Cardinality(CallsOf(n)) \in Nat
          /\ Cardinality(CallsOf(n)) <= Cardinality(ChargedTo(n))
      BY <3>1, <3>2, FS_Subset, FS_CardinalityType
    <3>4. left[n] \in Nat /\ refilled[n] \in Nat
      BY <2>0 DEF TypeOK
    <3>5. left[n] + Cardinality(ChargedTo(n)) = TokenCap(Live, n) + refilled[n]
      BY <1>1, <2>1 DEF IInv, BudgetsConserved
    <3> QED BY <2>0, <3>2, <3>3, <3>4, <3>5
  <2> QED BY <2>1 DEF CallsWithinQuota
<1> QED BY Invariance, <1>1, PTL

(* No resolver reaches anything REST does not (graphql.rs:3-6): each call  *)
(* has the scope, the site and the ceilings of the Caller's configuration. *)
THEOREM Reach == Spec => []AddsNoReach
<1>1. IInv => AddsNoReach
  BY DEF IInv, Sound, FieldSound, AddsNoReach
<1> QED BY Invariance, <1>1, PTL

(* The fields of a mutation reach the console one by one, and none after   *)
(* the first that the console did not carry out (graphql.rs:186-252).      *)
THEOREM InOrder == Spec => []MutationsStopAtAFailure
<1>1. IInv => MutationsStopAtAFailure
  BY DEF IInv, Sound, InTurn, FieldSound, MutationsStopAtAFailure
<1> QED BY Invariance, <1>1, PTL

(* What the client is told (routes.rs:134-158) is what became of the       *)
(* calls: all carried out, none made, or exactly one field failed.         *)
THEOREM Answers == Spec => []AnswerTellsTheDocument
<1>1. ASSUME IInv, NEW d \in Documents, pc[d] = "done"
      PROVE  /\ answer[d] = "ok" =>
                  \A i \in FieldsOf(d) : text[d].fields[i].op \in Calls => wire[d][i] = "applied"
             /\ answer[d] # "ok" =>
                  \/ \A i \in FieldsOf(d) : ~Called(d, i) /\ field[d][i] = "waiting"
                  \/ /\ Cardinality(Failed(d)) = 1
                     /\ \A i \in FieldsOf(d) : field[d][i] \in {"ok", "failed", "dropped"}
  <2>0. Progress(d) /\ \A i \in FieldsOf(d) : FieldSound(d, i)
    BY <1>1 DEF IInv, Sound
  <2>1. CASE answer[d] = "ok" /\ \A i \in FieldsOf(d) : field[d][i] = "ok"
    BY <2>0, <2>1 DEF FieldSound
  <2>2. CASE /\ answer[d] \in {"unreadable", "graphql_errors"}
             /\ \A i \in FieldsOf(d) : field[d][i] = "waiting"
    BY <2>0, <2>2 DEF FieldSound
  <2>3. CASE /\ answer[d] = "graphql_errors"
             /\ \E f \in FieldsOf(d) :
                  /\ field[d][f] = "failed"
                  /\ \A i \in FieldsOf(d) \ {f} : field[d][i] \in {"ok", "dropped"}
    <3>1. PICK f \in FieldsOf(d) :
            /\ field[d][f] = "failed"
            /\ \A i \in FieldsOf(d) \ {f} : field[d][i] \in {"ok", "dropped"}
      BY <2>3
    <3>2. Failed(d) = {f}
      BY <3>1 DEF Failed
    <3> QED BY <2>3, <3>1, <3>2, FS_Singleton
  <2> QED BY <1>1, <2>0, <2>1, <2>2, <2>3 DEF Progress
<1>2. IInv => AnswerTellsTheDocument
  BY <1>1 DEF AnswerTellsTheDocument
<1> QED BY Invariance, <1>2, PTL

(* "Vouchers actually issued" (metrics.rs:37): the counters have exactly   *)
(* the calls that came back and the vouchers of the creates among them.    *)
THEOREM Vouchers == Spec => []VouchersAreCounted
<1>1. IInv => VouchersAreCounted
  BY DEF IInv, Sound, VouchersAreCounted
<1> QED BY Invariance, <1>1, PTL

(* One count and one audit line per document that ends, and nothing for    *)
(* one that does not (routes.rs:134-158, state.rs:140).                    *)
THEOREM RecordedAsAWhole == Spec => []DocumentRecordedOnce
<1>1. IInv => DocumentRecordedOnce
  BY DEF IInv, Sound, DocumentRecordedOnce
<1> QED BY Invariance, <1>1, PTL

(* A document that executes always waits for a call, which the timeout of  *)
(* the client ends (upstream.rs:34), or has a field that may start: the    *)
(* first that has not succeeded (graphql.rs:145).                          *)
THEOREM NoHang == Spec => []ExecutingDocumentsGoOn
<1>1. ASSUME IInv, NEW d \in Documents, pc[d] = "executing"
      PROVE  \E i \in FieldsOf(d) : field[d][i] = "calling" \/ Startable(d, i)
  <2> DEFINE S == {i \in FieldsOf(d) : field[d][i] # "ok"}
  <2>1. /\ FieldsOf(d) = 1 .. Len(text[d].fields) /\ Len(text[d].fields) \in Nat
        /\ \A i \in FieldsOf(d) : field[d][i] \in {"waiting", "calling", "ok"}
        /\ \E i \in FieldsOf(d) : field[d][i] # "ok"
    <3>1. TypeOK /\ Progress(d)
      BY <1>1 DEF IInv, TypeInv, Sound
    <3> QED BY <1>1, <3>1, TextType DEF Progress
  <2>2. S \in SUBSET Nat /\ S # {}
    BY <2>1
  <2>3. PICK m \in S : \A k \in S : m <= k
    <3> HIDE DEF S
    <3> QED BY <2>2, LeastElement
  <2>4. ASSUME NEW j \in 1 .. (m - 1) PROVE field[d][j] = "ok"
    <3>1. j \in FieldsOf(d) /\ ~(m <= j)
      BY <2>1, <2>3
    <3> QED BY <2>3, <3>1
  <2>5. m \in FieldsOf(d) /\ field[d][m] \in {"waiting", "calling"}
    BY <2>1, <2>3
  <2> QED BY <2>4, <2>5 DEF Startable
<1>2. IInv => ExecutingDocumentsGoOn
  BY <1>1 DEF ExecutingDocumentsGoOn
<1> QED BY Invariance, <1>2, PTL

-----------------------------------------------------------------------------
(***************************************************************************)
(* Every step is a step of Mediation for one field, or for none. A         *)
(* document that fails moves one field only: those it drops were neither   *)
(* decided nor told.                                                       *)
(***************************************************************************)
Unmoved(d, i) ==
  Verdict(d, i)' = Verdict(d, i) /\ Acted(d, i)' = Acted(d, i) /\ Told(d, i)' = Told(d, i)

Mediated(d, i) ==
  \/ Unmoved(d, i)
  \/ /\ Verdict(d, i) = "open" /\ Verdict(d, i)' = "granted"
     /\ Acted(d, i)' = Acted(d, i) /\ Told(d, i)' = Told(d, i)
  \/ /\ Verdict(d, i) = "open" /\ Verdict(d, i)' = "denied" /\ Told(d, i)' = "refusal"
     /\ Acted(d, i)' = Acted(d, i)
  \/ /\ Verdict(d, i) = "granted" /\ ~Acted(d, i) /\ Acted(d, i)'
     /\ Verdict(d, i)' = Verdict(d, i) /\ Told(d, i)' = Told(d, i)
  \/ /\ Verdict(d, i) = "granted" /\ Told(d, i) = "nothing"
     /\ Told(d, i)' = "failure" \/ (Told(d, i)' = "success" /\ Acted(d, i))
     /\ Verdict(d, i)' = Verdict(d, i) /\ Acted(d, i)' = Acted(d, i)

LEMMA UnmovedStep ==
  ASSUME \A p \in Slots : Unmoved(p[1], p[2])
  PROVE  UNCHANGED M!vars
BY DEF Unmoved, M!vars

LEMMA MediatedStep ==
  ASSUME NEW d, NEW i, <<d, i>> \in Slots, Mediated(d, i),
         \A p \in Slots \ {<<d, i>>} : Unmoved(p[1], p[2])
  PROVE  [M!Next]_M!vars
<1> DEFINE r == <<d, i>>
           V == [p \in Slots |-> Verdict(p[1], p[2])]
           A == [p \in Slots |-> Acted(p[1], p[2])]
           T == [p \in Slots |-> Told(p[1], p[2])]
<1>0. /\ r \in Slots /\ r[1] = d /\ r[2] = i
      /\ \A p \in Slots : p # r => Verdict(p[1], p[2])' = Verdict(p[1], p[2])
      /\ \A p \in Slots : p # r => Acted(p[1], p[2])' = Acted(p[1], p[2])
      /\ \A p \in Slots : p # r => Told(p[1], p[2])' = Told(p[1], p[2])
  BY DEF Unmoved
<1>1. /\ V[r] = Verdict(d, i) /\ A[r] = Acted(d, i) /\ T[r] = Told(d, i)
      /\ V' = [V EXCEPT ![r] = Verdict(d, i)']
      /\ A' = [A EXCEPT ![r] = Acted(d, i)']
      /\ T' = [T EXCEPT ![r] = Told(d, i)']
  <2> HIDE DEF r
  <2>1. V[r] = Verdict(d, i) /\ A[r] = Acted(d, i) /\ T[r] = Told(d, i)
    BY <1>0
  <2>2. V' = [V EXCEPT ![r] = Verdict(d, i)']
    BY <1>0
  <2>3. A' = [A EXCEPT ![r] = Acted(d, i)']
    BY <1>0
  <2>4. T' = [T EXCEPT ![r] = Told(d, i)']
    BY <1>0
  <2> QED BY <2>1, <2>2, <2>3, <2>4
<1>2. /\ Verdict(d, i)' = Verdict(d, i) => V' = V
      /\ Acted(d, i)' = Acted(d, i) => A' = A
      /\ Told(d, i)' = Told(d, i) => T' = T
  BY DEF Unmoved
<1>3. CASE Unmoved(d, i)
  BY <1>3, UnmovedStep
<1>4. CASE /\ Verdict(d, i) = "open" /\ Verdict(d, i)' = "granted"
           /\ Acted(d, i)' = Acted(d, i) /\ Told(d, i)' = Told(d, i)
  <2>1. V[r] = "open" /\ V' = [V EXCEPT ![r] = "granted"] /\ A' = A /\ T' = T
    <3> HIDE DEF V, A, T, r
    <3> QED BY <1>1, <1>2, <1>4
  <2>2. M!Grant(r)
    BY <2>1 DEF M!Grant
  <2> QED BY <2>2 DEF M!Next
<1>5. CASE /\ Verdict(d, i) = "open" /\ Verdict(d, i)' = "denied" /\ Told(d, i)' = "refusal"
           /\ Acted(d, i)' = Acted(d, i)
  <2>1. /\ V[r] = "open" /\ V' = [V EXCEPT ![r] = "denied"] /\ A' = A
        /\ T' = [T EXCEPT ![r] = "refusal"]
    <3> HIDE DEF V, A, T, r
    <3> QED BY <1>1, <1>2, <1>5
  <2>2. M!Deny(r)
    BY <2>1 DEF M!Deny
  <2> QED BY <2>2 DEF M!Next
<1>6. CASE /\ Verdict(d, i) = "granted" /\ ~Acted(d, i) /\ Acted(d, i)'
           /\ Verdict(d, i)' = Verdict(d, i) /\ Told(d, i)' = Told(d, i)
  <2>1. V[r] = "granted" /\ ~A[r] /\ V' = V /\ T' = T
    <3> HIDE DEF V, A, T, r
    <3> QED BY <1>1, <1>2, <1>6
  <2>2. A' = [A EXCEPT ![r] = TRUE]
    <3>1. Acted(d, i)' = TRUE
      BY <1>6 DEF Acted
    <3> HIDE DEF V, A, T, r
    <3> QED BY <1>1, <3>1
  <2>3. M!Act(r)
    BY <2>1, <2>2 DEF M!Act
  <2> QED BY <2>3 DEF M!Next
<1>7. CASE /\ Verdict(d, i) = "granted" /\ Told(d, i) = "nothing"
           /\ Told(d, i)' = "failure" \/ (Told(d, i)' = "success" /\ Acted(d, i))
           /\ Verdict(d, i)' = Verdict(d, i) /\ Acted(d, i)' = Acted(d, i)
  <2>1. /\ V[r] = "granted" /\ T[r] = "nothing" /\ V' = V /\ A' = A
        /\ T' = [T EXCEPT ![r] = Told(d, i)']
        /\ Told(d, i)' \in {"success", "failure"} /\ (Told(d, i)' = "success" => A[r])
    <3> HIDE DEF V, A, T, r
    <3> QED BY <1>1, <1>2, <1>7
  <2>2. M!Tell(r)
    BY <2>1 DEF M!Tell
  <2> QED BY <2>2 DEF M!Next
<1> QED BY <1>3, <1>4, <1>5, <1>6, <1>7 DEF Mediated

(* A document that is not touched keeps its part of Mediation's state.     *)
LEMMA UnmovedWhen ==
  ASSUME NEW e, UNCHANGED text, field'[e] = field[e], wire'[e] = wire[e]
  PROVE  \A i : Unmoved(e, i)
BY DEF Unmoved, Verdict, Acted, Told, Called, FieldsOf

(* A step of one field, and what it does to the others of its document.    *)
LEMMA FieldMoves ==
  ASSUME IInv, NEW d \in Documents, NEW i \in FieldsOf(d), UNCHANGED text, Mediated(d, i),
         \A e \in Documents \ {d} : field'[e] = field[e] /\ wire'[e] = wire[e],
         \A j \in FieldsOf(d) \ {i} : Unmoved(d, j)
  PROVE  [M!Next]_M!vars
<1>1. <<d, i>> \in Slots
  BY DEF IInv, TypeInv, TypeOK, Slots, FieldsOf
<1>2. ASSUME NEW p \in Slots, p # <<d, i>> PROVE Unmoved(p[1], p[2])
  <2>1. p[1] \in Documents /\ p = <<p[1], p[2]>>
    BY DEF Slots
  <2>2. CASE p[1] # d
    BY <2>1, <2>2, UnmovedWhen
  <2>3. CASE p[1] = d /\ p[2] \in FieldsOf(d)
    BY <1>2, <2>1, <2>3
  <2>4. CASE p[1] = d /\ p[2] \notin FieldsOf(d)
    BY <2>4 DEF Unmoved, Verdict, Acted, Told, FieldsOf
  <2> QED BY <2>2, <2>3, <2>4
<1> QED BY <1>1, <1>2, MediatedStep

LEMMA FailedMediates ==
  ASSUME IInv, NEW d \in Documents, NEW i \in FieldsOf(d), NEW before,
         pc[d] = "executing", field[d][i] \in {"waiting", "calling"},
         FailField(d, i, before), UNCHANGED <<text, wire>>
  PROVE  [M!Next]_M!vars
<1>1. /\ TypeOK /\ Sound(d) /\ FieldsOf(d)' = FieldsOf(d)
      /\ \A j : Called(d, j)' <=> Called(d, j)
  BY DEF IInv, TypeInv, FieldsOf, Called
<1>2. /\ \A e \in Documents \ {d} : field'[e] = field[e] /\ wire'[e] = wire[e]
      /\ field'[d] = [j \in FieldsOf(d) |->
                        IF j = i THEN "failed"
                        ELSE IF field[d][j] \in {"waiting", "calling"} THEN "dropped"
                        ELSE field[d][j]]
  BY <1>1 DEF FailField, TypeOK
<1>3. ASSUME NEW j \in FieldsOf(d), j # i PROVE Unmoved(d, j)
  <2>1. field[d][j] \in {"waiting", "calling", "ok"}
    BY <1>1 DEF Sound, Progress
  <2>2. field'[d][j] = IF field[d][j] = "ok" THEN "ok" ELSE "dropped"
    BY <1>2, <1>3, <2>1
  <2>3. Verdict(d, j)' = Verdict(d, j)
    BY <1>1, <2>1, <2>2 DEF Verdict
  <2>4. Told(d, j)' = Told(d, j)
    BY <1>1, <2>1, <2>2 DEF Told
  <2> QED BY <1>1, <2>3, <2>4 DEF Unmoved, Acted
<1>4. Mediated(d, i)
  <2>1. field'[d][i] = "failed"
    BY <1>2
  <2>2. /\ Told(d, i) = "nothing"
        /\ Told(d, i)' = IF Called(d, i) THEN "failure" ELSE "refusal"
    BY <1>1, <2>1 DEF Told
  <2>3. /\ Verdict(d, i) = IF Called(d, i) THEN "granted" ELSE "open"
        /\ Verdict(d, i)' = IF Called(d, i) THEN "granted" ELSE "denied"
    BY <1>1, <2>1 DEF Verdict
  <2>4. Acted(d, i)' = Acted(d, i)
    BY <1>1 DEF Acted
  <2> QED BY <2>2, <2>3, <2>4 DEF Mediated
<1> QED BY <1>1, <1>2, <1>3, <1>4, FieldMoves

LEMMA ResolvedMediates ==
  ASSUME IInv, NEW d \in Documents, NEW i \in FieldsOf(d), Info(d, i) \/ Succeed(d, i)
  PROVE  [M!Next]_M!vars
<1>1. /\ TypeOK /\ Sound(d) /\ FieldSound(d, i) /\ FieldsOf(d)' = FieldsOf(d)
      /\ UNCHANGED <<text, wire>> /\ field' = [field EXCEPT ![d] = Resolved(d, i)]
  BY DEF IInv, TypeInv, Sound, FieldsOf, Info, Starts, Succeed, Waits, Resolve
<1>2. /\ \A e \in Documents \ {d} : field'[e] = field[e] /\ wire'[e] = wire[e]
      /\ field'[d][i] = "ok"
      /\ \A j \in FieldsOf(d) \ {i} : field'[d][j] = field[d][j]
      /\ \A j : Called(d, j)' <=> Called(d, j)
  <2>1. field[d] \in [FieldsOf(d) -> Statuses]
    BY <1>1 DEF TypeOK
  <2> QED BY <1>1, <2>1 DEF Resolved, TypeOK, Called
<1>3. ASSUME NEW j \in FieldsOf(d), j # i PROVE Unmoved(d, j)
  BY <1>1, <1>2, <1>3 DEF Unmoved, Verdict, Acted, Told
<1>4. Mediated(d, i)
  <2>1. CASE Info(d, i)
    <3>1. field[d][i] = "waiting" /\ text[d].fields[i].op \notin Calls /\ ~Called(d, i)
      BY <1>1, <2>1 DEF Info, Starts, FieldSound, Calls
    <3> QED BY <1>1, <1>2, <3>1 DEF Mediated, Unmoved, Verdict, Acted, Told
  <2>2. CASE Succeed(d, i)
    <3>1. /\ field[d][i] = "calling" /\ wire[d][i] = "applied"
          /\ text[d].fields[i].op \in Calls /\ Called(d, i)
      BY <1>1, <2>2 DEF Succeed, Waits, FieldSound
    <3>2. /\ Told(d, i) = "nothing" /\ Told(d, i)' = "success" /\ Verdict(d, i) = "granted"
          /\ Verdict(d, i)' = "granted" /\ Acted(d, i) /\ Acted(d, i)'
      BY <1>1, <1>2, <3>1 DEF Verdict, Acted, Told
    <3> QED BY <3>2 DEF Mediated
  <2> QED BY <2>1, <2>2
<1> QED BY <1>1, <1>2, <1>3, <1>4, FieldMoves

LEMMA SendMediates ==
  ASSUME IInv, NEW d \in Documents, NEW i \in FieldsOf(d), Send(d, i)
  PROVE  [M!Next]_M!vars
<1>1. /\ TypeOK /\ FieldSound(d, i) /\ field[d][i] = "waiting" /\ text' = text
      /\ FieldsOf(d)' = FieldsOf(d)
      /\ field' = [field EXCEPT ![d][i] = "calling"] /\ wire' = [wire EXCEPT ![d][i] = "sent"]
  BY DEF IInv, TypeInv, Sound, Send, Charged, Attempts, Starts, FieldsOf
<1>2. /\ \A e \in Documents \ {d} : field'[e] = field[e] /\ wire'[e] = wire[e]
      /\ field'[d][i] = "calling" /\ wire'[d][i] = "sent"
      /\ \A j \in FieldsOf(d) \ {i} : field'[d][j] = field[d][j] /\ wire'[d][j] = wire[d][j]
  <2>1. field[d] \in [FieldsOf(d) -> Statuses] /\ DOMAIN wire[d] = FieldsOf(d)
    BY <1>1 DEF TypeOK
  <2> QED BY <1>1, <2>1 DEF TypeOK
<1>3. ASSUME NEW j \in FieldsOf(d), j # i PROVE Unmoved(d, j)
  BY <1>1, <1>2, <1>3 DEF Unmoved, Verdict, Acted, Told, Called
<1>4. Mediated(d, i)
  <2>1. ~Called(d, i) /\ Called(d, i)'
    BY <1>1, <1>2 DEF FieldSound, Called
  <2>2. Verdict(d, i) = "open" /\ Verdict(d, i)' = "granted"
    BY <1>1, <2>1 DEF Verdict
  <2>3. Told(d, i)' = Told(d, i) /\ Acted(d, i)' = Acted(d, i)
    BY <1>1, <1>2, <2>1 DEF Told, Acted, Called
  <2> QED BY <2>2, <2>3 DEF Mediated
<1> QED BY <1>1, <1>2, <1>3, <1>4, FieldMoves

LEMMA ConsoleMediates ==
  ASSUME IInv, NEW d \in Documents, NEW i \in FieldsOf(d), Console(d, i)
  PROVE  [M!Next]_M!vars
<1>1. PICK result \in {"applied", "refused"} : wire' = [wire EXCEPT ![d][i] = result]
  BY DEF Console
<1>2. /\ TypeOK /\ wire[d][i] = "sent" /\ UNCHANGED <<text, field>>
      /\ FieldsOf(d)' = FieldsOf(d)
  BY DEF IInv, TypeInv, Console, FieldsOf
<1>3. /\ \A e \in Documents \ {d} : field'[e] = field[e] /\ wire'[e] = wire[e]
      /\ wire'[d][i] = result
      /\ \A j \in FieldsOf(d) \ {i} : wire'[d][j] = wire[d][j]
  <2>1. DOMAIN wire[d] = FieldsOf(d)
    BY <1>2 DEF TypeOK
  <2> QED BY <1>1, <1>2, <2>1 DEF TypeOK
<1>4. ASSUME NEW j \in FieldsOf(d), j # i PROVE Unmoved(d, j)
  BY <1>2, <1>3, <1>4 DEF Unmoved, Verdict, Acted, Told, Called
<1>5. Mediated(d, i)
  <2>1. Called(d, i) /\ Called(d, i)'
    BY <1>2, <1>3 DEF Called
  <2>2. /\ Verdict(d, i) = "granted" /\ Verdict(d, i)' = "granted"
        /\ Told(d, i)' = Told(d, i) /\ ~Acted(d, i)
    BY <1>2, <2>1 DEF Verdict, Told, Acted
  <2>3. Acted(d, i)' \/ Acted(d, i)' = Acted(d, i)
    BY <1>2, <1>3 DEF Acted
  <2> QED BY <2>2, <2>3 DEF Mediated, Unmoved
<1> QED BY <1>2, <1>3, <1>4, <1>5, FieldMoves

LEMMA DisconnectMediates ==
  ASSUME IInv, NEW d \in Documents, Disconnect(d)
  PROVE  [M!Next]_M!vars
<1>1. /\ TypeOK /\ Sound(d) /\ pc[d] \in {"reading", "executing"} /\ UNCHANGED <<text, wire>>
      /\ FieldsOf(d)' = FieldsOf(d)
      /\ field' = [field EXCEPT ![d] =
           [i \in FieldsOf(d) |-> IF field[d][i] \in {"waiting", "calling"} THEN "dropped"
                                  ELSE field[d][i]]]
  BY DEF IInv, TypeInv, Disconnect, FieldsOf
<1>2. /\ \A e \in Documents \ {d} : field'[e] = field[e] /\ wire'[e] = wire[e]
      /\ field'[d] = [i \in FieldsOf(d) |->
                        IF field[d][i] \in {"waiting", "calling"} THEN "dropped"
                        ELSE field[d][i]]
  BY <1>1 DEF TypeOK
<1>3. ASSUME NEW i \in FieldsOf(d) PROVE Unmoved(d, i)
  <2>1. field[d][i] \in {"waiting", "calling", "ok"}
    BY <1>1 DEF Sound, Progress
  <2>2. field'[d][i] = IF field[d][i] = "ok" THEN "ok" ELSE "dropped"
    BY <1>2, <2>1
  <2> QED BY <1>1, <2>1, <2>2 DEF Unmoved, Verdict, Acted, Told, Called
<1>4. ASSUME NEW p \in Slots PROVE Unmoved(p[1], p[2])
  <2>1. p[1] \in Documents
    BY DEF Slots
  <2>2. CASE p[1] # d
    BY <1>1, <1>2, <2>1, <2>2, UnmovedWhen
  <2>3. CASE p[1] = d /\ p[2] \in FieldsOf(d)
    BY <1>3, <2>3
  <2>4. CASE p[1] = d /\ p[2] \notin FieldsOf(d)
    BY <1>1, <2>4 DEF Unmoved, Verdict, Acted, Told
  <2> QED BY <2>2, <2>3, <2>4
<1> QED BY <1>4, UnmovedStep

(***************************************************************************)
(* A document implements Mediation with each of its root fields: whatever  *)
(* runs at the same time and whichever of them fails first, the console    *)
(* acts for granted fields only, once for each, and a resolver's result is *)
(* the truth about its own call (graphql.rs:138-230, state.rs:111-152).    *)
(***************************************************************************)
THEOREM ImplementsMediation == Spec => MediatesCalls
<1>1. Init => M!Init
  <2> SUFFICES ASSUME Init PROVE M!Init
    OBVIOUS
  <2>1. \A d \in Documents : \A i \in FieldsOf(d) : field[d][i] = "waiting" /\ ~Called(d, i)
    BY DEF Init, Called
  <2>2. ASSUME NEW p \in Slots
        PROVE  /\ Verdict(p[1], p[2]) = "open" /\ ~Acted(p[1], p[2])
               /\ Told(p[1], p[2]) = "nothing"
    <3>1. p[1] \in Documents
      BY DEF Slots
    <3> QED BY <2>1, <3>1 DEF Verdict, Acted, Told, Called
  <2> QED BY <2>2 DEF M!Init, Acted
<1>2. IInv /\ [Next]_vars => [M!Next]_M!vars
  <2> SUFFICES ASSUME IInv, [Next]_vars PROVE [M!Next]_M!vars
    OBVIOUS
  <2>1. ASSUME UNCHANGED <<text, field, wire>> PROVE [M!Next]_M!vars
    BY <2>1, UnmovedWhen, UnmovedStep
  <2>2. ASSUME NEW d \in Documents, Run(d) PROVE [M!Next]_M!vars
    <3>1. PICK i \in FieldsOf(d) :
            \/ Info(d, i) \/ RefuseScopeOrSite(d, i) \/ RefuseQuota(d, i) \/ RefuseInput(d, i)
            \/ Send(d, i) \/ Succeed(d, i) \/ Fail(d, i) \/ GiveUp(d, i)
      BY <2>2 DEF Run
    <3>2. CASE \/ RefuseScopeOrSite(d, i) \/ RefuseQuota(d, i) \/ RefuseInput(d, i)
               \/ Fail(d, i) \/ GiveUp(d, i)
      <4>1. /\ pc[d] = "executing" /\ field[d][i] \in {"waiting", "calling"}
            /\ UNCHANGED <<text, wire>> /\ \E before : FailField(d, i, before)
        BY <3>2 DEF RefuseScopeOrSite, RefuseQuota, RefuseInput, Charged, Attempts, Starts,
                    Fail, GiveUp, Waits
      <4> QED BY <4>1, FailedMediates
    <3> QED BY <3>1, <3>2, ResolvedMediates, SendMediates
  <2>3. ASSUME NEW d \in Documents,
               \/ Admit(d) \/ Unreadable(d) \/ RefuseDocument(d) \/ SkipAll(d) \/ Execute(d)
        PROVE  [M!Next]_M!vars
    BY <2>1, <2>3 DEF Admit, Unreadable, RefuseDocument, SkipAll, Execute
  <2>4. CASE \/ UNCHANGED vars
             \/ \E c \in Configs : Reload(c)
             \/ \E n \in Names : Replenish(n)
    BY <2>1, <2>4 DEF vars, Reload, Replenish
  <2> QED BY <2>2, <2>3, <2>4, DisconnectMediates, ConsoleMediates DEF Next
<1> QED BY <1>1, <1>2, Invariance, PTL DEF Spec, MediatesCalls, M!Spec

=============================================================================
