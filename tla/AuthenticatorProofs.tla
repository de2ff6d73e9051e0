------------------------ MODULE AuthenticatorProofs ------------------------
(***************************************************************************)
(* The cache of authenticate is invisible and bounded, for every number of *)
(* threads, every token list and every secret presented.                   *)
(*                                                                         *)
(* The invariant is that a scan in progress has found the first match      *)
(* among the tokens it has tried; what it then remembers and returns is    *)
(* the first match of all.                                                 *)
(***************************************************************************)
EXTENDS Authenticator, TokenLemmas

First(ts, s, i) ==
  /\ i \in 1 .. Len(ts) /\ ts[i].secret = s
  /\ \A j \in 1 .. Len(ts) : ts[j].secret = s => i <= j

ScanSoFar ==
  \A w \in Workers :
    /\ pc[w] = "lookup" => found[w] = 0 /\ tried[w] = 0
    /\ pc[w] = "scan" =>
         \/ found[w] = 0 /\ \A j \in 1 .. tried[w] : tokens[j].secret # secret[w]
         \/ found[w] # 0 /\ First(tokens, secret[w], found[w])

IInv == TypeOK /\ CacheAgrees /\ AnswersAreTheScans /\ ScanSoFar

(* The first match is what Authenticate names.                             *)
LEMMA FirstIsAuthenticate ==
  ASSUME NEW T, NEW ts \in Seq(T), NEW s, NEW i, First(ts, s, i)
  PROVE  Authenticate(ts, s) = i
<1> DEFINE k == Authenticate(ts, s)
<1>1. \/ k = 0 /\ Verifying(ts, s) = {}
      \/ /\ k \in 1 .. Len(ts) /\ ts[k].secret = s
         /\ \A j \in 1 .. Len(ts) : ts[j].secret = s => k <= j
  BY AuthenticateFirst
<1>2. i \in Verifying(ts, s)
  BY DEF First, Verifying
<1>3. k \in 1 .. Len(ts) /\ k <= i /\ i <= k
  <2> HIDE DEF k
  <2> QED BY <1>1, <1>2 DEF First
<1> QED
  <2> HIDE DEF k
  <2>1. k = i
    BY <1>3 DEF First
  <2> QED BY <2>1 DEF k

(* Where nothing matches, Authenticate is 0.                               *)
LEMMA NoneIsZero ==
  ASSUME NEW T, NEW ts \in Seq(T), NEW s, \A j \in 1 .. Len(ts) : ts[j].secret # s
  PROVE  Authenticate(ts, s) = 0
BY DEF Authenticate, Verifying

LEMMA TokensAreSequences == \A ts \in TokenLists : ts \in Seq([secret : Secrets])
BY TokenListAssumption

-----------------------------------------------------------------------------
LEMMA InitIInv == Init => IInv
<1> SUFFICES ASSUME Init PROVE IInv
  OBVIOUS
<1>1. Len(tokens) \in Nat
  BY TokensAreSequences DEF Init
<1>2. DOMAIN cache = {} /\ cache \in [DOMAIN cache -> 0 .. Len(tokens)]
  BY DEF Init
<1>3. TypeOK
  BY <1>1, <1>2 DEF Init, TypeOK
<1>4. CacheAgrees
  BY <1>2 DEF CacheAgrees
<1>5. AnswersAreTheScans /\ ScanSoFar
  BY DEF Init, AnswersAreTheScans, ScanSoFar
<1> QED BY <1>3, <1>4, <1>5 DEF IInv

LEMMA NextIInv == IInv /\ [Next]_vars => IInv'
<1> SUFFICES ASSUME IInv, [Next]_vars PROVE IInv'
  OBVIOUS
<1>0. /\ tokens \in Seq([secret : Secrets]) /\ Len(tokens) \in Nat
  <2>1. tokens \in TokenLists
    BY DEF IInv, TypeOK
  <2>2. tokens \in Seq([secret : Secrets])
    BY <2>1, TokensAreSequences
  <2> QED BY <2>2
<1> USE DEF IInv
<1>1. ASSUME NEW w \in Workers, NEW s \in Secrets, Call(w, s) PROVE IInv'
  <2>1. TypeOK'
    BY <1>0, <1>1 DEF TypeOK, Call
  <2>2. CacheAgrees'
    BY <1>1 DEF CacheAgrees, Call
  <2>3. AnswersAreTheScans' /\ ScanSoFar'
    BY <1>0, <1>1 DEF TypeOK, AnswersAreTheScans, ScanSoFar, Call
  <2> QED BY <2>1, <2>2, <2>3
<1>2. ASSUME NEW w \in Workers, Lookup(w) PROVE IInv'
  <2>1. TypeOK'
    BY <1>0, <1>2 DEF TypeOK, Lookup, Return
  <2>2. CacheAgrees'
    BY <1>2 DEF CacheAgrees, Lookup
  <2>3. AnswersAreTheScans'
    BY <1>0, <1>2 DEF TypeOK, AnswersAreTheScans, CacheAgrees, ScanSoFar, Lookup, Return
  <2>4. ScanSoFar'
    BY <1>0, <1>2 DEF TypeOK, ScanSoFar, Lookup, Return
  <2> QED BY <2>1, <2>2, <2>3, <2>4
<1>3. ASSUME NEW w \in Workers, Verify(w) PROVE IInv'
  <2> DEFINE i == tried[w] + 1
  <2>0. i \in 1 .. Len(tokens) /\ tried[w] \in Nat /\ tried' = [tried EXCEPT ![w] = i]
    BY <1>0, <1>3 DEF TypeOK, Verify
  <2>a. found' = [found EXCEPT ![w] = IF found[w] = 0 /\ tokens[i].secret = secret[w]
                                        THEN i ELSE found[w]]
    BY <1>3 DEF Verify
  <2>b. UNCHANGED <<tokens, cache, pc, secret, result>> /\ pc[w] = "scan"
    BY <1>3 DEF Verify
  <2> HIDE DEF i
  <2>1. TypeOK'
    BY <1>0, <2>0, <2>a, <2>b DEF TypeOK
  <2>2. CacheAgrees' /\ AnswersAreTheScans'
    BY <2>0, <2>a, <2>b DEF TypeOK, CacheAgrees, AnswersAreTheScans
  <2>3. ASSUME NEW v \in Workers, v # w
        PROVE  found'[v] = found[v] /\ tried'[v] = tried[v]
    BY <2>0, <2>a, <2>3 DEF TypeOK
  <2>4. found'[w] = (IF found[w] = 0 /\ tokens[i].secret = secret[w] THEN i ELSE found[w])
        /\ tried'[w] = i
    BY <2>0, <2>a DEF TypeOK
  <2>5. \/ found'[w] = 0 /\ \A j \in 1 .. tried'[w] : tokens[j].secret # secret[w]
        \/ found'[w] # 0 /\ First(tokens, secret[w], found'[w])
    <3>1. CASE found[w] # 0
      BY <3>1, <2>b, <2>4 DEF ScanSoFar
    <3>2. CASE found[w] = 0 /\ tokens[i].secret = secret[w]
      <4>1. \A j \in 1 .. tried[w] : tokens[j].secret # secret[w]
        BY <3>2, <2>b DEF ScanSoFar, First
      <4>2. \A j \in 1 .. Len(tokens) : tokens[j].secret = secret[w] => i <= j
        BY <4>1, <2>0, <1>0 DEF i
      <4> QED BY <3>2, <4>2, <2>0, <2>4 DEF First
    <3>3. CASE found[w] = 0 /\ tokens[i].secret # secret[w]
      <4>1. \A j \in 1 .. tried[w] : tokens[j].secret # secret[w]
        BY <3>3, <2>b DEF ScanSoFar, First
      <4>2. \A j \in 1 .. i : tokens[j].secret # secret[w]
        BY <4>1, <3>3, <2>0 DEF i
      <4> QED BY <3>3, <4>2, <2>4
    <3> QED BY <3>1, <3>2, <3>3
  <2>6. ScanSoFar'
    BY <2>b, <2>3, <2>5 DEF ScanSoFar
  <2> QED BY <2>1, <2>2, <2>6
<1>4. ASSUME NEW w \in Workers, Unknown(w) PROVE IInv'
  <2>1. TypeOK'
    BY <1>0, <1>4 DEF TypeOK, Unknown, Return
  <2>2. CacheAgrees' /\ ScanSoFar'
    BY <1>4 DEF TypeOK, CacheAgrees, ScanSoFar, Unknown, Return
  <2>3. Authenticate(tokens, secret[w]) = 0
    <3>1. \A j \in 1 .. Len(tokens) : tokens[j].secret # secret[w]
      BY <1>4 DEF ScanSoFar, Unknown, First
    <3> QED BY <1>0, <3>1, NoneIsZero
  <2>4. AnswersAreTheScans'
    BY <1>0, <1>4, <2>3 DEF TypeOK, AnswersAreTheScans, Unknown, Return
  <2> QED BY <2>1, <2>2, <2>4
<1>5. ASSUME NEW w \in Workers, Remember(w) PROVE IInv'
  <2>1. TypeOK'
    BY <1>0, <1>5 DEF TypeOK, Remember, Return
  <2>2. Authenticate(tokens, secret[w]) = found[w] /\ found[w] # 0
    <3>1. found[w] # 0 /\ First(tokens, secret[w], found[w])
      BY <1>5 DEF ScanSoFar, Remember
    <3> QED BY <1>0, <3>1, FirstIsAuthenticate
  <2>3. CacheAgrees'
    BY <1>5, <2>2 DEF CacheAgrees, Remember, TypeOK
  <2>4. AnswersAreTheScans'
    BY <1>0, <1>5, <2>2 DEF TypeOK, AnswersAreTheScans, Remember, Return
  <2>5. ScanSoFar'
    BY <1>5 DEF TypeOK, ScanSoFar, Remember, Return
  <2> QED BY <2>1, <2>3, <2>4, <2>5
<1>6. CASE UNCHANGED vars
  BY <1>6 DEF vars, TypeOK, CacheAgrees, AnswersAreTheScans, ScanSoFar
<1> QED BY <1>1, <1>2, <1>3, <1>4, <1>5, <1>6 DEF Next

(* The inductive invariant holds of every behaviour.                       *)
LEMMA Invariance == Spec => []IInv
BY InitIInv, NextIInv, PTL DEF Spec

-----------------------------------------------------------------------------
(***************************************************************************)
(* Types, for any number of threads and any token list: whatever other     *)
(* threads do between one thread's two locks of the cache, the cache maps  *)
(* secrets to indices of the list (auth.rs:123-152).                       *)
(***************************************************************************)
THEOREM Typing == Spec => []TypeOK
BY Invariance, PTL DEF IInv

(***************************************************************************)
(* What is cached, and what a call returns, is what a scan alone would     *)
(* find, also where several threads scanned for one secret at once; and    *)
(* the cost does not depend on which token matched (auth.rs:123-152).      *)
(***************************************************************************)
THEOREM CacheIsInvisible == Spec => [](CacheAgrees /\ AnswersAreTheScans)
BY Invariance, PTL DEF IInv

(***************************************************************************)
(* "The cache is bounded by the number of configured tokens" (auth.rs:95): *)
(* distinct secrets in it point at distinct tokens.                        *)
(***************************************************************************)
THEOREM CacheStaysBounded == Spec => []CacheBounded
<1>1. ASSUME IInv PROVE CacheBounded
  <2> DEFINE n == Len(tokens)
             Known == DOMAIN cache
  <2>1. tokens \in Seq([secret : Secrets]) /\ n \in Nat
    <3>1. tokens \in TokenLists
      BY <1>1 DEF IInv, TypeOK
    <3>2. tokens \in Seq([secret : Secrets])
      BY <3>1, TokensAreSequences
    <3> QED BY <3>2
  <2>2. ASSUME NEW s \in Known
        PROVE  cache[s] \in 1 .. n /\ tokens[cache[s]].secret = s
    <3>1. cache[s] # 0 /\ cache[s] = Authenticate(tokens, s)
      BY <1>1 DEF IInv, CacheAgrees
    <3> QED BY <2>1, <3>1, AuthenticateFirst
  <2>3. cache \in [Known -> 1 .. n]
    BY <1>1, <2>2 DEF IInv, TypeOK
  <2>4. cache \in Injection(Known, 1 .. n)
    BY <2>2, <2>3 DEF Injection, IsInjective
  <2>5. IsFiniteSet(1 .. n) /\ Cardinality(1 .. n) = n
    BY <2>1, FS_Interval
  <2>6. Cardinality(Known) <= n
    BY <2>4, <2>5, FS_Injection
  <2> QED BY <2>6 DEF CacheBounded
<1> QED BY <1>1, Invariance, PTL

=============================================================================
