----------------------------- MODULE TokenLemmas -----------------------------
(***************************************************************************)
(* Facts about Policy and about sets of indices that the proofs of the     *)
(* other modules rest on.                                                  *)
(***************************************************************************)
EXTENDS Policy, Sequences, FiniteSets, FiniteSetTheorems, WellFoundedInduction, TLAPS

(* A non-empty set of naturals has a least element.                        *)
LEMMA LeastElement ==
  ASSUME NEW S \in SUBSET Nat, S # {}
  PROVE  \E m \in S : \A k \in S : m <= k
<1> DEFINE R == {ij \in Nat \X Nat : ij[1] < ij[2]}
<1>1. IsWellFoundedOn(R, Nat)
  BY NatLessThanWellFounded DEF OpToRel
<1>2. PICK m \in S : \A k \in S : ~ (<<k, m>> \in R)
  BY <1>1, WFMin
<1>3. ASSUME NEW k \in S PROVE m <= k
  <2>1. <<k, m>> \in Nat \X Nat /\ <<k, m>>[1] = k /\ <<k, m>>[2] = m
    OBVIOUS
  <2>2. ~ (k < m)
    BY <2>1, <1>2
  <2> QED BY <2>2
<1> QED BY <1>3

(* A non-empty set of naturals under a bound has a greatest element.       *)
LEMMA GreatestElement ==
  ASSUME NEW n \in Nat, NEW S \in SUBSET (0 .. n), S # {}
  PROVE  \E m \in S : \A k \in S : k <= m
<1> DEFINE T == {n - k : k \in S}
<1>0. \A k \in S : k \in 0 .. n
  OBVIOUS
<1>1. T \in SUBSET Nat
  <2>1. ASSUME NEW k \in S PROVE n - k \in Nat
    BY <1>0
  <2> QED BY <2>1
<1>a. T # {}
  OBVIOUS
<1>2. PICK d \in T : \A k \in T : d <= k
  <2> HIDE DEF T
  <2> QED BY <1>1, <1>a, LeastElement
<1>3. PICK m \in S : d = n - m
  BY <1>2
<1>4. ASSUME NEW k \in S PROVE k <= m
  <2>1. n - k \in T
   OBVIOUS
  <2>2. d <= n - k
    BY <2>1, <1>2
  <2> QED BY <2>2, <1>3, <1>0
<1> QED BY <1>4

(* The indices of a sequence are finitely many.                            *)
LEMMA IndicesAreFinite ==
  ASSUME NEW n \in Nat
  PROVE  IsFiniteSet(1 .. n)
<1>1. 1 \in Int /\ n \in Int
  OBVIOUS
<1> QED BY <1>1, FS_Interval

-----------------------------------------------------------------------------
(***************************************************************************)
(* authenticate finds the first token that verifies the secret, and 0      *)
(* exactly when there is none (auth.rs:133-146).                           *)
(***************************************************************************)
LEMMA AuthenticateFirst ==
  ASSUME NEW T, NEW tokens \in Seq(T), NEW secret
  PROVE  LET i == Authenticate(tokens, secret) IN
         \/ i = 0 /\ Verifying(tokens, secret) = {}
         \/ /\ i \in 1 .. Len(tokens) /\ tokens[i].secret = secret
            /\ \A j \in 1 .. Len(tokens) : tokens[j].secret = secret => i <= j
<1> DEFINE S == Verifying(tokens, secret)
<1>1. CASE S = {}
  BY <1>1 DEF Authenticate
<1>2. CASE S # {}
  <2>1. S \in SUBSET Nat /\ \A j : j \in S <=> j \in 1 .. Len(tokens) /\ tokens[j].secret = secret
    BY DEF Verifying
  <2>2. \E i \in S : \A j \in S : i <= j
    <3> HIDE DEF S
    <3> QED BY <1>2, <2>1, LeastElement
  <2>3. Authenticate(tokens, secret) = CHOOSE i \in S : \A j \in S : i <= j
    BY <1>2 DEF Authenticate
  <2>4. /\ Authenticate(tokens, secret) \in S
        /\ \A j \in S : Authenticate(tokens, secret) <= j
    <3> HIDE DEF S
    <3> QED BY <2>2, <2>3
  <2> QED
    <3> HIDE DEF S
    <3> QED BY <2>1, <2>4
<1> QED BY <1>1, <1>2

=============================================================================
