--------------------------- MODULE Authenticator ---------------------------
(***************************************************************************)
(* Authenticator::authenticate (auth.rs) as the requests of one Live run   *)
(* it concurrently: a lookup in the cache of proven secrets under its      *)
(* mutex, then a verification of every configured hash outside of it, then *)
(* an insertion under the mutex again. Workers are the runtime's threads.  *)
(*                                                                         *)
(* A secret stands for its own SHA-256: the digest is taken to be          *)
(* injective, and a hash to verify the secret it was made from and no      *)
(* other. The extractor never passes an empty secret (auth.rs:177-188), so *)
(* authenticate's check for one is left out.                               *)
(***************************************************************************)
EXTENDS Policy, Sequences, FiniteSets

CONSTANTS Workers,      \* threads inside authenticate
          Secrets,      \* secrets clients present, configured or not
          TokenLists    \* the token lists under study

(* Of a token, authenticate reads the hash alone: the secret it verifies.  *)
ASSUME TokenListAssumption == TokenLists \subseteq Seq([secret : Secrets])

VARIABLES tokens,       \* the configured tokens, in file order
          cache,        \* secret -> index of the token it was proven for
          pc, secret,   \* where each worker is, with which secret
          found,        \* index it found so far, 0 for none
          tried,        \* hashes it has verified against in this call
          result        \* what authenticate returned

vars == <<tokens, cache, pc, secret, found, tried, result>>

Init ==
  /\ tokens \in TokenLists
  /\ cache = [s \in {} |-> 0]
  /\ pc = [w \in Workers |-> "idle"]
  /\ secret \in [Workers -> Secrets]
  /\ found = [w \in Workers |-> 0]
  /\ tried = [w \in Workers |-> 0]
  /\ result = [w \in Workers |-> 0]

(* Faulty variant: positions and indices are one apart.                    *)
ReturnNext(w, index) ==
  /\ pc' = [pc EXCEPT ![w] = "returned"]
  /\ result' = [result EXCEPT ![w] = index + 1]

Return(w, index) ==
  /\ pc' = [pc EXCEPT ![w] = "returned"]
  /\ result' = [result EXCEPT ![w] = index]

(* A request enters authenticate with the secret it presents.              *)
Call(w, s) ==
  /\ pc[w] \in {"idle", "returned"}
  /\ pc' = [pc EXCEPT ![w] = "lookup"]
  /\ secret' = [secret EXCEPT ![w] = s]
  /\ found' = [found EXCEPT ![w] = 0]
  /\ tried' = [tried EXCEPT ![w] = 0]
  /\ UNCHANGED <<tokens, cache, result>>

(* The cache, under its mutex: a proven secret returns at once.            *)
Lookup(w) ==
  /\ pc[w] = "lookup"
  /\ \/ secret[w] \in DOMAIN cache /\ Return(w, cache[secret[w]])
     \/ /\ secret[w] \notin DOMAIN cache
        /\ pc' = [pc EXCEPT ![w] = "scan"]
        /\ UNCHANGED result
  /\ UNCHANGED <<tokens, cache, secret, found, tried>>

-----------------------------------------------------------------------------
(* Faulty variants: a later match replaces an earlier one; the scan stops  *)
(* at a match; failures are cached too.                                    *)
VerifyKeepingLast(w) ==
  /\ pc[w] = "scan" /\ tried[w] < Len(tokens)
  /\ LET i == tried[w] + 1 IN
     /\ tried' = [tried EXCEPT ![w] = i]
     /\ found' = [found EXCEPT ![w] = IF tokens[i].secret = secret[w] THEN i ELSE @]
  /\ UNCHANGED <<tokens, cache, pc, secret, result>>

RememberEarly(w) ==
  /\ pc[w] = "scan" /\ found[w] # 0
  /\ cache' = [s \in DOMAIN cache \cup {secret[w]} |->
                 IF s = secret[w] THEN found[w] ELSE cache[s]]
  /\ Return(w, found[w])
  /\ UNCHANGED <<tokens, secret, found, tried>>

RememberAnything(w) ==
  /\ pc[w] = "scan" /\ tried[w] = Len(tokens)
  /\ cache' = [s \in DOMAIN cache \cup {secret[w]} |->
                 IF s = secret[w] THEN found[w] ELSE cache[s]]
  /\ Return(w, found[w])
  /\ UNCHANGED <<tokens, secret, found, tried>>

-----------------------------------------------------------------------------
(* One hash of the scan: every one is verified, the first match is kept.   *)
Verify(w) ==
  /\ pc[w] = "scan" /\ tried[w] < Len(tokens)
  /\ LET i == tried[w] + 1 IN
     /\ tried' = [tried EXCEPT ![w] = i]
     /\ found' = [found EXCEPT ![w] =
                    IF @ = 0 /\ tokens[i].secret = secret[w] THEN i ELSE @]
  /\ UNCHANGED <<tokens, cache, pc, secret, result>>

(* No hash verified: nothing is remembered of a failure.                   *)
Unknown(w) ==
  /\ pc[w] = "scan" /\ tried[w] = Len(tokens) /\ found[w] = 0
  /\ Return(w, 0)
  /\ UNCHANGED <<tokens, cache, secret, found, tried>>

(* A match: inserted under the mutex, over what another worker may have    *)
(* inserted since the lookup.                                              *)
Remember(w) ==
  /\ pc[w] = "scan" /\ tried[w] = Len(tokens) /\ found[w] # 0
  /\ cache' = [s \in DOMAIN cache \cup {secret[w]} |->
                 IF s = secret[w] THEN found[w] ELSE cache[s]]
  /\ Return(w, found[w])
  /\ UNCHANGED <<tokens, secret, found, tried>>

Next ==
  \E w \in Workers :
    \/ \E s \in Secrets : Call(w, s)
    \/ Lookup(w) \/ Verify(w) \/ Unknown(w) \/ Remember(w)

Spec == Init /\ [][Next]_vars

-----------------------------------------------------------------------------
(***************************************************************************)
(* Every variable has its type.                                            *)
(***************************************************************************)
TypeOK ==
  /\ tokens \in TokenLists
  /\ DOMAIN cache \subseteq Secrets /\ cache \in [DOMAIN cache -> 0 .. Len(tokens)]
  /\ pc \in [Workers -> {"idle", "lookup", "scan", "returned"}]
  /\ secret \in [Workers -> Secrets]
  /\ found \in [Workers -> 0 .. Len(tokens)]
  /\ tried \in [Workers -> 0 .. Len(tokens)]
  /\ result \in [Workers -> 0 .. Len(tokens)]

(***************************************************************************)
(* The cache never changes an answer: a secret is remembered only as the   *)
(* first token it verifies, whatever the workers do in between, so cached  *)
(* and scanned calls agree (auth.rs:123-152).                              *)
(***************************************************************************)
CacheAgrees ==
  \A s \in DOMAIN cache : cache[s] # 0 /\ cache[s] = Authenticate(tokens, s)

(***************************************************************************)
(* "The cache is bounded by the number of configured tokens" (auth.rs:95), *)
(* however many secrets are tried and however the calls overlap.           *)
(***************************************************************************)
CacheBounded == Cardinality(DOMAIN cache) <= Len(tokens)

(***************************************************************************)
(* A call that is over returned the first token its secret verifies, as if *)
(* it had run alone and without a cache, and did so after verifying every  *)
(* hash or none: "the time taken does not depend on which token happened   *)
(* to match" (auth.rs:133), and "a flood of invalid tokens still pays full *)
(* Argon2 cost" (auth.rs:96).                                              *)
(***************************************************************************)
AnswersAreTheScans ==
  \A w \in Workers : pc[w] = "returned" =>
    /\ result[w] = Authenticate(tokens, secret[w])
    /\ tried[w] \in {0, Len(tokens)}
    /\ result[w] = 0 => tried[w] = Len(tokens)

=============================================================================
