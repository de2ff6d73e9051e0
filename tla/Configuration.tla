---------------------------- MODULE Configuration ----------------------------
(***************************************************************************)
(* Which contents of the configuration file the proxy takes: Config::load  *)
(* and validate (config.rs), what Live::build can still refuse (state.rs,  *)
(* auth.rs, tls.rs), what check-config says of it (main.rs), and how the   *)
(* console has to prove itself under the result (tls.rs).                  *)
(***************************************************************************)
EXTENDS FiniteSets

CONSTANTS None,         \* an absent key
          EnvKey,       \* UVP_CONTROLLER__API_KEY: "unset", "empty" or "set"
          Certs,        \* certificates that a peer may present
          Public,       \* those that public roots vouch for, by host
          Malformed     \* what is written as a pin and is no fingerprint

Schemes == {"none", "http", "https", "HTTP", "HTTPS"}

ASSUME ConfigurationAssumption ==
  /\ EnvKey \in {"unset", "empty", "set"}
  /\ Public \in [{"console"} \cup Schemes -> SUBSET Certs]
  /\ None \notin Certs /\ Malformed \notin Certs

(* One entry under [[tokens]], in what can be wrong with it.               *)
TokenEntry == [named : BOOLEAN, hash : {"argon2", "broken", "plain"}, scoped : BOOLEAN]

(* The pins are a set of certificates, however each of them is spelled.    *)
Pins == {None} \cup SUBSET (Certs \cup {Malformed})

Content == [form : {"missing", "unparsable", "parsed"},
            key : {"unset", "empty", "set"}, tokens : SUBSET TokenEntry,
            scheme : Schemes, allowPlaintext : BOOLEAN, insecure : BOOLEAN,
            pins : Pins]

-----------------------------------------------------------------------------
(* The environment is merged over the file, an empty value too.            *)
ApiKey(f) == IF EnvKey = "unset" THEN f.key ELSE EnvKey

IsPlaintext(f) == f.scheme \in {"http", "HTTP"}

(* normalize_fingerprint, of one entry.                                    *)
IsFingerprint(pin) == pin # Malformed

(* Faulty variant: pins are left to the building of the TLS client.        *)
AnyPins(f) == TRUE

ValidPins(f) ==
  f.pins # None => f.pins # {} /\ \A pin \in f.pins : IsFingerprint(pin)

Validates(f) ==
  /\ ApiKey(f) = "set"
  /\ f.tokens # {}
  /\ \A t \in f.tokens : t.named /\ t.hash # "plain" /\ t.scoped
  /\ ~(f.insecure /\ f.pins # None)
  /\ IsPlaintext(f) => f.allowPlaintext
  /\ ValidPins(f)

Loads(f) == f.form = "parsed" /\ ApiKey(f) # "unset" /\ Validates(f)

-----------------------------------------------------------------------------
(* Authenticator::new and load_hash_check parse what starts like a hash.   *)
HashesParse(f) == \A t \in f.tokens : t.hash = "argon2"

(* Upstream::new: client_config needs fingerprints, and no more than that. *)
Builds(f) ==
  HashesParse(f) /\ (f.pins # None => \A pin \in f.pins : IsFingerprint(pin))

(* What serve starts with and a reload installs.                           *)
Accepted(f) == Loads(f) /\ Builds(f)

(* What check-config calls a good configuration.                           *)
ChecksOut(f) == Loads(f) /\ HashesParse(f)

-----------------------------------------------------------------------------
(***************************************************************************)
(* normalize_host knows the two schemes in lower case only: in front of    *)
(* anything else it puts https://, and the host is then what was written   *)
(* as a scheme.                                                            *)
(***************************************************************************)
Host(f) == IF f.scheme \in {"none", "http", "https"} THEN "console" ELSE f.scheme
Encrypted(f) == f.scheme # "http"

(* PinnedVerifier: chain, expiry and host name are not looked at.          *)
PinMatches(f, cert) == cert \in f.pins

(* Faulty variant: insecure_skip_verify is looked at first, and the pins   *)
(* widen what the public roots accept.                                     *)
VerifiesLoosely(f, cert) ==
  f.insecure \/ cert \in Public[Host(f)] \/ (f.pins # None /\ PinMatches(f, cert))

(* The three modes of client_config, in its order.                         *)
Verifies(f, cert) ==
  IF f.pins # None THEN PinMatches(f, cert)
  ELSE f.insecure \/ cert \in Public[Host(f)]

=============================================================================
