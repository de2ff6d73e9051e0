------------------------- MODULE UpstreamProperties -------------------------
(***************************************************************************)
(* What a call to the console promises, whoever answers and whatever JSON  *)
(* comes back, and a promise about sites that REST does not keep.          *)
(***************************************************************************)
EXTENDS Upstream

(***************************************************************************)
(* Every variable has its type; in particular a peer carries a call out at *)
(* most once, as send never sends again (upstream.rs:84-99).               *)
(***************************************************************************)
TypeOK ==
  /\ cfgs \in Seq(Configs) /\ Len(cfgs) \in 1 .. MaxGen
  /\ presented \in ConsoleCerts
  /\ pool \subseteq Link
  /\ at \in [Calls -> {"idle", "connecting", "sent", "reading", "done"}]
  /\ input \in [Calls -> UNION {Asks[c] : c \in Calls}]
  /\ gen \in [Calls -> 0 .. Len(cfgs)]
  /\ link \in [Calls -> Link \cup {None}]
  /\ wire \in [Calls -> {"none", "sent", "answered"}]
  /\ acts \in [Calls -> {0, 1}]
  /\ reply \in [Calls -> Replies \cup {None}]
  /\ \A c \in Calls : answer[c].kind \in {"none", "ok", "error", "unreachable"}

Sent(c) == wire[c] # "none"
Over(c, kind) == at[c] = "done" /\ answer[c].kind = kind

(***************************************************************************)
(* The key leaves the proxy only on a connection that the configuration of *)
(* its own call allows: to the host of that configuration, in the clear    *)
(* only when that was allowed (config.rs:86), else to a pinned certificate *)
(* if there are pins; "redirects would let a compromised controller bounce *)
(* the API key to an arbitrary host" (upstream.rs:36). The pool, a reload  *)
(* and a rotation all lie between the decision and the sending.            *)
(***************************************************************************)
KeyGoesWhereConfigured ==
  \A c \in Calls : Sent(c) =>
    LET f == Settings(c) IN
    /\ link[c].host = Host(f)
    /\ link[c].cert = None => f.allowPlaintext
    /\ link[c].cert # None /\ f.pins # None => link[c].cert \in f.pins
    /\ link[c].cert # None /\ f.pins = None => f.insecure \/ link[c].cert \in Public[Host(f)]

(***************************************************************************)
(* "Pinning its exact bytes still yields a channel an on-path attacker     *)
(* cannot take over" (tls.rs:43): over TLS with the console's certificates *)
(* pinned, what answers a call is the console, also when it has just       *)
(* changed its certificate or the configuration its pins.                  *)
(***************************************************************************)
PinnedCallsReachTheConsole ==
  \A c \in Calls : Sent(c) /\ Encrypted(Settings(c)) /\ Settings(c).pins # None =>
    (Settings(c).pins \subseteq ConsoleCerts => link[c].peer = "console")

(***************************************************************************)
(* What the console says about itself or about the proxy's key goes "to    *)
(* the operator's log instead" (upstream.rs:133-137): its words reach a    *)
(* client only with the status it sent, for an error of the request.       *)
(***************************************************************************)
OnlyRequestErrorsAreQuoted ==
  \A c \in Calls : Over(c, "error") =>
    /\ answer[c].status = reply[c].status
    /\ answer[c].wording = "console" => reply[c].said /\ reply[c].status \in {302, 400}

(***************************************************************************)
(* A call is what Mediation says of one: carried out at most once, a       *)
(* success only if its peer carried it out, a failure if it may have.      *)
(***************************************************************************)
Told(c) ==
  IF at[c] # "done" THEN "nothing"
  ELSE IF answer[c].kind = "ok" THEN "success" ELSE "failure"

M == INSTANCE Mediation WITH
       Requests <- Calls,
       verdict <- [c \in Calls |-> IF at[c] = "idle" THEN "open" ELSE "granted"],
       acted <- [c \in Calls |-> acts[c] = 1],
       told <- [c \in Calls |-> Told(c)]

MediatesCalls == M!Spec

(***************************************************************************)
(* A call comes to an end whatever its peer does: the timeout covers the   *)
(* connection, the wait for a status and the body (upstream.rs:33-34).     *)
(***************************************************************************)
CallsEnd == \A c \in Calls : (at[c] # "idle") ~> (at[c] = "done")

-----------------------------------------------------------------------------
(* The documented bodies: {"data": [...]} or {"vouchers": [...]} alone,    *)
(* every item with a text under `id' and nothing under `_id'.              *)
Plain(items) ==
  \A item \in items : item.id.type = "text" /\ item.id.of # "" /\ item._id = Missing

Documented(body) ==
  /\ body.shape = "object" /\ body.other = {}
  /\ \/ body.data # {} /\ body.vouchers = {} /\ Plain(UNION body.data)
     \/ body.data = {} /\ body.vouchers # {} /\ Plain(UNION body.vouchers)

(* What the sites answer in REST and in GraphQL tells a client.            *)
InRest(c) == RestSites(answer[c].body, input[c].sites)
InGraphQL(c) == GraphQLSites(answer[c].body, input[c].sites)
ListsSites(c) == Over(c, "ok") /\ input[c].op = "list_sites"
Scoped(c) == "*" \notin input[c].sites

(* The sites the console listed under `data' that the token may use.       *)
Own(c) ==
  {id \in {item.id.of : item \in UNION reply[c].body.data} :
     id \in input[c].sites \/ ~Scoped(c)}

(***************************************************************************)
(* When the console lists its sites under `data' as documented, both       *)
(* interfaces tell a token exactly those of them that are its own          *)
(* (routes.rs:216, graphql.rs:137), whatever else is in the body; a token  *)
(* of every site gets what else there is in REST, so for it there is to be *)
(* nothing. A body that was lost has no object in it.                      *)
(***************************************************************************)
InterfacesAgreeOnSites ==
  \A c \in Calls :
    ListsSites(c) /\ answer[c].body.shape = "object" =>
      LET body == reply[c].body IN
      body.data # {} /\ Plain(UNION body.data) /\ (Scoped(c) \/ Documented(body)) =>
        InRest(c) = Own(c) /\ InGraphQL(c) = Own(c)

(***************************************************************************)
(* A list in an answer is all that the console listed, or is empty because *)
(* the body was lost or is not JSON (upstream.rs:102): never a part of it, *)
(* which a client could not tell from the whole.                           *)
(***************************************************************************)
ListsAreWholeOrEmpty ==
  \A c \in Calls : Over(c, "ok") /\ Documented(reply[c].body) =>
    ListedIds(answer[c].body) \in {{}, IdsIn(reply[c].body)}

(***************************************************************************)
(* "A token scoped to specific sites must not learn that other sites       *)
(* exist" (routes.rs:216); REST passes on whole every body that has no      *)
(* array under `data'.                                                     *)
(***************************************************************************)
RestHidesOtherSites ==
  \A c \in Calls : ListsSites(c) /\ Scoped(c) => InRest(c) \subseteq input[c].sites

=============================================================================
