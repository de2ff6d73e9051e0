------------------------------ MODULE Upstream ------------------------------
(***************************************************************************)
(* One call to the console from Upstream::send's first line to its last    *)
(* (upstream.rs), as many at once as there are Calls: a connection that is *)
(* made and verified, or taken from the pool of the Upstream it belongs    *)
(* to; the request with the API key; the status; the body. A reload        *)
(* replaces the Upstream, with its pool, while older calls go on. Proxy    *)
(* and GraphQL have all of this as the steps Forward, Succeed, Fail and    *)
(* GiveUp.                                                                 *)
(***************************************************************************)
EXTENDS Configuration, Models, Naturals, Sequences

CONSTANTS Calls,
          Configs,          \* configurations the operator installs
          Asks,             \* what each asks: an operation, for a token's sites
          Replies,          \* what a peer may answer, and to which operation
          ConsoleCerts,     \* certificates whose private key the console has
          MaxGen            \* bound: configurations over time

(* 200 is any 2xx, 302 any redirect, 401 also 403, 500 any 5xx.            *)
Statuses == {200, 302, 400, 401, 500}

ASSUME UpstreamAssumption ==
  /\ \A f \in Configs : f \in Content /\ Accepted(f)
  /\ \A r \in Replies : r.status \in Statuses /\ r.said \in BOOLEAN
  /\ ConsoleCerts \subseteq Certs /\ ConsoleCerts # {}
  /\ \A c \in Calls : Asks[c] # {}
  /\ MaxGen \in Nat \ {0}

VARIABLES cfgs,             \* the configurations that were Live, in order
          presented,        \* the certificate the console presents now
          pool,             \* idle connections of all the Upstreams
          at,               \* where each call is
          input, gen,       \* what it asks, and of which Upstream
          link,             \* the connection it uses or used
          wire,             \* what became of its request
          acts,             \* how often its peer carried it out
          reply, answer     \* what the peer and what send answered

vars == <<cfgs, presented, pool, at, input, gen, link, wire, acts, reply, answer>>
world == <<cfgs, presented>>

Peers == {"console", "stranger"}
Link == [gen : Nat, host : {"console", "elsewhere"} \cup Schemes, peer : Peers,
         cert : Certs \cup {None}]

Unanswered == [kind |-> "none", status |-> 0, wording |-> "none", body |-> Null]
Unreachable == [Unanswered EXCEPT !.kind = "unreachable"]
Settings(c) == cfgs[gen[c]]

Init ==
  /\ \E f \in Configs : cfgs = <<f>>
  /\ presented \in ConsoleCerts
  /\ pool = {}
  /\ at = [c \in Calls |-> "idle"]
  /\ input = [c \in Calls |-> CHOOSE i \in Asks[c] : TRUE]
  /\ gen = [c \in Calls |-> 0]
  /\ link = [c \in Calls |-> None]
  /\ wire = [c \in Calls |-> "none"]
  /\ acts = [c \in Calls |-> 0]
  /\ reply = [c \in Calls |-> None]
  /\ answer = [c \in Calls |-> Unanswered]

Return(c, a) ==
  /\ at' = [at EXCEPT ![c] = "done"]
  /\ answer' = [answer EXCEPT ![c] = a]

-----------------------------------------------------------------------------
(* A handler calls one of the named functions of its Live's Upstream.      *)
Begin(c) ==
  /\ at[c] = "idle"
  /\ at' = [at EXCEPT ![c] = "connecting"]
  /\ \E i \in Asks[c] : input' = [input EXCEPT ![c] = i]
  /\ gen' = [gen EXCEPT ![c] = Len(cfgs)]
  /\ UNCHANGED <<world, pool, link, wire, acts, reply, answer>>

(* The request goes out, with the key, on a connection.                    *)
TransmitOn(c, k) ==
  /\ at[c] = "connecting"
  /\ link' = [link EXCEPT ![c] = k]
  /\ wire' = [wire EXCEPT ![c] = "sent"]
  /\ at' = [at EXCEPT ![c] = "sent"]
  /\ UNCHANGED <<world, input, gen, acts, reply, answer>>

(* Faulty variant: one pool for every Upstream.                            *)
ReuseAny(c) == \E k \in pool : TransmitOn(c, k) /\ pool' = pool \ {k}

(* A connection that closes before it was written to is as if not reused.  *)
Reuse(c) ==
  \E k \in pool : k.gen = gen[c] /\ TransmitOn(c, k) /\ pool' = pool \ {k}

(* Whoever answers at an address: the console, or someone on the path.     *)
Answering(host) == IF host = "console" THEN Peers ELSE {"stranger"}
Presents(peer) == IF peer = "console" THEN {presented} ELSE Certs \ ConsoleCerts
Credentials(f, peer) == IF Encrypted(f) THEN Presents(peer) ELSE {None}

Connect(c) ==
  /\ at[c] = "connecting"
  /\ LET f == Settings(c) IN
     \E peer \in Answering(Host(f)) : \E cert \in Credentials(f, peer) :
       /\ Encrypted(f) => Verifies(f, cert)
       /\ TransmitOn(c, [gen |-> gen[c], host |-> Host(f), peer |-> peer, cert |-> cert])
  /\ UNCHANGED pool

(* The certificate is not the one, or there is no connection at all.       *)
ConnectFails(c) ==
  /\ at[c] = "connecting"
  /\ Return(c, Unreachable)
  /\ UNCHANGED <<world, pool, input, gen, link, wire, acts, reply>>

-----------------------------------------------------------------------------
(* The peer acts and answers, also after the proxy stopped waiting.        *)
Respond(c) ==
  /\ wire[c] = "sent"
  /\ \E r \in Replies, acting \in {0, 1} :
       /\ r.to = input[c].op /\ (r.status = 200 => acting = 1)
       /\ reply' = [reply EXCEPT ![c] = r]
       /\ acts' = [acts EXCEPT ![c] = @ + acting]
  /\ wire' = [wire EXCEPT ![c] = "answered"]
  /\ UNCHANGED <<world, pool, at, input, gen, link, answer>>

(* Faulty variant: a redirect is followed.                                 *)
HeadersFollowing(c) ==
  /\ at[c] = "sent" /\ wire[c] = "answered"
  /\ IF reply[c].status # 302
     THEN at' = [at EXCEPT ![c] = "reading"] /\ UNCHANGED <<link, wire>>
     ELSE /\ at' = [at EXCEPT ![c] = "sent"]
          /\ wire' = [wire EXCEPT ![c] = "sent"]
          /\ link' = [link EXCEPT ![c].host = "elsewhere", ![c].peer = "stranger"]
  /\ UNCHANGED <<world, pool, input, gen, acts, reply, answer>>

(* The status is there; a redirect is a status like any other.             *)
Headers(c) ==
  /\ at[c] = "sent" /\ wire[c] = "answered"
  /\ at' = [at EXCEPT ![c] = "reading"]
  /\ UNCHANGED <<world, pool, input, gen, link, wire, acts, reply, answer>>

(***************************************************************************)
(* The end of send, from the status and the JSON of the body. The console  *)
(* is quoted for errors that are about the request, never for its own and  *)
(* never for those that are about the proxy's key.                         *)
(***************************************************************************)
Error(status, wording) ==
  [kind |-> "error", status |-> status, wording |-> wording, body |-> Null]

(* Faulty variants: the console's message comes first; all but errors are  *)
(* a success.                                                              *)
ConcludeQuoting(status, said, body) ==
  IF status = 200 THEN [kind |-> "ok", status |-> 200, wording |-> "none", body |-> body]
  ELSE IF said THEN Error(status, "console") ELSE Error(status, "proxy")

ConcludeBelow400(status, said, body) ==
  IF status < 400 THEN [kind |-> "ok", status |-> status, wording |-> "none", body |-> body]
  ELSE Error(status, "proxy")

Conclude(status, said, body) ==
  CASE status = 200 -> [kind |-> "ok", status |-> 200, wording |-> "none", body |-> body]
    [] status >= 500 \/ status = 401 -> Error(status, "proxy")
    [] OTHER -> Error(status, IF said THEN "console" ELSE "proxy")

Body(c) ==
  /\ at[c] = "reading"
  /\ Return(c, Conclude(reply[c].status, reply[c].said, reply[c].body))
  /\ pool' = pool \cup {link[c]}
  /\ UNCHANGED <<world, input, gen, link, wire, acts, reply>>

(* Faulty variant: what there is of a body is read as if it were all.      *)
BodyLostKeeping(c) ==
  /\ at[c] = "reading"
  /\ LET b == reply[c].body
         part == IF b.shape = "object" /\ UNION b.data # {}
                 THEN [b EXCEPT !.data = {{CHOOSE item \in UNION @ : TRUE}}] ELSE b
     IN  Return(c, Conclude(reply[c].status, reply[c].said, part))
  /\ UNCHANGED <<world, pool, input, gen, link, wire, acts, reply>>

(* The body breaks off or takes too long: it counts as empty.              *)
BodyLost(c) ==
  /\ at[c] = "reading"
  /\ Return(c, Conclude(reply[c].status, FALSE, Null))
  /\ UNCHANGED <<world, pool, input, gen, link, wire, acts, reply>>

(* Faulty variants: a call that timed out is made once more; only the      *)
(* connection has a timeout.                                               *)
TimeOutAndRetry(c) ==
  /\ at[c] \in {"connecting", "sent"}
  /\ at' = [at EXCEPT ![c] = "connecting"]
  /\ UNCHANGED <<world, pool, input, gen, link, wire, acts, reply, answer>>

TimeOutConnecting(c) ==
  /\ at[c] = "connecting"
  /\ Return(c, Unreachable)
  /\ UNCHANGED <<world, pool, input, gen, link, wire, acts, reply>>

(* connect_timeout, or upstream_timeout, before there is a status.         *)
TimeOut(c) ==
  /\ at[c] \in {"connecting", "sent"}
  /\ Return(c, Unreachable)
  /\ UNCHANGED <<world, pool, input, gen, link, wire, acts, reply>>

-----------------------------------------------------------------------------
Reload(f) ==
  /\ Len(cfgs) < MaxGen
  /\ cfgs' = Append(cfgs, f)
  /\ UNCHANGED <<presented, pool, at, input, gen, link, wire, acts, reply, answer>>

(* The console gets another certificate, and drops its connections.        *)
Rotate ==
  /\ presented' \in ConsoleCerts \ {presented}
  /\ pool' = {k \in pool : k.peer # "console"}
  /\ UNCHANGED <<cfgs, at, input, gen, link, wire, acts, reply, answer>>

(* What the runtime takes further by itself, timeouts included.            *)
Step(c) ==
  \/ Reuse(c) \/ Connect(c) \/ ConnectFails(c)
  \/ Headers(c) \/ Body(c) \/ BodyLost(c) \/ TimeOut(c)

Next ==
  \/ \E c \in Calls : Begin(c) \/ Step(c) \/ Respond(c)
  \/ \E f \in Configs : Reload(f)
  \/ Rotate

Spec == Init /\ [][Next]_vars

(* Nothing is asked of the peer or of the operator.                        *)
FairSpec == Spec /\ \A c \in Calls : WF_vars(Step(c))

=============================================================================
