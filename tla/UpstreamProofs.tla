--------------------------- MODULE UpstreamProofs ---------------------------
(***************************************************************************)
(* Where the key goes, what is quoted and what becomes of a call, for any  *)
(* number of calls, configurations, certificates and answers.              *)
(*                                                                         *)
(* The invariant is about connections: each, in the pool or in use, is one *)
(* that the configuration of its own Upstream verified. A reload adds a    *)
(* configuration and leaves the older ones as they were.                   *)
(***************************************************************************)
EXTENDS UpstreamProperties, TLAPS

(* What the handshake established: a peer has the key of what it presents. *)
Authentic(f, k) ==
  /\ k.host = Host(f)
  /\ Encrypted(f) => /\ Verifies(f, k.cert) /\ k.cert \in Certs
                     /\ k.peer = "stranger" => k.cert \notin ConsoleCerts
  /\ ~Encrypted(f) => k.cert = None

Established(k) ==
  k \in Link /\ k.gen \in 1 .. Len(cfgs) /\ Authentic(cfgs[k.gen], k)

Pooled == \A k \in pool : Established(k)

(* How far a call has come, and what is so by then.                        *)
Placed(c) ==
  /\ at[c] # "idle" => gen[c] \in 1 .. Len(cfgs)
  /\ at[c] \in {"idle", "connecting"} => wire[c] = "none"
  /\ at[c] \in {"sent", "reading"} => wire[c] # "none"
  /\ at[c] = "reading" => wire[c] = "answered"

Carried(c) ==
  /\ wire[c] # "none" => Established(link[c]) /\ link[c].gen = gen[c] /\ at[c] # "idle"
  /\ wire[c] # "answered" => acts[c] = 0
  /\ wire[c] = "answered" => reply[c] \in Replies /\ (reply[c].status = 200 => acts[c] = 1)

(* The answers that send can give, by what it has received.                *)
Truthful(c, a) ==
  /\ a.kind \in {"ok", "error", "unreachable"}
  /\ a.kind = "ok" => /\ acts[c] = 1 /\ wire[c] = "answered"
                      /\ a.body \in {Null, reply[c].body}
  /\ a.kind = "error" =>
       /\ wire[c] = "answered" /\ a.status = reply[c].status
       /\ a.wording = "console" => reply[c].said /\ reply[c].status \in {302, 400}

Answered(c) ==
  IF at[c] = "done" THEN Truthful(c, answer[c]) ELSE answer[c] = Unanswered

Local(c) == Placed(c) /\ Carried(c) /\ Answered(c)

IInv ==
  /\ TypeOK
  /\ answer = [c \in Calls |-> answer[c]]
  /\ Pooled
  /\ \A c \in Calls : Local(c)

-----------------------------------------------------------------------------
LEMMA InitIInv == Init => IInv
<1> SUFFICES ASSUME Init PROVE IInv
  OBVIOUS
<1>1. PICK f \in Configs : cfgs = <<f>>
  BY DEF Init
<1>2. cfgs \in Seq(Configs) /\ Len(cfgs) = 1
  BY <1>1
<1>3. input \in [Calls -> UNION {Asks[c] : c \in Calls}]
  BY UpstreamAssumption DEF Init
<1>4. presented \in ConsoleCerts
  BY DEF Init
<1>5. TypeOK
  BY <1>2, <1>3, <1>4, UpstreamAssumption DEF Init, TypeOK, Unanswered
<1>6. \A c \in Calls : Local(c)
  BY DEF Init, Local, Placed, Carried, Answered
<1> QED BY <1>5, <1>6 DEF Init, IInv, Pooled

(* A call that is not touched.                                             *)
LEMMA Untouched ==
  ASSUME NEW d, Local(d), UNCHANGED cfgs,
         at'[d] = at[d], gen'[d] = gen[d], link'[d] = link[d], wire'[d] = wire[d],
         acts'[d] = acts[d], reply'[d] = reply[d], answer'[d] = answer[d]
  PROVE  Local(d)'
<1>1. Placed(d)'
  BY DEF Local, Placed
<1>2. Carried(d)'
  BY DEF Local, Carried, Established
<1>3. Answered(d)'
  BY DEF Local, Answered, Truthful
<1> QED BY <1>1, <1>2, <1>3 DEF Local

-----------------------------------------------------------------------------
LEMMA BeginKeepsIInv ==
  ASSUME IInv, NEW c \in Calls, Begin(c)
  PROVE  IInv'
<1>1. TypeOK'
  <2>1. input' \in [Calls -> UNION {Asks[d] : d \in Calls}]
    BY DEF Begin, IInv, TypeOK
  <2>2. /\ at' = [at EXCEPT ![c] = "connecting"] /\ gen' = [gen EXCEPT ![c] = Len(cfgs)]
        /\ UNCHANGED <<cfgs, presented, pool, link, wire, acts, reply, answer>>
    BY DEF Begin, world
  <2>3. Len(cfgs) \in 0 .. Len(cfgs)
    BY UpstreamAssumption DEF IInv, TypeOK
  <2>4. gen' \in [Calls -> 0 .. Len(cfgs')]
    BY <2>2, <2>3 DEF IInv, TypeOK
  <2> QED BY <2>1, <2>2, <2>4 DEF IInv, TypeOK
<1>2. Local(c)'
  BY UpstreamAssumption
     DEF Begin, IInv, TypeOK, world, Local, Placed, Carried, Answered, Truthful
<1>3. ASSUME NEW d \in Calls, d # c PROVE Local(d)'
  BY <1>3, Untouched DEF Begin, IInv, TypeOK, world
<1>4. Pooled'
  BY DEF Begin, IInv, world, Pooled, Established
<1> QED BY <1>1, <1>2, <1>3, <1>4 DEF IInv, Begin

(* The key is sent on a connection of the call's own Upstream.             *)
LEMMA TransmitKeepsIInv ==
  ASSUME IInv, NEW c \in Calls, NEW k, Established(k), k.gen = gen[c],
         TransmitOn(c, k), pool' \subseteq pool
  PROVE  IInv'
<1>1. TypeOK'
  BY DEF TransmitOn, IInv, TypeOK, world, Established
<1>2. Local(c)'
  <2>1. Placed(c)'
    BY DEF TransmitOn, IInv, TypeOK, world, Local, Placed
  <2>2. Carried(c)'
    BY DEF TransmitOn, IInv, TypeOK, world, Local, Placed, Carried, Established
  <2>3. Answered(c)'
    BY DEF TransmitOn, IInv, TypeOK, Local, Answered
  <2> QED BY <2>1, <2>2, <2>3 DEF Local
<1>3. ASSUME NEW d \in Calls, d # c PROVE Local(d)'
  BY <1>3, Untouched DEF TransmitOn, IInv, TypeOK, world
<1>4. Pooled'
  BY DEF TransmitOn, IInv, world, Pooled, Established
<1> QED BY <1>1, <1>2, <1>3, <1>4 DEF IInv, TransmitOn

LEMMA ReuseKeepsIInv ==
  ASSUME IInv, NEW c \in Calls, Reuse(c)
  PROVE  IInv'
<1>1. PICK k \in pool : k.gen = gen[c] /\ TransmitOn(c, k) /\ pool' = pool \ {k}
  BY DEF Reuse
<1>2. Established(k)
  BY DEF IInv, Pooled
<1> QED BY <1>1, <1>2, TransmitKeepsIInv

LEMMA ConnectKeepsIInv ==
  ASSUME IInv, NEW c \in Calls, Connect(c)
  PROVE  IInv'
<1> DEFINE f == Settings(c)
<1>0. PICK peer \in Answering(Host(f)) : \E cert \in Credentials(f, peer) :
        /\ Encrypted(f) => Verifies(f, cert)
        /\ TransmitOn(c, [gen |-> gen[c], host |-> Host(f), peer |-> peer, cert |-> cert])
  BY DEF Connect
<1>1. PICK cert \in Credentials(f, peer) :
        /\ Encrypted(f) => Verifies(f, cert)
        /\ TransmitOn(c, [gen |-> gen[c], host |-> Host(f), peer |-> peer, cert |-> cert])
  BY <1>0
<1> DEFINE k == [gen |-> gen[c], host |-> Host(f), peer |-> peer, cert |-> cert]
<1>2. gen[c] \in 1 .. Len(cfgs) /\ f \in Configs
  BY <1>1 DEF TransmitOn, IInv, TypeOK, Local, Placed, Settings
<1>3. f \in Content
  BY <1>2, UpstreamAssumption
<1>4. Host(f) \in {"console", "elsewhere"} \cup Schemes
  BY <1>3 DEF Host, Content
<1>5. peer \in Peers
  BY DEF Answering, Peers
<1>6. Encrypted(f) => /\ cert \in Certs
                      /\ peer = "stranger" => cert \notin ConsoleCerts
  BY <1>5, UpstreamAssumption DEF Credentials, Presents, Peers, IInv, TypeOK
<1>7. ~Encrypted(f) => cert = None
  BY DEF Credentials
<1>8. k \in Link
  BY <1>2, <1>4, <1>5, <1>6, <1>7 DEF Link
<1>9. Authentic(f, k)
  BY <1>1, <1>6, <1>7 DEF Authentic
<1>10. Established(k)
  BY <1>2, <1>8, <1>9 DEF Established, Settings
<1>11. pool' = pool
  BY DEF Connect
<1> HIDE DEF f
<1> QED BY <1>1, <1>10, <1>11, TransmitKeepsIInv

-----------------------------------------------------------------------------
(* The peer acts and answers.                                              *)
LEMMA RespondKeepsIInv ==
  ASSUME IInv, NEW c \in Calls, Respond(c)
  PROVE  IInv'
<1>1. PICK r \in Replies, acting \in {0, 1} :
        /\ r.to = input[c].op /\ (r.status = 200 => acting = 1)
        /\ reply' = [reply EXCEPT ![c] = r]
        /\ acts' = [acts EXCEPT ![c] = @ + acting]
  BY DEF Respond
<1>2. wire[c] = "sent" /\ wire' = [wire EXCEPT ![c] = "answered"]
      /\ UNCHANGED <<world, pool, at, input, gen, link, answer>>
  BY DEF Respond
<1>3. acts[c] = 0
  BY <1>2 DEF IInv, Local, Carried
<1>4. acts' \in [Calls -> {0, 1}] /\ acts'[c] = acting
  BY <1>1, <1>3 DEF IInv, TypeOK
<1>5. TypeOK'
  BY <1>1, <1>2, <1>4 DEF IInv, TypeOK, world
<1>6. Local(c)'
  <2>1. Placed(c)'
    BY <1>2 DEF IInv, TypeOK, world, Local, Placed
  <2>2. Carried(c)'
    BY <1>1, <1>2, <1>4 DEF IInv, TypeOK, world, Local, Carried, Established
  <2>3. Answered(c)'
    BY <1>1, <1>2, <1>3, <1>4 DEF IInv, TypeOK, Local, Answered, Truthful
  <2> QED BY <2>1, <2>2, <2>3 DEF Local
<1>7. ASSUME NEW d \in Calls, d # c PROVE Local(d)'
  BY <1>1, <1>2, <1>7, Untouched DEF IInv, TypeOK, world
<1>8. Pooled'
  BY <1>2 DEF IInv, world, Pooled, Established
<1> QED BY <1>2, <1>5, <1>6, <1>7, <1>8 DEF IInv

LEMMA HeadersKeepIInv ==
  ASSUME IInv, NEW c \in Calls, Headers(c)
  PROVE  IInv'
<1>1. TypeOK'
  BY DEF Headers, IInv, TypeOK, world
<1>2. Local(c)'
  BY DEF Headers, IInv, TypeOK, world, Local, Placed, Carried, Established, Answered
<1>3. ASSUME NEW d \in Calls, d # c PROVE Local(d)'
  BY <1>3, Untouched DEF Headers, IInv, TypeOK, world
<1>4. Pooled'
  BY DEF Headers, IInv, world, Pooled, Established
<1> QED BY <1>1, <1>2, <1>3, <1>4 DEF IInv, Headers

(* What a call returns is what it has received.                            *)
LEMMA ReturnKeepsIInv ==
  ASSUME IInv, NEW c \in Calls, NEW a, Return(c, a), at[c] # "idle", Truthful(c, a),
         UNCHANGED <<world, input, gen, link, wire, acts, reply>>,
         \A k \in pool' : Established(k)
  PROVE  IInv'
<1>1. answer'[c] = a
  BY DEF Return, IInv
<1>2. TypeOK'
  <2>1. pool' \subseteq Link
    BY DEF Established
  <2>2. \A d \in Calls : answer'[d].kind \in {"none", "ok", "error", "unreachable"}
    <3>1. a.kind \in {"ok", "error", "unreachable"}
      BY DEF Truthful
    <3>2. \A d \in Calls \ {c} : answer'[d] = answer[d]
      BY DEF Return, IInv
    <3> QED BY <1>1, <3>1, <3>2 DEF IInv, TypeOK
  <2> QED BY <2>1, <2>2 DEF Return, IInv, TypeOK, world
<1>3. Local(c)'
  <2>1. Placed(c)'
    BY DEF Return, IInv, TypeOK, world, Local, Placed
  <2>2. Carried(c)'
    BY DEF Return, IInv, TypeOK, world, Local, Carried, Established
  <2>3. Answered(c)'
    BY <1>1 DEF Return, IInv, TypeOK, Answered, Truthful
  <2> QED BY <2>1, <2>2, <2>3 DEF Local
<1>4. ASSUME NEW d \in Calls, d # c PROVE Local(d)'
  BY <1>4, Untouched DEF Return, IInv, TypeOK, world
<1>5. Pooled'
  BY DEF world, Pooled, Established
<1>6. (answer = [d \in Calls |-> answer[d]])'
  BY DEF Return, IInv
<1> QED BY <1>2, <1>3, <1>4, <1>5, <1>6 DEF IInv

(* send's last lines quote the console for errors of the request only.     *)
LEMMA ConcludeIsTruthful ==
  ASSUME IInv, NEW c \in Calls, at[c] = "reading",
         NEW said \in BOOLEAN, said => reply[c].said,
         NEW body \in {Null, reply[c].body}
  PROVE  Truthful(c, Conclude(reply[c].status, said, body))
<1>1. wire[c] = "answered" /\ reply[c] \in Replies /\ (reply[c].status = 200 => acts[c] = 1)
  BY DEF IInv, Local, Placed, Carried
<1>2. reply[c].status \in Statuses
  BY <1>1, UpstreamAssumption
<1> QED BY <1>1, <1>2 DEF Conclude, Error, Truthful, Statuses

LEMMA BodyKeepsIInv ==
  ASSUME IInv, NEW c \in Calls, Body(c) \/ BodyLost(c)
  PROVE  IInv'
<1>1. at[c] = "reading"
  BY DEF Body, BodyLost
<1>2. reply[c].said \in BOOLEAN
  BY <1>1, UpstreamAssumption DEF IInv, Local, Placed, Carried
<1>3. Established(link[c])
  BY <1>1 DEF IInv, Local, Placed, Carried
<1>4. CASE Body(c)
  <2>1. Truthful(c, Conclude(reply[c].status, reply[c].said, reply[c].body))
    BY <1>1, <1>2, ConcludeIsTruthful
  <2>2. \A k \in pool' : Established(k)
    BY <1>3, <1>4 DEF Body, IInv, Pooled
  <2> QED BY <1>1, <1>4, <2>1, <2>2, ReturnKeepsIInv DEF Body
<1>5. CASE BodyLost(c)
  <2>1. Truthful(c, Conclude(reply[c].status, FALSE, Null))
    BY <1>1, ConcludeIsTruthful
  <2>2. \A k \in pool' : Established(k)
    BY <1>5 DEF BodyLost, IInv, Pooled
  <2> QED BY <1>1, <1>5, <2>1, <2>2, ReturnKeepsIInv DEF BodyLost
<1> QED BY <1>4, <1>5

LEMMA GivingUpKeepsIInv ==
  ASSUME IInv, NEW c \in Calls, ConnectFails(c) \/ TimeOut(c)
  PROVE  IInv'
<1>1. Truthful(c, Unreachable)
  BY DEF Truthful, Unreachable, Unanswered
<1>2. at[c] # "idle" /\ Return(c, Unreachable)
      /\ UNCHANGED <<world, pool, input, gen, link, wire, acts, reply>>
  BY DEF ConnectFails, TimeOut
<1>3. \A k \in pool' : Established(k)
  BY <1>2 DEF IInv, Pooled
<1> QED BY <1>1, <1>2, <1>3, ReturnKeepsIInv

LEMMA ReloadKeepsIInv ==
  ASSUME IInv, NEW f \in Configs, Reload(f)
  PROVE  IInv'
<1>1. /\ cfgs' \in Seq(Configs) /\ Len(cfgs') = Len(cfgs) + 1 /\ Len(cfgs') \in 1 .. MaxGen
      /\ \A i \in 1 .. Len(cfgs) : cfgs'[i] = cfgs[i]
      /\ Len(cfgs) \in Nat
  BY UpstreamAssumption DEF Reload, IInv, TypeOK
<1>2. UNCHANGED <<presented, pool, at, input, gen, link, wire, acts, reply, answer>>
  BY DEF Reload
<1>3. \A i \in 1 .. Len(cfgs) : i \in 1 .. Len(cfgs')
  BY <1>1
<1>4. ASSUME NEW k, Established(k) PROVE Established(k)'
  BY <1>1, <1>3, <1>4 DEF Established
<1>5. TypeOK'
  <2>1. gen' \in [Calls -> 0 .. Len(cfgs')]
    BY <1>1, <1>2 DEF IInv, TypeOK
  <2> QED BY <1>1, <1>2, <2>1 DEF IInv, TypeOK
<1>6. ASSUME NEW d \in Calls PROVE Local(d)'
  <2>1. Placed(d)'
    BY <1>2, <1>3 DEF IInv, Local, Placed
  <2>2. Carried(d)'
    BY <1>2, <1>4 DEF IInv, Local, Carried
  <2>3. Answered(d)'
    BY <1>2 DEF IInv, Local, Answered, Truthful
  <2> QED BY <2>1, <2>2, <2>3 DEF Local
<1>7. Pooled'
  BY <1>2, <1>4 DEF IInv, Pooled
<1> QED BY <1>2, <1>5, <1>6, <1>7 DEF IInv

(* Time, nothing happening, and another certificate of the console.        *)
LEMMA RotateKeepsIInv ==
  ASSUME IInv, Rotate \/ UNCHANGED vars
  PROVE  IInv'
<1>1. /\ presented' \in ConsoleCerts /\ pool' \subseteq pool
      /\ UNCHANGED <<cfgs, at, input, gen, link, wire, acts, reply, answer>>
  BY DEF Rotate, vars, IInv, TypeOK
<1>2. TypeOK'
  BY <1>1 DEF IInv, TypeOK
<1>3. \A d \in Calls : Local(d)'
  BY <1>1, Untouched DEF IInv
<1>4. Pooled'
  BY <1>1 DEF IInv, Pooled, Established
<1> QED BY <1>1, <1>2, <1>3, <1>4 DEF IInv

THEOREM Invariance == Spec => []IInv
<1>1. IInv /\ [Next]_vars => IInv'
  <2> SUFFICES ASSUME IInv, [Next]_vars PROVE IInv'
    OBVIOUS
  <2>1. ASSUME NEW c \in Calls, Begin(c) \/ Step(c) \/ Respond(c) PROVE IInv'
    BY <2>1, BeginKeepsIInv, ReuseKeepsIInv, ConnectKeepsIInv, GivingUpKeepsIInv,
       HeadersKeepIInv, BodyKeepsIInv, RespondKeepsIInv DEF Step
  <2> QED BY <2>1, ReloadKeepsIInv, RotateKeepsIInv DEF Next
<1> QED BY <1>1, InitIInv, PTL DEF Spec

-----------------------------------------------------------------------------
(***************************************************************************)
(* Type correctness; no call is carried out more than once, as send never  *)
(* sends again (upstream.rs:84-99).                                        *)
(***************************************************************************)
THEOREM Typing == Spec => []TypeOK
<1>1. IInv => TypeOK
  BY DEF IInv
<1> QED BY <1>1, Invariance, PTL

(***************************************************************************)
(* The key goes to the host of the call's own configuration, in the clear  *)
(* only where that is allowed, else to a certificate that it trusts, for   *)
(* any number of reloads and pooled connections (tls.rs:175-217,           *)
(* upstream.rs:27-41).                                                     *)
(***************************************************************************)
THEOREM KeyStaysWhereConfigured == Spec => []KeyGoesWhereConfigured
<1>1. IInv => KeyGoesWhereConfigured
  <2> SUFFICES ASSUME IInv, NEW c \in Calls, Sent(c)
               PROVE  LET f == Settings(c) IN
                      /\ link[c].host = Host(f)
                      /\ link[c].cert = None => f.allowPlaintext
                      /\ link[c].cert # None /\ f.pins # None => link[c].cert \in f.pins
                      /\ link[c].cert # None /\ f.pins = None =>
                           f.insecure \/ link[c].cert \in Public[Host(f)]
    BY DEF KeyGoesWhereConfigured
  <2>1. Authentic(Settings(c), link[c])
    BY DEF Sent, IInv, Local, Carried, Established, Settings
  <2>2. Settings(c) \in Configs
    BY DEF Sent, IInv, TypeOK, Local, Placed, Carried, Settings
  <2>3. Accepted(Settings(c)) /\ Settings(c) \in Content
    BY <2>2, UpstreamAssumption
  <2>4. CASE Encrypted(Settings(c))
    BY <2>1, <2>4, ConfigurationAssumption DEF Authentic, Verifies, PinMatches
  <2>5. CASE ~Encrypted(Settings(c))
    BY <2>1, <2>3, <2>5
       DEF Authentic, Encrypted, Accepted, Loads, Validates, IsPlaintext
  <2> QED BY <2>4, <2>5
<1> QED BY <1>1, Invariance, PTL

(***************************************************************************)
(* With the console's certificates pinned, what answers over TLS is the    *)
(* console, whatever else is on the path (tls.rs:43, tls.rs:80-102).       *)
(***************************************************************************)
THEOREM PinsReachTheConsole == Spec => []PinnedCallsReachTheConsole
<1>1. IInv => PinnedCallsReachTheConsole
  <2> SUFFICES ASSUME IInv, NEW c \in Calls, Sent(c), Encrypted(Settings(c)),
                      Settings(c).pins # None, Settings(c).pins \subseteq ConsoleCerts
               PROVE  link[c].peer = "console"
    BY DEF PinnedCallsReachTheConsole
  <2>1. Authentic(Settings(c), link[c]) /\ link[c] \in Link
    BY DEF Sent, IInv, Local, Carried, Established, Settings
  <2>2. link[c].cert \in ConsoleCerts
    BY <2>1 DEF Authentic, Verifies, PinMatches
  <2> QED BY <2>1, <2>2 DEF Authentic, Link, Peers
<1> QED BY <1>1, Invariance, PTL

(***************************************************************************)
(* What the console says of itself or of the key stays in the log,         *)
(* whatever it answers and whichever way the body ends                     *)
(* (upstream.rs:101-156).                                                  *)
(***************************************************************************)
THEOREM QuotedForRequestErrors == Spec => []OnlyRequestErrorsAreQuoted
<1>1. IInv => OnlyRequestErrorsAreQuoted
  BY DEF IInv, Local, Answered, Truthful, Over, OnlyRequestErrorsAreQuoted
<1> QED BY <1>1, Invariance, PTL

-----------------------------------------------------------------------------
(* How the two interfaces read JSON, for any items and any sites.          *)

LEMMA PlainRead ==
  ASSUME NEW items, Plain(items), NEW item \in items
  PROVE  /\ AsStr(item.id) = {item.id.of} /\ AsStr(item._id) = {}
         /\ IdOf(item) = {item.id.of}
         /\ \A sites : Keeps(item, sites) <=> item.id.of \in sites
<1>1. item.id.type = "text" /\ item.id.of # "" /\ item._id = Missing
  BY DEF Plain
<1>2. item.id \notin {Missing, Text("")}
  <2>1. Missing.type = "none" /\ Text("").of = ""
    BY DEF Missing, Text
  <2> QED BY <1>1, <2>1
<1> QED BY <1>1, <1>2 DEF AsStr, IdOf, Keeps

(* GraphQL lists the items of the array that list_field finds.             *)
LEMMA ListedOfPlain ==
  ASSUME NEW body, Plain(ListField(body))
  PROVE  ListedIds(body) = {item.id.of : item \in ListField(body)}
<1>1. \A item \in ListField(body) : IdOf(item) = {item.id.of}
  BY PlainRead
<1>2. Listed(body) = ListField(body)
  BY <1>1 DEF Listed
<1> QED BY <1>1, <1>2 DEF ListedIds

(* What a client reads off a body is the identifiers of its items.         *)
LEMMA IdsOfPlain ==
  ASSUME NEW body, Plain(ItemsOf(body))
  PROVE  IdsIn(body) = {item.id.of : item \in ItemsOf(body)}
<1>1. \A item \in ItemsOf(body) : AsStr(item.id) \cup AsStr(item._id) = {item.id.of}
  BY PlainRead
<1> QED BY <1>1 DEF IdsIn

(* REST keeps of the array under `data' what the token may use.            *)
LEMMA RestOfPlain ==
  ASSUME NEW body, body.shape = "object", body.data # {}, Plain(UNION body.data),
         NEW sites, "*" \notin sites \/ Documented(body)
  PROVE  RestSites(body, sites) =
           {id \in {item.id.of : item \in UNION body.data} : id \in sites \/ "*" \in sites}
<1> DEFINE kept == {item \in UNION body.data : Keeps(item, sites)}
           rest == Object({kept}, {}, {})
<1>1. CASE "*" \notin sites
  <2>1. RestSites(body, sites) = IdsIn(rest)
    BY <1>1 DEF RestSites, FilterSites
  <2>2. ItemsOf(rest) = kept
    <3>1. /\ rest.shape = "object" /\ rest.data = {kept}
          /\ rest.vouchers = {} /\ rest.other = {}
      BY DEF Object
    <3> HIDE DEF kept, rest
    <3> QED BY <3>1 DEF ItemsOf
  <2>3. Plain(kept) /\ \A item : item \in kept <=> item \in UNION body.data /\ item.id.of \in sites
    BY PlainRead DEF Plain
  <2> HIDE DEF kept, rest
  <2>4. IdsIn(rest) = {item.id.of : item \in kept}
    BY <2>2, <2>3, IdsOfPlain
  <2> QED BY <1>1, <2>1, <2>3, <2>4
<1>2. CASE "*" \in sites
  <2>1. RestSites(body, sites) = IdsIn(body)
    BY <1>2 DEF RestSites, FilterSites
  <2>2. body.vouchers = {} /\ body.other = {}
    BY <1>2 DEF Documented
  <2>3. ItemsOf(body) = UNION body.data
    BY <2>2 DEF ItemsOf
  <2> QED BY <1>2, <2>1, <2>3, IdsOfPlain
<1> QED BY <1>1, <1>2

(***************************************************************************)
(* The sites of the token, no more and no fewer, in REST (filter_sites,    *)
(* routes.rs:216-234) and in GraphQL (Query::sites, graphql.rs:137-153),   *)
(* for every body that has a documented array under `data'.                *)
(***************************************************************************)
THEOREM SitesAreTheTokens == Spec => []InterfacesAgreeOnSites
<1>1. IInv => InterfacesAgreeOnSites
  <2> SUFFICES ASSUME IInv, NEW c \in Calls,
                      ListsSites(c), answer[c].body.shape = "object",
                      reply[c].body.data # {}, Plain(UNION reply[c].body.data),
                      Scoped(c) \/ Documented(reply[c].body)
               PROVE  InRest(c) = Own(c) /\ InGraphQL(c) = Own(c)
    BY DEF InterfacesAgreeOnSites
  <2> DEFINE body == reply[c].body
             sites == input[c].sites
  <2>1. answer[c].body = body /\ body.shape = "object"
    <3>1. answer[c].body \in {Null, reply[c].body}
      BY DEF IInv, Local, Answered, Truthful, ListsSites, Over
    <3> QED BY <3>1 DEF Null
  <2>2. InRest(c) = Own(c)
    <3>1. RestSites(body, sites) =
            {id \in {item.id.of : item \in UNION body.data} : id \in sites \/ "*" \in sites}
      BY <2>1, RestOfPlain DEF Scoped
    <3> QED BY <2>1, <3>1 DEF InRest, Own, Scoped
  <2>3. InGraphQL(c) = Own(c)
    <3>1. ListField(body) = UNION body.data
      BY <2>1 DEF ListField
    <3>2. ListedIds(body) = {item.id.of : item \in UNION body.data}
      BY <3>1, ListedOfPlain
    <3> QED BY <2>1, <3>2 DEF InGraphQL, GraphQLSites, Own, Scoped
  <2> QED BY <2>2, <2>3
<1> QED BY <1>1, Invariance, PTL

(***************************************************************************)
(* A body that breaks off or is not JSON lists nothing; any other lists    *)
(* all that the console did (upstream.rs:101-111, model.rs:63-81).         *)
(***************************************************************************)
THEOREM ListsStayWhole == Spec => []ListsAreWholeOrEmpty
<1>1. IInv => ListsAreWholeOrEmpty
  <2> SUFFICES ASSUME IInv, NEW c \in Calls, Over(c, "ok"), Documented(reply[c].body)
               PROVE  ListedIds(answer[c].body) \in {{}, IdsIn(reply[c].body)}
    BY DEF ListsAreWholeOrEmpty
  <2> DEFINE body == reply[c].body
  <2>1. answer[c].body \in {Null, body}
    BY DEF IInv, Local, Answered, Truthful, Over
  <2>2. ListedIds(Null) = {}
    BY DEF ListedIds, Listed, ListField, Null
  <2>3. /\ ListField(body) = ItemsOf(body) /\ Plain(ItemsOf(body))
    BY DEF Documented, ListField, ItemsOf
  <2>4. ListedIds(body) = IdsIn(body)
    <3> HIDE DEF body
    <3> QED BY <2>3, ListedOfPlain, IdsOfPlain
  <2> HIDE DEF body
  <2>5. ListedIds(answer[c].body) \in {{}, IdsIn(body)}
    BY <2>1, <2>2, <2>4
  <2> QED BY <2>5 DEF body
<1> QED BY <1>1, Invariance, PTL

-----------------------------------------------------------------------------
(* Every step of a call is a step of Mediation for it, or none.            *)
Verdict(c) == IF at[c] = "idle" THEN "open" ELSE "granted"
Acted(c) == acts[c] = 1

Unmoved(c) == Verdict(c)' = Verdict(c) /\ Acted(c)' = Acted(c) /\ Told(c)' = Told(c)

LEMMA UnmovedWhen ==
  ASSUME NEW d, at'[d] = at[d], acts'[d] = acts[d], answer'[d] = answer[d]
  PROVE  Unmoved(d)
BY DEF Unmoved, Verdict, Acted, Told

LEMMA AllUnmoved ==
  ASSUME \A d \in Calls : Unmoved(d)
  PROVE  UNCHANGED M!vars
<1> DEFINE V == [d \in Calls |-> IF at[d] = "idle" THEN "open" ELSE "granted"]
           A == [d \in Calls |-> acts[d] = 1]
           T == [d \in Calls |-> Told(d)]
<1>1. V' = V
  BY DEF Unmoved, Verdict
<1>2. A' = A
  BY DEF Unmoved, Acted
<1>3. T' = T
  BY DEF Unmoved
<1> QED BY <1>1, <1>2, <1>3 DEF M!vars

LEMMA BeginGrants ==
  ASSUME IInv, NEW c \in Calls, Begin(c)
  PROVE  M!Next
<1> DEFINE V == [d \in Calls |-> IF at[d] = "idle" THEN "open" ELSE "granted"]
           A == [d \in Calls |-> acts[d] = 1]
           T == [d \in Calls |-> Told(d)]
<1>1. /\ at[c] = "idle" /\ at' = [at EXCEPT ![c] = "connecting"]
      /\ UNCHANGED <<acts, answer>>
  BY DEF Begin
<1>2. V[c] = "open" /\ V' = [V EXCEPT ![c] = "granted"]
  BY <1>1 DEF IInv, TypeOK
<1>3. A' = A
  BY <1>1
<1>4. \A d \in Calls : Told(d)' = Told(d)
  BY <1>1 DEF Told, IInv, TypeOK
<1>5. T' = T
  BY <1>4
<1>6. M!Grant(c)
  BY <1>2, <1>3, <1>5 DEF M!Grant
<1> QED BY <1>6 DEF M!Next

LEMMA RespondActs ==
  ASSUME IInv, NEW c \in Calls, Respond(c)
  PROVE  [M!Next]_M!vars
<1> DEFINE V == [d \in Calls |-> IF at[d] = "idle" THEN "open" ELSE "granted"]
           A == [d \in Calls |-> acts[d] = 1]
           T == [d \in Calls |-> Told(d)]
<1>1. PICK acting \in {0, 1} : acts' = [acts EXCEPT ![c] = @ + acting]
  BY DEF Respond
<1>2. acts[c] = 0 /\ at[c] # "idle" /\ UNCHANGED <<at, answer>>
  BY DEF Respond, IInv, Local, Carried
<1>3. CASE acting = 0
  <2>1. \A d \in Calls : acts'[d] = acts[d]
    BY <1>1, <1>2, <1>3 DEF IInv, TypeOK
  <2>2. \A d \in Calls : Unmoved(d)
    BY <1>2, <2>1, UnmovedWhen
  <2> QED BY <2>2, AllUnmoved
<1>4. CASE acting = 1
  <2>1. V[c] = "granted" /\ V' = V
    BY <1>2
  <2>2. acts'[c] = 1 /\ \A d \in Calls \ {c} : acts'[d] = acts[d]
    BY <1>1, <1>2, <1>4 DEF IInv, TypeOK
  <2>5. ~A[c]
    <3>1. A[c] = Acted(c)
      BY DEF Acted
    <3>2. ~Acted(c)
      BY <1>2 DEF Acted
    <3> HIDE DEF A
    <3> QED BY <3>1, <3>2
  <2>6. Acted(c)' /\ \A d \in Calls \ {c} : Acted(d)' = Acted(d)
    BY <2>2 DEF Acted
  <2>7. A' = [A EXCEPT ![c] = TRUE]
    BY <2>6 DEF Acted
  <2>3. T' = T
    BY <1>2 DEF Told
  <2>4. M!Act(c)
    BY <2>1, <2>3, <2>5, <2>7 DEF M!Act
  <2> QED BY <2>4 DEF M!Next
<1> QED BY <1>3, <1>4

LEMMA ReturnTells ==
  ASSUME IInv, NEW c \in Calls, NEW a, Return(c, a), Truthful(c, a), UNCHANGED acts,
         at[c] \notin {"idle", "done"}
  PROVE  M!Next
<1> DEFINE V == [d \in Calls |-> IF at[d] = "idle" THEN "open" ELSE "granted"]
           A == [d \in Calls |-> acts[d] = 1]
           T == [d \in Calls |-> Told(d)]
<1>1. at' = [at EXCEPT ![c] = "done"] /\ answer' = [answer EXCEPT ![c] = a]
  BY DEF Return
<1>2. V[c] = "granted" /\ V' = V
  BY <1>1 DEF IInv, TypeOK
<1>3. A' = A
  OBVIOUS
<1>4. at'[c] = "done" /\ answer'[c] = a
  BY <1>1 DEF IInv, TypeOK
<1>5. Told(c)' = IF a.kind = "ok" THEN "success" ELSE "failure"
  BY <1>4 DEF Told
<1>6. Told(c) = "nothing" /\ T[c] = "nothing"
  BY DEF Told
<1>7. \A d \in Calls \ {c} : Told(d)' = Told(d)
  BY <1>1 DEF Told, IInv, TypeOK
<1>8. T' = [T EXCEPT ![c] = Told(c)']
  BY <1>7
<1>9. Told(c)' = "success" => A[c]
  <2>1. acts[c] = 1 => A[c]
    OBVIOUS
  <2>2. Told(c)' = "success" => acts[c] = 1
    BY <1>5 DEF Truthful
  <2> QED BY <2>1, <2>2
<1>10. Told(c)' \in {"success", "failure"}
  BY <1>5
<1>11. M!Tell(c)
  <2>1. /\ V[c] = "granted" /\ T[c] = "nothing" /\ V' = V /\ A' = A
        /\ T' = [T EXCEPT ![c] = Told(c)']
        /\ Told(c)' \in {"success", "failure"} /\ (Told(c)' = "success" => A[c])
    <3> HIDE DEF V, A, T
    <3> QED BY <1>2, <1>3, <1>6, <1>8, <1>9, <1>10
  <2> QED BY <2>1 DEF M!Tell
<1> QED BY <1>11 DEF M!Next

LEMMA CallMediates ==
  ASSUME IInv, NEW c \in Calls, Begin(c) \/ Step(c) \/ Respond(c)
  PROVE  [M!Next]_M!vars
<1>1. CASE Begin(c)
  BY <1>1, BeginGrants
<1>2. CASE Respond(c)
  BY <1>2, RespondActs
<1>3. CASE Headers(c) \/ \E k : TransmitOn(c, k)
  <2>1. /\ UNCHANGED <<acts, answer>> /\ at[c] \notin {"idle", "done"}
        /\ at' = [at EXCEPT ![c] = at'[c]] /\ at'[c] \notin {"idle", "done"}
    BY <1>3 DEF Headers, TransmitOn, IInv, TypeOK
  <2>2. Unmoved(c)
    BY <2>1 DEF Unmoved, Verdict, Acted, Told
  <2>3. \A d \in Calls \ {c} : Unmoved(d)
    BY <2>1, UnmovedWhen DEF IInv, TypeOK
  <2> QED BY <2>2, <2>3, AllUnmoved
<1>4. CASE ConnectFails(c) \/ TimeOut(c)
  <2>1. Truthful(c, Unreachable)
    BY DEF Truthful, Unreachable, Unanswered
  <2> QED BY <1>4, <2>1, ReturnTells DEF ConnectFails, TimeOut
<1>5. CASE Body(c)
  <2>1. at[c] = "reading" /\ reply[c].said \in BOOLEAN
    BY <1>5, UpstreamAssumption DEF Body, IInv, Local, Placed, Carried
  <2>2. Truthful(c, Conclude(reply[c].status, reply[c].said, reply[c].body))
    BY <2>1, ConcludeIsTruthful
  <2> QED BY <1>5, <2>1, <2>2, ReturnTells DEF Body
<1>6. CASE BodyLost(c)
  <2>1. Truthful(c, Conclude(reply[c].status, FALSE, Null))
    BY <1>6, ConcludeIsTruthful DEF BodyLost
  <2> QED BY <1>6, <2>1, ReturnTells DEF BodyLost
<1> QED BY <1>1, <1>2, <1>3, <1>4, <1>5, <1>6 DEF Step, Reuse, Connect

(***************************************************************************)
(* A call to the console implements Mediation: carried out at most once, a *)
(* success only if it was, and whatever may have been carried out is never *)
(* called refused (upstream.rs:84-157).                                    *)
(***************************************************************************)
THEOREM ImplementsMediation == Spec => MediatesCalls
<1>1. Init => M!Init
  <2> SUFFICES ASSUME Init PROVE M!Init
    OBVIOUS
  <2>1. \A c \in Calls : at[c] = "idle" /\ acts[c] = 0
    BY DEF Init
  <2>2. \A c \in Calls : Told(c) = "nothing" /\ Verdict(c) = "open" /\ (acts[c] = 1) = FALSE
    BY <2>1 DEF Told, Verdict
  <2> QED BY <2>2 DEF M!Init, Verdict
<1>2. IInv /\ [Next]_vars => [M!Next]_M!vars
  <2> SUFFICES ASSUME IInv, [Next]_vars PROVE [M!Next]_M!vars
    OBVIOUS
  <2>1. ASSUME NEW c \in Calls, Begin(c) \/ Step(c) \/ Respond(c) PROVE [M!Next]_M!vars
    BY <2>1, CallMediates
  <2>2. CASE UNCHANGED vars \/ Rotate \/ \E f \in Configs : Reload(f)
    <3>1. UNCHANGED <<at, acts, answer>>
      BY <2>2 DEF vars, Rotate, Reload
    <3>2. \A d \in Calls : Unmoved(d)
      BY <3>1, UnmovedWhen
    <3> QED BY <3>2, AllUnmoved
  <2> QED BY <2>1, <2>2 DEF Next
<1> QED BY <1>1, <1>2, Invariance, PTL DEF Spec, MediatesCalls, M!Spec

=============================================================================
