----------------------------- MODULE MCUpstream -----------------------------
(* A console with two certificates of its own, one at a time, the second   *)
(* from a public root; and a stranger on the path, who has one for any     *)
(* other host.                                                             *)
EXTENDS UpstreamProperties

MCPublic == [h \in {"console"} \cup Schemes |-> IF h = "console" THEN {"new"} ELSE {"other"}]

Entry == [named |-> TRUE, hash |-> "argon2", scoped |-> TRUE]
Pinned == [form |-> "parsed", key |-> "set", tokens |-> {Entry}, scheme |-> "none",
           allowPlaintext |-> FALSE, insecure |-> FALSE, pins |-> {"old"}]
WebPki == [Pinned EXCEPT !.pins = None, !.scheme = "https"]
Sidecar == [WebPki EXCEPT !.scheme = "http", !.allowPlaintext = TRUE]

MCConfigs == {Pinned, WebPki, Sidecar}
MCOne == {Pinned}

Site(i) == Item(Text(i), Missing)
TwoSites == {Site("a"), Site("b")}

Fine(op, b) == [to |-> op, status |-> 200, said |-> FALSE, body |-> b]
Failed(op, s, m) == [to |-> op, status |-> s, said |-> m, body |-> Null]
OlderSites == {Item(Missing, Text("a")), Item(Number("a"), Text("b"))}
MCReplies ==
  {Fine("list_sites", b) :
     b \in {Object({TwoSites}, {}, {}), Object({TwoSites}, {{Site("b")}}, {}),
            Object({OlderSites}, {}, {}), Object({}, {}, {TwoSites}), Array(TwoSites)}}
  \cup {Fine("create", Object({}, {TwoSites}, {})),
        Failed("list_sites", 400, FALSE), Failed("create", 400, TRUE)}
  \cup {Failed("create", s, TRUE) : s \in {302, 401, 500}}

Lists(sites) == [op |-> "list_sites", sites |-> sites]
MCAsks == [c \in Calls |-> IF c = "creator" THEN {[op |-> "create", sites |-> {"*"}]}
                           ELSE {Lists({"a"})}]

=============================================================================
