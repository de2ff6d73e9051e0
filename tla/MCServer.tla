------------------------------ MODULE MCServer ------------------------------
(* A file that is good in two ways, and bad in two: check-config could     *)
(* miss either.                                                            *)
EXTENDS ServerProperties

Entry == [named |-> TRUE, hash |-> "argon2", scoped |-> TRUE]
Good == [form |-> "parsed", key |-> "set", tokens |-> {Entry}, scheme |-> "none",
         allowPlaintext |-> FALSE, insecure |-> FALSE, pins |-> {"old"}]
Other == [Good EXCEPT !.pins = None, !.insecure = TRUE]
BrokenHash == [Good EXCEPT !.tokens = {Entry, [Entry EXCEPT !.hash = "broken"]}]
BadPin == [Good EXCEPT !.pins = {"old", Malformed}]

MCPublic == [h \in {"console"} \cup Schemes |-> {}]
MCContents == {Good, Other, BrokenHash, BadPin}

=============================================================================
