-------------------------- MODULE MCAuthenticator --------------------------
(* Small instances of Authenticator.                                       *)
EXTENDS Authenticator, TLC

Symmetry == Permutations(Workers)

Entry(s) == [secret |-> s]

(* No token, one, two, two with one secret between them, three.            *)
MCTokenLists == {<<>>, <<Entry("s1")>>, <<Entry("s1"), Entry("s2")>>,
                 <<Entry("s1"), Entry("s1")>>,
                 <<Entry("s1"), Entry("s2"), Entry("s1")>>}

=============================================================================
