----------------------------- MODULE MCGraphQL -----------------------------
(* Small instances of GraphQL and its properties.                          *)
EXTENDS GraphQLProperties, TLC

Symmetry == Permutations(Documents)

Kiosk == [name |-> "kiosk", secret |-> "s1", sites |-> {"a"},
          scopes |-> {"sites:read", "vouchers:create", "vouchers:revoke"},
          maxVouchers |-> 1, maxValidity |-> 1, rate |-> None, expires |-> None]
Metered2 == [maxVouchers |-> 2, maxValidity |-> 2, rate |-> 2, ratePerIp |-> 0]
Metered1 == [Metered2 EXCEPT !.rate = 1]

Two == [tokens |-> <<Kiosk>>, limits |-> Metered2]
OneOnly == [tokens |-> <<[Kiosk EXCEPT !.sites = {"b"}]>>, limits |-> Metered1]
MCConfigs == {Two, OneOnly}

OneVoucher == [blank |-> FALSE, chars |-> 1, count |-> 1, minutes |-> 1, guests |-> 1]
Create == [op |-> "create", site |-> "a", plainIds |-> TRUE, payload |-> "vouchers",
           ask |-> OneVoucher]
CreateTooMany == [Create EXCEPT !.ask.count = 2]
CreateTooLong == [Create EXCEPT !.ask.minutes = 2]
Revoke == [Create EXCEPT !.op = "delete"]
Sites_ == [Create EXCEPT !.op = "list_sites"]
Vouchers == [Create EXCEPT !.op = "list_vouchers"]
Info_ == [Create EXCEPT !.op = "info"]

Query(fields) == [secret |-> "s1", readable |-> TRUE, valid |-> TRUE,
                  kind |-> "query", fields |-> fields]
Mutation(fields) == [Query(fields) EXCEPT !.kind = "mutation"]

Rotate == Mutation(<<Create, Revoke>>)
Issue == Mutation(<<Create, CreateTooMany>>)
IssueLong == Mutation(<<CreateTooLong>>)
Overview == Query(<<Sites_, Sites_>>)
Elsewhere == Query(<<Info_, Vouchers>>)
Invalid == [Query(<<Sites_>>) EXCEPT !.valid = FALSE]
Skipped == Query(<<>>)
Garbage == [Invalid EXCEPT !.readable = FALSE]

MCTexts == {Rotate, Issue, IssueLong, Overview, Elsewhere, Invalid, Skipped, Garbage}

=============================================================================
