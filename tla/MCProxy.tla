------------------------------- MODULE MCProxy -------------------------------
(* Small instances of Proxy and its properties.                            *)
EXTENDS ProxyProperties, TLC

Symmetry == Permutations(Requests)

Kiosk == [name |-> "kiosk", secret |-> "s1", sites |-> {"a"},
          scopes |-> {"vouchers:create", "sites:read"},
          maxVouchers |-> 1, maxValidity |-> 1, rate |-> 1, expires |-> None]
Phone == [name |-> "phone", secret |-> "s2", sites |-> {"*"},
          scopes |-> {"vouchers:read", "vouchers:revoke"},
          maxVouchers |-> None, maxValidity |-> None, rate |-> None, expires |-> 1]
(* A second entry with the label of the kiosk's, and a secret of its own:  *)
(* its limiter, the later one, is that of both.                            *)
Kiosk2 == [Kiosk EXCEPT !.secret = "s2"]

Tight == [maxVouchers |-> 2, maxValidity |-> 2, rate |-> 2, ratePerIp |-> 2]
Loose == [maxVouchers |-> 2, maxValidity |-> 2, rate |-> 0, ratePerIp |-> 0]

Both == [tokens |-> <<Kiosk, Phone>>, limits |-> Tight]
KioskRevoked == [tokens |-> <<Phone>>, limits |-> Loose]
(* The kiosk's rate or its address's is what binds; a reload turns it around. *)
SlowToken == [tokens |-> <<[Kiosk EXCEPT !.rate = 2], Kiosk2>>, limits |-> Tight]
SlowAddress == [tokens |-> <<[Kiosk EXCEPT !.rate = None]>>,
                limits |-> [Tight EXCEPT !.maxVouchers = 1, !.ratePerIp = 1]]

MCConfigs == {Both, KioskRevoked}
MCMetered == {SlowToken, SlowAddress}

OneVoucher == [blank |-> FALSE, chars |-> 1, count |-> 1, minutes |-> 1, guests |-> 1]

Create == [peer |-> "ip1", secret |-> "s1", op |-> "create", site |-> "a",
           plainIds |-> TRUE, payload |-> "vouchers", ask |-> OneVoucher]
CreateElsewhere == [Create EXCEPT !.site = "b"]
CreateTooMany == [Create EXCEPT !.ask.count = 2]
CreateTooLong == [Create EXCEPT !.ask.minutes = 2]
CreateMalformed == [Create EXCEPT !.payload = "malformed"]
CreateUnreadable == [Create EXCEPT !.payload = "unreadable"]
CreateOversized == [Create EXCEPT !.payload = "oversized"]
LongOther == [CreateTooLong EXCEPT !.secret = "s2"]
ListSites == [Create EXCEPT !.op = "list_sites", !.payload = "none"]
List == [Create EXCEPT !.secret = "s2", !.op = "list_vouchers", !.payload = "none"]
DeleteOddId == [List EXCEPT !.op = "delete", !.plainIds = FALSE]
Unknown == [List EXCEPT !.secret = "s3"]
Anonymous == [List EXCEPT !.secret = NoSecret]
Info_ == [List EXCEPT !.op = "info"]
Probe == [List EXCEPT !.op = "unrouted"]
Health == [List EXCEPT !.op = "healthz"]

MCInputs == {Create, CreateElsewhere, CreateTooMany, CreateTooLong, CreateMalformed, CreateUnreadable,
             CreateOversized, List, DeleteOddId, Unknown, Anonymous, Info_, Probe, Health}
MCBusy == {Create, LongOther, ListSites}
MCParsed == {Create, CreateUnreadable}
MCOne == {Create}

=============================================================================
