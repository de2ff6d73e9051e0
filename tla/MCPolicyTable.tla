---------------------------- MODULE MCPolicyTable ----------------------------
(* Small instances of PolicyTable.                                         *)
EXTENDS PolicyTable

MCLimits ==
  [maxVouchers : 0 .. 2, maxValidity : {0, 2, 4}, rate : {0, 2}, ratePerIp : {0}]

MCTokens ==
  [name : {"kiosk"}, secret : {"s"}, sites : {{"*"}}, scopes : {{"vouchers:create"}},
   maxVouchers : {None} \cup 0 .. 3, maxValidity : {None, 0, 1, 4},
   rate : {None} \cup 0 .. 3, expires : {None}]

MCAsks ==
  [blank : BOOLEAN, chars : {NameMax, NameMax + 1}, count : 0 .. 4,
   minutes : 0 .. 5, guests : {0, 1, GuestMax, GuestMax + 1}]

=============================================================================
