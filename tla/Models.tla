------------------------------- MODULE Models -------------------------------
(***************************************************************************)
(* How the proxy reads the JSON of the console's answers: list_field and   *)
(* the id fallbacks (model.rs), what GraphQL lists (graphql.rs), and what  *)
(* GET /sites of REST leaves of the body it passes on (routes.rs).         *)
(*                                                                         *)
(* A JSON text is abstracted to its shape: an array, an object, a scalar,  *)
(* or nothing (an empty body, or one that is not JSON). An array is the    *)
(* set of its items, an item what it has under `id' and `_id'. Of the      *)
(* fields of an object only those that hold an array matter: `data',       *)
(* `vouchers' and the first other one are each the set of the arrays       *)
(* there, empty or of one.                                                 *)
(***************************************************************************)
(* A value under `id' or `_id', an identifier in some JSON type; "" is the *)
(* empty string, Missing no such field or a value of another type.         *)
Text(i) == [type |-> "text", of |-> i]
Number(i) == [type |-> "number", of |-> i]
Missing == [type |-> "none", of |-> ""]
Item(id, underscored) == [id |-> id, _id |-> underscored]

Null == [shape |-> "null"]
Scalar == [shape |-> "scalar"]
Array(items) == [shape |-> "array", items |-> items]
Object(data, vouchers, other) ==
  [shape |-> "object", data |-> data, vouchers |-> vouchers, other |-> other]

-----------------------------------------------------------------------------
(* as_str: a string that is not empty, or a number written out.            *)
AsStr(v) ==
  IF v \in {Missing, Text("")} THEN {} ELSE {v.of}

(* `id', or else `_id': at most one identifier.                            *)
IdOf(item) == IF AsStr(item.id) # {} THEN AsStr(item.id) ELSE AsStr(item._id)

(* Faulty variant: the envelope of a create is looked for first.           *)
ListFieldVouchersFirst(body) ==
  CASE body.shape = "array" -> body.items
    [] body.shape = "object" ->
         IF body.vouchers # {} THEN UNION body.vouchers
         ELSE IF body.data # {} THEN UNION body.data ELSE UNION body.other
    [] OTHER -> {}

ListField(body) ==
  CASE body.shape = "array" -> body.items
    [] body.shape = "object" ->
         IF body.data # {} THEN UNION body.data
         ELSE IF body.vouchers # {} THEN UNION body.vouchers ELSE UNION body.other
    [] OTHER -> {}

(* Site::list and Voucher::list drop the items that have no identifier.    *)
Listed(body) == {item \in ListField(body) : IdOf(item) # {}}
ListedIds(body) == UNION {IdOf(item) : item \in Listed(body)}

-----------------------------------------------------------------------------
(* Everything a client can read off a body that is passed on.              *)
ItemsOf(body) ==
  CASE body.shape = "array" -> body.items
    [] body.shape = "object" -> UNION (body.data \cup body.vouchers \cup body.other)
    [] OTHER -> {}
IdsIn(body) == UNION {AsStr(item.id) \cup AsStr(item._id) : item \in ItemsOf(body)}

(* Only the text under `id' is compared with the token's sites.            *)
Keeps(item, sites) ==
  item.id.type = "text" /\ item.id.of \in sites

(* filter_sites: a body without an array under `data' is passed on whole.  *)
FilterSites(body, sites) ==
  IF "*" \in sites \/ body.shape # "object" THEN body
  ELSE IF body.data = {} THEN body
  ELSE Object({{item \in UNION body.data : Keeps(item, sites)}}, {}, {})

RestSites(body, sites) == IdsIn(FilterSites(body, sites))

-----------------------------------------------------------------------------
(* The sites query filters what was parsed.                                *)
GraphQLSites(body, sites) ==
  {id \in ListedIds(body) : id \in sites \/ "*" \in sites}

=============================================================================
