------------------------------- MODULE MCWire -------------------------------
(***************************************************************************)
(* The buffers of the model-checked instance.  Each text field has its own *)
(* letter, so that two fields that change places are told apart.           *)
(***************************************************************************)
EXTENDS Wire

CONSTANTS RawBytes, RawLength   \* every buffer of these bytes, up to a length

T(k) == {<< >>, <<96 + k>>}
Long == [k \in 1..130 |-> 97]
Numbers == {0, 1, 127, 128, Word - 1}
Decs == {<<48>>, <<53>>, <<49, 53>>}
DecParams == [share : Decs, value : Numbers, rate : Decs]
Validators ==
  [index : T(1), member_id : T(2), operator_address : T(3),
   consensus_pubkey : T(4), status : T(5), term_end : {0, 300}]
OneValidator ==
  [index |-> <<97>>, member_id |-> <<98>>, operator_address |-> << >>,
   consensus_pubkey |-> << >>, status |-> <<99>>, term_end |-> 7]
Lists == {<< >>, <<OneValidator>>, <<Zero(Validator), OneValidator>>}
Requests == [key : T(1), offset : {0, 9}, limit : {0, 128}]
Responses == [next_key : T(1), total : {0, 9}]
MaybeOne(S) == {<< >>} \cup {<<x>> : x \in S}

Messages(type) ==
  CASE type = "td_Params" -> DecParams
    [] type = "td_DustAmount" -> [dust : Decs]
    [] type \in {"td_GenesisState", "td_QueryParamsResponse"} ->
         [params : DecParams]
    [] type \in {"td_Module", "vr_Module"} -> [authority : T(1) \cup {Long}]
    [] type = "td_MsgUpdateParams" -> [authority : T(1), params : DecParams]
    [] type = "td_MsgFundModule" ->
         [creator : T(1) \cup {Long}, amount : {0, 5, 300, -1, -Half}, module : T(3)]
    [] type = "Validator" -> Validators
    [] type = "vr_GenesisState" ->
         [params : {Zero(vr_Params)}, validator_map : Lists]
    [] type = "vr_MsgUpdateParams" ->
         [authority : T(1), params : {Zero(vr_Params)}]
    [] type = "MsgOnboardValidator" ->
         [creator : T(1), index : T(2), member_id : T(3), operator_address : T(4),
          consensus_pubkey : T(5), status : T(6), term_end : {0, 300}]
    [] type = "vr_QueryParamsResponse" -> [params : {Zero(vr_Params)}]
    [] type = "QueryGetValidatorRequest" -> [index : T(1)]
    [] type = "QueryGetValidatorResponse" -> [validator : Validators]
    [] type = "QueryAllValidatorRequest" -> [pagination : MaybeOne(Requests)]
    [] type = "QueryAllValidatorResponse" ->
         [validator : Lists, pagination : MaybeOne(Responses)]
    [] OTHER -> {<< >>}
Sent == Types \ {"PageRequest", "PageResponse"}

(* Field 15 in each wire type, groups with nothing, an item and a group in *)
(* them.                                                                   *)
Unknown ==
  {<<120, 200, 1>>, <<121, 1, 2, 3, 4, 5, 6, 7, 8>>, <<122, 2, 10, 1>>, <<122, 0>>,
   <<123, 124>>, <<123, 8, 1, 124>>, <<123, 19, 10, 1, 5, 20, 124>>,
   <<125, 1, 2, 3, 4>>}

Buffer(type, bytes, form, message) ==
  [type |-> type, bytes |-> bytes, form |-> form, message |-> message]
Whole ==
  UNION {{Buffer(t, Marshal(t, m), "message", m) : m \in Messages(t)} : t \in Sent}
Extended ==
  UNION {UNION {{Buffer(t, u \o Marshal(t, m), "message", m),
                 Buffer(t, Marshal(t, m) \o u, "message", m)} : u \in Unknown}
         : <<t, m>> \in {<<"td_Params", [share |-> <<53>>, value |-> 128, rate |-> <<48>>]>>,
                         <<"Validator", OneValidator>>,
                         <<"QueryAllValidatorRequest", Zero(QueryAllValidatorRequest)>>,
                         <<"td_MsgFundModuleResponse", << >>>>}}
Cuts ==
  UNION {UNION {{Buffer(t, SubSeq(Marshal(t, m), 1, n), "cut", << >>) :
                   n \in 0..(Len(Marshal(t, m)) - 1)} : m \in Messages(t)}
         : t \in Sent \ {"MsgOnboardValidator", "QueryGetValidatorResponse"}}

P(share, value, rate) == [share |-> share, value |-> value, rate |-> rate]
Twice ==
  {Buffer("td_MsgUpdateParams",
          Put(10, <<97>>) \o Put(18, Put(10, <<53>>) \o PutNumber(16, 7))
            \o Put(18, Put(26, <<48, 57>>) \o PutNumber(16, 8)) \o Put(10, <<98>>),
          "message",
          [authority |-> <<98>>, params |-> P(<<53>>, 8, <<57>>)]),
   Buffer("QueryAllValidatorResponse",
          Marshal("QueryAllValidatorResponse",
                  [validator |-> <<OneValidator>>,
                   pagination |-> <<[next_key |-> <<97>>, total |-> 1]>>])
            \o Marshal("QueryAllValidatorResponse",
                  [validator |-> <<Zero(Validator)>>,
                   pagination |-> <<[next_key |-> << >>, total |-> 2]>>]),
          "message",
          [validator |-> <<OneValidator, Zero(Validator)>>,
           pagination |-> <<[next_key |-> <<97>>, total |-> 2]>>]),
   \* a nil decimal is written as a zero
   Buffer("td_Params", Marshal("td_Params", P(<< >>, 0, << >>)),
          "message", P(<<48>>, 0, <<48>>))}

(* Lengths and field numbers at the ends of their types.                   *)
Corners ==
  {<<10, 254, 255, 1>>, <<10, 255, 255, 1, 1>>, <<10, 255, 255, 3>>,
   <<10, 255, 255, 255, 1>>, <<123, 122, 255, 255, 1>>, <<123, 122, 255, 255, 2>>,
   <<136, 16, 5>>, <<136, 8, 5>>, <<123, 123, 124, 124, 10, 0>>, <<121, 0>>}
Raw ==
  {Buffer(t, b, "raw", << >>) :
     t \in {"td_MsgFundModule", "td_MsgUpdateParams", "QueryAllValidatorResponse"},
     b \in UNION {[1..n -> RawBytes] : n \in 0..RawLength} \cup Corners}

MCInputs == Whole \cup Extended \cup Cuts \cup Twice \cup Raw
=============================================================================
