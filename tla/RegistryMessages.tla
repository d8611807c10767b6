-------------------------- MODULE RegistryMessages --------------------------
(***************************************************************************)
(* The generated codec of the messages of x/validatorregistry, in the form *)
(* of TdMessages.  PageRequest and PageResponse are the pagination types   *)
(* of the Cosmos SDK: their first fields.                                  *)
(***************************************************************************)
EXTENDS WireFormat

PageRequest == <<Text("key"), Uint64("offset"), Uint64("limit")>>
PageResponse == <<Text("next_key"), Uint64("total")>>

Validator ==
  <<Text("index"), Text("member_id"), Text("operator_address"),
    Text("consensus_pubkey"), Text("status"), Uint64("term_end")>>
vr_Params == << >>
vr_GenesisState ==
  <<Embedded("params", "vr_Params", vr_Params),
    Repeated("validator_map", "Validator", Validator)>>
vr_Module == <<Text("authority")>>
vr_MsgUpdateParams ==
  <<Text("authority"), Embedded("params", "vr_Params", vr_Params)>>
vr_MsgUpdateParamsResponse == << >>
MsgOnboardValidator ==
  <<Text("creator"), Text("index"), Text("member_id"), Text("operator_address"),
    Text("consensus_pubkey"), Text("status"), Uint64("term_end")>>
MsgOnboardValidatorResponse == << >>
vr_QueryParamsRequest == << >>
vr_QueryParamsResponse == <<Embedded("params", "vr_Params", vr_Params)>>
QueryGetValidatorRequest == <<Text("index")>>
QueryGetValidatorResponse == <<Embedded("validator", "Validator", Validator)>>
QueryAllValidatorRequest == <<Pointer("pagination", "PageRequest", PageRequest)>>
QueryAllValidatorResponse ==
  <<Repeated("validator", "Validator", Validator),
    Pointer("pagination", "PageResponse", PageResponse)>>

-----------------------------------------------------------------------------
(* A repeated field has its tag once per entry, a nil pointer is left out. *)
PutEach(tag, encodings) ==
  FlattenSeq([k \in DOMAIN encodings |-> Put(tag, encodings[k])])
EachOf(list, Op(_)) == [k \in DOMAIN list |-> Op(list[k])]

Marshal_PageRequest(m) ==
  PutText(10, m.key) \o PutNumber(16, m.offset) \o PutNumber(24, m.limit)
Marshal_PageResponse(m) == PutText(10, m.next_key) \o PutNumber(16, m.total)
Marshal_Validator(m) ==
  PutText(10, m.index) \o PutText(18, m.member_id)
    \o PutText(26, m.operator_address) \o PutText(34, m.consensus_pubkey)
    \o PutText(42, m.status) \o PutNumber(48, m.term_end)
Marshal_vr_GenesisState(m) ==
  Put(10, << >>) \o PutEach(18, EachOf(m.validator_map, Marshal_Validator))
Marshal_vr_Module(m) == PutText(10, m.authority)
Marshal_vr_MsgUpdateParams(m) == PutText(10, m.authority) \o Put(18, << >>)
Marshal_MsgOnboardValidator(m) ==
  PutText(10, m.creator) \o PutText(18, m.index) \o PutText(26, m.member_id)
    \o PutText(34, m.operator_address) \o PutText(42, m.consensus_pubkey)
    \o PutText(50, m.status) \o PutNumber(56, m.term_end)
Marshal_vr_QueryParamsResponse(m) == Put(10, << >>)
Marshal_QueryGetValidatorRequest(m) == PutText(10, m.index)
Marshal_QueryGetValidatorResponse(m) == Put(10, Marshal_Validator(m.validator))
Marshal_QueryAllValidatorRequest(m) ==
  PutEach(10, EachOf(m.pagination, Marshal_PageRequest))
Marshal_QueryAllValidatorResponse(m) ==
  PutEach(10, EachOf(m.validator, Marshal_Validator))
    \o PutEach(18, EachOf(m.pagination, Marshal_PageResponse))

-----------------------------------------------------------------------------
SizeEach(sizes) ==
  LET size[k \in 0..Len(sizes)] ==
        IF k = 0 THEN 0 ELSE size[k - 1] + SizePut(sizes[k])
  IN size[Len(sizes)]

Size_PageRequest(m) ==
  SizeText(m.key) + SizeNumber(m.offset) + SizeNumber(m.limit)
Size_PageResponse(m) == SizeText(m.next_key) + SizeNumber(m.total)
Size_Validator(m) ==
  SizeText(m.index) + SizeText(m.member_id) + SizeText(m.operator_address)
    + SizeText(m.consensus_pubkey) + SizeText(m.status) + SizeNumber(m.term_end)
Size_vr_GenesisState(m) ==
  SizePut(0) + SizeEach(EachOf(m.validator_map, Size_Validator))
Size_vr_Module(m) == SizeText(m.authority)
Size_vr_MsgUpdateParams(m) == SizeText(m.authority) + SizePut(0)
Size_MsgOnboardValidator(m) ==
  SizeText(m.creator) + SizeText(m.index) + SizeText(m.member_id)
    + SizeText(m.operator_address) + SizeText(m.consensus_pubkey)
    + SizeText(m.status) + SizeNumber(m.term_end)
Size_vr_QueryParamsResponse(m) == SizePut(0)
Size_QueryGetValidatorRequest(m) == SizeText(m.index)
Size_QueryGetValidatorResponse(m) == SizePut(Size_Validator(m.validator))
Size_QueryAllValidatorRequest(m) ==
  SizeEach(EachOf(m.pagination, Size_PageRequest))
Size_QueryAllValidatorResponse(m) ==
  SizeEach(EachOf(m.validator, Size_Validator))
    + SizeEach(EachOf(m.pagination, Size_PageResponse))
=============================================================================
