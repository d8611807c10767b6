----------------------------- MODULE TdMessages -----------------------------
(***************************************************************************)
(* The generated codec of the messages of x/td: for each message the       *)
(* fields its Unmarshal reads, the bytes its MarshalToSizedBuffer writes   *)
(* and its Size.  The tags are the literals of the code.                   *)
(***************************************************************************)
EXTENDS WireFormat

td_Params == <<Dec("share"), Uint64("value"), Dec("rate")>>
td_DustAmount == <<Dec("dust")>>
td_GenesisState == <<Embedded("params", "td_Params", td_Params)>>
td_Module == <<Text("authority")>>
td_MsgUpdateParams ==
  <<Text("authority"), Embedded("params", "td_Params", td_Params)>>
td_MsgUpdateParamsResponse == << >>
td_MsgFundModule == <<Text("creator"), Int64("amount"), Text("module")>>
td_MsgFundModuleResponse == << >>
td_QueryParamsRequest == << >>
td_QueryParamsResponse == <<Embedded("params", "td_Params", td_Params)>>

-----------------------------------------------------------------------------
Marshal_td_Params(m) ==
  Put(10, DecBytes(m.share)) \o PutNumber(16, m.value) \o Put(26, DecBytes(m.rate))
Marshal_td_DustAmount(m) == Put(10, DecBytes(m.dust))
Marshal_td_GenesisState(m) == Put(10, Marshal_td_Params(m.params))
Marshal_td_Module(m) == PutText(10, m.authority)
Marshal_td_MsgUpdateParams(m) ==
  PutText(10, m.authority) \o Put(18, Marshal_td_Params(m.params))
Marshal_td_MsgFundModule(m) ==
  PutText(10, m.creator) \o PutNumber(16, m.amount) \o PutText(26, m.module)
Marshal_td_QueryParamsResponse(m) == Put(10, Marshal_td_Params(m.params))

-----------------------------------------------------------------------------
Size_td_Params(m) ==
  SizePut(Len(DecBytes(m.share))) + SizeNumber(m.value)
    + SizePut(Len(DecBytes(m.rate)))
Size_td_DustAmount(m) == SizePut(Len(DecBytes(m.dust)))
Size_td_GenesisState(m) == SizePut(Size_td_Params(m.params))
Size_td_Module(m) == SizeText(m.authority)
Size_td_MsgUpdateParams(m) ==
  SizeText(m.authority) + SizePut(Size_td_Params(m.params))
Size_td_MsgFundModule(m) ==
  SizeText(m.creator) + SizeNumber(m.amount) + SizeText(m.module)
Size_td_QueryParamsResponse(m) == SizePut(Size_td_Params(m.params))
=============================================================================
