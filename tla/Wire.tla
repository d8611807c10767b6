-------------------------------- MODULE Wire --------------------------------
(***************************************************************************)
(* The generated Unmarshal methods: one call on one buffer, from its first *)
(* byte to its answer.  A message inside a message is decoded by a call of *)
(* its own on a slice of the buffer, so the calls form a stack; a field    *)
(* the message does not know is passed over by the skip function, a loop   *)
(* of its own.  One step is one turn of one of the loops.                  *)
(***************************************************************************)
EXTENDS TdMessages, RegistryMessages

CONSTANT Inputs   \* [type, bytes, form, message]: the buffers to decode

Fields ==
  [td_Params |-> td_Params, td_DustAmount |-> td_DustAmount,
   td_GenesisState |-> td_GenesisState, td_Module |-> td_Module,
   td_MsgUpdateParams |-> td_MsgUpdateParams,
   td_MsgUpdateParamsResponse |-> td_MsgUpdateParamsResponse,
   td_MsgFundModule |-> td_MsgFundModule,
   td_MsgFundModuleResponse |-> td_MsgFundModuleResponse,
   td_QueryParamsRequest |-> td_QueryParamsRequest,
   td_QueryParamsResponse |-> td_QueryParamsResponse,
   PageRequest |-> PageRequest, PageResponse |-> PageResponse,
   Validator |-> Validator, vr_Params |-> vr_Params,
   vr_GenesisState |-> vr_GenesisState, vr_Module |-> vr_Module,
   vr_MsgUpdateParams |-> vr_MsgUpdateParams,
   vr_MsgUpdateParamsResponse |-> vr_MsgUpdateParamsResponse,
   MsgOnboardValidator |-> MsgOnboardValidator,
   MsgOnboardValidatorResponse |-> MsgOnboardValidatorResponse,
   vr_QueryParamsRequest |-> vr_QueryParamsRequest,
   vr_QueryParamsResponse |-> vr_QueryParamsResponse,
   QueryGetValidatorRequest |-> QueryGetValidatorRequest,
   QueryGetValidatorResponse |-> QueryGetValidatorResponse,
   QueryAllValidatorRequest |-> QueryAllValidatorRequest,
   QueryAllValidatorResponse |-> QueryAllValidatorResponse]
Types == DOMAIN Fields

(* The bytes and the size of a message of a type; the others have no field. *)
Written(type, m) ==
  CASE type = "td_Params" -> Marshal_td_Params(m)
    [] type = "td_DustAmount" -> Marshal_td_DustAmount(m)
    [] type = "td_GenesisState" -> Marshal_td_GenesisState(m)
    [] type = "td_Module" -> Marshal_td_Module(m)
    [] type = "td_MsgUpdateParams" -> Marshal_td_MsgUpdateParams(m)
    [] type = "td_MsgFundModule" -> Marshal_td_MsgFundModule(m)
    [] type = "td_QueryParamsResponse" -> Marshal_td_QueryParamsResponse(m)
    [] type = "Validator" -> Marshal_Validator(m)
    [] type = "vr_GenesisState" -> Marshal_vr_GenesisState(m)
    [] type = "vr_Module" -> Marshal_vr_Module(m)
    [] type = "vr_MsgUpdateParams" -> Marshal_vr_MsgUpdateParams(m)
    [] type = "MsgOnboardValidator" -> Marshal_MsgOnboardValidator(m)
    [] type = "vr_QueryParamsResponse" -> Marshal_vr_QueryParamsResponse(m)
    [] type = "QueryGetValidatorRequest" -> Marshal_QueryGetValidatorRequest(m)
    [] type = "QueryGetValidatorResponse" -> Marshal_QueryGetValidatorResponse(m)
    [] type = "QueryAllValidatorRequest" -> Marshal_QueryAllValidatorRequest(m)
    [] type = "QueryAllValidatorResponse" -> Marshal_QueryAllValidatorResponse(m)
    [] OTHER -> << >>
Size(type, m) ==
  CASE type = "td_Params" -> Size_td_Params(m)
    [] type = "td_DustAmount" -> Size_td_DustAmount(m)
    [] type = "td_GenesisState" -> Size_td_GenesisState(m)
    [] type = "td_Module" -> Size_td_Module(m)
    [] type = "td_MsgUpdateParams" -> Size_td_MsgUpdateParams(m)
    [] type = "td_MsgFundModule" -> Size_td_MsgFundModule(m)
    [] type = "td_QueryParamsResponse" -> Size_td_QueryParamsResponse(m)
    [] type = "Validator" -> Size_Validator(m)
    [] type = "vr_GenesisState" -> Size_vr_GenesisState(m)
    [] type = "vr_Module" -> Size_vr_Module(m)
    [] type = "vr_MsgUpdateParams" -> Size_vr_MsgUpdateParams(m)
    [] type = "MsgOnboardValidator" -> Size_MsgOnboardValidator(m)
    [] type = "vr_QueryParamsResponse" -> Size_vr_QueryParamsResponse(m)
    [] type = "QueryGetValidatorRequest" -> Size_QueryGetValidatorRequest(m)
    [] type = "QueryGetValidatorResponse" -> Size_QueryGetValidatorResponse(m)
    [] type = "QueryAllValidatorRequest" -> Size_QueryAllValidatorRequest(m)
    [] type = "QueryAllValidatorResponse" -> Size_QueryAllValidatorResponse(m)
    [] OTHER -> 0
Marshal(type, m) == SizedBuffer(Size(type, m), Written(type, m))

(* An int holds the length of any buffer.                                  *)
ASSUME InputsAssumption ==
  \A in \in Inputs :
    /\ in.type \in Types
    /\ in.bytes \in Seq(Byte)
    /\ Len(in.bytes) < Half

VARIABLES
  input,    \* the buffer Unmarshal was called with
  stack,    \* the calls of Unmarshal under way, the innermost last
  skip,     \* the call of the skip function under way, or NoSkip
  outcome   \* "running", "ok", the error returned, or "panic"

vars == <<input, stack, skip, outcome>>

Call(type, data, index, msg, into) ==
  [type |-> type, data |-> data, index |-> index, msg |-> msg, into |-> into]
NoSkip == [on |-> FALSE]
SkipCall(data, index, depth) ==
  [on |-> TRUE, data |-> data, index |-> index, depth |-> depth]

Top == stack[Len(stack)]
Below == SubSeq(stack, 1, Len(stack) - 1)

Init ==
  /\ input \in Inputs
  /\ stack = <<Call(input.type, input.bytes, 0, Zero(Fields[input.type]), 0)>>
  /\ skip = NoSkip
  /\ outcome = "running"

-----------------------------------------------------------------------------
(* One turn of the loop over fields: the tag, then the case of its field.  *)

InLoop ==
  /\ outcome = "running"
  /\ ~skip.on
  /\ Top.index < Len(Top.data)

Fail(error) == outcome' = error /\ UNCHANGED <<input, stack, skip>>

Wire == VarintValue(Top.data, Top.index)
AfterTag == VarintNext(Top.data, Top.index)
TagError ==
  IF VarintError(Top.data, Top.index) # "nil" THEN VarintError(Top.data, Top.index)
  ELSE IF WireType(Wire) = 4 THEN "end group for non-group"
  ELSE IF FieldNumber(Wire) \notin 1..(FieldHalf - 1) THEN "illegal tag"
  ELSE "nil"

TagRead == InLoop /\ TagError = "nil"
IsKnown == FieldNumber(Wire) \in DOMAIN Fields[Top.type]
Known == Fields[Top.type][FieldNumber(Wire)]

BadTag == InLoop /\ TagError # "nil" /\ Fail(TagError)

(* TagRead, the field is known and has the wire type of its kind.          *)
AtField(kinds) ==
  /\ TagRead
  /\ IsKnown
  /\ Known.kind \in kinds
  /\ WireType(Wire) = WireTypeOf(Known.kind)

WrongWireType ==
  /\ TagRead
  /\ IsKnown
  /\ WireType(Wire) # WireTypeOf(Known.kind)
  /\ Fail("wrong wireType")

(* The field is set, whatever it held, and the index passes its bytes.     *)
SetField(value, next) ==
  /\ stack' = Append(Below, Call(Top.type, Top.data, next,
                                 [Top.msg EXCEPT ![Known.name] = value], Top.into))
  /\ UNCHANGED <<input, skip, outcome>>

ReadNumber ==
  /\ AtField({"uint64", "int64"})
  /\ LET error == VarintError(Top.data, AfterTag)
         value == VarintValue(Top.data, AfterTag)
     IN IF error # "nil" THEN Fail(error)
        ELSE SetField(IF Known.kind = "int64" THEN Signed(value) ELSE value,
                      VarintNext(Top.data, AfterTag))

BadPayload ==
  /\ AtField({"text", "dec", "embedded", "pointer", "repeated"})
  /\ PayloadError(Top.data, AfterTag) # "nil"
  /\ Fail(PayloadError(Top.data, AfterTag))

ReadText ==
  /\ AtField({"text"})
  /\ PayloadError(Top.data, AfterTag) = "nil"
  /\ SetField(Payload(Top.data, AfterTag), PayloadEnd(Top.data, AfterTag))

ReadDec ==
  /\ AtField({"dec"})
  /\ PayloadError(Top.data, AfterTag) = "nil"
  /\ LET text == Payload(Top.data, AfterTag)
     IN IF IsDecText(text)
        THEN SetField(DecRead(Top.msg[Known.name], text),
                      PayloadEnd(Top.data, AfterTag))
        ELSE Fail("not a number")

(* A nested message is decoded into the one already there: only a nil      *)
(* pointer and a new entry of a list start from nothing.                   *)
EnterMessage ==
  /\ AtField({"embedded", "pointer", "repeated"})
  /\ PayloadError(Top.data, AfterTag) = "nil"
  /\ LET old == Top.msg[Known.name]
         into == CASE Known.kind = "embedded" -> old
                   [] Known.kind = "pointer" /\ old # << >> -> old[1]
                   [] OTHER -> Known.fresh
     IN stack' = Below \o
          <<Call(Top.type, Top.data, PayloadEnd(Top.data, AfterTag), Top.msg,
                 FieldNumber(Wire)),
            Call(Known.of, Payload(Top.data, AfterTag), 0, into, 0)>>
  /\ UNCHANGED <<input, skip, outcome>>

LeaveMessage ==
  /\ outcome = "running"
  /\ ~skip.on
  /\ Top.index >= Len(Top.data)
  /\ Len(stack) > 1
  /\ Top.index <= Len(Top.data)
  /\ LET caller == stack[Len(stack) - 1]
         field == Fields[caller.type][caller.into]
         old == caller.msg[field.name]
         new == CASE field.kind = "embedded" -> Top.msg
                  [] field.kind = "pointer" -> <<Top.msg>>
                  [] OTHER -> Append(old, Top.msg)
     IN stack' = Append(SubSeq(stack, 1, Len(stack) - 2),
                        Call(caller.type, caller.data, caller.index,
                             [caller.msg EXCEPT ![field.name] = new], 0))
  /\ UNCHANGED <<input, skip, outcome>>

Return ==
  /\ outcome = "running"
  /\ ~skip.on
  /\ Top.index >= Len(Top.data)
  /\ Len(stack) = 1
  /\ outcome' = IF Top.index > Len(Top.data) THEN "io.ErrUnexpectedEOF" ELSE "ok"
  /\ UNCHANGED <<input, stack, skip>>

-----------------------------------------------------------------------------
(* The skip function, called on the rest of the buffer from the tag on.    *)

EnterSkip ==
  /\ TagRead
  /\ ~IsKnown
  /\ skip' = SkipCall(SubSeq(Top.data, Top.index + 1, Len(Top.data)), 0, 0)
  /\ UNCHANGED <<input, stack, outcome>>

InSkip == outcome = "running" /\ skip.on

(* Where an item of a wire type ends; a group's start and end have no body. *)
ItemError(data, i, type, depth) ==
  CASE type = 0 -> VarintError(data, i)
    [] type = 2 -> IF VarintError(data, i) # "nil" THEN VarintError(data, i)
                   ELSE IF VarintValue(data, i) \notin 0..(Half - 1)
                   THEN "ErrInvalidLength" ELSE "nil"
    [] type = 4 -> IF depth = 0 THEN "ErrUnexpectedEndOfGroup" ELSE "nil"
    [] type \in {1, 3, 5} -> "nil"
    [] OTHER -> "illegal wireType"
ItemEnd(data, i, type) ==
  CASE type = 0 -> VarintNext(data, i)
    [] type = 1 -> Add(i, 8)
    [] type = 2 -> PayloadEnd(data, i)
    [] type = 5 -> Add(i, 4)
    [] OTHER -> i
DepthAfter(type, depth) ==
  CASE type = 3 -> depth + 1 [] type = 4 -> depth - 1 [] OTHER -> depth

(* The skip function answered n: the checks of the default case.           *)
\* Faulty variants: the end is not compared with the buffer's, or the index
\* stays at the tag.
SkippedUnchecked(n) ==
  IF Add(Top.index, n) < 0 THEN Fail("ErrInvalidLength")
  ELSE /\ stack' = Append(Below, Call(Top.type, Top.data, Add(Top.index, n),
                                      Top.msg, Top.into))
       /\ skip' = NoSkip
       /\ UNCHANGED <<input, outcome>>
SkippedInPlace(n) ==
  IF Add(Top.index, n) < 0 THEN Fail("ErrInvalidLength")
  ELSE IF Add(Top.index, n) > Len(Top.data) THEN Fail("io.ErrUnexpectedEOF")
  ELSE /\ skip' = NoSkip
       /\ UNCHANGED <<input, stack, outcome>>
Skipped(n) ==
  IF Add(Top.index, n) < 0 THEN Fail("ErrInvalidLength")
  ELSE IF Add(Top.index, n) > Len(Top.data) THEN Fail("io.ErrUnexpectedEOF")
  ELSE /\ stack' = Append(Below, Call(Top.type, Top.data, Add(Top.index, n),
                                      Top.msg, Top.into))
       /\ skip' = NoSkip
       /\ UNCHANGED <<input, outcome>>

SkipItem ==
  /\ InSkip
  /\ skip.index < Len(skip.data)
  /\ VarintError(skip.data, skip.index) = "nil"
  /\ LET type == WireType(VarintValue(skip.data, skip.index))
         start == VarintNext(skip.data, skip.index)
         error == ItemError(skip.data, start, type, skip.depth)
         end == ItemEnd(skip.data, start, type)
         depth == DepthAfter(type, skip.depth)
     IN IF error # "nil" THEN Fail(error)
        ELSE IF end < 0 THEN Fail("ErrInvalidLength")
        ELSE IF depth = 0 THEN Skipped(end)
        ELSE skip' = SkipCall(skip.data, end, depth)
             /\ UNCHANGED <<input, stack, outcome>>

BadSkipTag ==
  /\ InSkip
  /\ skip.index < Len(skip.data)
  /\ VarintError(skip.data, skip.index) # "nil"
  /\ Fail(VarintError(skip.data, skip.index))

UnclosedGroup ==
  /\ InSkip
  /\ skip.index >= Len(skip.data)
  /\ Fail("io.ErrUnexpectedEOF")

Next ==
  \/ BadTag \/ WrongWireType \/ ReadNumber \/ BadPayload \/ ReadText \/ ReadDec
  \/ EnterMessage \/ LeaveMessage \/ Return
  \/ EnterSkip \/ SkipItem \/ BadSkipTag \/ UnclosedGroup

(* Unmarshal runs on its caller's goroutine and waits for nothing.         *)
Spec == Init /\ [][Next]_vars /\ WF_vars(Next)

-----------------------------------------------------------------------------
(* What the decoder keeps.                                                 *)

(* The index of every call under way is inside its buffer, the skip        *)
(* function has the rest of the innermost one, and its own index, which    *)
(* may pass the end, is an int that is not negative.                       *)
IndexInside(call) ==
  /\ call.data \in Seq(Byte)
  /\ Len(call.data) < Half
  /\ call.index \in 0..Len(call.data)
StackOK(s) ==
  /\ s \in Seq({s[k] : k \in DOMAIN s})
  /\ s # << >>
  /\ \A k \in DOMAIN s : IndexInside(s[k])
SkipOK ==
  /\ skip.on \in BOOLEAN
  /\ skip.on => /\ skip.data \in Seq(Byte)
                /\ Len(skip.data) = Len(Top.data) - Top.index
                /\ skip.index \in 0..(Half - 1)
                /\ skip.depth \in Nat
TypeOK == StackOK(stack) /\ SkipOK

(* No bytes make a slice expression of an Unmarshal go out of its buffer,  *)
(* whatever length they state (the checks before every dAtA[a:b]).         *)
NoPanic == outcome # "panic"

(* A message that was marshalled is read back as it was, also with a field *)
(* this version does not know before or after it, and two encodings in a   *)
(* row are read as one message: the later scalar wins, nested messages     *)
(* merge, lists grow (the cases and the default case of Unmarshal).        *)
RoundTrip ==
  input.form = "message" /\ outcome # "running" =>
    outcome = "ok" /\ stack[1].msg = input.message

(* The beginning of an encoding is refused unless it ends where a field    *)
(* ends: no value is read from a field that was cut.                       *)
CutIsNoticed ==
  input.form = "cut" /\ outcome = "ok" =>
    IsPrefix(input.bytes, Written(input.type, stack[1].msg))

(* A step that does not answer moves on: it leaves a call, passes bytes of *)
(* one, or starts the skip function, which passes at least the tag.        *)
MovesOn ==
  \/ outcome' # "running"
  \/ Len(stack') < Len(stack)
  \/ stack'[Len(stack)].index > Top.index
  \/ ~skip.on /\ skip'.on
  \/ skip.on /\ skip'.on /\ skip'.index > skip.index
Advances == [][MovesOn]_vars

(* Every buffer gets an answer.                                            *)
Answers == <>(outcome # "running")
=============================================================================
