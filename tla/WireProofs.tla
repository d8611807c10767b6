----------------------------- MODULE WireProofs -----------------------------
(***************************************************************************)
(* For every width of the machine words, every buffer and every message:   *)
(* the generated decoders read only bytes of their buffer, no slice        *)
(* expression panics, and every step that gives no answer passes bytes; a  *)
(* message is marshalled into exactly as many bytes as its Size says and   *)
(* is read back as it was, and a value is never made from a cut field.     *)
(***************************************************************************)
EXTENDS Wire, SequenceTheorems, WellFoundedInduction, TLAPS

USE WireAssumption

(* A varint that is read ends inside the buffer, after its first byte.     *)
LEMMA VarintInside ==
  ASSUME NEW data \in Seq(Byte), NEW i \in 0..Len(data), VarintError(data, i) = "nil"
  PROVE  VarintNext(data, i) \in (i + 1)..Len(data)
<1>1. VarintEnds(data, i) # {}
  BY DEF VarintError
<1>2. PICK n \in VarintEnds(data, i) : VarintNext(data, i) = i + n
  BY <1>1 DEF VarintNext
<1>3. MaxVarint \in Int
  BY DEF MaxVarint
<1>4. n \in Int /\ n >= 1 /\ i + n <= Len(data)
  BY <1>2, <1>3 DEF VarintEnds
<1> QED BY <1>2, <1>4, LenProperties

(* A varint that is not read gives an error of its own.                    *)
LEMMA VarintErrorNames ==
  ASSUME NEW data, NEW i
  PROVE  VarintError(data, i) \notin {"panic", "running"}
BY DEF VarintError

(* Adding an int to an index wraps around to a negative number or is the   *)
(* sum.                                                                    *)
LEMMA AddWraps ==
  ASSUME NEW i \in 0..(Half - 1), NEW j \in 0..(Half - 1)
  PROVE  /\ Add(i, j) \in Int
         /\ Add(i, j) < 0 \/ Add(i, j) = i + j
         /\ Add(i, j) < Half
<1>1. (i + j) % Word = i + j
  BY DEF Word
<1> QED BY <1>1, WireAssumption DEF Add, Signed, Word

(* A payload that is accepted lies between its length and the end of the   *)
(* buffer, and no payload makes the slice expression panic.                *)
LEMMA PayloadInside ==
  ASSUME NEW data \in Seq(Byte), NEW i \in 0..Len(data), Len(data) < Half
  PROVE  /\ PayloadError(data, i) \notin {"panic", "running"}
         /\ PayloadError(data, i) = "nil" =>
              /\ PayloadStart(data, i) \in (i + 1)..Len(data)
              /\ PayloadEnd(data, i) \in PayloadStart(data, i)..Len(data)
<1> DEFINE start == PayloadStart(data, i)
           length == VarintValue(data, i)
           end == PayloadEnd(data, i)
<1>1. Len(data) \in Nat
  BY LenProperties
<1>2. CASE VarintError(data, i) # "nil"
  BY <1>2, VarintErrorNames DEF PayloadError
<1>3. CASE VarintError(data, i) = "nil" /\ (length \notin 0..(Half - 1) \/ end < 0)
  BY <1>3 DEF PayloadError
<1>4. CASE VarintError(data, i) = "nil" /\ length \in 0..(Half - 1) /\ ~(end < 0)
  <2>1. start \in (i + 1)..Len(data)
    BY <1>4, VarintInside DEF PayloadStart
  <2>2. start \in 0..(Half - 1)
    BY <2>1, <1>1
  <2>3. end = Add(start, length)
    BY DEF PayloadEnd
  <2>4. end \in Int /\ end = start + length
    <3>1. length \in 0..(Half - 1)
      BY <1>4
    <3> HIDE DEF start, length, end
    <3>2. end \in Int /\ (end < 0 \/ end = start + length)
      BY <2>2, <2>3, <3>1, AddWraps
    <3> QED BY <3>2, <1>4
  <2>5. start <= end
    BY <2>2, <2>4, <1>4
  <2>6. CASE end > Len(data)
    BY <2>6, <1>4 DEF PayloadError
  <2>7. CASE ~(end > Len(data))
    <3>1. end \in start..Len(data)
      BY <2>2, <2>4, <2>5, <2>7, <1>1
    <3>2. PayloadError(data, i) = "nil"
      BY <1>4, <2>7, <2>5, <3>1 DEF PayloadError, SliceError
    <3> QED BY <2>1, <3>1, <3>2
  <2> QED BY <2>6, <2>7
<1> QED BY <1>2, <1>3, <1>4

(* A slice of a buffer is a buffer, no longer than the bytes it spans.     *)
LEMMA SliceIsBuffer ==
  ASSUME NEW data \in Seq(Byte), NEW i \in 0..Len(data), NEW j \in i..Len(data)
  PROVE  /\ SubSeq(data, i + 1, j) \in Seq(Byte)
         /\ Len(SubSeq(data, i + 1, j)) = j - i
<1>1. Len(data) \in Nat
  BY LenProperties
<1>2. \A k \in (i + 1)..j : data[k] \in Byte
  BY <1>1, ElementOfSeq
<1>3. i + 1 \in Int /\ j \in Int
  BY <1>1
<1>4. /\ SubSeq(data, i + 1, j) \in Seq(Byte)
      /\ Len(SubSeq(data, i + 1, j)) = IF i + 1 <= j THEN j - (i + 1) + 1 ELSE 0
  BY <1>2, <1>3, SubSeqProperties
<1> QED BY <1>1, <1>4

-----------------------------------------------------------------------------
(* The stack of calls: its last call is replaced, gives way to two, or is  *)
(* left for the one before.                                                *)

(* The first calls of a stack.                                             *)
LEMMA Prefix ==
  ASSUME NEW s, StackOK(s), NEW n \in 0..Len(s)
  PROVE  /\ SubSeq(s, 1, n) \in Seq({s[k] : k \in DOMAIN s})
         /\ Len(SubSeq(s, 1, n)) = n
         /\ \A k \in 1..n : SubSeq(s, 1, n)[k] = s[k] /\ IndexInside(s[k])
<1> DEFINE S == {s[k] : k \in DOMAIN s}
<1>1. s \in Seq(S) /\ \A k \in DOMAIN s : IndexInside(s[k])
  BY DEF StackOK
<1>2. DOMAIN s = 1..Len(s) /\ Len(s) \in Nat
  BY <1>1, LenProperties
<1>3. \A k \in 1..n : s[k] \in S
  BY <1>2
<1>4. /\ SubSeq(s, 1, n) \in Seq(S)
      /\ Len(SubSeq(s, 1, n)) = IF 1 <= n THEN n - 1 + 1 ELSE 0
      /\ \A k \in 1..(n - 1 + 1) : SubSeq(s, 1, n)[k] = s[1 + k - 1]
  <2> HIDE DEF S
  <2> QED BY <1>2, <1>3, SubSeqProperties
<1>5. n \in Nat /\ 1..n \subseteq DOMAIN s
  BY <1>2
<1> QED BY <1>1, <1>4, <1>5

(* A decoder has a call under way.                                         *)
LEMMA NonEmptyStack ==
  ASSUME NEW s, StackOK(s)
  PROVE  /\ Len(s) \in Nat \ {0}
         /\ DOMAIN s = 1..Len(s)
         /\ IndexInside(s[Len(s)])
<1>1. s \in Seq({s[k] : k \in DOMAIN s}) /\ s # << >>
  BY DEF StackOK
<1>2. Len(s) \in Nat \ {0} /\ DOMAIN s = 1..Len(s)
  BY <1>1, LenProperties, EmptySeq
<1> QED BY <1>2 DEF StackOK

(* The innermost call replaced.                                            *)
LEMMA AppendCall ==
  ASSUME NEW s, StackOK(s), NEW n, n \in 0..Len(s), NEW c, IndexInside(c)
  PROVE  /\ StackOK(Append(SubSeq(s, 1, n), c))
         /\ Len(Append(SubSeq(s, 1, n), c)) = n + 1
         /\ Append(SubSeq(s, 1, n), c)[n + 1] = c
<1> DEFINE p == SubSeq(s, 1, n)
           t == Append(p, c)
           S == {s[k] : k \in DOMAIN s} \cup {c}
<1>1. /\ p \in Seq({s[k] : k \in DOMAIN s})
      /\ Len(p) = n
      /\ \A k \in 1..n : p[k] = s[k] /\ IndexInside(s[k])
  BY Prefix
<1>2. p \in Seq(S) /\ c \in S
  BY <1>1
<1>3. /\ t \in Seq(S)
      /\ t # << >>
      /\ Len(t) = n + 1
      /\ \A k \in 1..n : t[k] = p[k]
      /\ t[n + 1] = c
  <2> HIDE DEF p, S
  <2> QED BY <1>1, <1>2, AppendProperties
<1>4. t \in Seq({t[k] : k \in DOMAIN t}) /\ DOMAIN t = 1..Len(t)
  <2>1. t \in [1..Len(t) -> S] /\ Len(t) \in Nat /\ DOMAIN t = 1..Len(t)
    <3> HIDE DEF S
    <3> QED BY <1>3, LenProperties
  <2>2. t \in [1..Len(t) -> {t[k] : k \in DOMAIN t}]
    <3> HIDE DEF S
    <3> QED BY ONLY <2>1
  <2> HIDE DEF t
  <2> QED BY ONLY <2>1, <2>2
<1>5. Len(s) \in Nat
  BY NonEmptyStack
<1>6. \A k \in 1..(n + 1) : IndexInside(t[k])
  <2> SUFFICES ASSUME NEW k \in 1..(n + 1) PROVE IndexInside(t[k])
    OBVIOUS
  <2>1. k \in 1..n \/ k = n + 1
    BY <1>5
  <2> HIDE DEF p, S
  <2> QED BY <2>1, <1>1, <1>3
<1> HIDE DEF t
<1>7. StackOK(t) /\ Len(t) = n + 1 /\ t[n + 1] = c
  BY <1>3, <1>4, <1>6 DEF StackOK
<1> QED BY <1>7 DEF t, p

(* A call put on top of the innermost one.                                 *)
LEMMA PushCall ==
  ASSUME NEW s, StackOK(s), NEW c, IndexInside(c), NEW d, IndexInside(d),
         NEW t, t = SubSeq(s, 1, Len(s) - 1) \o <<c, d>>
  PROVE  /\ StackOK(t)
         /\ Len(t) = Len(s) + 1
         /\ t[Len(s)] = c
<1> DEFINE p == SubSeq(s, 1, Len(s) - 1)
           u == Append(p, c)
           S == {s[k] : k \in DOMAIN s} \cup {c, d}
<1>1. Len(s) \in Nat \ {0}
  BY NonEmptyStack
<1>2. /\ p \in Seq({s[k] : k \in DOMAIN s})
      /\ Len(p) = Len(s) - 1
  BY <1>1, Prefix
<1>3. StackOK(u) /\ Len(u) = Len(s) /\ u[Len(s)] = c
  <2> DEFINE n == Len(s) - 1
  <2>1. n \in 0..Len(s) /\ n + 1 = Len(s)
    BY <1>1
  <2>2. u = Append(SubSeq(s, 1, n), c)
    OBVIOUS
  <2> HIDE DEF n, u
  <2>3. StackOK(u) /\ Len(u) = n + 1 /\ u[n + 1] = c
    BY <2>1, <2>2, AppendCall
  <2> QED BY <2>1, <2>3
<1>4. p \in Seq(S) /\ c \in S /\ d \in S
  BY <1>2
<1>5. t = Append(u, d)
  <2> HIDE DEF p, S
  <2>1. Append(Append(p, c), d) = p \o <<c, d>>
    BY <1>4
  <2> QED BY <2>1 DEF p
<1>6. SubSeq(u, 1, Len(u)) = u
  <2> HIDE DEF u
  <2> QED BY <1>3, SubSeqFull DEF StackOK
<1>7. /\ StackOK(t)
      /\ Len(t) = Len(u) + 1
  <2> HIDE DEF u
  <2>1. Len(u) \in 0..Len(u)
    BY <1>1, <1>3
  <2>2. t = Append(SubSeq(u, 1, Len(u)), d)
    BY <1>5, <1>6 DEF u
  <2>3. /\ StackOK(Append(SubSeq(u, 1, Len(u)), d))
        /\ Len(Append(SubSeq(u, 1, Len(u)), d)) = Len(u) + 1
    BY <1>3, <2>1, AppendCall
  <2> QED BY <2>2, <2>3
<1>8. t[Len(s)] = c
  <2>1. u \in Seq(S)
    BY <1>4
  <2> HIDE DEF u, S
  <2> QED BY <1>1, <1>3, <1>4, <1>5, <2>1, AppendProperties
<1> QED BY <1>3, <1>7, <1>8

-----------------------------------------------------------------------------
(* The three kinds of step: an answer, a call that moves on, and the skip  *)
(* function at work.                                                       *)

(* The innermost call is inside its buffer.                                *)
LEMMA TopInside ==
  ASSUME TypeOK
  PROVE  /\ Len(stack) \in Nat \ {0}
         /\ Top.data \in Seq(Byte)
         /\ Len(Top.data) \in Nat
         /\ Len(Top.data) < Half
         /\ Top.index \in 0..Len(Top.data)
<1>1. Len(stack) \in Nat \ {0} /\ IndexInside(Top)
  BY NonEmptyStack DEF TypeOK, Top
<1> QED BY <1>1, LenProperties DEF IndexInside

(* An error ends the decoder where it stands.                              *)
LEMMA FailStep ==
  ASSUME TypeOK, NEW error, error \notin {"panic", "running"}, Fail(error)
  PROVE  TypeOK' /\ NoPanic' /\ MovesOn
<1>1. stack' = stack /\ skip' = skip /\ outcome' = error
  BY DEF Fail
<1>2. TypeOK'
  BY <1>1 DEF TypeOK, StackOK, SkipOK, IndexInside, Top
<1> QED BY <1>1, <1>2 DEF NoPanic, MovesOn

(* A step of the innermost call to an index inside its buffer.             *)
LEMMA MoveStep ==
  ASSUME TypeOK, NoPanic, NEW n, n \in (Top.index + 1)..Len(Top.data), NEW m, NEW k,
         stack' = Append(Below, Call(Top.type, Top.data, n, m, k)),
         ~skip'.on, skip'.on \in BOOLEAN, outcome' = outcome
  PROVE  TypeOK' /\ NoPanic' /\ MovesOn
<1> DEFINE call == Call(Top.type, Top.data, n, m, k)
           last == Len(stack) - 1
<1>1. call.data = Top.data /\ call.index = n
  BY DEF Call
<1>2. IndexInside(call)
  <2> HIDE DEF call
  <2> QED BY <1>1, TopInside DEF IndexInside
<1>3. last \in 0..Len(stack) /\ last + 1 = Len(stack)
  BY TopInside
<1>4. StackOK(stack) /\ stack' = Append(SubSeq(stack, 1, last), call)
  BY DEF TypeOK, Below
<1>5. StackOK(stack') /\ stack'[Len(stack)] = call
  <2> HIDE DEF call, last
  <2>1. /\ StackOK(Append(SubSeq(stack, 1, last), call))
        /\ Append(SubSeq(stack, 1, last), call)[last + 1] = call
    BY <1>2, <1>3, <1>4, AppendCall
  <2> QED BY <2>1, <1>3, <1>4
<1>6. stack'[Len(stack)].index > Top.index
  <2> HIDE DEF call
  <2> QED BY <1>1, <1>5, TopInside
<1> QED BY <1>5, <1>6 DEF TypeOK, StackOK, SkipOK, IndexInside, NoPanic, MovesOn

(* After a tag the index is inside the buffer.                             *)
LEMMA TagInside ==
  ASSUME TypeOK, TagRead
  PROVE  /\ AfterTag \in (Top.index + 1)..Len(Top.data)
         /\ AfterTag \in 0..Len(Top.data)
         /\ outcome = "running" /\ ~skip.on /\ skip.on \in BOOLEAN
<1>1. VarintError(Top.data, Top.index) = "nil"
  BY DEF TagRead, TagError
<1>2. AfterTag \in (Top.index + 1)..Len(Top.data)
  BY <1>1, TopInside, VarintInside DEF AfterTag
<1> QED BY <1>2, TopInside DEF TagRead, InLoop, TypeOK, SkipOK

(* The cases of Unmarshal at a field whose value is a number or bytes.     *)
LEMMA FieldStep ==
  ASSUME TypeOK, NoPanic,
         WrongWireType \/ ReadNumber \/ BadPayload \/ ReadText \/ ReadDec
  PROVE  TypeOK' /\ NoPanic' /\ MovesOn
<1>1. TagRead
  BY DEF WrongWireType, ReadNumber, BadPayload, ReadText, ReadDec, AtField
<1>2. /\ AfterTag \in (Top.index + 1)..Len(Top.data)
      /\ AfterTag \in 0..Len(Top.data)
      /\ outcome = "running" /\ ~skip.on /\ skip.on \in BOOLEAN
  BY <1>1, TagInside
<1>3. /\ Top.data \in Seq(Byte) /\ Len(Top.data) \in Nat /\ Len(Top.data) < Half
      /\ Top.index \in 0..Len(Top.data)
  BY TopInside
<1>4. ASSUME NEW value, NEW n, n \in (Top.index + 1)..Len(Top.data),
             SetField(value, n)
      PROVE  TypeOK' /\ NoPanic' /\ MovesOn
  BY <1>2, <1>4, MoveStep DEF SetField
<1>5. CASE WrongWireType
  BY <1>5, FailStep DEF WrongWireType
<1>6. CASE ReadNumber
  <2>1. CASE VarintError(Top.data, AfterTag) # "nil"
    <3>1. Fail(VarintError(Top.data, AfterTag))
      BY <1>6, <2>1 DEF ReadNumber
    <3> QED BY <3>1, VarintErrorNames, FailStep
  <2>2. CASE VarintError(Top.data, AfterTag) = "nil"
    <3> DEFINE next == VarintNext(Top.data, AfterTag)
    <3>1. PICK value : SetField(value, next)
      BY <1>6, <2>2 DEF ReadNumber
    <3>2. next \in (AfterTag + 1)..Len(Top.data)
      BY <1>2, <1>3, <2>2, VarintInside
    <3> HIDE DEF next
    <3>3. next \in (Top.index + 1)..Len(Top.data)
      BY <3>2, <1>2, <1>3
    <3> QED BY <3>1, <3>3, <1>4
  <2> QED BY <2>1, <2>2
<1>7. CASE BadPayload
  <2>1. Fail(PayloadError(Top.data, AfterTag))
    BY <1>7 DEF BadPayload
  <2>2. PayloadError(Top.data, AfterTag) \notin {"panic", "running"}
    BY <1>2, <1>3, PayloadInside
  <2> QED BY <2>1, <2>2, FailStep
<1>8. ASSUME PayloadError(Top.data, AfterTag) = "nil"
      PROVE  PayloadEnd(Top.data, AfterTag) \in (Top.index + 1)..Len(Top.data)
  <2>1. /\ PayloadStart(Top.data, AfterTag) \in (AfterTag + 1)..Len(Top.data)
        /\ PayloadEnd(Top.data, AfterTag)
             \in PayloadStart(Top.data, AfterTag)..Len(Top.data)
    BY <1>2, <1>3, <1>8, PayloadInside
  <2> QED BY <2>1, <1>2, <1>3
<1>9. CASE ReadText
  <2>1. PICK value : SetField(value, PayloadEnd(Top.data, AfterTag))
    BY <1>9 DEF ReadText
  <2> QED BY <2>1, <1>9, <1>8, <1>4 DEF ReadText
<1>10. CASE ReadDec
  <2>1. CASE IsDecText(Payload(Top.data, AfterTag))
    <3>1. PICK value : SetField(value, PayloadEnd(Top.data, AfterTag))
      BY <1>10, <2>1 DEF ReadDec
    <3> QED BY <3>1, <1>10, <1>8, <1>4 DEF ReadDec
  <2>2. CASE ~IsDecText(Payload(Top.data, AfterTag))
    <3>1. Fail("not a number")
      BY <1>10, <2>2 DEF ReadDec
    <3> QED BY <3>1, FailStep
  <2> QED BY <2>1, <2>2
<1> QED BY <1>5, <1>6, <1>7, <1>9, <1>10

(* The call on a message inside a message.                                 *)
LEMMA EnterStep ==
  ASSUME TypeOK, NoPanic, EnterMessage
  PROVE  TypeOK' /\ NoPanic' /\ MovesOn
<1> DEFINE start == PayloadStart(Top.data, AfterTag)
           end == PayloadEnd(Top.data, AfterTag)
<1>1. /\ AfterTag \in (Top.index + 1)..Len(Top.data)
      /\ AfterTag \in 0..Len(Top.data)
      /\ outcome = "running" /\ ~skip.on /\ skip.on \in BOOLEAN
  BY TagInside DEF EnterMessage, AtField
<1>2. /\ Top.data \in Seq(Byte) /\ Len(Top.data) \in Nat /\ Len(Top.data) < Half
      /\ Top.index \in 0..Len(Top.data) /\ Len(stack) \in Nat \ {0}
  BY TopInside
<1>3. PayloadError(Top.data, AfterTag) = "nil"
  BY DEF EnterMessage
<1>4. start \in (AfterTag + 1)..Len(Top.data) /\ end \in start..Len(Top.data)
  BY <1>1, <1>2, <1>3, PayloadInside
<1>5. /\ start \in 0..Len(Top.data) /\ end > Top.index /\ end \in 0..Len(Top.data)
  <2> HIDE DEF start, end
  <2> QED BY <1>1, <1>2, <1>4
<1>6. Payload(Top.data, AfterTag) = SubSeq(Top.data, start + 1, end)
  BY DEF Payload
<1>7. /\ Payload(Top.data, AfterTag) \in Seq(Byte)
      /\ Len(Payload(Top.data, AfterTag)) = end - start
  <2> HIDE DEF start, end
  <2> QED BY <1>2, <1>4, <1>5, <1>6, SliceIsBuffer
<1>8. PICK into :
        stack' = Below \o
          <<Call(Top.type, Top.data, end, Top.msg, FieldNumber(Wire)),
            Call(Known.of, Payload(Top.data, AfterTag), 0, into, 0)>>
  BY DEF EnterMessage
<1> DEFINE caller == Call(Top.type, Top.data, end, Top.msg, FieldNumber(Wire))
           callee == Call(Known.of, Payload(Top.data, AfterTag), 0, into, 0)
<1>9. IndexInside(caller) /\ caller.index = end
  <2>1. caller.data = Top.data /\ caller.index = end
    BY DEF Call
  <2> HIDE DEF caller, end
  <2> QED BY <2>1, <1>2, <1>5 DEF IndexInside
<1>10. IndexInside(callee)
  <2>1. callee.data = Payload(Top.data, AfterTag) /\ callee.index = 0
    BY DEF Call
  <2>2. end - start \in 0..Len(Top.data)
    <3> HIDE DEF start, end
    <3> QED BY <1>2, <1>4, <1>5
  <2> HIDE DEF callee, start, end
  <2> QED BY <2>1, <2>2, <1>2, <1>7 DEF IndexInside
<1>11. /\ StackOK(stack')
       /\ stack'[Len(stack)] = caller
  <2>1. StackOK(stack) /\ stack' = SubSeq(stack, 1, Len(stack) - 1) \o <<caller, callee>>
    BY <1>8 DEF TypeOK, Below
  <2> HIDE DEF caller, callee
  <2> QED BY <2>1, <1>9, <1>10, PushCall
<1>12. stack'[Len(stack)].index > Top.index
  <2> HIDE DEF caller, end
  <2> QED BY <1>5, <1>9, <1>11
<1>13. skip' = skip /\ outcome' = outcome
  BY DEF EnterMessage
<1> QED BY <1>1, <1>11, <1>12, <1>13 DEF TypeOK, SkipOK, NoPanic, MovesOn

(* The return from it.                                                     *)
LEMMA LeaveStep ==
  ASSUME TypeOK, NoPanic, LeaveMessage
  PROVE  TypeOK' /\ NoPanic' /\ MovesOn
<1> DEFINE n == Len(stack) - 2
           caller == stack[Len(stack) - 1]
<1>1. Len(stack) \in Nat \ {0} /\ Len(stack) > 1 /\ ~skip.on /\ skip.on \in BOOLEAN
  BY TopInside DEF LeaveMessage, TypeOK, SkipOK
<1>2. StackOK(stack) /\ n \in 0..Len(stack) /\ n + 1 = Len(stack) - 1
  BY <1>1 DEF TypeOK
<1>3. IndexInside(caller)
  <2>1. Len(stack) - 1 \in DOMAIN stack
    BY <1>1, <1>2, NonEmptyStack
  <2> QED BY <2>1, <1>2 DEF StackOK
<1>4. PICK msg : stack' = Append(SubSeq(stack, 1, n),
                                 Call(caller.type, caller.data, caller.index, msg, 0))
  BY DEF LeaveMessage
<1> DEFINE call == Call(caller.type, caller.data, caller.index, msg, 0)
<1>5. IndexInside(call)
  <2>1. call.data = caller.data /\ call.index = caller.index
    BY DEF Call
  <2> HIDE DEF call, caller
  <2> QED BY <1>3, <2>1 DEF IndexInside
<1>6. StackOK(stack') /\ Len(stack') = Len(stack) - 1
  <2> HIDE DEF call, n
  <2>1. /\ StackOK(Append(SubSeq(stack, 1, n), call))
        /\ Len(Append(SubSeq(stack, 1, n), call)) = n + 1
    BY <1>2, <1>5, AppendCall
  <2>2. stack' = Append(SubSeq(stack, 1, n), call)
    BY <1>4 DEF call
  <2> QED BY <2>1, <2>2, <1>2
<1>7. skip' = skip /\ outcome' = outcome
  BY DEF LeaveMessage
<1>8. Len(stack') < Len(stack)
  BY <1>1, <1>6
<1> QED BY <1>1, <1>6, <1>7, <1>8 DEF TypeOK, SkipOK, NoPanic, MovesOn

(* The call of the skip function.                                          *)
LEMMA EnterSkipStep ==
  ASSUME TypeOK, NoPanic, EnterSkip
  PROVE  TypeOK' /\ NoPanic' /\ MovesOn
<1> DEFINE rest == SubSeq(Top.data, Top.index + 1, Len(Top.data))
<1>1. ~skip.on
  BY TagInside DEF EnterSkip
<1>2. /\ Top.data \in Seq(Byte) /\ Len(Top.data) \in Nat /\ Len(Top.data) < Half
      /\ Top.index \in 0..Len(Top.data)
  BY TopInside
<1>3. rest \in Seq(Byte) /\ Len(rest) = Len(Top.data) - Top.index
  BY <1>2, SliceIsBuffer
<1>4. skip' = SkipCall(rest, 0, 0) /\ stack' = stack /\ outcome' = outcome
  BY DEF EnterSkip
<1>5. /\ skip'.on = TRUE /\ skip'.data = rest /\ skip'.index = 0
      /\ skip'.depth = 0
  <2> HIDE DEF rest
  <2> QED BY <1>4 DEF SkipCall
<1>6. SkipOK'
  <2> HIDE DEF rest
  <2>1. Len(skip'.data) = Len(Top'.data) - Top'.index
    BY <1>3, <1>4, <1>5 DEF Top
  <2>2. skip'.data \in Seq(Byte) /\ skip'.index \in 0..(Half - 1) /\ skip'.depth \in Nat
    BY <1>3, <1>5
  <2>3. skip'.on \in BOOLEAN
    BY <1>5
  <2> QED BY <2>1, <2>2, <2>3, Zenon DEF SkipOK
<1> QED BY <1>1, <1>4, <1>5, <1>6 DEF TypeOK, StackOK, IndexInside, NoPanic, MovesOn

(* An item that is passed over ends after its tag.                         *)
LEMMA ItemInside ==
  ASSUME NEW data \in Seq(Byte), Len(data) < Half,
         NEW i \in 0..Len(data), NEW type, NEW depth,
         ItemError(data, i, type, depth) = "nil", ~(ItemEnd(data, i, type) < 0)
  PROVE  ItemEnd(data, i, type) \in i..(Half - 1)
<1>1. Len(data) \in Nat /\ i \in 0..(Half - 1)
  BY LenProperties
<1>2. CASE type = 0
  <2>1. VarintNext(data, i) \in (i + 1)..Len(data)
    BY <1>2, VarintInside DEF ItemError
  <2> QED BY <1>1, <1>2, <2>1 DEF ItemEnd
<1>3. CASE type = 1
  <2>1. ItemEnd(data, i, type) = Add(i, 8)
    BY <1>3 DEF ItemEnd
  <2>2. 8 \in 0..(Half - 1)
    OBVIOUS
  <2>3. Add(i, 8) = i + 8 /\ Add(i, 8) < Half
    BY <1>1, <2>1, <2>2, AddWraps
  <2> QED BY <1>1, <2>1, <2>3
<1>4. CASE type = 5
  <2>1. ItemEnd(data, i, type) = Add(i, 4)
    BY <1>4 DEF ItemEnd
  <2>2. 4 \in 0..(Half - 1)
    OBVIOUS
  <2>3. Add(i, 4) = i + 4 /\ Add(i, 4) < Half
    BY <1>1, <2>1, <2>2, AddWraps
  <2> QED BY <1>1, <2>1, <2>3
<1>5. CASE type = 2
  <2> DEFINE start == VarintNext(data, i)
             length == VarintValue(data, i)
  <2>1. VarintError(data, i) = "nil" /\ length \in 0..(Half - 1)
    BY <1>5 DEF ItemError
  <2>2. start \in (i + 1)..Len(data)
    BY <2>1, VarintInside
  <2>3. start \in 0..(Half - 1)
    <3> HIDE DEF start
    <3> QED BY <1>1, <2>2
  <2>4. ItemEnd(data, i, type) = Add(start, length)
    BY <1>5 DEF ItemEnd, PayloadEnd, PayloadStart
  <2> HIDE DEF start, length
  <2>5. Add(start, length) = start + length /\ Add(start, length) < Half
    BY <2>1, <2>3, <2>4, AddWraps
  <2> QED BY <1>1, <2>1, <2>2, <2>4, <2>5
<1>6. CASE type \notin {0, 1, 2, 5}
  BY <1>1, <1>6 DEF ItemEnd
<1> QED BY <1>2, <1>3, <1>4, <1>5, <1>6

(* An item that is not skipped gives an error of its own.                  *)
LEMMA ItemErrorNames ==
  ASSUME NEW data, NEW i, NEW type, NEW depth
  PROVE  ItemError(data, i, type, depth) \notin {"panic", "running"}
<1>1. VarintError(data, i) \notin {"panic", "running"}
  BY VarintErrorNames
<1>2. CASE type \in {0, 2, 4}
  BY <1>1, <1>2 DEF ItemError
<1>3. CASE type \in {1, 3, 5}
  BY <1>3 DEF ItemError
<1>4. CASE type \notin 0..5
  BY <1>4 DEF ItemError
<1> QED BY <1>2, <1>3, <1>4

(* One item of the skip function.                                          *)
LEMMA SkipStep ==
  ASSUME TypeOK, NoPanic, SkipItem
  PROVE  TypeOK' /\ NoPanic' /\ MovesOn
<1> DEFINE type == WireType(VarintValue(skip.data, skip.index))
           start == VarintNext(skip.data, skip.index)
           error == ItemError(skip.data, start, type, skip.depth)
           end == ItemEnd(skip.data, start, type)
           depth == DepthAfter(type, skip.depth)
<1>1. /\ outcome = "running" /\ skip.on
      /\ skip.data \in Seq(Byte) /\ Len(skip.data) = Len(Top.data) - Top.index
      /\ skip.index \in 0..(Half - 1) /\ skip.index < Len(skip.data)
      /\ skip.depth \in Nat
      /\ VarintError(skip.data, skip.index) = "nil"
  BY DEF TypeOK, SkipOK, SkipItem, InSkip
<1>2. /\ Len(Top.data) \in Nat /\ Len(Top.data) < Half
      /\ Top.index \in 0..Len(Top.data)
      /\ Len(skip.data) \in Nat /\ Len(skip.data) < Half
  BY <1>1, TopInside, LenProperties
<1>3. start \in (skip.index + 1)..Len(skip.data)
  <2>1. skip.index \in 0..Len(skip.data)
    BY <1>1, <1>2
  <2> QED BY <1>1, <2>1, VarintInside
<1>4. start \in 0..Len(skip.data) /\ start > skip.index
  <2> HIDE DEF start
  <2> QED BY <1>1, <1>2, <1>3
<1>5. CASE error # "nil"
  <2>1. Fail(error)
    BY <1>5 DEF SkipItem
  <2>2. error \notin {"panic", "running"}
    BY ItemErrorNames
  <2> HIDE DEF error
  <2> QED BY <2>1, <2>2, FailStep
<1>6. CASE error = "nil" /\ end < 0
  <2>1. Fail("ErrInvalidLength")
    BY <1>6 DEF SkipItem
  <2> QED BY <2>1, FailStep
<1>7. CASE error = "nil" /\ ~(end < 0)
  <2>1. end \in start..(Half - 1)
    BY <1>1, <1>2, <1>4, <1>7, ItemInside
  <2>2. end \in 0..(Half - 1) /\ end > skip.index
    <3> HIDE DEF start, end
    <3> QED BY <1>1, <1>2, <1>4, <2>1
  <2>3. CASE depth = 0
    <3>1. Skipped(end)
      BY <1>7, <2>3 DEF SkipItem
    <3> HIDE DEF end
    <3>2. Top.index \in 0..(Half - 1)
      BY <1>2
    <3>3. /\ Add(Top.index, end) \in Int
          /\ Add(Top.index, end) < 0 \/ Add(Top.index, end) = Top.index + end
      BY <2>2, <3>2, AddWraps
    <3>4. CASE Add(Top.index, end) < 0
      <4>1. Fail("ErrInvalidLength")
        BY <3>1, <3>4 DEF Skipped
      <4> QED BY <4>1, FailStep
    <3>5. CASE ~(Add(Top.index, end) < 0) /\ Add(Top.index, end) > Len(Top.data)
      <4>1. Fail("io.ErrUnexpectedEOF")
        BY <3>1, <3>5 DEF Skipped
      <4> QED BY <4>1, FailStep
    <3>6. CASE ~(Add(Top.index, end) < 0) /\ ~(Add(Top.index, end) > Len(Top.data))
      <4>1. /\ stack' = Append(Below, Call(Top.type, Top.data, Add(Top.index, end),
                                           Top.msg, Top.into))
            /\ skip' = NoSkip
            /\ outcome' = outcome
        BY <3>1, <3>6 DEF Skipped
      <4>2. Add(Top.index, end) \in (Top.index + 1)..Len(Top.data)
        BY <1>1, <1>2, <2>2, <3>2, <3>3, <3>6
      <4>3. ~skip'.on /\ skip'.on \in BOOLEAN
        BY <4>1 DEF NoSkip
      <4> QED BY <4>1, <4>2, <4>3, MoveStep
    <3> QED BY <3>4, <3>5, <3>6
  <2>4. CASE depth # 0
    <3>1. skip' = SkipCall(skip.data, end, depth) /\ stack' = stack /\ outcome' = outcome
      BY <1>7, <2>4 DEF SkipItem
    <3>2. depth \in Nat
      <4>1. CASE type = 4
        <5>1. skip.depth # 0
          BY <1>7, <4>1 DEF ItemError
        <5>2. depth = skip.depth - 1
          BY <4>1 DEF DepthAfter
        <5> QED BY <5>1, <5>2, <1>1
      <4>2. CASE type # 4
        <5>1. depth \in {skip.depth, skip.depth + 1}
          BY <4>2 DEF DepthAfter
        <5> QED BY <5>1, <1>1
      <4> QED BY <4>1, <4>2
    <3> HIDE DEF end, depth
    <3>3. /\ skip'.on = TRUE /\ skip'.data = skip.data
          /\ skip'.index = end /\ skip'.depth = depth
      BY <3>1 DEF SkipCall
    <3>4. SkipOK'
      <4>1. Len(skip'.data) = Len(Top'.data) - Top'.index
        BY <1>1, <3>1, <3>3 DEF Top
      <4>2. /\ skip'.data \in Seq(Byte) /\ skip'.index \in 0..(Half - 1)
            /\ skip'.depth \in Nat
        BY <1>1, <2>2, <3>2, <3>3
      <4>3. skip'.on \in BOOLEAN
        BY <3>3
      <4> QED BY <4>1, <4>2, <4>3, Zenon DEF SkipOK
    <3> QED BY <1>1, <2>2, <3>1, <3>3, <3>4
         DEF TypeOK, StackOK, IndexInside, NoPanic, MovesOn
  <2> QED BY <2>3, <2>4
<1> QED BY <1>5, <1>6, <1>7

(* No step of a decoder leaves its buffer, panics, or stands still.        *)
LEMMA Step ==
  ASSUME TypeOK, NoPanic, Next
  PROVE  TypeOK' /\ NoPanic' /\ MovesOn
<1>1. CASE BadTag
  <2>1. Fail(TagError) /\ TagError \notin {"panic", "running"}
    BY <1>1, VarintErrorNames DEF BadTag, TagError
  <2> QED BY <2>1, FailStep
<1>2. CASE BadSkipTag
  <2>1. Fail(VarintError(skip.data, skip.index))
    BY <1>2 DEF BadSkipTag
  <2> QED BY <2>1, VarintErrorNames, FailStep
<1>3. CASE UnclosedGroup
  BY <1>3, FailStep DEF UnclosedGroup
<1>4. CASE Return
  <2>1. /\ outcome' \in {"io.ErrUnexpectedEOF", "ok"}
        /\ stack' = stack /\ skip' = skip
    BY <1>4 DEF Return
  <2> QED BY <2>1 DEF TypeOK, StackOK, SkipOK, IndexInside, Top, NoPanic, MovesOn
<1>5. CASE WrongWireType \/ ReadNumber \/ BadPayload \/ ReadText \/ ReadDec
  BY <1>5, FieldStep
<1> QED BY <1>1, <1>2, <1>3, <1>4, <1>5, EnterStep, LeaveStep, EnterSkipStep, SkipStep
     DEF Next

(* A decoder that has not begun is inside its buffer.                      *)
LEMMA Start ==
  ASSUME Init
  PROVE  TypeOK /\ NoPanic
<1> DEFINE call == Call(input.type, input.bytes, 0, Zero(Fields[input.type]), 0)
<1>1. /\ input.bytes \in Seq(Byte) /\ Len(input.bytes) < Half
  BY InputsAssumption DEF Init
<1>2. Len(input.bytes) \in Nat
  BY <1>1, LenProperties
<1>3. call.data = input.bytes /\ call.index = 0
  BY DEF Call
<1>4. stack = <<call>> /\ skip = NoSkip /\ outcome = "running"
  BY DEF Init
<1> HIDE DEF call
<1>5. IndexInside(call)
  BY <1>1, <1>2, <1>3 DEF IndexInside
<1>6. StackOK(stack)
  <2>1. /\ DOMAIN stack = {1} /\ stack[1] = call /\ stack # << >>
        /\ stack \in Seq({call})
    BY <1>4
  <2>2. {stack[k] : k \in DOMAIN stack} = {call}
    BY <2>1
  <2> QED BY <2>1, <2>2, <1>5 DEF StackOK
<1>7. skip.on = FALSE
  BY <1>4 DEF NoSkip
<1> QED BY <1>4, <1>6, <1>7 DEF TypeOK, SkipOK, NoPanic

(* Nothing moves while the variables do not.                               *)
LEMMA Stutter ==
  ASSUME TypeOK, NoPanic, UNCHANGED vars
  PROVE  TypeOK' /\ NoPanic'
BY DEF vars, TypeOK, StackOK, SkipOK, IndexInside, Top, NoPanic

(* Every call of every Unmarshal stays inside its buffer, for every buffer *)
(* and every width of an int (the checks before each dAtA[a:b]).           *)
THEOREM DecodersStayInside == Spec => [](TypeOK /\ NoPanic)
<1>1. Init => TypeOK /\ NoPanic
  BY Start
<1>2. TypeOK /\ NoPanic /\ [Next]_vars => (TypeOK /\ NoPanic)'
  BY Step, Stutter
<1> QED BY <1>1, <1>2, PTL DEF Spec

(* The stack of calls and the skip function keep their types and their     *)
(* places in the buffers, whatever lengths the bytes state.                *)
THEOREM TypeCorrect == Spec => []TypeOK
BY DecodersStayInside, PTL

(* Every step without an answer passes bytes, or leaves a call: the loops  *)
(* of Unmarshal and of the skip functions cannot stand still.              *)
THEOREM DecodersAdvance == Spec => Advances
<1>1. TypeOK /\ NoPanic /\ [Next]_vars => [MovesOn]_vars
  BY Step
<1> QED BY <1>1, DecodersStayInside, PTL DEF Spec, Advances

(* A non-empty set of numbers has a least one.                             *)
LEMMA LeastNumber ==
  ASSUME NEW S \in SUBSET Nat, S # {}
  PROVE  \E d \in S : \A e \in S : ~(e < d)
<1> DEFINE R == OpToRel(<, Nat)
<1>1. PICK d \in S : \A e \in S : <<e, d>> \notin R
  <2> HIDE DEF R
  <2>1. IsWellFoundedOn(R, Nat)
    BY NatLessThanWellFounded DEF R
  <2> QED BY <2>1, WFMin
<1> QED BY <1>1 DEF OpToRel

(* What holds of 0 and passes from each number to the next holds up to n.  *)
LEMMA UpTo ==
  ASSUME NEW n \in Nat, NEW T, 0 \in T, \A k \in 1..n : k - 1 \in T => k \in T
  PROVE  \A k \in 0..n : k \in T
<1> DEFINE B == {k \in 0..n : k \notin T}
<1>1. SUFFICES ASSUME B # {} PROVE FALSE
  OBVIOUS
<1>2. PICK d \in B : \A e \in B : ~(e < d)
  <2>1. B \in SUBSET Nat
    OBVIOUS
  <2> HIDE DEF B
  <2> QED BY <1>1, <2>1, LeastNumber
<1>3. d \in 0..n /\ d \notin T
  OBVIOUS
<1>4. d # 0 /\ d \in 1..n /\ d - 1 \in 0..n /\ d - 1 < d
  BY <1>3
<1>5. d - 1 \in T
  BY <1>2, <1>4
<1> QED BY <1>3, <1>4, <1>5

(* f starts at base and goes on by g.                                      *)
Iterates(f, n, base, g) ==
  f[0] = base /\ \A k \in 1..n : f[k] = g[<<k, f[k - 1]>>]

(* A function given by its first value and a step from each value to the   *)
(* next exists.                                                            *)
LEMMA Recursion ==
  ASSUME NEW n \in Nat, NEW S, NEW base \in S, NEW g \in [(1..n) \X S -> S]
  PROVE  \E f \in [0..n -> S] : Iterates(f, n, base, g)
<1> DEFINE E(m) == \E f \in [0..m -> S] :
                     f[0] = base /\ \A k \in 1..m : f[k] = g[<<k, f[k - 1]>>]
           T == {m \in 0..n : E(m)}
<1>1. E(0)
  <2> DEFINE f == [k \in 0..0 |-> base]
  <2>1. f \in [0..0 -> S] /\ f[0] = base /\ \A k \in 1..0 : f[k] = g[<<k, f[k - 1]>>]
    OBVIOUS
  <2> QED BY <2>1
<1>2. ASSUME NEW m \in 1..n, m - 1 \in T
      PROVE  m \in T
  <2>1. PICK f \in [0..(m - 1) -> S] :
          f[0] = base /\ \A k \in 1..(m - 1) : f[k] = g[<<k, f[k - 1]>>]
    BY <1>2
  <2> DEFINE h == [k \in 0..m |-> IF k = m THEN g[<<m, f[m - 1]>>] ELSE f[k]]
  <2>2. f[m - 1] \in S
    OBVIOUS
  <2>3. g[<<m, f[m - 1]>>] \in S
    BY <2>2
  <2>4. h \in [0..m -> S]
    BY <2>3
  <2>5. h[0] = base
    BY <2>1
  <2>6. ASSUME NEW k \in 1..m PROVE h[k] = g[<<k, h[k - 1]>>]
    <3>1. k - 1 \in 0..(m - 1) /\ h[k - 1] = f[k - 1]
      OBVIOUS
    <3>2. CASE k = m
      <4>1. h[k] = g[<<m, f[m - 1]>>]
        BY <3>2
      <4> HIDE DEF h
      <4> QED BY <3>1, <3>2, <4>1
    <3>3. CASE k # m
      <4>1. h[k] = f[k] /\ k \in 1..(m - 1)
        BY <3>3
      <4> HIDE DEF h
      <4> QED BY <2>1, <3>1, <4>1
    <3> QED BY <3>2, <3>3
  <2>7. E(m)
    <3> HIDE DEF h
    <3> QED BY <2>4, <2>5, <2>6
  <2> QED BY <2>7
<1>3. \A k \in 0..n : k \in T
  <2>1. 0 \in T
    BY <1>1
  <2> HIDE DEF T
  <2> QED BY <1>2, <2>1, UpTo
<1>4. E(n)
  BY <1>3
<1> QED BY <1>4 DEF Iterates

-----------------------------------------------------------------------------
(* Powers of two: 1 << n, and one group of seven bits more.                *)

(* The recursive function of the powers of two is what it says.            *)
LEMMA Power2Def ==
  /\ Power2[0] = 1
  /\ \A n \in 1..(WordBits + 6) : Power2[n] = 2 * Power2[n - 1]
  /\ \A n \in 0..(WordBits + 6) : Power2[n] \in Nat \ {0}
<1> DEFINE N == WordBits + 6
           g == [p \in (1..N) \X Nat |-> 2 * p[2]]
           Is(h) == h = [n \in 0..N |-> IF n = 0 THEN 1 ELSE 2 * h[n - 1]]
<1>1. N \in Nat
  OBVIOUS
<1>2. \E h : Is(h)
  <2>0. 1 \in Nat
    OBVIOUS
  <2>1. g \in [(1..N) \X Nat -> Nat]
    OBVIOUS
  <2>2. PICK h \in [0..N -> Nat] : Iterates(h, N, 1, g)
    <3> HIDE DEF g, N, Is
    <3> QED BY <1>1, <2>0, <2>1, Recursion, Zenon
  <2>5. h[0] = 1 /\ \A k \in 1..N : h[k] = g[<<k, h[k - 1]>>]
    BY <2>2 DEF Iterates
  <2>3. \A k \in 1..N : h[k] = 2 * h[k - 1]
    <3> SUFFICES ASSUME NEW k \in 1..N PROVE h[k] = 2 * h[k - 1]
      OBVIOUS
    <3>1. <<k, h[k - 1]>> \in (1..N) \X Nat
      OBVIOUS
    <3> QED BY <2>5, <3>1
  <2>4. Is(h)
    <3> HIDE DEF N
    <3> QED BY <1>1, <2>5, <2>3
  <2> QED BY <2>4
<1>3. Is(Power2)
  <2>1. Power2 = CHOOSE h : Is(h)
    BY DEF Power2
  <2> HIDE DEF Is
  <2> QED BY <1>2, <2>1
<1>4. Power2[0] = 1 /\ \A n \in 1..N : Power2[n] = 2 * Power2[n - 1]
  <2> HIDE DEF N
  <2>1. \A n \in 0..N : Power2[n] = IF n = 0 THEN 1 ELSE 2 * Power2[n - 1]
    BY <1>3
  <2> QED BY <1>1, <2>1
<1>5. \A n \in 0..N : Power2[n] \in Nat \ {0}
  <2> DEFINE T == {n \in 0..N : Power2[n] \in Nat \ {0}}
  <2>1. 0 \in T
    BY <1>1, <1>4
  <2>2. \A k \in 1..N : k - 1 \in T => k \in T
    <3> HIDE DEF N
    <3> QED BY <1>1, <1>4
  <2>3. \A n \in 0..N : n \in T
    <3> HIDE DEF T, N
    <3> QED BY <1>1, <2>1, <2>2, UpTo
  <2> QED BY <2>3
<1> QED BY <1>4, <1>5

(* Groups of seven bits.                                                   *)
Groups(n) == Power2[7 * n]

(* Greater exponents give greater powers.                                  *)
LEMMA Power2Grows ==
  ASSUME NEW i \in 0..(WordBits + 6), NEW j \in i..(WordBits + 6)
  PROVE  Power2[i] <= Power2[j]
<1> DEFINE N == WordBits + 6
           T == {k \in 0..N : i <= k => Power2[i] <= Power2[k]}
<1>1. N \in Nat
  OBVIOUS
<1> HIDE DEF N
<1>2. 0 \in T
  BY <1>1, Power2Def DEF N
<1>3. ASSUME NEW k \in 1..N, k - 1 \in T PROVE k \in T
  <2>1. /\ Power2[k] = 2 * Power2[k - 1]
        /\ Power2[k - 1] \in Nat /\ Power2[k] \in Nat /\ Power2[i] \in Nat
    <3>1. k \in 1..N /\ k \in 0..N /\ k - 1 \in 0..N /\ i \in 0..N
      BY <1>1 DEF N
    <3> QED BY <3>1, Power2Def DEF N
  <2>2. CASE i = k
    BY <1>1, <2>2, <2>1
  <2>3. CASE i # k
    BY <1>1, <1>3, <2>1, <2>3
  <2> QED BY <2>2, <2>3
<1>4. \A k \in 0..N : k \in T
  <2> HIDE DEF T
  <2> QED BY <1>1, <1>2, <1>3, UpTo
<1>5. j \in T /\ i <= j
  BY <1>1, <1>4 DEF N
<1> QED BY <1>5

(* The longest varint has room for a word.                                 *)
LEMMA MaxVarintFits ==
  /\ MaxVarint \in Nat \ {0}
  /\ WordBits <= 7 * MaxVarint
  /\ 7 * MaxVarint <= WordBits + 6
BY DEF MaxVarint

(* The powers of 128.                                                      *)
LEMMA GroupsDef ==
  /\ Groups(0) = 1
  /\ \A n \in 1..MaxVarint : Groups(n) = 128 * Groups(n - 1)
  /\ \A n \in 0..MaxVarint : Groups(n) \in Nat \ {0}
<1>1. Groups(0) = 1
  BY Power2Def DEF Groups
<1>2. ASSUME NEW n \in 0..MaxVarint PROVE Groups(n) \in Nat \ {0}
  <2>1. 7 * n \in 0..(WordBits + 6)
    BY MaxVarintFits
  <2> QED BY <2>1, Power2Def DEF Groups
<1>3. ASSUME NEW n \in 1..MaxVarint PROVE Groups(n) = 128 * Groups(n - 1)
  <2> DEFINE m == 7 * (n - 1)
  <2>1. m \in Nat /\ m + 7 <= WordBits + 6 /\ 7 * n = m + 7
    BY MaxVarintFits
  <2> HIDE DEF m
  <2>2. ASSUME NEW y \in m..(m + 6)
        PROVE  Power2[y + 1] = 2 * Power2[y] /\ Power2[y] \in Nat
    <3>1. y + 1 \in 1..(WordBits + 6) /\ y \in 0..(WordBits + 6) /\ (y + 1) - 1 = y
      BY <2>1
    <3> QED BY <3>1, Power2Def
  <2>3. /\ m \in m..(m + 6) /\ m + 1 \in m..(m + 6) /\ m + 2 \in m..(m + 6)
        /\ m + 3 \in m..(m + 6) /\ m + 4 \in m..(m + 6) /\ m + 5 \in m..(m + 6)
        /\ m + 6 \in m..(m + 6)
        /\ (m + 1) + 1 = m + 2 /\ (m + 2) + 1 = m + 3 /\ (m + 3) + 1 = m + 4
        /\ (m + 4) + 1 = m + 5 /\ (m + 5) + 1 = m + 6 /\ (m + 6) + 1 = m + 7
    BY <2>1
  <2>4. /\ Power2[m] \in Nat
        /\ Power2[m + 1] = 2 * Power2[m] /\ Power2[m + 2] = 2 * Power2[m + 1]
        /\ Power2[m + 3] = 2 * Power2[m + 2] /\ Power2[m + 4] = 2 * Power2[m + 3]
        /\ Power2[m + 5] = 2 * Power2[m + 4] /\ Power2[m + 6] = 2 * Power2[m + 5]
        /\ Power2[m + 7] = 2 * Power2[m + 6]
    BY <2>2, <2>3
  <2>5. Power2[m + 7] = 128 * Power2[m]
    BY <2>4
  <2> QED BY <2>1, <2>5 DEF Groups, m
<1> QED BY <1>1, <1>2, <1>3

(* A word has no more groups than the longest varint.                      *)
LEMMA WordFits == Word \in Nat \ {0} /\ Word <= Groups(MaxVarint)
<1>1. WordBits \in 1..(WordBits + 6) /\ WordBits \in 0..(WordBits + 6)
  OBVIOUS
<1>2. Word = Power2[WordBits]
  BY <1>1, Power2Def, HalfAssumption DEF Word
<1>3. 7 * MaxVarint \in WordBits..(WordBits + 6)
  BY MaxVarintFits
<1>4. Power2[WordBits] <= Power2[7 * MaxVarint]
  BY <1>1, <1>3, Power2Grows
<1> QED BY <1>2, <1>4 DEF Groups, Word

(* The number of bytes of a varint is the number of its groups.            *)
LEMMA SovFits ==
  ASSUME NEW v \in 0..(Word - 1)
  PROVE  /\ Sov(v) \in 1..MaxVarint
         /\ v < Groups(Sov(v))
         /\ Sov(v) > 1 => v >= Groups(Sov(v) - 1)
<1> DEFINE P(n) == v < Groups(n) /\ (n > 1 => v >= Groups(n - 1))
           F == {n \in 1..MaxVarint : v < Groups(n)}
<1>1. MaxVarint \in F
  BY MaxVarintFits, WordFits, GroupsDef
<1>2. PICK n \in F : \A e \in F : ~(e < n)
  <2>1. F \in SUBSET Nat /\ F # {}
    BY <1>1, MaxVarintFits
  <2> HIDE DEF F
  <2> QED BY <2>1, LeastNumber
<1>3. n \in 1..MaxVarint /\ P(n)
  <2>1. n \in 1..MaxVarint /\ v < Groups(n)
    OBVIOUS
  <2>2. CASE n > 1
    <3>1. n - 1 \in 1..MaxVarint /\ n - 1 < n /\ n - 1 \in 0..MaxVarint
      BY <2>1, <2>2, MaxVarintFits
    <3>2. ~(v < Groups(n - 1))
      BY <1>2, <3>1
    <3>3. Groups(n - 1) \in Nat
      BY <3>1, GroupsDef
    <3> QED BY <2>1, <3>2, <3>3
  <2> QED BY <2>1, <2>2, MaxVarintFits
<1>4. Sov(v) = CHOOSE k \in 1..MaxVarint : P(k)
  BY DEF Sov, Groups
<1>5. Sov(v) \in 1..MaxVarint /\ P(Sov(v))
  <2> HIDE DEF P
  <2> QED BY <1>3, <1>4
<1> QED BY <1>5

(* The bytes of a varint: all but the last have the high bit.              *)
LEMMA EncodedBytes ==
  ASSUME NEW v \in 0..(Word - 1)
  PROVE  /\ EncodeVarint(v) \in Seq(Byte)
         /\ Len(EncodeVarint(v)) = Sov(v)
         /\ \A k \in 1..Sov(v) :
              /\ EncodeVarint(v)[k] % 128 = (v \div Groups(k - 1)) % 128
              /\ k < Sov(v) => EncodeVarint(v)[k] >= 128
              /\ k = Sov(v) => EncodeVarint(v)[k] < 128
<1> DEFINE n == Sov(v)
           group(k) == (v \div Groups(k - 1)) % 128
           e == [k \in 1..n |-> group(k) + (IF k < n THEN 128 ELSE 0)]
<1>1. n \in 1..MaxVarint /\ n \in Nat
  BY SovFits, MaxVarintFits
<1>2. EncodeVarint(v) = e
  BY DEF EncodeVarint, Groups
<1>3. \A k \in 1..n : group(k) \in 0..127
  <2> SUFFICES ASSUME NEW k \in 1..n PROVE group(k) \in 0..127
    OBVIOUS
  <2>1. k - 1 \in 0..MaxVarint
    BY <1>1, MaxVarintFits
  <2>2. Groups(k - 1) \in Nat \ {0}
    BY <2>1, GroupsDef
  <2>3. v \in Nat
    BY WordFits
  <2>4. v \div Groups(k - 1) \in Int
    BY <2>2, <2>3
  <2> QED BY <2>4
<1> HIDE DEF group, n
<1>4. e \in [1..n -> Byte]
  BY <1>1, <1>3 DEF Byte
<1>5. e \in Seq(Byte) /\ Len(e) = n
  BY <1>1, <1>4
<1>6. ASSUME NEW k \in 1..n
      PROVE  /\ e[k] % 128 = group(k)
             /\ k < n => e[k] >= 128
             /\ k = n => e[k] < 128
  <2>1. group(k) \in 0..127
    BY <1>3
  <2>2. e[k] = group(k) + (IF k < n THEN 128 ELSE 0)
    OBVIOUS
  <2> HIDE DEF e
  <2> QED BY <1>1, <2>1, <2>2
<1> HIDE DEF e
<1> QED BY <1>2, <1>5, <1>6 DEF group, n

(* The bytes b are in data from index i on, as far as data goes.           *)
Holds(data, i, b) == \A j \in 1..Len(b) : i + j <= Len(data) => data[i + j] = b[j]

(* A byte of a buffer is a number.                                         *)
LEMMA ByteAt ==
  ASSUME NEW data \in Seq(Byte), NEW x \in 1..Len(data)
  PROVE  data[x] \in Int /\ data[x] >= 0
<1>1. data[x] \in Byte
  BY ElementOfSeq
<1>2. \A y \in Byte : y \in Int /\ y >= 0
  BY DEF Byte
<1> QED BY <1>1, <1>2

(* One more group of seven bits.                                           *)
LEMMA OneGroup ==
  ASSUME NEW v \in Nat, NEW p \in Nat \ {0}
  PROVE  v % (128 * p) = (v % p) + ((v \div p) % 128) * p
<1> DEFINE q == v \div p
           r == v % p
           a == q \div 128
           b == q % 128
<1>1. q \in Nat /\ r \in 0..(p - 1) /\ v = p * q + r
  OBVIOUS
<1> HIDE DEF q, r
<1>2. a \in Nat /\ b \in 0..127 /\ q = 128 * a + b
  BY <1>1
<1> HIDE DEF a, b
<1> DEFINE s == r + b * p
           w == 128 * p
<1>3. s \in 0..(w - 1)
  <2>1. b * p <= 127 * p /\ b * p >= 0 /\ b * p \in Int
    BY <1>2
  <2> QED BY <1>1, <2>1
<1>4. v = w * a + s
  <2>1. p * q = p * (128 * a + b)
    BY <1>2
  <2>2. p * (128 * a + b) = (128 * p) * a + b * p
    BY <1>2
  <2>3. v = (128 * p) * a + b * p + r
    BY <1>1, <2>1, <2>2
  <2>4. (128 * p) * a \in Int /\ b * p \in Int
    BY <1>2
  <2> DEFINE x == (128 * p) * a
             y == b * p
  <2>5. v = x + y + r /\ x \in Int /\ y \in Int
    BY <2>3, <2>4
  <2>6. w * a + s = x + (r + y)
    OBVIOUS
  <2> HIDE DEF x, y, s, w
  <2> QED BY <1>1, <2>5, <2>6
<1>5. w \in Nat \ {0}
  OBVIOUS
<1> HIDE DEF s, w
<1>6. v % w = s
  <2>1. v \div w \in Int /\ v % w \in 0..(w - 1) /\ v = w * (v \div w) + (v % w)
    BY <1>5
  <2> DEFINE c == v \div w
             t == v % w
  <2> HIDE DEF c, t
  <2>2. w * (c - a) = s - t /\ c - a \in Int
    <3>1. w * (c - a) = w * c - w * a /\ w * c \in Int /\ w * a \in Int
      BY <1>2, <1>5, <2>1 DEF c
    <3> QED BY <1>2, <1>3, <1>4, <1>5, <2>1, <3>1 DEF c, t
  <2>3. s - t < w /\ s - t > -w /\ s \in Int /\ t \in Int
    BY <1>3, <1>5, <2>1 DEF t
  <2>4. c - a < 1
    <3> SUFFICES ASSUME c - a >= 1 PROVE FALSE
      BY <2>2
    <3>1. w * (c - a) >= w * 1
      BY <1>5, <2>2
    <3> QED BY <1>5, <2>2, <2>3, <3>1
  <2>5. c - a > -1
    <3> SUFFICES ASSUME c - a <= -1 PROVE FALSE
      BY <2>2
    <3>1. w * (c - a) <= w * (-1)
      BY <1>5, <2>2
    <3> QED BY <1>5, <2>2, <2>3, <3>1
  <2>6. c - a = 0
    BY <2>2, <2>4, <2>5
  <2>7. s - t = 0
    BY <1>5, <2>2, <2>6
  <2> QED BY <1>3, <2>3, <2>7 DEF t
<1> QED BY <1>6 DEF s, w, b, q, r

(* Where the bytes of a varint all are, it is read back, and the index     *)
(* moves past them.                                                        *)
LEMMA VarintStops ==
  ASSUME NEW v \in 0..(Word - 1), NEW data \in Seq(Byte), NEW i \in 0..Len(data),
         Holds(data, i, EncodeVarint(v)), i + Sov(v) <= Len(data)
  PROVE  /\ VarintError(data, i) = "nil"
         /\ VarintNext(data, i) = i + Sov(v)
<1> DEFINE n == Sov(v)
           e == EncodeVarint(v)
<1>1. n \in 1..MaxVarint /\ n \in Nat
  BY SovFits, MaxVarintFits
<1>2. /\ Len(e) = n
      /\ \A k \in 1..n : (k < n => e[k] >= 128) /\ (k = n => e[k] < 128)
  BY EncodedBytes
<1>3. Len(data) \in Nat
  BY LenProperties
<1>4. \A k \in 1..n : data[i + k] = e[k]
  <2> HIDE DEF e, n
  <2>1. \A k \in 1..Len(e) : i + k <= Len(data) => data[i + k] = e[k]
    BY DEF Holds, e
  <2>2. i + n <= Len(data)
    BY DEF n
  <2> QED BY <1>1, <1>2, <1>3, <2>1, <2>2
<1>5. \A k \in 1..n : data[i + k] \in Int
  <2> SUFFICES ASSUME NEW k \in 1..n PROVE data[i + k] \in Int
    OBVIOUS
  <2>1. i + k \in 1..Len(data)
    BY <1>1, <1>3
  <2> QED BY <2>1, ByteAt, Zenon
<1> HIDE DEF e
<1>6. VarintEnds(data, i) = {n}
  <2>1. n \in VarintEnds(data, i)
    <3> HIDE DEF n
    <3>0. i + n <= Len(data)
      BY DEF n
    <3>1. data[i + n] < 128
      BY <1>1, <1>2, <1>4
    <3>2. ASSUME NEW j \in 1..(n - 1) PROVE data[i + j] >= 128
      <4>1. j \in 1..n /\ j < n
        BY <1>1
      <4>2. e[j] >= 128 /\ data[i + j] = e[j]
        BY <1>2, <1>4, <4>1
      <4> QED BY <4>2
    <3> QED BY <1>1, <3>0, <3>1, <3>2 DEF VarintEnds
  <2>2. ASSUME NEW k \in VarintEnds(data, i) PROVE k = n
    <3> HIDE DEF n
    <3>1. /\ k \in 1..MaxVarint /\ k \in Int
          /\ data[i + k] < 128
          /\ \A j \in 1..(k - 1) : data[i + j] >= 128
      BY MaxVarintFits DEF VarintEnds
    <3>2. CASE k < n
      <4>1. k \in 1..n /\ data[i + k] >= 128 /\ data[i + k] \in Int
        BY <1>1, <1>2, <1>4, <1>5, <3>1, <3>2
      <4> QED BY <3>1, <4>1
    <3>3. CASE k > n
      <4>1. n \in 1..n /\ n \in 1..(k - 1)
        BY <1>1, <3>1, <3>3
      <4>2. data[i + n] >= 128 /\ data[i + n] < 128 /\ data[i + n] \in Int
        BY <1>2, <1>4, <1>5, <3>1, <4>1
      <4> QED BY <4>2
    <3> QED BY <1>1, <3>1, <3>2, <3>3
  <2> QED BY <2>1, <2>2
<1> QED BY <1>6 DEF VarintError, VarintNext

(* The varint of a word is read back as the word.                          *)
LEMMA VarintRead ==
  ASSUME NEW v \in 0..(Word - 1), NEW data \in Seq(Byte), NEW i \in 0..Len(data),
         Holds(data, i, EncodeVarint(v)), i + Sov(v) <= Len(data)
  PROVE  VarintValue(data, i) = v
<1> DEFINE n == Sov(v)
           e == EncodeVarint(v)
           Is(h) == h = [k \in 0..n |-> IF k = 0 THEN 0
                           ELSE h[k - 1] + (data[i + k] % 128) * Power2[7 * (k - 1)]]
           value == CHOOSE h : Is(h)
           g == [k \in 0..n |-> v % Groups(k)]
<1>1. n \in 1..MaxVarint /\ n \in Nat /\ MaxVarint \in Nat
  BY SovFits, MaxVarintFits
<1>2. VarintNext(data, i) - i = n
  <2>1. VarintNext(data, i) = i + Sov(v)
    BY VarintStops
  <2>2. i \in Int
    BY LenProperties
  <2> QED BY <1>1, <2>1, <2>2
<1>3. VarintValue(data, i) = value[n] % Word
  BY <1>2 DEF VarintValue
<1>4. /\ Len(e) = n
      /\ \A k \in 1..n : e[k] % 128 = (v \div Groups(k - 1)) % 128
  BY EncodedBytes
<1>5. v \in Nat
  BY WordFits
<1>6. ASSUME NEW k \in 1..n
      PROVE  v % Groups(k) = (v % Groups(k - 1)) + (data[i + k] % 128) * Power2[7 * (k - 1)]
  <2> DEFINE p == Groups(k - 1)
  <2>1. k \in 1..MaxVarint /\ k - 1 \in 0..MaxVarint
    BY <1>1
  <2>2. Groups(k) = 128 * p /\ p \in Nat \ {0}
    BY <2>1, GroupsDef
  <2>3. data[i + k] % 128 = (v \div p) % 128
    <3>1. i + k <= Len(data)
      BY <1>1, LenProperties
    <3>2. data[i + k] = e[k]
      BY <1>4, <3>1 DEF Holds
    <3> HIDE DEF e, n
    <3> QED BY <1>4, <3>2
  <2>4. p = Power2[7 * (k - 1)]
    BY DEF Groups
  <2> HIDE DEF p
  <2>5. v % (128 * p) = (v % p) + ((v \div p) % 128) * p
    BY <1>5, <2>2, OneGroup
  <2> QED BY <2>2, <2>3, <2>4, <2>5 DEF p
<1>7. v % Groups(0) = 0
  BY <1>5, GroupsDef
<1> HIDE DEF n, e
<1>8. Is(g)
  <2>1. ASSUME NEW k \in 0..n
        PROVE  g[k] = IF k = 0 THEN 0
                      ELSE g[k - 1] + (data[i + k] % 128) * Power2[7 * (k - 1)]
    <3>1. CASE k = 0
      BY <1>7, <3>1
    <3>2. CASE k # 0
      <4>1. k \in 1..n /\ k - 1 \in 0..n
        BY <1>1, <3>2
      <4> QED BY <1>6, <3>2, <4>1
    <3> QED BY <3>1, <3>2
  <2> HIDE DEF g
  <2>2. g = [k \in 0..n |-> g[k]]
    BY DEF g
  <2> QED BY <2>1, <2>2
<1>9. Is(value)
  <2> HIDE DEF Is
  <2> QED BY <1>8
<1>10. value[n] = v % Groups(n)
  <2> DEFINE T == {k \in 0..n : value[k] = v % Groups(k)}
  <2>0. \A k \in 0..n : value[k] = IF k = 0 THEN 0
                          ELSE value[k - 1] + (data[i + k] % 128) * Power2[7 * (k - 1)]
    <3> HIDE DEF value
    <3> QED BY <1>9
  <2> HIDE DEF value
  <2>1. 0 \in T
    BY <1>1, <1>7, <2>0
  <2>2. ASSUME NEW k \in 1..n, k - 1 \in T PROVE k \in T
    <3>1. k \in 0..n /\ k # 0
      BY <1>1
    <3>2. value[k] = value[k - 1] + (data[i + k] % 128) * Power2[7 * (k - 1)]
      BY <2>0, <3>1
    <3>3. value[k - 1] = v % Groups(k - 1)
      BY <2>2
    <3>4. value[k] = v % Groups(k)
      BY <1>6, <3>2, <3>3
    <3> QED BY <3>1, <3>4
  <2>3. \A k \in 0..n : k \in T
    <3> HIDE DEF T
    <3> QED BY <1>1, <2>1, <2>2, UpTo
  <2>4. n \in 0..n
    BY <1>1
  <2> QED BY <2>3, <2>4
<1>11. v < Groups(n) /\ Groups(n) \in Nat \ {0}
  <2>1. n \in 0..MaxVarint
    BY <1>1
  <2> QED BY <2>1, SovFits, GroupsDef DEF n
<1>12. v % Groups(n) = v
  BY <1>5, <1>11
<1>13. v % Word = v
  BY <1>5, WordFits
<1> HIDE DEF value
<1> QED BY <1>3, <1>10, <1>12, <1>13

(* A varint of which bytes are missing at the end is not read.             *)
LEMMA VarintCut ==
  ASSUME NEW v \in 0..(Word - 1), NEW data \in Seq(Byte), NEW i \in 0..Len(data),
         Holds(data, i, EncodeVarint(v)), i + Sov(v) > Len(data)
  PROVE  VarintError(data, i) # "nil"
<1> DEFINE n == Sov(v)
           e == EncodeVarint(v)
<1>1. n \in 1..MaxVarint /\ n \in Nat
  BY SovFits, MaxVarintFits
<1>2. Len(e) = n /\ \A k \in 1..n : k < n => e[k] >= 128
  BY EncodedBytes
<1>3. Len(data) \in Nat
  BY LenProperties
<1>4. ASSUME NEW k \in VarintEnds(data, i) PROVE FALSE
  <2>1. k \in 1..MaxVarint /\ i + k <= Len(data) /\ data[i + k] < 128
    BY DEF VarintEnds
  <2>2. i + k \in 1..Len(data)
    BY <1>3, <2>1, MaxVarintFits
  <2>3. data[i + k] \in Int
    BY <2>2, ByteAt, Zenon
  <2>4. k \in 1..n /\ k < n
    <3>1. i + n > Len(data)
      OBVIOUS
    <3> HIDE DEF n
    <3> QED BY <1>1, <1>3, <2>1, <3>1, MaxVarintFits
  <2>5. data[i + k] = e[k]
    BY <1>2, <2>1, <2>4 DEF Holds
  <2>6. e[k] >= 128
    <3> HIDE DEF e, n
    <3> QED BY <1>2, <2>4
  <2> HIDE DEF e
  <2> QED BY <2>1, <2>3, <2>5, <2>6
<1>5. VarintEnds(data, i) = {}
  BY <1>4
<1> QED BY <1>5 DEF VarintError

(* A buffer that holds two strings in a row holds each.                    *)
LEMMA HoldsConcat ==
  ASSUME NEW data, NEW i \in Nat, NEW a \in Seq(Byte), NEW b \in Seq(Byte),
         Holds(data, i, a \o b)
  PROVE  /\ Holds(data, i, a)
         /\ Holds(data, i + Len(a), b)
<1>1. /\ a \o b \in Seq(Byte)
      /\ Len(a \o b) = Len(a) + Len(b)
      /\ Len(a) \in Nat /\ Len(b) \in Nat
      /\ \A j \in 1..Len(a) : (a \o b)[j] = a[j]
      /\ \A j \in 1..Len(b) : (a \o b)[Len(a) + j] = b[j]
  <2>1. Len(a) \in Nat /\ Len(b) \in Nat
    BY LenProperties
  <2>2. /\ a \o b \in Seq(Byte)
        /\ Len(a \o b) = Len(a) + Len(b)
        /\ \A j \in 1..(Len(a) + Len(b)) :
             (a \o b)[j] = IF j <= Len(a) THEN a[j] ELSE b[j - Len(a)]
    BY ConcatProperties
  <2> DEFINE c == a \o b
  <2> HIDE DEF c
  <2>3. \A j \in 1..Len(b) : Len(a) + j \in 1..(Len(a) + Len(b)) /\ ~(Len(a) + j <= Len(a))
                             /\ (Len(a) + j) - Len(a) = j
    BY <2>1
  <2>4. \A j \in 1..Len(a) : j \in 1..(Len(a) + Len(b)) /\ j <= Len(a)
    BY <2>1
  <2>5. \A j \in 1..Len(a) : c[j] = a[j]
    BY <2>2, <2>4 DEF c
  <2>6. \A j \in 1..Len(b) : c[Len(a) + j] = b[j]
    BY <2>2, <2>3 DEF c
  <2> QED BY <2>1, <2>2, <2>5, <2>6 DEF c
<1> DEFINE c == a \o b
<1>2. \A j \in 1..Len(c) : i + j <= Len(data) => data[i + j] = c[j]
  BY DEF Holds
<1> HIDE DEF c
<1>3. ASSUME NEW j \in 1..Len(a), i + j <= Len(data) PROVE data[i + j] = a[j]
  <2>1. j \in 1..Len(c) /\ c[j] = a[j]
    BY <1>1 DEF c
  <2> QED BY <1>2, <1>3, <2>1
<1>4. ASSUME NEW j \in 1..Len(b), (i + Len(a)) + j <= Len(data)
      PROVE  data[(i + Len(a)) + j] = b[j]
  <2> DEFINE k == Len(a) + j
  <2>1. k \in 1..Len(c) /\ c[k] = b[j]
    BY <1>1 DEF c
  <2>2. i + k = (i + Len(a)) + j
    BY <1>1
  <2> HIDE DEF k
  <2>3. data[i + k] = c[k]
    BY <1>2, <1>4, <2>1, <2>2
  <2> QED BY <2>1, <2>2, <2>3
<1> QED BY <1>3, <1>4 DEF Holds

(* A tag is one byte.                                                      *)
LEMMA TagByte ==
  ASSUME NEW tag \in 0..127
  PROVE  EncodeVarint(tag) = <<tag>> /\ Sov(tag) = 1 /\ tag \in 0..(Word - 1)
<1>1. tag \in 0..(Word - 1) /\ tag \in Nat
  BY TagAssumption DEF Word
<1>2. Groups(0) = 1 /\ Groups(1) = 128 /\ \A n \in 1..MaxVarint : Groups(n) \in Nat \ {0}
  <2>1. 1 \in 1..MaxVarint /\ 1 - 1 = 0
    BY MaxVarintFits
  <2>2. Groups(1) = 128 * Groups(1 - 1)
    BY <2>1, GroupsDef
  <2>3. \A n \in 1..MaxVarint : n \in 0..MaxVarint
    BY MaxVarintFits
  <2> QED BY <2>1, <2>2, <2>3, GroupsDef
<1>3. Sov(tag) = 1
  <2> DEFINE n == Sov(tag)
  <2>1. n \in 1..MaxVarint /\ (n > 1 => tag >= Groups(n - 1))
    BY <1>1, SovFits
  <2> HIDE DEF n
  <2>2. ASSUME n > 1 PROVE FALSE
    <3>1. n - 1 \in 1..MaxVarint
      BY <2>1, <2>2, MaxVarintFits
    <3>2. Groups(n - 1) >= 128
      <4>1. 7 * 1 \in 0..(WordBits + 6) /\ 7 * (n - 1) \in (7 * 1)..(WordBits + 6)
        BY <3>1, MaxVarintFits
      <4>2. Power2[7 * 1] <= Power2[7 * (n - 1)]
        BY <4>1, Power2Grows
      <4> QED BY <1>2, <4>2 DEF Groups
    <3>3. Groups(n - 1) \in Nat
      BY <1>2, <3>1
    <3> QED BY <2>1, <2>2, <3>2, <3>3
  <2> QED BY <2>1, <2>2, MaxVarintFits DEF n
<1>4. EncodeVarint(tag) = [k \in 1..1 |-> ((tag \div Power2[7 * (k - 1)]) % 128)
                                           + (IF k < 1 THEN 128 ELSE 0)]
  BY <1>3 DEF EncodeVarint
<1>5. \A k \in 1..1 : ((tag \div Power2[7 * (k - 1)]) % 128) + (IF k < 1 THEN 128 ELSE 0) = tag
  <2> SUFFICES ASSUME NEW k \in 1..1
               PROVE  ((tag \div Power2[7 * (k - 1)]) % 128) + (IF k < 1 THEN 128 ELSE 0) = tag
    OBVIOUS
  <2>1. Power2[7 * (k - 1)] = 1
    <3>1. 7 * (k - 1) = 0
      OBVIOUS
    <3> QED BY <3>1, Power2Def
  <2>2. tag \div 1 = tag /\ tag % 128 = tag
    BY <1>1
  <2> QED BY <1>1, <2>1, <2>2
<1>6. EncodeVarint(tag) = [k \in 1..1 |-> tag]
  BY <1>4, <1>5
<1>7. [k \in 1..1 |-> tag] = <<tag>>
  OBVIOUS
<1> QED BY <1>1, <1>3, <1>6, <1>7

(* A varint is as long as its size says.                                   *)
LEMMA VarintBytes ==
  ASSUME NEW v \in 0..(Word - 1)
  PROVE  EncodeVarint(v) \in Seq(Byte) /\ Len(EncodeVarint(v)) = Sov(v) /\ Sov(v) \in Nat \ {0}
BY EncodedBytes, SovFits, MaxVarintFits

(* A length and as many bytes are read back, or refused when some are      *)
(* missing.                                                                *)
LEMMA PayloadRead ==
  ASSUME NEW b \in Seq(Byte), Len(b) < Half,
         NEW data \in Seq(Byte), Len(data) < Half, NEW i \in 0..Len(data),
         Holds(data, i, EncodeVarint(Len(b)) \o b),
         i + Sov(Len(b)) + Len(b) <= Len(data)
  PROVE  /\ PayloadError(data, i) = "nil"
         /\ PayloadEnd(data, i) = i + Sov(Len(b)) + Len(b)
         /\ Payload(data, i) = b
<1> DEFINE n == Len(b)
           s == Sov(n)
<1>1. n \in 0..(Word - 1) /\ n \in 0..(Half - 1) /\ Len(data) \in Nat /\ i \in Nat
  BY LenProperties DEF Word
<1>2. EncodeVarint(n) \in Seq(Byte) /\ Len(EncodeVarint(n)) = s /\ s \in Nat \ {0}
  BY <1>1, VarintBytes
<1>3. i + s + n <= Len(data)
  OBVIOUS
<1>4. Holds(data, i, EncodeVarint(n)) /\ Holds(data, i + s, b)
  <2> HIDE DEF n, s
  <2>1. Holds(data, i, EncodeVarint(n) \o b)
    BY DEF n
  <2>2. /\ Holds(data, i, EncodeVarint(n))
        /\ Holds(data, i + Len(EncodeVarint(n)), b)
    BY <1>1, <1>2, <2>1, HoldsConcat
  <2> QED BY <1>2, <2>2
<1> HIDE DEF n
<1>5. i + s <= Len(data)
  <2> HIDE DEF s
  <2> QED BY <1>1, <1>2, <1>3
<1>6. VarintError(data, i) = "nil" /\ VarintNext(data, i) = i + s
  BY <1>1, <1>4, <1>5, VarintStops
<1>7. VarintValue(data, i) = n
  BY <1>1, <1>4, <1>5, VarintRead
<1> HIDE DEF s
<1>8. PayloadEnd(data, i) = i + s + n
  <2> DEFINE st == i + s
  <2>1. st \in 0..(Half - 1) /\ n \in 0..(Half - 1)
    BY <1>1, <1>2, <1>5
  <2>2. (st + n) % Word = st + n /\ st + n < Half
    <3> DEFINE x == st + n
    <3>1. x \in 0..(Half - 1)
      BY <1>1, <1>2, <1>3
    <3> HIDE DEF x
    <3>2. x % Word = x /\ x < Half
      BY <3>1 DEF Word
    <3> QED BY <3>2 DEF x
  <2>3. Add(st, n) = st + n
    BY <2>2 DEF Add, Signed
  <2> QED BY <1>6, <1>7, <2>3 DEF PayloadEnd, PayloadStart
<1>9. PayloadError(data, i) = "nil"
  <2>1. ~(i + s + n < 0) /\ ~(i + s + n > Len(data)) /\ i + s <= i + s + n
    BY <1>1, <1>2, <1>3
  <2> QED BY <1>1, <1>3, <1>6, <1>7, <1>8, <2>1 DEF PayloadError, SliceError, PayloadStart
<1>10. Payload(data, i) = b
  <2> DEFINE st == i + s
             e == i + s + n
             c == SubSeq(data, st + 1, e)
  <2>1. Payload(data, i) = c
    BY <1>6, <1>8 DEF Payload, PayloadStart
  <2>2. st \in 0..Len(data) /\ e \in st..Len(data) /\ e - st = n /\ st \in Nat /\ e \in Nat
    BY <1>1, <1>2, <1>3
  <2> HIDE DEF st, e
  <2>3. c \in Seq(Byte) /\ Len(c) = n
    BY <2>2, SliceIsBuffer
  <2>4. \A j \in 1..n : c[j] = data[st + j]
    <3>1. \A k \in (st + 1)..e : data[k] \in Byte
      <4>1. \A k \in (st + 1)..e : k \in 1..Len(data)
        BY <2>2
      <4> QED BY <4>1, ElementOfSeq
    <3>2. st + 1 \in Int /\ e \in Int
      BY <2>2
    <3>3. \A j \in 1..(e - (st + 1) + 1) : c[j] = data[(st + 1) + j - 1]
      BY <3>1, <3>2, SubSeqProperties
    <3>4. \A j \in 1..n : j \in 1..(e - (st + 1) + 1) /\ (st + 1) + j - 1 = st + j
      BY <2>2, <1>1
    <3> QED BY <3>3, <3>4
  <2>5. \A j \in 1..n : data[st + j] = b[j]
    <3>1. \A j \in 1..n : st + j <= Len(data)
      BY <1>1, <1>3, <2>2
    <3> QED BY <1>4, <3>1 DEF Holds, n, st
  <2>6. Len(b) = n
    BY DEF n
  <2> HIDE DEF c
  <2>7. c = b
    <3>1. \A j \in 1..Len(c) : c[j] = b[j]
      BY <2>3, <2>4, <2>5
    <3> QED BY <2>3, <2>6, <3>1, SeqEqual
  <2> QED BY <2>1, <2>7
<1> QED BY <1>8, <1>9, <1>10 DEF n, s

(* A payload that is not there whole is refused.                           *)
LEMMA PayloadCut ==
  ASSUME NEW b \in Seq(Byte), Len(b) < Half,
         NEW data \in Seq(Byte), Len(data) < Half, NEW i \in 0..Len(data),
         Holds(data, i, EncodeVarint(Len(b)) \o b),
         i + Sov(Len(b)) + Len(b) > Len(data)
  PROVE  PayloadError(data, i) # "nil"
<1> DEFINE n == Len(b)
           s == Sov(n)
<1>1. n \in 0..(Word - 1) /\ n \in 0..(Half - 1) /\ Len(data) \in Nat /\ i \in Nat
  BY LenProperties DEF Word
<1>2. EncodeVarint(n) \in Seq(Byte) /\ Len(EncodeVarint(n)) = s /\ s \in Nat \ {0}
  BY <1>1, VarintBytes
<1>3. i + s + n > Len(data)
  OBVIOUS
<1>4. Holds(data, i, EncodeVarint(n))
  <2> HIDE DEF n, s
  <2>1. Holds(data, i, EncodeVarint(n) \o b)
    BY DEF n
  <2> QED BY <1>1, <1>2, <2>1, HoldsConcat
<1> HIDE DEF n
<1>5. CASE i + s > Len(data)
  <2>1. VarintError(data, i) # "nil"
    BY <1>1, <1>4, <1>5, VarintCut
  <2> QED BY <2>1 DEF PayloadError
<1>6. CASE i + s <= Len(data)
  <2>1. VarintError(data, i) = "nil" /\ VarintNext(data, i) = i + s
    BY <1>1, <1>4, <1>6, VarintStops
  <2>2. VarintValue(data, i) = n
    BY <1>1, <1>4, <1>6, VarintRead
  <2> HIDE DEF s
  <2> DEFINE st == i + s
             e == Add(st, n)
  <2>3. st \in 0..(Half - 1)
    BY <1>1, <1>2, <1>6
  <2>4. e = PayloadEnd(data, i)
    BY <2>1, <2>2 DEF PayloadEnd, PayloadStart
  <2>5. e < 0 \/ e = st + n
    <3> HIDE DEF st
    <3> QED BY <1>1, <2>3, AddWraps
  <2>6. e < 0 \/ e > Len(data)
    BY <1>3, <2>5
  <2> HIDE DEF e
  <2> QED BY <2>1, <2>4, <2>6 DEF PayloadError
<1> QED BY <1>1, <1>2, <1>5, <1>6

(* The fields of a message and their values.                               *)
Scalars == {"text", "uint64", "int64", "dec"}
Numbers == {"uint64", "int64"}
Lists == {"pointer", "repeated"}

(* The codec of a nested type, the pagination types of the SDK included.   *)
Encoded(type, m) ==
  CASE type = "PageRequest" -> Marshal_PageRequest(m)
    [] type = "PageResponse" -> Marshal_PageResponse(m)
    [] OTHER -> Written(type, m)
SizeOf(type, m) ==
  CASE type = "PageRequest" -> Size_PageRequest(m)
    [] type = "PageResponse" -> Size_PageResponse(m)
    [] OTHER -> Size(type, m)

(* What the decoders need of the fields of each message.                   *)
FieldOK(f) ==
  /\ f.kind \in Scalars \cup Lists \cup {"embedded"}
  /\ f.kind \in {"text", "dec"} \cup Lists => f.zero = << >>
  /\ f.kind \in Numbers => f.zero = 0
  /\ f.kind \notin Scalars =>
       /\ f.of \in Types
       /\ \A k \in DOMAIN Fields[f.of] : Fields[f.of][k].kind \in Scalars
  /\ f.kind = "embedded" => f.zero = Zero(Fields[f.of])
  /\ f.kind \in Lists => f.fresh = Zero(Fields[f.of])
SchemaOK(fields) ==
  /\ Len(fields) \in 0..7
  /\ DOMAIN fields = 1..Len(fields)
  /\ \A k \in DOMAIN fields : FieldOK(fields[k])
  /\ \A j, k \in DOMAIN fields : fields[j].name = fields[k].name => j = k

(* Fields with a value of their own.                                       *)
LEMMA PlainFields ==
  ASSUME NEW name
  PROVE  /\ FieldOK(Text(name)) /\ Text(name).name = name /\ Text(name).kind = "text"
         /\ FieldOK(Dec(name)) /\ Dec(name).name = name /\ Dec(name).kind = "dec"
         /\ FieldOK(Uint64(name)) /\ Uint64(name).name = name /\ Uint64(name).kind = "uint64"
         /\ FieldOK(Int64(name)) /\ Int64(name).name = name /\ Int64(name).kind = "int64"
BY DEF Text, Dec, Uint64, Int64, Field, FieldOK, Scalars, Lists, Numbers

(* Fields with a message: their names and kinds.                           *)
LEMMA NestedNames ==
  ASSUME NEW name, NEW of, NEW fields
  PROVE  /\ Embedded(name, of, fields).name = name
         /\ Embedded(name, of, fields).kind = "embedded"
         /\ Embedded(name, of, fields).of = of
         /\ Pointer(name, of, fields).name = name
         /\ Pointer(name, of, fields).kind = "pointer"
         /\ Pointer(name, of, fields).of = of
         /\ Repeated(name, of, fields).name = name
         /\ Repeated(name, of, fields).kind = "repeated"
         /\ Repeated(name, of, fields).of = of
BY DEF Embedded, Pointer, Repeated, Field

(* Fields with a message are as the decoders need them.                    *)
LEMMA NestedFields ==
  ASSUME NEW name, NEW of \in Types, NEW fields, fields = Fields[of],
         \A k \in DOMAIN fields : fields[k].kind \in Scalars
  PROVE  /\ FieldOK(Embedded(name, of, fields))
         /\ FieldOK(Pointer(name, of, fields))
         /\ FieldOK(Repeated(name, of, fields))
BY DEF Embedded, Pointer, Repeated, Field, FieldOK, Scalars, Lists, Numbers

(* The fields of each message, as its Unmarshal knows them.                *)
LEMMA td_ParamsShape ==
  /\ "td_Params" \in Types /\ Fields["td_Params"] = td_Params
  /\ DOMAIN td_Params = 1..3 /\ Len(td_Params) = 3
  /\ td_Params[1] = Dec("share")
  /\ td_Params[2] = Uint64("value")
  /\ td_Params[3] = Dec("rate")
BY DEF Types, Fields, td_Params

(* The fields of td_DustAmount.                                            *)
LEMMA td_DustAmountShape ==
  /\ "td_DustAmount" \in Types /\ Fields["td_DustAmount"] = td_DustAmount
  /\ DOMAIN td_DustAmount = 1..1 /\ Len(td_DustAmount) = 1
  /\ td_DustAmount[1] = Dec("dust")
BY DEF Types, Fields, td_DustAmount

(* The fields of td_GenesisState.                                          *)
LEMMA td_GenesisStateShape ==
  /\ "td_GenesisState" \in Types /\ Fields["td_GenesisState"] = td_GenesisState
  /\ DOMAIN td_GenesisState = 1..1 /\ Len(td_GenesisState) = 1
  /\ td_GenesisState[1] = Embedded("params", "td_Params", td_Params)
BY DEF Types, Fields, td_GenesisState

(* The fields of td_Module.                                                *)
LEMMA td_ModuleShape ==
  /\ "td_Module" \in Types /\ Fields["td_Module"] = td_Module
  /\ DOMAIN td_Module = 1..1 /\ Len(td_Module) = 1
  /\ td_Module[1] = Text("authority")
BY DEF Types, Fields, td_Module

(* The fields of td_MsgUpdateParams.                                       *)
LEMMA td_MsgUpdateParamsShape ==
  /\ "td_MsgUpdateParams" \in Types /\ Fields["td_MsgUpdateParams"] = td_MsgUpdateParams
  /\ DOMAIN td_MsgUpdateParams = 1..2 /\ Len(td_MsgUpdateParams) = 2
  /\ td_MsgUpdateParams[1] = Text("authority")
  /\ td_MsgUpdateParams[2] = Embedded("params", "td_Params", td_Params)
BY DEF Types, Fields, td_MsgUpdateParams

(* The fields of td_MsgUpdateParamsResponse.                               *)
LEMMA td_MsgUpdateParamsResponseShape ==
  /\ "td_MsgUpdateParamsResponse" \in Types /\ Fields["td_MsgUpdateParamsResponse"] = td_MsgUpdateParamsResponse
  /\ DOMAIN td_MsgUpdateParamsResponse = 1..0 /\ Len(td_MsgUpdateParamsResponse) = 0
BY DEF Types, Fields, td_MsgUpdateParamsResponse

(* The fields of td_MsgFundModule.                                         *)
LEMMA td_MsgFundModuleShape ==
  /\ "td_MsgFundModule" \in Types /\ Fields["td_MsgFundModule"] = td_MsgFundModule
  /\ DOMAIN td_MsgFundModule = 1..3 /\ Len(td_MsgFundModule) = 3
  /\ td_MsgFundModule[1] = Text("creator")
  /\ td_MsgFundModule[2] = Int64("amount")
  /\ td_MsgFundModule[3] = Text("module")
BY DEF Types, Fields, td_MsgFundModule

(* The fields of td_MsgFundModuleResponse.                                 *)
LEMMA td_MsgFundModuleResponseShape ==
  /\ "td_MsgFundModuleResponse" \in Types /\ Fields["td_MsgFundModuleResponse"] = td_MsgFundModuleResponse
  /\ DOMAIN td_MsgFundModuleResponse = 1..0 /\ Len(td_MsgFundModuleResponse) = 0
BY DEF Types, Fields, td_MsgFundModuleResponse

(* The fields of td_QueryParamsRequest.                                    *)
LEMMA td_QueryParamsRequestShape ==
  /\ "td_QueryParamsRequest" \in Types /\ Fields["td_QueryParamsRequest"] = td_QueryParamsRequest
  /\ DOMAIN td_QueryParamsRequest = 1..0 /\ Len(td_QueryParamsRequest) = 0
BY DEF Types, Fields, td_QueryParamsRequest

(* The fields of td_QueryParamsResponse.                                   *)
LEMMA td_QueryParamsResponseShape ==
  /\ "td_QueryParamsResponse" \in Types /\ Fields["td_QueryParamsResponse"] = td_QueryParamsResponse
  /\ DOMAIN td_QueryParamsResponse = 1..1 /\ Len(td_QueryParamsResponse) = 1
  /\ td_QueryParamsResponse[1] = Embedded("params", "td_Params", td_Params)
BY DEF Types, Fields, td_QueryParamsResponse

(* The fields of PageRequest.                                              *)
LEMMA PageRequestShape ==
  /\ "PageRequest" \in Types /\ Fields["PageRequest"] = PageRequest
  /\ DOMAIN PageRequest = 1..3 /\ Len(PageRequest) = 3
  /\ PageRequest[1] = Text("key")
  /\ PageRequest[2] = Uint64("offset")
  /\ PageRequest[3] = Uint64("limit")
BY DEF Types, Fields, PageRequest

(* The fields of PageResponse.                                             *)
LEMMA PageResponseShape ==
  /\ "PageResponse" \in Types /\ Fields["PageResponse"] = PageResponse
  /\ DOMAIN PageResponse = 1..2 /\ Len(PageResponse) = 2
  /\ PageResponse[1] = Text("next_key")
  /\ PageResponse[2] = Uint64("total")
BY DEF Types, Fields, PageResponse

(* The fields of Validator.                                                *)
LEMMA ValidatorShape ==
  /\ "Validator" \in Types /\ Fields["Validator"] = Validator
  /\ DOMAIN Validator = 1..6 /\ Len(Validator) = 6
  /\ Validator[1] = Text("index")
  /\ Validator[2] = Text("member_id")
  /\ Validator[3] = Text("operator_address")
  /\ Validator[4] = Text("consensus_pubkey")
  /\ Validator[5] = Text("status")
  /\ Validator[6] = Uint64("term_end")
BY DEF Types, Fields, Validator

(* The fields of vr_Params.                                                *)
LEMMA vr_ParamsShape ==
  /\ "vr_Params" \in Types /\ Fields["vr_Params"] = vr_Params
  /\ DOMAIN vr_Params = 1..0 /\ Len(vr_Params) = 0
BY DEF Types, Fields, vr_Params

(* The fields of vr_GenesisState.                                          *)
LEMMA vr_GenesisStateShape ==
  /\ "vr_GenesisState" \in Types /\ Fields["vr_GenesisState"] = vr_GenesisState
  /\ DOMAIN vr_GenesisState = 1..2 /\ Len(vr_GenesisState) = 2
  /\ vr_GenesisState[1] = Embedded("params", "vr_Params", vr_Params)
  /\ vr_GenesisState[2] = Repeated("validator_map", "Validator", Validator)
BY DEF Types, Fields, vr_GenesisState

(* The fields of vr_Module.                                                *)
LEMMA vr_ModuleShape ==
  /\ "vr_Module" \in Types /\ Fields["vr_Module"] = vr_Module
  /\ DOMAIN vr_Module = 1..1 /\ Len(vr_Module) = 1
  /\ vr_Module[1] = Text("authority")
BY DEF Types, Fields, vr_Module

(* The fields of vr_MsgUpdateParams.                                       *)
LEMMA vr_MsgUpdateParamsShape ==
  /\ "vr_MsgUpdateParams" \in Types /\ Fields["vr_MsgUpdateParams"] = vr_MsgUpdateParams
  /\ DOMAIN vr_MsgUpdateParams = 1..2 /\ Len(vr_MsgUpdateParams) = 2
  /\ vr_MsgUpdateParams[1] = Text("authority")
  /\ vr_MsgUpdateParams[2] = Embedded("params", "vr_Params", vr_Params)
BY DEF Types, Fields, vr_MsgUpdateParams

(* The fields of vr_MsgUpdateParamsResponse.                               *)
LEMMA vr_MsgUpdateParamsResponseShape ==
  /\ "vr_MsgUpdateParamsResponse" \in Types /\ Fields["vr_MsgUpdateParamsResponse"] = vr_MsgUpdateParamsResponse
  /\ DOMAIN vr_MsgUpdateParamsResponse = 1..0 /\ Len(vr_MsgUpdateParamsResponse) = 0
BY DEF Types, Fields, vr_MsgUpdateParamsResponse

(* The fields of MsgOnboardValidator.                                      *)
LEMMA MsgOnboardValidatorShape ==
  /\ "MsgOnboardValidator" \in Types /\ Fields["MsgOnboardValidator"] = MsgOnboardValidator
  /\ DOMAIN MsgOnboardValidator = 1..7 /\ Len(MsgOnboardValidator) = 7
  /\ MsgOnboardValidator[1] = Text("creator")
  /\ MsgOnboardValidator[2] = Text("index")
  /\ MsgOnboardValidator[3] = Text("member_id")
  /\ MsgOnboardValidator[4] = Text("operator_address")
  /\ MsgOnboardValidator[5] = Text("consensus_pubkey")
  /\ MsgOnboardValidator[6] = Text("status")
  /\ MsgOnboardValidator[7] = Uint64("term_end")
BY DEF Types, Fields, MsgOnboardValidator

(* The fields of MsgOnboardValidatorResponse.                              *)
LEMMA MsgOnboardValidatorResponseShape ==
  /\ "MsgOnboardValidatorResponse" \in Types /\ Fields["MsgOnboardValidatorResponse"] = MsgOnboardValidatorResponse
  /\ DOMAIN MsgOnboardValidatorResponse = 1..0 /\ Len(MsgOnboardValidatorResponse) = 0
BY DEF Types, Fields, MsgOnboardValidatorResponse

(* The fields of vr_QueryParamsRequest.                                    *)
LEMMA vr_QueryParamsRequestShape ==
  /\ "vr_QueryParamsRequest" \in Types /\ Fields["vr_QueryParamsRequest"] = vr_QueryParamsRequest
  /\ DOMAIN vr_QueryParamsRequest = 1..0 /\ Len(vr_QueryParamsRequest) = 0
BY DEF Types, Fields, vr_QueryParamsRequest

(* The fields of vr_QueryParamsResponse.                                   *)
LEMMA vr_QueryParamsResponseShape ==
  /\ "vr_QueryParamsResponse" \in Types /\ Fields["vr_QueryParamsResponse"] = vr_QueryParamsResponse
  /\ DOMAIN vr_QueryParamsResponse = 1..1 /\ Len(vr_QueryParamsResponse) = 1
  /\ vr_QueryParamsResponse[1] = Embedded("params", "vr_Params", vr_Params)
BY DEF Types, Fields, vr_QueryParamsResponse

(* The fields of QueryGetValidatorRequest.                                 *)
LEMMA QueryGetValidatorRequestShape ==
  /\ "QueryGetValidatorRequest" \in Types /\ Fields["QueryGetValidatorRequest"] = QueryGetValidatorRequest
  /\ DOMAIN QueryGetValidatorRequest = 1..1 /\ Len(QueryGetValidatorRequest) = 1
  /\ QueryGetValidatorRequest[1] = Text("index")
BY DEF Types, Fields, QueryGetValidatorRequest

(* The fields of QueryGetValidatorResponse.                                *)
LEMMA QueryGetValidatorResponseShape ==
  /\ "QueryGetValidatorResponse" \in Types /\ Fields["QueryGetValidatorResponse"] = QueryGetValidatorResponse
  /\ DOMAIN QueryGetValidatorResponse = 1..1 /\ Len(QueryGetValidatorResponse) = 1
  /\ QueryGetValidatorResponse[1] = Embedded("validator", "Validator", Validator)
BY DEF Types, Fields, QueryGetValidatorResponse

(* The fields of QueryAllValidatorRequest.                                 *)
LEMMA QueryAllValidatorRequestShape ==
  /\ "QueryAllValidatorRequest" \in Types /\ Fields["QueryAllValidatorRequest"] = QueryAllValidatorRequest
  /\ DOMAIN QueryAllValidatorRequest = 1..1 /\ Len(QueryAllValidatorRequest) = 1
  /\ QueryAllValidatorRequest[1] = Pointer("pagination", "PageRequest", PageRequest)
BY DEF Types, Fields, QueryAllValidatorRequest

(* The fields of QueryAllValidatorResponse.                                *)
LEMMA QueryAllValidatorResponseShape ==
  /\ "QueryAllValidatorResponse" \in Types /\ Fields["QueryAllValidatorResponse"] = QueryAllValidatorResponse
  /\ DOMAIN QueryAllValidatorResponse = 1..2 /\ Len(QueryAllValidatorResponse) = 2
  /\ QueryAllValidatorResponse[1] = Repeated("validator", "Validator", Validator)
  /\ QueryAllValidatorResponse[2] = Pointer("pagination", "PageResponse", PageResponse)
BY DEF Types, Fields, QueryAllValidatorResponse

(* The fields of td_Params are as the decoders need them.                  *)
LEMMA td_ParamsSchema ==
  SchemaOK(td_Params) /\ \A k \in DOMAIN td_Params : td_Params[k].kind \in Scalars
<1>1. \A k \in DOMAIN td_Params : FieldOK(td_Params[k]) /\ td_Params[k].kind \in Scalars
  BY td_ParamsShape, PlainFields DEF Scalars
<1>2. /\ td_Params[1].name = "share"
      /\ td_Params[2].name = "value"
      /\ td_Params[3].name = "rate"
  BY td_ParamsShape, PlainFields
<1>3. \A j, k \in DOMAIN td_Params : td_Params[j].name = td_Params[k].name => j = k
  BY td_ParamsShape, <1>2
<1> QED BY td_ParamsShape, <1>1, <1>3 DEF SchemaOK

(* The fields of td_DustAmount are as the decoders need them.              *)
LEMMA td_DustAmountSchema ==
  SchemaOK(td_DustAmount) /\ \A k \in DOMAIN td_DustAmount : td_DustAmount[k].kind \in Scalars
<1>1. \A k \in DOMAIN td_DustAmount : FieldOK(td_DustAmount[k]) /\ td_DustAmount[k].kind \in Scalars
  BY td_DustAmountShape, PlainFields DEF Scalars
<1>2. td_DustAmount[1].name = "dust"
  BY td_DustAmountShape, PlainFields
<1>3. \A j, k \in DOMAIN td_DustAmount : td_DustAmount[j].name = td_DustAmount[k].name => j = k
  BY td_DustAmountShape, <1>2
<1> QED BY td_DustAmountShape, <1>1, <1>3 DEF SchemaOK

(* The fields of td_GenesisState are as the decoders need them.            *)
LEMMA td_GenesisStateSchema ==
  SchemaOK(td_GenesisState)
<1>1. \A k \in DOMAIN td_GenesisState : FieldOK(td_GenesisState[k])
  <2>1. FieldOK(td_GenesisState[1])
    <3>1. FieldOK(Embedded("params", "td_Params", td_Params))
      BY td_ParamsShape, td_ParamsSchema, NestedFields
    <3> QED BY <3>1, td_GenesisStateShape
  <2> QED BY <2>1, td_GenesisStateShape
<1>2. td_GenesisState[1].name = "params"
  BY td_GenesisStateShape, PlainFields, NestedNames
<1>3. \A j, k \in DOMAIN td_GenesisState : td_GenesisState[j].name = td_GenesisState[k].name => j = k
  BY td_GenesisStateShape, <1>2
<1> QED BY td_GenesisStateShape, <1>1, <1>3 DEF SchemaOK

(* The fields of td_Module are as the decoders need them.                  *)
LEMMA td_ModuleSchema ==
  SchemaOK(td_Module) /\ \A k \in DOMAIN td_Module : td_Module[k].kind \in Scalars
<1>1. \A k \in DOMAIN td_Module : FieldOK(td_Module[k]) /\ td_Module[k].kind \in Scalars
  BY td_ModuleShape, PlainFields DEF Scalars
<1>2. td_Module[1].name = "authority"
  BY td_ModuleShape, PlainFields
<1>3. \A j, k \in DOMAIN td_Module : td_Module[j].name = td_Module[k].name => j = k
  BY td_ModuleShape, <1>2
<1> QED BY td_ModuleShape, <1>1, <1>3 DEF SchemaOK

(* The fields of td_MsgUpdateParams are as the decoders need them.         *)
LEMMA td_MsgUpdateParamsSchema ==
  SchemaOK(td_MsgUpdateParams)
<1>1. \A k \in DOMAIN td_MsgUpdateParams : FieldOK(td_MsgUpdateParams[k])
  <2>1. FieldOK(td_MsgUpdateParams[1])
    BY td_MsgUpdateParamsShape, PlainFields
  <2>2. FieldOK(td_MsgUpdateParams[2])
    <3>1. FieldOK(Embedded("params", "td_Params", td_Params))
      BY td_ParamsShape, td_ParamsSchema, NestedFields
    <3> QED BY <3>1, td_MsgUpdateParamsShape
  <2> QED BY <2>1, <2>2, td_MsgUpdateParamsShape
<1>2. /\ td_MsgUpdateParams[1].name = "authority"
      /\ td_MsgUpdateParams[2].name = "params"
  BY td_MsgUpdateParamsShape, PlainFields, NestedNames
<1>3. \A j, k \in DOMAIN td_MsgUpdateParams : td_MsgUpdateParams[j].name = td_MsgUpdateParams[k].name => j = k
  BY td_MsgUpdateParamsShape, <1>2
<1> QED BY td_MsgUpdateParamsShape, <1>1, <1>3 DEF SchemaOK

(* The fields of td_MsgUpdateParamsResponse are as the decoders need them. *)
LEMMA td_MsgUpdateParamsResponseSchema ==
  SchemaOK(td_MsgUpdateParamsResponse) /\ \A k \in DOMAIN td_MsgUpdateParamsResponse : td_MsgUpdateParamsResponse[k].kind \in Scalars
BY td_MsgUpdateParamsResponseShape DEF SchemaOK

(* The fields of td_MsgFundModule are as the decoders need them.           *)
LEMMA td_MsgFundModuleSchema ==
  SchemaOK(td_MsgFundModule) /\ \A k \in DOMAIN td_MsgFundModule : td_MsgFundModule[k].kind \in Scalars
<1>1. \A k \in DOMAIN td_MsgFundModule : FieldOK(td_MsgFundModule[k]) /\ td_MsgFundModule[k].kind \in Scalars
  BY td_MsgFundModuleShape, PlainFields DEF Scalars
<1>2. /\ td_MsgFundModule[1].name = "creator"
      /\ td_MsgFundModule[2].name = "amount"
      /\ td_MsgFundModule[3].name = "module"
  BY td_MsgFundModuleShape, PlainFields
<1>3. \A j, k \in DOMAIN td_MsgFundModule : td_MsgFundModule[j].name = td_MsgFundModule[k].name => j = k
  BY td_MsgFundModuleShape, <1>2
<1> QED BY td_MsgFundModuleShape, <1>1, <1>3 DEF SchemaOK

(* The fields of td_MsgFundModuleResponse are as the decoders need them.   *)
LEMMA td_MsgFundModuleResponseSchema ==
  SchemaOK(td_MsgFundModuleResponse) /\ \A k \in DOMAIN td_MsgFundModuleResponse : td_MsgFundModuleResponse[k].kind \in Scalars
BY td_MsgFundModuleResponseShape DEF SchemaOK

(* The fields of td_QueryParamsRequest are as the decoders need them.      *)
LEMMA td_QueryParamsRequestSchema ==
  SchemaOK(td_QueryParamsRequest) /\ \A k \in DOMAIN td_QueryParamsRequest : td_QueryParamsRequest[k].kind \in Scalars
BY td_QueryParamsRequestShape DEF SchemaOK

(* The fields of td_QueryParamsResponse are as the decoders need them.     *)
LEMMA td_QueryParamsResponseSchema ==
  SchemaOK(td_QueryParamsResponse)
<1>1. \A k \in DOMAIN td_QueryParamsResponse : FieldOK(td_QueryParamsResponse[k])
  <2>1. FieldOK(td_QueryParamsResponse[1])
    <3>1. FieldOK(Embedded("params", "td_Params", td_Params))
      BY td_ParamsShape, td_ParamsSchema, NestedFields
    <3> QED BY <3>1, td_QueryParamsResponseShape
  <2> QED BY <2>1, td_QueryParamsResponseShape
<1>2. td_QueryParamsResponse[1].name = "params"
  BY td_QueryParamsResponseShape, PlainFields, NestedNames
<1>3. \A j, k \in DOMAIN td_QueryParamsResponse : td_QueryParamsResponse[j].name = td_QueryParamsResponse[k].name => j = k
  BY td_QueryParamsResponseShape, <1>2
<1> QED BY td_QueryParamsResponseShape, <1>1, <1>3 DEF SchemaOK

(* The fields of PageRequest are as the decoders need them.                *)
LEMMA PageRequestSchema ==
  SchemaOK(PageRequest) /\ \A k \in DOMAIN PageRequest : PageRequest[k].kind \in Scalars
<1>1. \A k \in DOMAIN PageRequest : FieldOK(PageRequest[k]) /\ PageRequest[k].kind \in Scalars
  BY PageRequestShape, PlainFields DEF Scalars
<1>2. /\ PageRequest[1].name = "key"
      /\ PageRequest[2].name = "offset"
      /\ PageRequest[3].name = "limit"
  BY PageRequestShape, PlainFields
<1>3. \A j, k \in DOMAIN PageRequest : PageRequest[j].name = PageRequest[k].name => j = k
  BY PageRequestShape, <1>2
<1> QED BY PageRequestShape, <1>1, <1>3 DEF SchemaOK

(* The fields of PageResponse are as the decoders need them.               *)
LEMMA PageResponseSchema ==
  SchemaOK(PageResponse) /\ \A k \in DOMAIN PageResponse : PageResponse[k].kind \in Scalars
<1>1. \A k \in DOMAIN PageResponse : FieldOK(PageResponse[k]) /\ PageResponse[k].kind \in Scalars
  BY PageResponseShape, PlainFields DEF Scalars
<1>2. /\ PageResponse[1].name = "next_key"
      /\ PageResponse[2].name = "total"
  BY PageResponseShape, PlainFields
<1>3. \A j, k \in DOMAIN PageResponse : PageResponse[j].name = PageResponse[k].name => j = k
  BY PageResponseShape, <1>2
<1> QED BY PageResponseShape, <1>1, <1>3 DEF SchemaOK

(* The fields of Validator are as the decoders need them.                  *)
LEMMA ValidatorSchema ==
  SchemaOK(Validator) /\ \A k \in DOMAIN Validator : Validator[k].kind \in Scalars
<1>1. \A k \in DOMAIN Validator : FieldOK(Validator[k]) /\ Validator[k].kind \in Scalars
  BY ValidatorShape, PlainFields DEF Scalars
<1>2. /\ Validator[1].name = "index"
      /\ Validator[2].name = "member_id"
      /\ Validator[3].name = "operator_address"
      /\ Validator[4].name = "consensus_pubkey"
      /\ Validator[5].name = "status"
      /\ Validator[6].name = "term_end"
  BY ValidatorShape, PlainFields
<1>3. \A j, k \in DOMAIN Validator : Validator[j].name = Validator[k].name => j = k
  BY ValidatorShape, <1>2
<1> QED BY ValidatorShape, <1>1, <1>3 DEF SchemaOK

(* The fields of vr_Params are as the decoders need them.                  *)
LEMMA vr_ParamsSchema ==
  SchemaOK(vr_Params) /\ \A k \in DOMAIN vr_Params : vr_Params[k].kind \in Scalars
BY vr_ParamsShape DEF SchemaOK

(* The fields of vr_GenesisState are as the decoders need them.            *)
LEMMA vr_GenesisStateSchema ==
  SchemaOK(vr_GenesisState)
<1>1. \A k \in DOMAIN vr_GenesisState : FieldOK(vr_GenesisState[k])
  <2>1. FieldOK(vr_GenesisState[1])
    <3>1. FieldOK(Embedded("params", "vr_Params", vr_Params))
      BY vr_ParamsShape, vr_ParamsSchema, NestedFields
    <3> QED BY <3>1, vr_GenesisStateShape
  <2>2. FieldOK(vr_GenesisState[2])
    <3>1. FieldOK(Repeated("validator_map", "Validator", Validator))
      BY ValidatorShape, ValidatorSchema, NestedFields
    <3> QED BY <3>1, vr_GenesisStateShape
  <2> QED BY <2>1, <2>2, vr_GenesisStateShape
<1>2. /\ vr_GenesisState[1].name = "params"
      /\ vr_GenesisState[2].name = "validator_map"
  BY vr_GenesisStateShape, PlainFields, NestedNames
<1>3. \A j, k \in DOMAIN vr_GenesisState : vr_GenesisState[j].name = vr_GenesisState[k].name => j = k
  BY vr_GenesisStateShape, <1>2
<1> QED BY vr_GenesisStateShape, <1>1, <1>3 DEF SchemaOK

(* The fields of vr_Module are as the decoders need them.                  *)
LEMMA vr_ModuleSchema ==
  SchemaOK(vr_Module) /\ \A k \in DOMAIN vr_Module : vr_Module[k].kind \in Scalars
<1>1. \A k \in DOMAIN vr_Module : FieldOK(vr_Module[k]) /\ vr_Module[k].kind \in Scalars
  BY vr_ModuleShape, PlainFields DEF Scalars
<1>2. vr_Module[1].name = "authority"
  BY vr_ModuleShape, PlainFields
<1>3. \A j, k \in DOMAIN vr_Module : vr_Module[j].name = vr_Module[k].name => j = k
  BY vr_ModuleShape, <1>2
<1> QED BY vr_ModuleShape, <1>1, <1>3 DEF SchemaOK

(* The fields of vr_MsgUpdateParams are as the decoders need them.         *)
LEMMA vr_MsgUpdateParamsSchema ==
  SchemaOK(vr_MsgUpdateParams)
<1>1. \A k \in DOMAIN vr_MsgUpdateParams : FieldOK(vr_MsgUpdateParams[k])
  <2>1. FieldOK(vr_MsgUpdateParams[1])
    BY vr_MsgUpdateParamsShape, PlainFields
  <2>2. FieldOK(vr_MsgUpdateParams[2])
    <3>1. FieldOK(Embedded("params", "vr_Params", vr_Params))
      BY vr_ParamsShape, vr_ParamsSchema, NestedFields
    <3> QED BY <3>1, vr_MsgUpdateParamsShape
  <2> QED BY <2>1, <2>2, vr_MsgUpdateParamsShape
<1>2. /\ vr_MsgUpdateParams[1].name = "authority"
      /\ vr_MsgUpdateParams[2].name = "params"
  BY vr_MsgUpdateParamsShape, PlainFields, NestedNames
<1>3. \A j, k \in DOMAIN vr_MsgUpdateParams : vr_MsgUpdateParams[j].name = vr_MsgUpdateParams[k].name => j = k
  BY vr_MsgUpdateParamsShape, <1>2
<1> QED BY vr_MsgUpdateParamsShape, <1>1, <1>3 DEF SchemaOK

(* The fields of vr_MsgUpdateParamsResponse are as the decoders need them. *)
LEMMA vr_MsgUpdateParamsResponseSchema ==
  SchemaOK(vr_MsgUpdateParamsResponse) /\ \A k \in DOMAIN vr_MsgUpdateParamsResponse : vr_MsgUpdateParamsResponse[k].kind \in Scalars
BY vr_MsgUpdateParamsResponseShape DEF SchemaOK

(* The fields of MsgOnboardValidator are as the decoders need them.        *)
LEMMA MsgOnboardValidatorSchema ==
  SchemaOK(MsgOnboardValidator) /\ \A k \in DOMAIN MsgOnboardValidator : MsgOnboardValidator[k].kind \in Scalars
<1>1. \A k \in DOMAIN MsgOnboardValidator : FieldOK(MsgOnboardValidator[k]) /\ MsgOnboardValidator[k].kind \in Scalars
  BY MsgOnboardValidatorShape, PlainFields DEF Scalars
<1>2. /\ MsgOnboardValidator[1].name = "creator"
      /\ MsgOnboardValidator[2].name = "index"
      /\ MsgOnboardValidator[3].name = "member_id"
      /\ MsgOnboardValidator[4].name = "operator_address"
      /\ MsgOnboardValidator[5].name = "consensus_pubkey"
      /\ MsgOnboardValidator[6].name = "status"
      /\ MsgOnboardValidator[7].name = "term_end"
  BY MsgOnboardValidatorShape, PlainFields
<1>3. \A j, k \in DOMAIN MsgOnboardValidator : MsgOnboardValidator[j].name = MsgOnboardValidator[k].name => j = k
  BY MsgOnboardValidatorShape, <1>2
<1> QED BY MsgOnboardValidatorShape, <1>1, <1>3 DEF SchemaOK

(* The fields of MsgOnboardValidatorResponse are as the decoders need      *)
(* them.                                                                   *)
LEMMA MsgOnboardValidatorResponseSchema ==
  SchemaOK(MsgOnboardValidatorResponse) /\ \A k \in DOMAIN MsgOnboardValidatorResponse : MsgOnboardValidatorResponse[k].kind \in Scalars
BY MsgOnboardValidatorResponseShape DEF SchemaOK

(* The fields of vr_QueryParamsRequest are as the decoders need them.      *)
LEMMA vr_QueryParamsRequestSchema ==
  SchemaOK(vr_QueryParamsRequest) /\ \A k \in DOMAIN vr_QueryParamsRequest : vr_QueryParamsRequest[k].kind \in Scalars
BY vr_QueryParamsRequestShape DEF SchemaOK

(* The fields of vr_QueryParamsResponse are as the decoders need them.     *)
LEMMA vr_QueryParamsResponseSchema ==
  SchemaOK(vr_QueryParamsResponse)
<1>1. \A k \in DOMAIN vr_QueryParamsResponse : FieldOK(vr_QueryParamsResponse[k])
  <2>1. FieldOK(vr_QueryParamsResponse[1])
    <3>1. FieldOK(Embedded("params", "vr_Params", vr_Params))
      BY vr_ParamsShape, vr_ParamsSchema, NestedFields
    <3> QED BY <3>1, vr_QueryParamsResponseShape
  <2> QED BY <2>1, vr_QueryParamsResponseShape
<1>2. vr_QueryParamsResponse[1].name = "params"
  BY vr_QueryParamsResponseShape, PlainFields, NestedNames
<1>3. \A j, k \in DOMAIN vr_QueryParamsResponse : vr_QueryParamsResponse[j].name = vr_QueryParamsResponse[k].name => j = k
  BY vr_QueryParamsResponseShape, <1>2
<1> QED BY vr_QueryParamsResponseShape, <1>1, <1>3 DEF SchemaOK

(* The fields of QueryGetValidatorRequest are as the decoders need them.   *)
LEMMA QueryGetValidatorRequestSchema ==
  SchemaOK(QueryGetValidatorRequest) /\ \A k \in DOMAIN QueryGetValidatorRequest : QueryGetValidatorRequest[k].kind \in Scalars
<1>1. \A k \in DOMAIN QueryGetValidatorRequest : FieldOK(QueryGetValidatorRequest[k]) /\ QueryGetValidatorRequest[k].kind \in Scalars
  BY QueryGetValidatorRequestShape, PlainFields DEF Scalars
<1>2. QueryGetValidatorRequest[1].name = "index"
  BY QueryGetValidatorRequestShape, PlainFields
<1>3. \A j, k \in DOMAIN QueryGetValidatorRequest : QueryGetValidatorRequest[j].name = QueryGetValidatorRequest[k].name => j = k
  BY QueryGetValidatorRequestShape, <1>2
<1> QED BY QueryGetValidatorRequestShape, <1>1, <1>3 DEF SchemaOK

(* The fields of QueryGetValidatorResponse are as the decoders need them.  *)
LEMMA QueryGetValidatorResponseSchema ==
  SchemaOK(QueryGetValidatorResponse)
<1>1. \A k \in DOMAIN QueryGetValidatorResponse : FieldOK(QueryGetValidatorResponse[k])
  <2>1. FieldOK(QueryGetValidatorResponse[1])
    <3>1. FieldOK(Embedded("validator", "Validator", Validator))
      BY ValidatorShape, ValidatorSchema, NestedFields
    <3> QED BY <3>1, QueryGetValidatorResponseShape
  <2> QED BY <2>1, QueryGetValidatorResponseShape
<1>2. QueryGetValidatorResponse[1].name = "validator"
  BY QueryGetValidatorResponseShape, PlainFields, NestedNames
<1>3. \A j, k \in DOMAIN QueryGetValidatorResponse : QueryGetValidatorResponse[j].name = QueryGetValidatorResponse[k].name => j = k
  BY QueryGetValidatorResponseShape, <1>2
<1> QED BY QueryGetValidatorResponseShape, <1>1, <1>3 DEF SchemaOK

(* The fields of QueryAllValidatorRequest are as the decoders need them.   *)
LEMMA QueryAllValidatorRequestSchema ==
  SchemaOK(QueryAllValidatorRequest)
<1>1. \A k \in DOMAIN QueryAllValidatorRequest : FieldOK(QueryAllValidatorRequest[k])
  <2>1. FieldOK(QueryAllValidatorRequest[1])
    <3>1. FieldOK(Pointer("pagination", "PageRequest", PageRequest))
      BY PageRequestShape, PageRequestSchema, NestedFields
    <3> QED BY <3>1, QueryAllValidatorRequestShape
  <2> QED BY <2>1, QueryAllValidatorRequestShape
<1>2. QueryAllValidatorRequest[1].name = "pagination"
  BY QueryAllValidatorRequestShape, PlainFields, NestedNames
<1>3. \A j, k \in DOMAIN QueryAllValidatorRequest : QueryAllValidatorRequest[j].name = QueryAllValidatorRequest[k].name => j = k
  BY QueryAllValidatorRequestShape, <1>2
<1> QED BY QueryAllValidatorRequestShape, <1>1, <1>3 DEF SchemaOK

(* The fields of QueryAllValidatorResponse are as the decoders need them.  *)
LEMMA QueryAllValidatorResponseSchema ==
  SchemaOK(QueryAllValidatorResponse)
<1>1. \A k \in DOMAIN QueryAllValidatorResponse : FieldOK(QueryAllValidatorResponse[k])
  <2>1. FieldOK(QueryAllValidatorResponse[1])
    <3>1. FieldOK(Repeated("validator", "Validator", Validator))
      BY ValidatorShape, ValidatorSchema, NestedFields
    <3> QED BY <3>1, QueryAllValidatorResponseShape
  <2>2. FieldOK(QueryAllValidatorResponse[2])
    <3>1. FieldOK(Pointer("pagination", "PageResponse", PageResponse))
      BY PageResponseShape, PageResponseSchema, NestedFields
    <3> QED BY <3>1, QueryAllValidatorResponseShape
  <2> QED BY <2>1, <2>2, QueryAllValidatorResponseShape
<1>2. /\ QueryAllValidatorResponse[1].name = "validator"
      /\ QueryAllValidatorResponse[2].name = "pagination"
  BY QueryAllValidatorResponseShape, PlainFields, NestedNames
<1>3. \A j, k \in DOMAIN QueryAllValidatorResponse : QueryAllValidatorResponse[j].name = QueryAllValidatorResponse[k].name => j = k
  BY QueryAllValidatorResponseShape, <1>2
<1> QED BY QueryAllValidatorResponseShape, <1>1, <1>3 DEF SchemaOK

(* The messages there are.                                                 *)
LEMMA TypesKnown ==
  ASSUME NEW type \in Types
  PROVE  type \in
    {"td_Params", "td_DustAmount", "td_GenesisState", "td_Module",
     "td_MsgUpdateParams", "td_MsgUpdateParamsResponse", "td_MsgFundModule",
     "td_MsgFundModuleResponse", "td_QueryParamsRequest",
     "td_QueryParamsResponse", "PageRequest", "PageResponse", "Validator",
     "vr_Params", "vr_GenesisState", "vr_Module", "vr_MsgUpdateParams",
     "vr_MsgUpdateParamsResponse", "MsgOnboardValidator",
     "MsgOnboardValidatorResponse", "vr_QueryParamsRequest",
     "vr_QueryParamsResponse", "QueryGetValidatorRequest",
     "QueryGetValidatorResponse", "QueryAllValidatorRequest",
     "QueryAllValidatorResponse"}
BY DEF Types, Fields

(* The fields of every message are as the decoders need them.              *)
LEMMA Schema ==
  ASSUME NEW type \in Types
  PROVE  SchemaOK(Fields[type])
<1>1. CASE type \in {"td_Params", "td_DustAmount", "td_GenesisState",
                     "td_Module", "td_MsgUpdateParams",
                     "td_MsgUpdateParamsResponse", "td_MsgFundModule",
                     "td_MsgFundModuleResponse", "td_QueryParamsRequest",
                     "td_QueryParamsResponse", "PageRequest", "PageResponse",
                     "Validator"}
  <2>1. CASE type = "td_Params"
    BY <2>1, td_ParamsShape, td_ParamsSchema
  <2>2. CASE type = "td_DustAmount"
    BY <2>2, td_DustAmountShape, td_DustAmountSchema
  <2>3. CASE type = "td_GenesisState"
    BY <2>3, td_GenesisStateShape, td_GenesisStateSchema
  <2>4. CASE type = "td_Module"
    BY <2>4, td_ModuleShape, td_ModuleSchema
  <2>5. CASE type = "td_MsgUpdateParams"
    BY <2>5, td_MsgUpdateParamsShape, td_MsgUpdateParamsSchema
  <2>6. CASE type = "td_MsgUpdateParamsResponse"
    BY <2>6, td_MsgUpdateParamsResponseShape, td_MsgUpdateParamsResponseSchema
  <2>7. CASE type = "td_MsgFundModule"
    BY <2>7, td_MsgFundModuleShape, td_MsgFundModuleSchema
  <2>8. CASE type = "td_MsgFundModuleResponse"
    BY <2>8, td_MsgFundModuleResponseShape, td_MsgFundModuleResponseSchema
  <2>9. CASE type = "td_QueryParamsRequest"
    BY <2>9, td_QueryParamsRequestShape, td_QueryParamsRequestSchema
  <2>10. CASE type = "td_QueryParamsResponse"
    BY <2>10, td_QueryParamsResponseShape, td_QueryParamsResponseSchema
  <2>11. CASE type = "PageRequest"
    BY <2>11, PageRequestShape, PageRequestSchema
  <2>12. CASE type = "PageResponse"
    BY <2>12, PageResponseShape, PageResponseSchema
  <2>13. CASE type = "Validator"
    BY <2>13, ValidatorShape, ValidatorSchema
  <2> QED BY <1>1, <2>1, <2>2, <2>3, <2>4, <2>5, <2>6, <2>7, <2>8, <2>9, <2>10, <2>11, <2>12,
    <2>13
<1>2. CASE type \in {"vr_Params", "vr_GenesisState", "vr_Module",
                     "vr_MsgUpdateParams", "vr_MsgUpdateParamsResponse",
                     "MsgOnboardValidator", "MsgOnboardValidatorResponse",
                     "vr_QueryParamsRequest", "vr_QueryParamsResponse",
                     "QueryGetValidatorRequest", "QueryGetValidatorResponse",
                     "QueryAllValidatorRequest", "QueryAllValidatorResponse"}
  <2>1. CASE type = "vr_Params"
    BY <2>1, vr_ParamsShape, vr_ParamsSchema
  <2>2. CASE type = "vr_GenesisState"
    BY <2>2, vr_GenesisStateShape, vr_GenesisStateSchema
  <2>3. CASE type = "vr_Module"
    BY <2>3, vr_ModuleShape, vr_ModuleSchema
  <2>4. CASE type = "vr_MsgUpdateParams"
    BY <2>4, vr_MsgUpdateParamsShape, vr_MsgUpdateParamsSchema
  <2>5. CASE type = "vr_MsgUpdateParamsResponse"
    BY <2>5, vr_MsgUpdateParamsResponseShape, vr_MsgUpdateParamsResponseSchema
  <2>6. CASE type = "MsgOnboardValidator"
    BY <2>6, MsgOnboardValidatorShape, MsgOnboardValidatorSchema
  <2>7. CASE type = "MsgOnboardValidatorResponse"
    BY <2>7, MsgOnboardValidatorResponseShape, MsgOnboardValidatorResponseSchema
  <2>8. CASE type = "vr_QueryParamsRequest"
    BY <2>8, vr_QueryParamsRequestShape, vr_QueryParamsRequestSchema
  <2>9. CASE type = "vr_QueryParamsResponse"
    BY <2>9, vr_QueryParamsResponseShape, vr_QueryParamsResponseSchema
  <2>10. CASE type = "QueryGetValidatorRequest"
    BY <2>10, QueryGetValidatorRequestShape, QueryGetValidatorRequestSchema
  <2>11. CASE type = "QueryGetValidatorResponse"
    BY <2>11, QueryGetValidatorResponseShape, QueryGetValidatorResponseSchema
  <2>12. CASE type = "QueryAllValidatorRequest"
    BY <2>12, QueryAllValidatorRequestShape, QueryAllValidatorRequestSchema
  <2>13. CASE type = "QueryAllValidatorResponse"
    BY <2>13, QueryAllValidatorResponseShape, QueryAllValidatorResponseSchema
  <2> QED BY <1>2, <2>1, <2>2, <2>3, <2>4, <2>5, <2>6, <2>7, <2>8, <2>9, <2>10, <2>11, <2>12,
    <2>13
<1> QED BY <1>1, <1>2, TypesKnown

(* g[k] is the first k parts of p, one after the other.                    *)
Chained(g, n, p) ==
  /\ g \in [0..n -> Seq(Byte)]
  /\ g[0] = << >>
  /\ \A k \in 1..n : g[k] = g[k - 1] \o p[k]

(* Two strings of bytes in a row.                                          *)
LEMMA ConcatBytes ==
  ASSUME NEW a \in Seq(Byte), NEW b \in Seq(Byte)
  PROVE  /\ a \o b \in Seq(Byte)
         /\ Len(a) \in Nat /\ Len(b) \in Nat
         /\ Len(a \o b) = Len(a) + Len(b)
         /\ \A j \in 1..Len(a) : (a \o b)[j] = a[j]
         /\ << >> \o a = a
<1>1. Len(a) \in Nat /\ Len(b) \in Nat
  BY LenProperties
<1>2. /\ a \o b \in Seq(Byte)
      /\ Len(a \o b) = Len(a) + Len(b)
      /\ \A j \in 1..(Len(a) + Len(b)) :
           (a \o b)[j] = IF j <= Len(a) THEN a[j] ELSE b[j - Len(a)]
  BY ConcatProperties
<1>3. \A j \in 1..Len(a) : j \in 1..(Len(a) + Len(b)) /\ j <= Len(a)
  BY <1>1
<1>4. << >> \o a = a
  BY ConcatEmptySeq
<1> QED BY <1>1, <1>2, <1>3, <1>4

(* Any number of parts can be put in a row.                                *)
LEMMA ChainExists ==
  ASSUME NEW n \in Nat, NEW p, \A k \in 1..n : p[k] \in Seq(Byte)
  PROVE  \E g : Chained(g, n, p)
<1> DEFINE S == Seq(Byte)
           f == [q \in (1..n) \X S |-> q[2] \o p[q[1]]]
<1>1. << >> \in S
  BY EmptySeq
<1>2. f \in [(1..n) \X S -> S]
  <2> SUFFICES ASSUME NEW q \in (1..n) \X S PROVE q[2] \o p[q[1]] \in S
    OBVIOUS
  <2>1. q[2] \in S /\ p[q[1]] \in S
    OBVIOUS
  <2> QED BY <2>1, ConcatBytes
<1>3. PICK g \in [0..n -> S] : Iterates(g, n, << >>, f)
  <2> HIDE DEF f, S
  <2> QED BY <1>1, <1>2, Recursion, Zenon
<1>4. g[0] = << >> /\ \A k \in 1..n : g[k] = f[<<k, g[k - 1]>>]
  BY <1>3 DEF Iterates
<1>5. ASSUME NEW k \in 1..n PROVE g[k] = g[k - 1] \o p[k]
  <2>1. k - 1 \in 0..n
    OBVIOUS
  <2>2. g[k - 1] \in S
    BY <2>1
  <2>3. <<k, g[k - 1]>> \in (1..n) \X S
    BY <2>2
  <2>4. f[<<k, g[k - 1]>>] = g[k - 1] \o p[k]
    BY <2>3
  <2> QED BY <1>4, <2>4
<1> QED BY <1>4, <1>5 DEF Chained

(* Two sequences of parts that agree up to k are chained in the same way.  *)
LEMMA ChainSame ==
  ASSUME NEW n \in Nat, NEW p, NEW g, Chained(g, n, p),
         NEW m \in Nat, NEW q, NEW h, Chained(h, m, q),
         NEW k \in 0..n, k <= m, \A j \in 1..k : p[j] = q[j]
  PROVE  g[k] = h[k]
<1> DEFINE T == {j \in 0..k : g[j] = h[j]}
<1>1. 0 \in T
  BY DEF Chained
<1>2. ASSUME NEW j \in 1..k, j - 1 \in T PROVE j \in T
  <2>1. j \in 1..n /\ j \in 1..m /\ p[j] = q[j] /\ g[j - 1] = h[j - 1]
    BY <1>2
  <2>2. g[j] = g[j - 1] \o p[j] /\ h[j] = h[j - 1] \o q[j]
    BY <2>1 DEF Chained
  <2>3. g[j] = h[j] /\ j \in 0..k
    BY <2>1, <2>2
  <2> QED BY <2>3
<1>3. \A j \in 0..k : j \in T
  <2> HIDE DEF T
  <2>1. k \in Nat
    OBVIOUS
  <2> QED BY <1>1, <1>2, <2>1, UpTo
<1>4. k \in 0..k
  OBVIOUS
<1> QED BY <1>3, <1>4

(* Each link is a beginning of the whole chain.                            *)
LEMMA ChainPrefix ==
  ASSUME NEW n \in Nat, NEW p, NEW g, Chained(g, n, p),
         \A k \in 1..n : p[k] \in Seq(Byte), NEW k \in 0..n
  PROVE  /\ g[k] \in Seq(Byte) /\ Len(g[k]) \in Nat /\ Len(g[n]) \in Nat
         /\ Len(g[k]) <= Len(g[n])
         /\ \A j \in 1..Len(g[k]) : g[n][j] = g[k][j]
<1> DEFINE Same(i) == Len(g[k]) <= Len(g[i]) /\ \A j \in 1..Len(g[k]) : g[i][j] = g[k][j]
           T == {i \in 0..n : k <= i => Same(i)}
<1>1. ASSUME NEW i \in 0..n PROVE g[i] \in Seq(Byte) /\ Len(g[i]) \in Nat
  <2>1. g[i] \in Seq(Byte)
    BY DEF Chained
  <2> QED BY <2>1, LenProperties
<1>2. Same(k)
  BY <1>1
<1>3. 0 \in T
  <2>1. k <= 0 => k = 0
    OBVIOUS
  <2> HIDE DEF Same
  <2> QED BY <1>2, <2>1
<1>4. ASSUME NEW i \in 1..n, i - 1 \in T PROVE i \in T
  <2>1. CASE k <= i - 1
    <3>0. i - 1 \in 0..n /\ i \in 0..n
      OBVIOUS
    <3>1. Same(i - 1)
      BY <1>4, <2>1
    <3>2. g[i] = g[i - 1] \o p[i]
      BY DEF Chained
    <3>3. g[i - 1] \in Seq(Byte) /\ p[i] \in Seq(Byte)
      BY <1>1, <3>0
    <3> DEFINE a == g[i - 1]
               b == p[i]
               c == a \o b
    <3>4. /\ Len(c) = Len(a) + Len(b) /\ Len(b) \in Nat /\ Len(a) \in Nat
          /\ \A j \in 1..Len(a) : c[j] = a[j]
      <4> HIDE DEF a, b
      <4>1. a \in Seq(Byte) /\ b \in Seq(Byte)
        BY <3>3 DEF a, b
      <4> QED BY <4>1, ConcatBytes
    <3>5. Len(g[k]) \in Nat
      BY <1>1
    <3>6. Len(g[k]) <= Len(a) /\ \A j \in 1..Len(g[k]) : a[j] = g[k][j]
      BY <3>1
    <3>7. g[i] = c
      BY <3>2
    <3>8. Len(g[k]) <= Len(c) /\ \A j \in 1..Len(g[k]) : c[j] = g[k][j]
      <4> HIDE DEF a, b, c
      <4>1. \A j \in 1..Len(g[k]) : j \in 1..Len(a)
        BY <3>4, <3>5, <3>6
      <4> QED BY <3>4, <3>5, <3>6, <4>1
    <3>9. Same(i)
      <4> HIDE DEF c
      <4> QED BY <3>7, <3>8
    <3> HIDE DEF Same
    <3> QED BY <3>0, <3>9
  <2>2. CASE k = i
    <3> HIDE DEF Same
    <3>1. Same(i) /\ i \in 0..n
      BY <1>2, <2>2
    <3> QED BY <3>1
  <2>3. CASE k > i
    <3>1. i \in 0..n /\ ~(k <= i)
      BY <2>3
    <3> QED BY <3>1
  <2> QED BY <2>1, <2>2, <2>3
<1>5. \A i \in 0..n : i \in T
  <2> HIDE DEF T
  <2> QED BY <1>3, <1>4, UpTo
<1>6. Same(n)
  <2>1. n \in T /\ k <= n
    BY <1>5
  <2> HIDE DEF Same
  <2> QED BY <2>1
<1>7. n \in 0..n
  OBVIOUS
<1> QED BY <1>1, <1>6, <1>7

(* Where a whole chain is held, each of its parts is.                      *)
LEMMA ChainPart ==
  ASSUME NEW n \in Nat, NEW p, NEW g, Chained(g, n, p),
         \A k \in 1..n : p[k] \in Seq(Byte), NEW k \in 1..n,
         NEW data, NEW i \in Nat, Holds(data, i, g[n])
  PROVE  /\ Holds(data, i + Len(g[k - 1]), p[k])
         /\ Len(g[k]) = Len(g[k - 1]) + Len(p[k])
         /\ Len(g[k - 1]) \in Nat /\ Len(p[k]) \in Nat
<1>1. k \in 0..n /\ k - 1 \in 0..n
  OBVIOUS
<1>2. /\ g[k] \in Seq(Byte) /\ Len(g[k]) \in Nat /\ Len(g[n]) \in Nat
      /\ Len(g[k]) <= Len(g[n])
      /\ \A j \in 1..Len(g[k]) : g[n][j] = g[k][j]
  BY <1>1, ChainPrefix
<1>3. g[k - 1] \in Seq(Byte) /\ p[k] \in Seq(Byte) /\ g[k] = g[k - 1] \o p[k]
  BY <1>1 DEF Chained
<1>4. /\ Len(g[k]) = Len(g[k - 1]) + Len(p[k])
      /\ Len(g[k - 1]) \in Nat /\ Len(p[k]) \in Nat
  BY <1>3, ConcatBytes
<1>5. Holds(data, i, g[k])
  <2>1. \A j \in 1..Len(g[k]) : j \in 1..Len(g[n]) /\ g[n][j] = g[k][j]
    BY <1>2
  <2> QED BY <2>1 DEF Holds
<1>6. Holds(data, i + Len(g[k - 1]), p[k])
  <2>1. Holds(data, i, g[k - 1] \o p[k])
    BY <1>3, <1>5
  <2> QED BY <1>3, <2>1, HoldsConcat
<1> QED BY <1>4, <1>6

-----------------------------------------------------------------------------
(* Lists.                                                                  *)

Puts(tag, list) == [k \in DOMAIN list |-> Put(tag, list[k])]

(* A tag, a length and the bytes are as many as SizePut says.              *)
LEMMA PutBytes ==
  ASSUME NEW tag \in 0..127, NEW b \in Seq(Byte), Len(b) < Half
  PROVE  Put(tag, b) \in Seq(Byte) /\ Len(Put(tag, b)) = SizePut(Len(b))
<1> DEFINE n == Len(b)
<1>1. n \in Nat /\ n \in 0..(Word - 1)
  BY LenProperties DEF Word
<1> HIDE DEF n
<1>2. EncodeVarint(n) \in Seq(Byte) /\ Len(EncodeVarint(n)) = Sov(n) /\ Sov(n) \in Nat \ {0}
  BY <1>1, VarintBytes
<1>3. <<tag>> \in Seq(Byte) /\ Len(<<tag>>) = 1
  <2>1. tag \in Byte
    BY DEF Byte
  <2> QED BY <2>1
<1> DEFINE c == <<tag>> \o EncodeVarint(n)
<1>4. c \in Seq(Byte) /\ Len(c) = 1 + Sov(n)
  BY <1>2, <1>3, ConcatBytes
<1> HIDE DEF c
<1>5. c \o b \in Seq(Byte) /\ Len(c \o b) = Len(c) + n
  BY <1>4, ConcatBytes DEF n
<1>6. Put(tag, b) = c \o b
  BY DEF Put, c, n
<1>7. SizePut(n) = 1 + n + Sov(n)
  BY DEF SizePut
<1>8. Len(Put(tag, b)) = SizePut(n)
  BY <1>1, <1>2, <1>4, <1>5, <1>6, <1>7
<1> QED BY <1>5, <1>6, <1>8 DEF n

Puttable(tag, list, n) ==
  DOMAIN list = 1..n /\ \A k \in 1..n : Put(tag, list[k]) \in Seq(Byte)

(* The entries of a list are written in a row.                             *)
LEMMA PutEachChain ==
  ASSUME NEW tag, NEW n \in Nat, NEW list, Puttable(tag, list, n),
         NEW g, Chained(g, n, Puts(tag, list))
  PROVE  PutEach(tag, list) = g[n]
<1> DEFINE s == Puts(tag, list)
           Is(h) == h = [i \in 1..n |-> IF i = 1 THEN s[i] ELSE h[i - 1] \o s[i]]
           flat == CHOOSE h : Is(h)
<1>0. DOMAIN list = 1..n /\ \A k \in 1..n : Put(tag, list[k]) \in Seq(Byte)
  BY DEF Puttable
<1>1. s = [k \in 1..n |-> Put(tag, list[k])]
  BY <1>0 DEF Puts
<1>2. s \in [1..n -> Seq(Byte)] /\ s \in Seq(Seq(Byte)) /\ Len(s) = n
  BY <1>0, <1>1
<1>3. PutEach(tag, list) = FlattenSeq(s)
  BY DEF PutEach, Puts
<1>4. g \in [0..n -> Seq(Byte)] /\ g[0] = << >> /\ \A k \in 1..n : g[k] = g[k - 1] \o s[k]
  BY DEF Chained
<1> HIDE DEF s
<1>5. CASE n = 0
  <2>1. s = << >>
    BY <1>2, <1>5
  <2>2. FlattenSeq(s) = s
    BY <1>2, <1>5 DEF FlattenSeq
  <2> QED BY <1>3, <1>4, <1>5, <2>1, <2>2
<1>6. CASE n # 0
  <2>1. FlattenSeq(s) = flat[n]
    BY <1>2, <1>6 DEF FlattenSeq
  <2>2. Is([i \in 1..n |-> g[i]])
    <3> DEFINE h == [i \in 1..n |-> g[i]]
    <3>1. ASSUME NEW i \in 1..n PROVE h[i] = IF i = 1 THEN s[i] ELSE h[i - 1] \o s[i]
      <4>1. h[i] = g[i - 1] \o s[i]
        BY <1>4
      <4>2. CASE i = 1
        <5>1. g[i - 1] = << >> /\ s[i] \in Seq(Byte)
          BY <1>2, <1>4, <4>2
        <5>2. << >> \o s[i] = s[i]
          BY <5>1, ConcatBytes
        <5> QED BY <4>1, <4>2, <5>1, <5>2
      <4>3. CASE i # 1
        <5>1. i - 1 \in 1..n
          BY <4>3
        <5> QED BY <4>1, <4>3, <5>1
      <4> QED BY <4>2, <4>3
    <3>2. h = [i \in 1..n |-> h[i]]
      OBVIOUS
    <3> HIDE DEF h
    <3>3. Is(h)
      BY <3>1, <3>2
    <3> QED BY <3>3 DEF h
  <2>3. Is(flat)
    <3> HIDE DEF Is
    <3> QED BY <2>2
  <2>4. \A i \in 1..n : flat[i] = IF i = 1 THEN s[i] ELSE flat[i - 1] \o s[i]
    <3> HIDE DEF flat
    <3> QED BY <2>3
  <2> HIDE DEF flat
  <2> DEFINE T == {i \in 0..n : i = 0 \/ flat[i] = g[i]}
  <2>5. 0 \in T
    OBVIOUS
  <2>6. ASSUME NEW i \in 1..n, i - 1 \in T PROVE i \in T
    <3>0. g[i] = g[i - 1] \o s[i]
      BY <1>4
    <3>1. g[i] = g[i - 1] \o s[i] /\ i \in 0..n
      BY <3>0
    <3>2. CASE i = 1
      <4>1. g[i - 1] = << >> /\ s[i] \in Seq(Byte)
        BY <1>2, <1>4, <3>2
      <4>2. << >> \o s[i] = s[i]
        BY <4>1, ConcatBytes
      <4>3. flat[i] = s[i]
        BY <2>4, <3>2
      <4> QED BY <3>1, <4>1, <4>2, <4>3
    <3>3. CASE i # 1
      <4>1. flat[i - 1] = g[i - 1]
        <5>1. i - 1 = 0 \/ flat[i - 1] = g[i - 1]
          BY <2>6
        <5> QED BY <3>3, <5>1
      <4>2. flat[i] = flat[i - 1] \o s[i]
        BY <2>4, <3>3
      <4> QED BY <3>1, <4>1, <4>2
    <3> QED BY <3>2, <3>3
  <2>7. \A i \in 0..n : i \in T
    <3> HIDE DEF T
    <3> QED BY <2>5, <2>6, UpTo
  <2>8. flat[n] = g[n]
    <3>1. n \in T
      BY <2>7
    <3> QED BY <1>6, <3>1
  <2> QED BY <1>3, <2>1, <2>8
<1> QED BY <1>5, <1>6

Sized(p, sizes, n) ==
  /\ Len(sizes) = n
  /\ \A k \in 1..n : p[k] \in Seq(Byte) /\ Len(p[k]) = SizePut(sizes[k])

(* The sizes of the entries add up to the length of the row.               *)
LEMMA SizeEachChain ==
  ASSUME NEW n \in Nat, NEW sizes, NEW p, Sized(p, sizes, n),
         NEW g, Chained(g, n, p)
  PROVE  SizeEach(sizes) = Len(g[n])
<1> DEFINE Is(h) == h = [k \in 0..n |-> IF k = 0 THEN 0 ELSE h[k - 1] + SizePut(sizes[k])]
           size == CHOOSE h : Is(h)
           l == [k \in 0..n |-> Len(g[k])]
<1>0. /\ Len(sizes) = n
      /\ \A k \in 1..n : p[k] \in Seq(Byte) /\ Len(p[k]) = SizePut(sizes[k])
  BY DEF Sized
<1>1. SizeEach(sizes) = size[n]
  BY <1>0 DEF SizeEach
<1>2. g \in [0..n -> Seq(Byte)] /\ g[0] = << >> /\ \A k \in 1..n : g[k] = g[k - 1] \o p[k]
  BY DEF Chained
<1>3. l[0] = 0
  BY <1>2
<1>4. ASSUME NEW k \in 1..n PROVE l[k] = l[k - 1] + SizePut(sizes[k])
  <2>1. k \in 0..n /\ k - 1 \in 0..n
    OBVIOUS
  <2>2. g[k - 1] \in Seq(Byte) /\ p[k] \in Seq(Byte)
    BY <1>0, <1>2, <2>1
  <2>3. Len(g[k - 1] \o p[k]) = Len(g[k - 1]) + Len(p[k])
    BY <2>2, ConcatBytes
  <2> QED BY <1>0, <1>2, <2>1, <2>3
<1>5. Is(l)
  <2>1. ASSUME NEW k \in 0..n
        PROVE  l[k] = IF k = 0 THEN 0 ELSE l[k - 1] + SizePut(sizes[k])
    <3>1. k = 0 \/ k \in 1..n
      OBVIOUS
    <3> HIDE DEF l
    <3> QED BY <1>3, <1>4, <3>1
  <2>2. l = [k \in 0..n |-> l[k]]
    OBVIOUS
  <2> HIDE DEF l
  <2> QED BY <2>1, <2>2
<1>6. Is(size)
  <2> HIDE DEF Is, l
  <2> QED BY <1>5
<1>7. \A k \in 0..n : size[k] = IF k = 0 THEN 0 ELSE size[k - 1] + SizePut(sizes[k])
  <2> HIDE DEF size
  <2> QED BY <1>6
<1> HIDE DEF size, l
<1> DEFINE T == {k \in 0..n : size[k] = l[k]}
<1>8. 0 \in T
  BY <1>3, <1>7
<1>9. ASSUME NEW k \in 1..n, k - 1 \in T PROVE k \in T
  <2>1. k \in 0..n /\ k # 0
    OBVIOUS
  <2> QED BY <1>4, <1>7, <1>9, <2>1
<1>10. \A k \in 0..n : k \in T
  <2> HIDE DEF T
  <2> QED BY <1>8, <1>9, UpTo
<1>11. size[n] = l[n] /\ n \in 0..n
  BY <1>10
<1> QED BY <1>1, <1>11 DEF l

(* A buffer whose length is an int; the digits of a decimal, and of one    *)
(* that is not nil and has no zeros in front.                              *)
Buffers == {b \in Seq(Byte) : Len(b) < Half}
Decimals == {d \in Buffers : IsDecText(d)}
Settled == {d \in Decimals : d # << >> /\ DecValue(d) = d}

(* The values of a field.                                                  *)
IsScalar(decs, f, x) ==
  /\ f.kind = "text" => x \in Buffers
  /\ f.kind = "dec" => x \in decs
  /\ f.kind = "uint64" => x \in 0..(Word - 1)
  /\ f.kind = "int64" => x \in (-Half)..(Half - 1)
HasFields(fields, m) ==
  m = [name \in {fields[k].name : k \in DOMAIN fields} |-> m[name]]
IsPlain(decs, fields, m) ==
  /\ HasFields(fields, m)
  /\ \A k \in DOMAIN fields : IsScalar(decs, fields[k], m[fields[k].name])
IsEntry(decs, of, x) ==
  /\ IsPlain(decs, Fields[of], x)
  /\ Len(Encoded(of, x)) < Half
IsNested(decs, f, x) ==
  /\ f.kind = "embedded" => IsEntry(decs, f.of, x)
  /\ f.kind \in Lists => /\ DOMAIN x = 1..Len(x)
                         /\ Len(x) \in Nat
                         /\ x = [j \in 1..Len(x) |-> x[j]]
                         /\ \A j \in 1..Len(x) : IsEntry(decs, f.of, x[j])
  /\ f.kind = "pointer" => Len(x) <= 1
IsMessage(decs, type, m) ==
  LET fields == Fields[type] IN
  /\ HasFields(fields, m)
  /\ \A k \in DOMAIN fields :
       /\ IsScalar(decs, fields[k], m[fields[k].name])
       /\ IsNested(decs, fields[k], m[fields[k].name])

(* The bytes and the size of field n of a message.                         *)
Part(n, f, x) ==
  CASE f.kind = "text" -> PutText(8 * n + 2, x)
    [] f.kind \in Numbers -> PutNumber(8 * n, x)
    [] f.kind = "dec" -> Put(8 * n + 2, DecBytes(x))
    [] f.kind = "embedded" -> Put(8 * n + 2, Encoded(f.of, x))
    [] OTHER -> PutEach(8 * n + 2, [j \in DOMAIN x |-> Encoded(f.of, x[j])])
PartSize(f, x) ==
  CASE f.kind = "text" -> SizeText(x)
    [] f.kind \in Numbers -> SizeNumber(x)
    [] f.kind = "dec" -> SizePut(Len(DecBytes(x)))
    [] f.kind = "embedded" -> SizePut(SizeOf(f.of, x))
    [] OTHER -> SizeEach([j \in DOMAIN x |-> SizeOf(f.of, x[j])])
Parts(type, m) ==
  [n \in 1..Len(Fields[type]) |->
     Part(n, Fields[type][n], m[Fields[type][n].name])]

(* The nested messages of a field are written as long as they are sized.   *)
EntryBytes(of, x) ==
  Encoded(of, x) \in Buffers /\ Len(Encoded(of, x)) = SizeOf(of, x)
NestedBytes(f, x) ==
  /\ f.kind = "embedded" => EntryBytes(f.of, x)
  /\ f.kind \in Lists => \A j \in 1..Len(x) : EntryBytes(f.of, x[j])

(* PutBytes for the tags the fields have.                                  *)
LEMMA PutOf ==
  ASSUME NEW n \in 1..7, NEW b \in Buffers
  PROVE  Put(8 * n + 2, b) \in Seq(Byte) /\ Len(Put(8 * n + 2, b)) = SizePut(Len(b))
<1> DEFINE tag == 8 * n + 2
<1>1. tag \in 0..127 /\ b \in Seq(Byte) /\ Len(b) < Half
  BY DEF Buffers
<1> HIDE DEF tag
<1>2. Put(tag, b) \in Seq(Byte) /\ Len(Put(tag, b)) = SizePut(Len(b))
  BY <1>1, PutBytes
<1> QED BY <1>2 DEF tag

Entries(list, sizes, l) ==
  /\ DOMAIN list = 1..l /\ Len(sizes) = l
  /\ \A j \in 1..l : list[j] \in Buffers /\ Len(list[j]) = sizes[j]
PutChain(tag, list, l) ==
  /\ \A j \in 1..l : Puts(tag, list)[j] \in Seq(Byte)
  /\ \E g : Chained(g, l, Puts(tag, list)) /\ PutEach(tag, list) = g[l]

(* What is written of a list, and its size.                                *)
LEMMA ListPart ==
  ASSUME NEW n \in 1..7, NEW l \in Nat, NEW list, NEW sizes, Entries(list, sizes, l)
  PROVE  /\ PutEach(8 * n + 2, list) \in Seq(Byte)
         /\ Len(PutEach(8 * n + 2, list)) = SizeEach(sizes)
         /\ PutChain(8 * n + 2, list, l)
<1> DEFINE tag == 8 * n + 2
           p == Puts(tag, list)
<1>1. /\ DOMAIN list = 1..l /\ Len(sizes) = l
      /\ \A j \in 1..l : list[j] \in Buffers /\ Len(list[j]) = sizes[j]
  BY DEF Entries
<1>3. ASSUME NEW j \in 1..l
      PROVE  Put(tag, list[j]) \in Seq(Byte) /\ Len(Put(tag, list[j])) = SizePut(sizes[j])
  <2>1. list[j] \in Buffers /\ Len(list[j]) = sizes[j]
    BY <1>1
  <2> QED BY <2>1, PutOf
<1> HIDE DEF tag
<1>4. \A j \in 1..l : p[j] = Put(tag, list[j])
  BY <1>1 DEF Puts
<1>6. \A j \in 1..l : p[j] \in Seq(Byte) /\ Len(p[j]) = SizePut(sizes[j])
  BY <1>3, <1>4
<1>61. \A j \in 1..l : p[j] \in Seq(Byte)
  BY <1>6
<1>62. Puttable(tag, list, l)
  BY <1>1, <1>3 DEF Puttable
<1> HIDE DEF p
<1>7. PICK g : Chained(g, l, p)
  BY <1>61, ChainExists
<1>70. Chained(g, l, Puts(tag, list))
  BY <1>7 DEF p
<1>8. PutEach(tag, list) = g[l]
  BY <1>62, <1>70, PutEachChain
<1>81. Sized(p, sizes, l)
  BY <1>1, <1>6 DEF Sized
<1>9. SizeEach(sizes) = Len(g[l])
  BY <1>7, <1>81, SizeEachChain
<1>10. g[l] \in Seq(Byte)
  <2>1. l \in 0..l
    OBVIOUS
  <2> QED BY <1>7, <2>1 DEF Chained
<1>11. PutChain(tag, list, l)
  BY <1>61, <1>70, <1>8 DEF PutChain, p
<1> QED BY <1>8, <1>9, <1>10, <1>11 DEF tag

(* What is written of a number, and its size.                              *)
LEMMA NumberBytes ==
  ASSUME NEW n \in 1..7, NEW v \in (-Half)..(Word - 1)
  PROVE  PutNumber(8 * n, v) \in Seq(Byte) /\ Len(PutNumber(8 * n, v)) = SizeNumber(v)
<1> DEFINE tag == 8 * n
           w == v % Word
<1>1. CASE v = 0
  <2>1. << >> \in Seq(Byte) /\ Len(<< >>) = 0
    BY EmptySeq
  <2> QED BY <1>1, <2>1 DEF PutNumber, SizeNumber
<1>2. CASE v # 0
  <2>1. w \in 0..(Word - 1)
    BY WordFits
  <2> HIDE DEF w
  <2>2. EncodeVarint(w) \in Seq(Byte) /\ Len(EncodeVarint(w)) = Sov(w) /\ Sov(w) \in Nat
    BY <2>1, VarintBytes
  <2>3. <<tag>> \in Seq(Byte) /\ Len(<<tag>>) = 1
    <3>1. tag \in Byte
      BY DEF Byte
    <3> QED BY <3>1
  <2> DEFINE a == <<tag>>
  <2> HIDE DEF a
  <2>4. a \o EncodeVarint(w) \in Seq(Byte) /\ Len(a \o EncodeVarint(w)) = Len(a) + Sov(w)
    BY <2>2, <2>3, ConcatBytes DEF a
  <2>5. PutNumber(tag, v) = a \o EncodeVarint(w) /\ SizeNumber(v) = 1 + Sov(w)
    BY <1>2 DEF PutNumber, SizeNumber, a, w
  <2> QED BY <2>3, <2>4, <2>5 DEF a
<1> QED BY <1>1, <1>2

(* What is written of a decimal, also of a nil one.                        *)
LEMMA DecIsBuffer ==
  ASSUME NEW d \in Decimals
  PROVE  DecBytes(d) \in Buffers
<1>1. <<48>> \in Seq(Byte) /\ Len(<<48>>) = 1
  <2>1. 48 \in Byte
    BY DEF Byte
  <2> QED BY <2>1
<1> QED BY <1>1 DEF DecBytes, Decimals, Buffers

(* A field is written in as many bytes as its size says.                   *)
LEMMA PartBytes ==
  ASSUME NEW n \in 1..7, NEW f, FieldOK(f), NEW x,
         IsScalar(Decimals, f, x), IsNested(Decimals, f, x), NestedBytes(f, x)
  PROVE  Part(n, f, x) \in Seq(Byte) /\ Len(Part(n, f, x)) = PartSize(f, x)
<1>0. f.kind \in {"text", "uint64", "int64", "dec", "embedded", "pointer", "repeated"}
  BY DEF FieldOK, Scalars, Lists
<1>1. CASE f.kind = "text"
  <2>1. x \in Buffers
    BY <1>1 DEF IsScalar
  <2>2. Part(n, f, x) = PutText(8 * n + 2, x) /\ PartSize(f, x) = SizeText(x)
    BY <1>1 DEF Part, PartSize, Numbers
  <2>3. CASE x = << >>
    <3>1. << >> \in Seq(Byte) /\ Len(<< >>) = 0
      BY EmptySeq
    <3> QED BY <2>2, <2>3, <3>1 DEF PutText, SizeText
  <2>4. CASE x # << >>
    <3>1. PutText(8 * n + 2, x) = Put(8 * n + 2, x) /\ SizeText(x) = SizePut(Len(x))
      BY <2>4 DEF PutText, SizeText
    <3> QED BY <2>1, <2>2, <3>1, PutOf
  <2> QED BY <2>3, <2>4
<1>2. CASE f.kind \in Numbers
  <2>1. x \in (-Half)..(Word - 1)
    BY <1>2 DEF IsScalar, Numbers, Word
  <2>2. Part(n, f, x) = PutNumber(8 * n, x) /\ PartSize(f, x) = SizeNumber(x)
    BY <1>2 DEF Part, PartSize, Numbers
  <2> QED BY <2>1, <2>2, NumberBytes
<1>3. CASE f.kind = "dec"
  <2>1. DecBytes(x) \in Buffers
    BY <1>3, DecIsBuffer DEF IsScalar
  <2>2. /\ Part(n, f, x) = Put(8 * n + 2, DecBytes(x))
        /\ PartSize(f, x) = SizePut(Len(DecBytes(x)))
    BY <1>3 DEF Part, PartSize, Numbers
  <2> QED BY <2>1, <2>2, PutOf
<1>4. CASE f.kind = "embedded"
  <2>1. Encoded(f.of, x) \in Buffers /\ Len(Encoded(f.of, x)) = SizeOf(f.of, x)
    BY <1>4 DEF NestedBytes, EntryBytes
  <2>2. /\ Part(n, f, x) = Put(8 * n + 2, Encoded(f.of, x))
        /\ PartSize(f, x) = SizePut(SizeOf(f.of, x))
    BY <1>4 DEF Part, PartSize, Numbers
  <2> QED BY <2>1, <2>2, PutOf
<1>5. CASE f.kind \in Lists
  <2> DEFINE list == [j \in DOMAIN x |-> Encoded(f.of, x[j])]
             sizes == [j \in DOMAIN x |-> SizeOf(f.of, x[j])]
  <2>1. DOMAIN x = 1..Len(x) /\ Len(x) \in Nat
    BY <1>5 DEF IsNested
  <2>2. \A j \in 1..Len(x) : EntryBytes(f.of, x[j])
    BY <1>5 DEF NestedBytes
  <2>3. Part(n, f, x) = PutEach(8 * n + 2, list) /\ PartSize(f, x) = SizeEach(sizes)
    BY <1>5 DEF Part, PartSize, Numbers, Lists
  <2>4. DOMAIN list = 1..Len(x) /\ Len(sizes) = Len(x)
    <3>1. sizes = [j \in 1..Len(x) |-> SizeOf(f.of, x[j])]
      BY <2>1
    <3> QED BY <2>1, <3>1
  <2>5. \A j \in 1..Len(x) : list[j] \in Buffers /\ Len(list[j]) = sizes[j]
    BY <2>1, <2>2 DEF EntryBytes
  <2> HIDE DEF list, sizes
  <2>6. /\ PutEach(8 * n + 2, list) \in Seq(Byte)
        /\ Len(PutEach(8 * n + 2, list)) = SizeEach(sizes)
    <3> DEFINE l == Len(x)
    <3>1. l \in Nat /\ DOMAIN list = 1..l /\ Len(sizes) = l
      BY <2>1, <2>4
    <3>2. \A j \in 1..l : list[j] \in Buffers /\ Len(list[j]) = sizes[j]
      BY <2>5
    <3> HIDE DEF l
    <3>3. Entries(list, sizes, l)
      BY <3>1, <3>2 DEF Entries
    <3> QED BY <3>1, <3>3, ListPart
  <2> QED BY <2>3, <2>6
<1> QED BY <1>0, <1>1, <1>2, <1>3, <1>4, <1>5 DEF Numbers, Lists

(* The parts of a message are bytes, as many as they are sized.            *)
PartsOK(type, m) ==
  \A k \in 1..Len(Fields[type]) :
    /\ Parts(type, m)[k] \in Seq(Byte)
    /\ Len(Parts(type, m)[k]) = PartSize(Fields[type][k], m[Fields[type][k].name])

(* What a chain of a few parts is.                                         *)
BytesTo(p, n) == \A k \in 1..n : p[k] \in Seq(Byte)
Linked(g, p, k) ==
  /\ g[k] = g[k - 1] \o p[k]
  /\ Len(g[k]) = Len(g[k - 1]) + Len(p[k])
  /\ Len(p[k]) \in Nat /\ Len(g[k]) \in Nat

(* One link of a chain.                                                    *)
LEMMA ChainStep ==
  ASSUME NEW n \in Nat, NEW p, NEW g, Chained(g, n, p),
         NEW k \in 1..n, BytesTo(p, n)
  PROVE  Linked(g, p, k)
<1>0. p[k] \in Seq(Byte)
  BY DEF BytesTo
<1>1. k - 1 \in 0..n /\ k \in 0..n
  OBVIOUS
<1>2. g[k - 1] \in Seq(Byte) /\ g[k] = g[k - 1] \o p[k] /\ g[k] \in Seq(Byte)
  BY <1>1 DEF Chained
<1>3. Len(g[k]) = Len(g[k - 1]) + Len(p[k]) /\ Len(p[k]) \in Nat
  BY <1>0, <1>2, ConcatBytes
<1> QED BY <1>2, <1>3, LenProperties DEF Linked

(* The length of a chain of one part.                                      *)
LEMMA ChainOne ==
  ASSUME NEW n \in Nat, n >= 1, NEW p, NEW g, Chained(g, n, p), p[1] \in Seq(Byte)
  PROVE  g[1] = p[1] /\ Len(g[1]) = Len(p[1]) /\ Len(p[1]) \in Nat
<1>1. 1 \in 1..n
  OBVIOUS
<1>2. g[0] = << >> /\ g[1] = g[1 - 1] \o p[1]
  BY <1>1 DEF Chained
<1>3. << >> \o p[1] = p[1] /\ Len(p[1]) \in Nat
  BY ConcatBytes
<1>4. g[1 - 1] = g[0]
  OBVIOUS
<1> QED BY <1>2, <1>3, <1>4

(* Of two parts.                                                           *)
LEMMA ChainTwo ==
  ASSUME NEW p, NEW g, Chained(g, 2, p), BytesTo(p, 2)
  PROVE  /\ g[2] = p[1] \o p[2]
         /\ Len(g[2]) = Len(p[1]) + Len(p[2])
<1>1. g[1] = p[1] /\ Len(g[1]) = Len(p[1]) /\ Len(p[1]) \in Nat
  <2>1. p[1] \in Seq(Byte) /\ 2 \in Nat /\ 2 >= 1
    BY DEF BytesTo
  <2> QED BY <2>1, ChainOne
<1>2. g[2] = g[1] \o p[2] /\ Len(g[2]) = Len(g[1]) + Len(p[2]) /\ Len(p[2]) \in Nat
  <2>1. 2 \in 1..2 /\ 2 \in Nat /\ 2 - 1 = 1
    OBVIOUS
  <2>2. Linked(g, p, 2)
    BY <2>1, ChainStep
  <2> QED BY <2>1, <2>2 DEF Linked
<1> QED BY <1>1, <1>2

(* Of three.                                                               *)
LEMMA ChainThree ==
  ASSUME NEW p, NEW g, Chained(g, 3, p), BytesTo(p, 3)
  PROVE  /\ g[3] = p[1] \o p[2] \o p[3]
         /\ Len(g[3]) = Len(p[1]) + Len(p[2]) + Len(p[3])
<1>1. g[1] = p[1] /\ Len(g[1]) = Len(p[1]) /\ Len(p[1]) \in Nat
  <2>1. p[1] \in Seq(Byte) /\ 3 \in Nat /\ 3 >= 1
    BY DEF BytesTo
  <2> QED BY <2>1, ChainOne
<1>2. g[2] = g[1] \o p[2] /\ Len(g[2]) = Len(g[1]) + Len(p[2]) /\ Len(p[2]) \in Nat
  <2>1. 2 \in 1..3 /\ 3 \in Nat /\ 2 - 1 = 1
    OBVIOUS
  <2>2. Linked(g, p, 2)
    BY <2>1, ChainStep
  <2> QED BY <2>1, <2>2 DEF Linked
<1>3. g[3] = g[2] \o p[3] /\ Len(g[3]) = Len(g[2]) + Len(p[3]) /\ Len(p[3]) \in Nat
  <2>1. 3 \in 1..3 /\ 3 \in Nat /\ 3 - 1 = 2
    OBVIOUS
  <2>2. Linked(g, p, 3)
    BY <2>1, ChainStep
  <2> QED BY <2>1, <2>2 DEF Linked
<1> QED BY <1>1, <1>2, <1>3

(* Of six.                                                                 *)
LEMMA ChainSix ==
  ASSUME NEW p, NEW g, Chained(g, 6, p), BytesTo(p, 6)
  PROVE  /\ g[6] = p[1] \o p[2] \o p[3] \o p[4] \o p[5] \o p[6]
         /\ Len(g[6]) = Len(p[1]) + Len(p[2]) + Len(p[3]) + Len(p[4]) + Len(p[5]) + Len(p[6])
<1>1. g[1] = p[1] /\ Len(g[1]) = Len(p[1]) /\ Len(p[1]) \in Nat
  <2>1. p[1] \in Seq(Byte) /\ 6 \in Nat /\ 6 >= 1
    BY DEF BytesTo
  <2> QED BY <2>1, ChainOne
<1>2. g[2] = g[1] \o p[2] /\ Len(g[2]) = Len(g[1]) + Len(p[2]) /\ Len(p[2]) \in Nat
  <2>1. 2 \in 1..6 /\ 6 \in Nat /\ 2 - 1 = 1
    OBVIOUS
  <2>2. Linked(g, p, 2)
    BY <2>1, ChainStep
  <2> QED BY <2>1, <2>2 DEF Linked
<1>3. g[3] = g[2] \o p[3] /\ Len(g[3]) = Len(g[2]) + Len(p[3]) /\ Len(p[3]) \in Nat
  <2>1. 3 \in 1..6 /\ 6 \in Nat /\ 3 - 1 = 2
    OBVIOUS
  <2>2. Linked(g, p, 3)
    BY <2>1, ChainStep
  <2> QED BY <2>1, <2>2 DEF Linked
<1>4. g[4] = g[3] \o p[4] /\ Len(g[4]) = Len(g[3]) + Len(p[4]) /\ Len(p[4]) \in Nat
  <2>1. 4 \in 1..6 /\ 6 \in Nat /\ 4 - 1 = 3
    OBVIOUS
  <2>2. Linked(g, p, 4)
    BY <2>1, ChainStep
  <2> QED BY <2>1, <2>2 DEF Linked
<1>5. g[5] = g[4] \o p[5] /\ Len(g[5]) = Len(g[4]) + Len(p[5]) /\ Len(p[5]) \in Nat
  <2>1. 5 \in 1..6 /\ 6 \in Nat /\ 5 - 1 = 4
    OBVIOUS
  <2>2. Linked(g, p, 5)
    BY <2>1, ChainStep
  <2> QED BY <2>1, <2>2 DEF Linked
<1>6. g[6] = g[5] \o p[6] /\ Len(g[6]) = Len(g[5]) + Len(p[6]) /\ Len(p[6]) \in Nat
  <2>1. 6 \in 1..6 /\ 6 \in Nat /\ 6 - 1 = 5
    OBVIOUS
  <2>2. Linked(g, p, 6)
    BY <2>1, ChainStep
  <2> QED BY <2>1, <2>2 DEF Linked
<1> QED BY <1>1, <1>2, <1>3, <1>4, <1>5, <1>6

(* Of seven.                                                               *)
LEMMA ChainSeven ==
  ASSUME NEW p, NEW g, Chained(g, 7, p), BytesTo(p, 7)
  PROVE  /\ g[7] = p[1] \o p[2] \o p[3] \o p[4] \o p[5] \o p[6] \o p[7]
         /\ Len(g[7]) = Len(p[1]) + Len(p[2]) + Len(p[3]) + Len(p[4]) + Len(p[5]) + Len(p[6]) + Len(p[7])
<1>1. g[1] = p[1] /\ Len(g[1]) = Len(p[1]) /\ Len(p[1]) \in Nat
  <2>1. p[1] \in Seq(Byte) /\ 7 \in Nat /\ 7 >= 1
    BY DEF BytesTo
  <2> QED BY <2>1, ChainOne
<1>2. g[2] = g[1] \o p[2] /\ Len(g[2]) = Len(g[1]) + Len(p[2]) /\ Len(p[2]) \in Nat
  <2>1. 2 \in 1..7 /\ 7 \in Nat /\ 2 - 1 = 1
    OBVIOUS
  <2>2. Linked(g, p, 2)
    BY <2>1, ChainStep
  <2> QED BY <2>1, <2>2 DEF Linked
<1>3. g[3] = g[2] \o p[3] /\ Len(g[3]) = Len(g[2]) + Len(p[3]) /\ Len(p[3]) \in Nat
  <2>1. 3 \in 1..7 /\ 7 \in Nat /\ 3 - 1 = 2
    OBVIOUS
  <2>2. Linked(g, p, 3)
    BY <2>1, ChainStep
  <2> QED BY <2>1, <2>2 DEF Linked
<1>4. g[4] = g[3] \o p[4] /\ Len(g[4]) = Len(g[3]) + Len(p[4]) /\ Len(p[4]) \in Nat
  <2>1. 4 \in 1..7 /\ 7 \in Nat /\ 4 - 1 = 3
    OBVIOUS
  <2>2. Linked(g, p, 4)
    BY <2>1, ChainStep
  <2> QED BY <2>1, <2>2 DEF Linked
<1>5. g[5] = g[4] \o p[5] /\ Len(g[5]) = Len(g[4]) + Len(p[5]) /\ Len(p[5]) \in Nat
  <2>1. 5 \in 1..7 /\ 7 \in Nat /\ 5 - 1 = 4
    OBVIOUS
  <2>2. Linked(g, p, 5)
    BY <2>1, ChainStep
  <2> QED BY <2>1, <2>2 DEF Linked
<1>6. g[6] = g[5] \o p[6] /\ Len(g[6]) = Len(g[5]) + Len(p[6]) /\ Len(p[6]) \in Nat
  <2>1. 6 \in 1..7 /\ 7 \in Nat /\ 6 - 1 = 5
    OBVIOUS
  <2>2. Linked(g, p, 6)
    BY <2>1, ChainStep
  <2> QED BY <2>1, <2>2 DEF Linked
<1>7. g[7] = g[6] \o p[7] /\ Len(g[7]) = Len(g[6]) + Len(p[7]) /\ Len(p[7]) \in Nat
  <2>1. 7 \in 1..7 /\ 7 \in Nat /\ 7 - 1 = 6
    OBVIOUS
  <2>2. Linked(g, p, 7)
    BY <2>1, ChainStep
  <2> QED BY <2>1, <2>2 DEF Linked
<1> QED BY <1>1, <1>2, <1>3, <1>4, <1>5, <1>6, <1>7

(* What is written of the plain fields of a message.                       *)
LEMMA PlainParts ==
  ASSUME NEW n \in 1..7, NEW name, NEW x
  PROVE  /\ Part(n, Text(name), x) = PutText(8 * n + 2, x)
         /\ PartSize(Text(name), x) = SizeText(x)
         /\ Part(n, Dec(name), x) = Put(8 * n + 2, DecBytes(x))
         /\ PartSize(Dec(name), x) = SizePut(Len(DecBytes(x)))
         /\ Part(n, Uint64(name), x) = PutNumber(8 * n, x)
         /\ PartSize(Uint64(name), x) = SizeNumber(x)
         /\ Part(n, Int64(name), x) = PutNumber(8 * n, x)
         /\ PartSize(Int64(name), x) = SizeNumber(x)
<1>1. Part(n, Text(name), x) = PutText(8 * n + 2, x) /\ PartSize(Text(name), x) = SizeText(x)
  BY PlainFields DEF Part, PartSize, Numbers
<1>2. /\ Part(n, Dec(name), x) = Put(8 * n + 2, DecBytes(x))
      /\ PartSize(Dec(name), x) = SizePut(Len(DecBytes(x)))
  BY PlainFields DEF Part, PartSize, Numbers
<1>3. Part(n, Uint64(name), x) = PutNumber(8 * n, x) /\ PartSize(Uint64(name), x) = SizeNumber(x)
  BY PlainFields DEF Part, PartSize, Numbers
<1>4. Part(n, Int64(name), x) = PutNumber(8 * n, x) /\ PartSize(Int64(name), x) = SizeNumber(x)
  BY PlainFields DEF Part, PartSize, Numbers
<1> QED BY <1>1, <1>2, <1>3, <1>4

EncodedEach(of, x) == [j \in DOMAIN x |-> Encoded(of, x[j])]
SizeOfEach(of, x) == [j \in DOMAIN x |-> SizeOf(of, x[j])]

(* What is written of its fields with a message.                           *)
LEMMA NestedParts ==
  ASSUME NEW n \in 1..7, NEW name, NEW of, NEW fs, NEW m
  PROVE  LET e == Embedded(name, of, fs) p == Pointer(name, of, fs) r == Repeated(name, of, fs) IN
         /\ Part(n, e, m[e.name]) = Put(8 * n + 2, Encoded(of, m[name]))
         /\ PartSize(e, m[e.name]) = SizePut(SizeOf(of, m[name]))
         /\ Part(n, p, m[p.name]) = PutEach(8 * n + 2, EncodedEach(of, m[name]))
         /\ PartSize(p, m[p.name]) = SizeEach(SizeOfEach(of, m[name]))
         /\ Part(n, r, m[r.name]) = PutEach(8 * n + 2, EncodedEach(of, m[name]))
         /\ PartSize(r, m[r.name]) = SizeEach(SizeOfEach(of, m[name]))
<1>1. ASSUME NEW f, f.kind \in Lists, f.of = of, f.name = name
      PROVE  /\ Part(n, f, m[f.name]) = PutEach(8 * n + 2, EncodedEach(of, m[name]))
             /\ PartSize(f, m[f.name]) = SizeEach(SizeOfEach(of, m[name]))
  BY <1>1 DEF Part, PartSize, Numbers, Lists, EncodedEach, SizeOfEach
<1>2. ASSUME NEW f, f.kind = "embedded", f.of = of, f.name = name
      PROVE  /\ Part(n, f, m[f.name]) = Put(8 * n + 2, Encoded(of, m[name]))
             /\ PartSize(f, m[f.name]) = SizePut(SizeOf(of, m[name]))
  BY <1>2 DEF Part, PartSize, Numbers
<1>3. LET p == Pointer(name, of, fs) IN
         /\ Part(n, p, m[p.name]) = PutEach(8 * n + 2, EncodedEach(of, m[name]))
         /\ PartSize(p, m[p.name]) = SizeEach(SizeOfEach(of, m[name]))
  <2> DEFINE f == Pointer(name, of, fs)
  <2>1. f.kind \in Lists /\ f.of = of /\ f.name = name
    BY NestedNames DEF Lists
  <2> HIDE DEF f
  <2>2. /\ Part(n, f, m[f.name]) = PutEach(8 * n + 2, EncodedEach(of, m[name]))
        /\ PartSize(f, m[f.name]) = SizeEach(SizeOfEach(of, m[name]))
    BY <1>1, <2>1
  <2> QED BY <2>2 DEF f
<1>4. LET p == Repeated(name, of, fs) IN
         /\ Part(n, p, m[p.name]) = PutEach(8 * n + 2, EncodedEach(of, m[name]))
         /\ PartSize(p, m[p.name]) = SizeEach(SizeOfEach(of, m[name]))
  <2> DEFINE f == Repeated(name, of, fs)
  <2>1. f.kind \in Lists /\ f.of = of /\ f.name = name
    BY NestedNames DEF Lists
  <2> HIDE DEF f
  <2>2. /\ Part(n, f, m[f.name]) = PutEach(8 * n + 2, EncodedEach(of, m[name]))
        /\ PartSize(f, m[f.name]) = SizeEach(SizeOfEach(of, m[name]))
    BY <1>1, <2>1
  <2> QED BY <2>2 DEF f
<1>5. LET p == Embedded(name, of, fs) IN
         /\ Part(n, p, m[p.name]) = Put(8 * n + 2, Encoded(of, m[name]))
         /\ PartSize(p, m[p.name]) = SizePut(SizeOf(of, m[name]))
  <2> DEFINE f == Embedded(name, of, fs)
  <2>1. f.kind = "embedded" /\ f.of = of /\ f.name = name
    BY NestedNames
  <2> HIDE DEF f
  <2>2. /\ Part(n, f, m[f.name]) = Put(8 * n + 2, Encoded(of, m[name]))
        /\ PartSize(f, m[f.name]) = SizePut(SizeOf(of, m[name]))
    BY <1>2, <2>1
  <2> QED BY <2>2 DEF f
<1> QED BY <1>3, <1>4, <1>5

(* What is written of a td_Params inside another message.                  *)
LEMMA td_ParamsCodec ==
  ASSUME NEW x
  PROVE  Encoded("td_Params", x) = Marshal_td_Params(x) /\ SizeOf("td_Params", x) = Size_td_Params(x)
BY DEF Encoded, Written, SizeOf, Size

(* What is written of a Validator inside another message.                  *)
LEMMA ValidatorCodec ==
  ASSUME NEW x
  PROVE  Encoded("Validator", x) = Marshal_Validator(x) /\ SizeOf("Validator", x) = Size_Validator(x)
BY DEF Encoded, Written, SizeOf, Size

(* What is written of a PageRequest inside another message.                *)
LEMMA PageRequestCodec ==
  ASSUME NEW x
  PROVE  Encoded("PageRequest", x) = Marshal_PageRequest(x) /\ SizeOf("PageRequest", x) = Size_PageRequest(x)
BY DEF Encoded, Written, SizeOf, Size

(* What is written of a PageResponse inside another message.               *)
LEMMA PageResponseCodec ==
  ASSUME NEW x
  PROVE  Encoded("PageResponse", x) = Marshal_PageResponse(x) /\ SizeOf("PageResponse", x) = Size_PageResponse(x)
BY DEF Encoded, Written, SizeOf, Size

(* What is written of a vr_Params inside another message.                  *)
LEMMA vr_ParamsCodec ==
  ASSUME NEW x
  PROVE  Encoded("vr_Params", x) = << >> /\ SizeOf("vr_Params", x) = 0
BY DEF Encoded, Written, SizeOf, Size

(* What is written of a list of Validator.                                 *)
LEMMA ValidatorEach ==
  ASSUME NEW x
  PROVE  /\ EncodedEach("Validator", x) = EachOf(x, Marshal_Validator)
         /\ SizeOfEach("Validator", x) = EachOf(x, Size_Validator)
<1>1. EncodedEach("Validator", x) = [j \in DOMAIN x |-> Marshal_Validator(x[j])]
  BY ValidatorCodec DEF EncodedEach
<1>2. SizeOfEach("Validator", x) = [j \in DOMAIN x |-> Size_Validator(x[j])]
  BY ValidatorCodec DEF SizeOfEach
<1> QED BY <1>1, <1>2 DEF EachOf

(* What is written of a list of PageRequest.                               *)
LEMMA PageRequestEach ==
  ASSUME NEW x
  PROVE  /\ EncodedEach("PageRequest", x) = EachOf(x, Marshal_PageRequest)
         /\ SizeOfEach("PageRequest", x) = EachOf(x, Size_PageRequest)
<1>1. EncodedEach("PageRequest", x) = [j \in DOMAIN x |-> Marshal_PageRequest(x[j])]
  BY PageRequestCodec DEF EncodedEach
<1>2. SizeOfEach("PageRequest", x) = [j \in DOMAIN x |-> Size_PageRequest(x[j])]
  BY PageRequestCodec DEF SizeOfEach
<1> QED BY <1>1, <1>2 DEF EachOf

(* What is written of a list of PageResponse.                              *)
LEMMA PageResponseEach ==
  ASSUME NEW x
  PROVE  /\ EncodedEach("PageResponse", x) = EachOf(x, Marshal_PageResponse)
         /\ SizeOfEach("PageResponse", x) = EachOf(x, Size_PageResponse)
<1>1. EncodedEach("PageResponse", x) = [j \in DOMAIN x |-> Marshal_PageResponse(x[j])]
  BY PageResponseCodec DEF EncodedEach
<1>2. SizeOfEach("PageResponse", x) = [j \in DOMAIN x |-> Size_PageResponse(x[j])]
  BY PageResponseCodec DEF SizeOfEach
<1> QED BY <1>1, <1>2 DEF EachOf

(* What the codec of td_Params writes, and its size.                       *)
LEMMA td_ParamsBytes ==
  ASSUME NEW m, PartsOK("td_Params", m), NEW g, Chained(g, 3, Parts("td_Params", m))
  PROVE  g[3] = Encoded("td_Params", m) /\ Len(g[3]) = SizeOf("td_Params", m)
<1> DEFINE p == Parts("td_Params", m)
<1>0. \A k \in 1..3 : /\ p[k] \in Seq(Byte)
                       /\ p[k] = Part(k, td_Params[k], m[td_Params[k].name])
                       /\ Len(p[k]) = PartSize(td_Params[k], m[td_Params[k].name])
  BY td_ParamsShape DEF PartsOK, Parts
<1> HIDE DEF p
<1>1. p[1] = Put(10, DecBytes(m.share)) /\ Len(p[1]) = SizePut(Len(DecBytes(m.share)))
  <2>1. p[1] = Part(1, Dec("share"), m.share) /\ Len(p[1]) = PartSize(Dec("share"), m.share)
    BY <1>0, td_ParamsShape, PlainFields
  <2> QED BY <2>1, PlainParts
<1>2. p[2] = PutNumber(16, m.value) /\ Len(p[2]) = SizeNumber(m.value)
  <2>1. p[2] = Part(2, Uint64("value"), m.value) /\ Len(p[2]) = PartSize(Uint64("value"), m.value)
    BY <1>0, td_ParamsShape, PlainFields
  <2> QED BY <2>1, PlainParts
<1>3. p[3] = Put(26, DecBytes(m.rate)) /\ Len(p[3]) = SizePut(Len(DecBytes(m.rate)))
  <2>1. p[3] = Part(3, Dec("rate"), m.rate) /\ Len(p[3]) = PartSize(Dec("rate"), m.rate)
    BY <1>0, td_ParamsShape, PlainFields
  <2> QED BY <2>1, PlainParts
<1>4. /\ g[3] = p[1] \o p[2] \o p[3]
      /\ Len(g[3]) = Len(p[1]) + Len(p[2]) + Len(p[3])
  <2>1. Chained(g, 3, p)
    BY DEF p
  <2>2. BytesTo(p, 3)
    BY <1>0 DEF BytesTo
  <2> QED BY <2>1, <2>2, ChainThree
<1>5. /\ g[3] = Put(10, DecBytes(m.share))
               \o PutNumber(16, m.value)
               \o Put(26, DecBytes(m.rate))
      /\ Len(g[3]) = SizePut(Len(DecBytes(m.share)))
               + SizeNumber(m.value)
               + SizePut(Len(DecBytes(m.rate)))
  BY <1>1, <1>2, <1>3, <1>4, Zenon
<1>6. Encoded("td_Params", m) = Marshal_td_Params(m) /\ SizeOf("td_Params", m) = Size_td_Params(m)
  BY DEF Encoded, SizeOf, Written, Size
<1> QED BY <1>5, <1>6 DEF Marshal_td_Params, Size_td_Params

(* What the codec of td_DustAmount writes, and its size.                   *)
LEMMA td_DustAmountBytes ==
  ASSUME NEW m, PartsOK("td_DustAmount", m), NEW g, Chained(g, 1, Parts("td_DustAmount", m))
  PROVE  g[1] = Encoded("td_DustAmount", m) /\ Len(g[1]) = SizeOf("td_DustAmount", m)
<1> DEFINE p == Parts("td_DustAmount", m)
<1>0. \A k \in 1..1 : /\ p[k] \in Seq(Byte)
                       /\ p[k] = Part(k, td_DustAmount[k], m[td_DustAmount[k].name])
                       /\ Len(p[k]) = PartSize(td_DustAmount[k], m[td_DustAmount[k].name])
  BY td_DustAmountShape DEF PartsOK, Parts
<1> HIDE DEF p
<1>1. p[1] = Put(10, DecBytes(m.dust)) /\ Len(p[1]) = SizePut(Len(DecBytes(m.dust)))
  <2>1. p[1] = Part(1, Dec("dust"), m.dust) /\ Len(p[1]) = PartSize(Dec("dust"), m.dust)
    BY <1>0, td_DustAmountShape, PlainFields
  <2> QED BY <2>1, PlainParts
<1>2. /\ g[1] = p[1]
      /\ Len(g[1]) = Len(p[1])
  <2>1. Chained(g, 1, p)
    BY DEF p
  <2>2. p[1] \in Seq(Byte) /\ 1 \in Nat /\ 1 >= 1
    BY <1>0
  <2> QED BY <2>1, <2>2, ChainOne
<1>3. /\ g[1] = Put(10, DecBytes(m.dust))
      /\ Len(g[1]) = SizePut(Len(DecBytes(m.dust)))
  BY <1>1, <1>2, Zenon
<1>4. Encoded("td_DustAmount", m) = Marshal_td_DustAmount(m) /\ SizeOf("td_DustAmount", m) = Size_td_DustAmount(m)
  BY DEF Encoded, SizeOf, Written, Size
<1> QED BY <1>3, <1>4 DEF Marshal_td_DustAmount, Size_td_DustAmount

(* What the codec of td_GenesisState writes, and its size.                 *)
LEMMA td_GenesisStateBytes ==
  ASSUME NEW m, PartsOK("td_GenesisState", m), NEW g, Chained(g, 1, Parts("td_GenesisState", m))
  PROVE  g[1] = Encoded("td_GenesisState", m) /\ Len(g[1]) = SizeOf("td_GenesisState", m)
<1> DEFINE p == Parts("td_GenesisState", m)
<1>0. \A k \in 1..1 : /\ p[k] \in Seq(Byte)
                       /\ p[k] = Part(k, td_GenesisState[k], m[td_GenesisState[k].name])
                       /\ Len(p[k]) = PartSize(td_GenesisState[k], m[td_GenesisState[k].name])
  BY td_GenesisStateShape DEF PartsOK, Parts
<1> HIDE DEF p
<1>1. p[1] = Put(10, Marshal_td_Params(m.params)) /\ Len(p[1]) = SizePut(Size_td_Params(m.params))
  <2> DEFINE f == Embedded("params", "td_Params", td_Params)
  <2>1. p[1] = Part(1, f, m[f.name]) /\ Len(p[1]) = PartSize(f, m[f.name])
    BY <1>0, td_GenesisStateShape
  <2>2. /\ Part(1, f, m[f.name]) = Put(8 * 1 + 2, Encoded("td_Params", m.params))
        /\ PartSize(f, m[f.name]) = SizePut(SizeOf("td_Params", m.params))
    BY NestedParts
  <2> HIDE DEF f
  <2> QED BY <2>1, <2>2, td_ParamsCodec
<1>2. /\ g[1] = p[1]
      /\ Len(g[1]) = Len(p[1])
  <2>1. Chained(g, 1, p)
    BY DEF p
  <2>2. p[1] \in Seq(Byte) /\ 1 \in Nat /\ 1 >= 1
    BY <1>0
  <2> QED BY <2>1, <2>2, ChainOne
<1>3. /\ g[1] = Put(10, Marshal_td_Params(m.params))
      /\ Len(g[1]) = SizePut(Size_td_Params(m.params))
  BY <1>1, <1>2, Zenon
<1>4. Encoded("td_GenesisState", m) = Marshal_td_GenesisState(m) /\ SizeOf("td_GenesisState", m) = Size_td_GenesisState(m)
  BY DEF Encoded, SizeOf, Written, Size
<1> QED BY <1>3, <1>4 DEF Marshal_td_GenesisState, Size_td_GenesisState

(* What the codec of td_Module writes, and its size.                       *)
LEMMA td_ModuleBytes ==
  ASSUME NEW m, PartsOK("td_Module", m), NEW g, Chained(g, 1, Parts("td_Module", m))
  PROVE  g[1] = Encoded("td_Module", m) /\ Len(g[1]) = SizeOf("td_Module", m)
<1> DEFINE p == Parts("td_Module", m)
<1>0. \A k \in 1..1 : /\ p[k] \in Seq(Byte)
                       /\ p[k] = Part(k, td_Module[k], m[td_Module[k].name])
                       /\ Len(p[k]) = PartSize(td_Module[k], m[td_Module[k].name])
  BY td_ModuleShape DEF PartsOK, Parts
<1> HIDE DEF p
<1>1. p[1] = PutText(10, m.authority) /\ Len(p[1]) = SizeText(m.authority)
  <2>1. p[1] = Part(1, Text("authority"), m.authority) /\ Len(p[1]) = PartSize(Text("authority"), m.authority)
    BY <1>0, td_ModuleShape, PlainFields
  <2> QED BY <2>1, PlainParts
<1>2. /\ g[1] = p[1]
      /\ Len(g[1]) = Len(p[1])
  <2>1. Chained(g, 1, p)
    BY DEF p
  <2>2. p[1] \in Seq(Byte) /\ 1 \in Nat /\ 1 >= 1
    BY <1>0
  <2> QED BY <2>1, <2>2, ChainOne
<1>3. /\ g[1] = PutText(10, m.authority)
      /\ Len(g[1]) = SizeText(m.authority)
  BY <1>1, <1>2, Zenon
<1>4. Encoded("td_Module", m) = Marshal_td_Module(m) /\ SizeOf("td_Module", m) = Size_td_Module(m)
  BY DEF Encoded, SizeOf, Written, Size
<1> QED BY <1>3, <1>4 DEF Marshal_td_Module, Size_td_Module

(* What the codec of td_MsgUpdateParams writes, and its size.              *)
LEMMA td_MsgUpdateParamsBytes ==
  ASSUME NEW m, PartsOK("td_MsgUpdateParams", m), NEW g, Chained(g, 2, Parts("td_MsgUpdateParams", m))
  PROVE  g[2] = Encoded("td_MsgUpdateParams", m) /\ Len(g[2]) = SizeOf("td_MsgUpdateParams", m)
<1> DEFINE p == Parts("td_MsgUpdateParams", m)
<1>0. \A k \in 1..2 : /\ p[k] \in Seq(Byte)
                       /\ p[k] = Part(k, td_MsgUpdateParams[k], m[td_MsgUpdateParams[k].name])
                       /\ Len(p[k]) = PartSize(td_MsgUpdateParams[k], m[td_MsgUpdateParams[k].name])
  BY td_MsgUpdateParamsShape DEF PartsOK, Parts
<1> HIDE DEF p
<1>1. p[1] = PutText(10, m.authority) /\ Len(p[1]) = SizeText(m.authority)
  <2>1. p[1] = Part(1, Text("authority"), m.authority) /\ Len(p[1]) = PartSize(Text("authority"), m.authority)
    BY <1>0, td_MsgUpdateParamsShape, PlainFields
  <2> QED BY <2>1, PlainParts
<1>2. p[2] = Put(18, Marshal_td_Params(m.params)) /\ Len(p[2]) = SizePut(Size_td_Params(m.params))
  <2> DEFINE f == Embedded("params", "td_Params", td_Params)
  <2>1. p[2] = Part(2, f, m[f.name]) /\ Len(p[2]) = PartSize(f, m[f.name])
    BY <1>0, td_MsgUpdateParamsShape
  <2>2. /\ Part(2, f, m[f.name]) = Put(8 * 2 + 2, Encoded("td_Params", m.params))
        /\ PartSize(f, m[f.name]) = SizePut(SizeOf("td_Params", m.params))
    BY NestedParts
  <2> HIDE DEF f
  <2> QED BY <2>1, <2>2, td_ParamsCodec
<1>3. /\ g[2] = p[1] \o p[2]
      /\ Len(g[2]) = Len(p[1]) + Len(p[2])
  <2>1. Chained(g, 2, p)
    BY DEF p
  <2>2. BytesTo(p, 2)
    BY <1>0 DEF BytesTo
  <2> QED BY <2>1, <2>2, ChainTwo
<1>4. /\ g[2] = PutText(10, m.authority)
               \o Put(18, Marshal_td_Params(m.params))
      /\ Len(g[2]) = SizeText(m.authority)
               + SizePut(Size_td_Params(m.params))
  BY <1>1, <1>2, <1>3, Zenon
<1>5. Encoded("td_MsgUpdateParams", m) = Marshal_td_MsgUpdateParams(m) /\ SizeOf("td_MsgUpdateParams", m) = Size_td_MsgUpdateParams(m)
  BY DEF Encoded, SizeOf, Written, Size
<1> QED BY <1>4, <1>5 DEF Marshal_td_MsgUpdateParams, Size_td_MsgUpdateParams

(* What the codec of td_MsgUpdateParamsResponse writes, and its size.      *)
LEMMA td_MsgUpdateParamsResponseBytes ==
  ASSUME NEW m, PartsOK("td_MsgUpdateParamsResponse", m), NEW g, Chained(g, 0, Parts("td_MsgUpdateParamsResponse", m))
  PROVE  g[0] = Encoded("td_MsgUpdateParamsResponse", m) /\ Len(g[0]) = SizeOf("td_MsgUpdateParamsResponse", m)
<1>1. g[0] = << >> /\ Len(<< >>) = 0
  BY EmptySeq DEF Chained
<1> QED BY <1>1 DEF Encoded, Written, SizeOf, Size

(* What the codec of td_MsgFundModule writes, and its size.                *)
LEMMA td_MsgFundModuleBytes ==
  ASSUME NEW m, PartsOK("td_MsgFundModule", m), NEW g, Chained(g, 3, Parts("td_MsgFundModule", m))
  PROVE  g[3] = Encoded("td_MsgFundModule", m) /\ Len(g[3]) = SizeOf("td_MsgFundModule", m)
<1> DEFINE p == Parts("td_MsgFundModule", m)
<1>0. \A k \in 1..3 : /\ p[k] \in Seq(Byte)
                       /\ p[k] = Part(k, td_MsgFundModule[k], m[td_MsgFundModule[k].name])
                       /\ Len(p[k]) = PartSize(td_MsgFundModule[k], m[td_MsgFundModule[k].name])
  BY td_MsgFundModuleShape DEF PartsOK, Parts
<1> HIDE DEF p
<1>1. p[1] = PutText(10, m.creator) /\ Len(p[1]) = SizeText(m.creator)
  <2>1. p[1] = Part(1, Text("creator"), m.creator) /\ Len(p[1]) = PartSize(Text("creator"), m.creator)
    BY <1>0, td_MsgFundModuleShape, PlainFields
  <2> QED BY <2>1, PlainParts
<1>2. p[2] = PutNumber(16, m.amount) /\ Len(p[2]) = SizeNumber(m.amount)
  <2>1. p[2] = Part(2, Int64("amount"), m.amount) /\ Len(p[2]) = PartSize(Int64("amount"), m.amount)
    BY <1>0, td_MsgFundModuleShape, PlainFields
  <2> QED BY <2>1, PlainParts
<1>3. p[3] = PutText(26, m.module) /\ Len(p[3]) = SizeText(m.module)
  <2>1. p[3] = Part(3, Text("module"), m.module) /\ Len(p[3]) = PartSize(Text("module"), m.module)
    BY <1>0, td_MsgFundModuleShape, PlainFields
  <2> QED BY <2>1, PlainParts
<1>4. /\ g[3] = p[1] \o p[2] \o p[3]
      /\ Len(g[3]) = Len(p[1]) + Len(p[2]) + Len(p[3])
  <2>1. Chained(g, 3, p)
    BY DEF p
  <2>2. BytesTo(p, 3)
    BY <1>0 DEF BytesTo
  <2> QED BY <2>1, <2>2, ChainThree
<1>5. /\ g[3] = PutText(10, m.creator)
               \o PutNumber(16, m.amount)
               \o PutText(26, m.module)
      /\ Len(g[3]) = SizeText(m.creator)
               + SizeNumber(m.amount)
               + SizeText(m.module)
  BY <1>1, <1>2, <1>3, <1>4, Zenon
<1>6. Encoded("td_MsgFundModule", m) = Marshal_td_MsgFundModule(m) /\ SizeOf("td_MsgFundModule", m) = Size_td_MsgFundModule(m)
  BY DEF Encoded, SizeOf, Written, Size
<1> QED BY <1>5, <1>6 DEF Marshal_td_MsgFundModule, Size_td_MsgFundModule

(* What the codec of td_MsgFundModuleResponse writes, and its size.        *)
LEMMA td_MsgFundModuleResponseBytes ==
  ASSUME NEW m, PartsOK("td_MsgFundModuleResponse", m), NEW g, Chained(g, 0, Parts("td_MsgFundModuleResponse", m))
  PROVE  g[0] = Encoded("td_MsgFundModuleResponse", m) /\ Len(g[0]) = SizeOf("td_MsgFundModuleResponse", m)
<1>1. g[0] = << >> /\ Len(<< >>) = 0
  BY EmptySeq DEF Chained
<1> QED BY <1>1 DEF Encoded, Written, SizeOf, Size

(* What the codec of td_QueryParamsRequest writes, and its size.           *)
LEMMA td_QueryParamsRequestBytes ==
  ASSUME NEW m, PartsOK("td_QueryParamsRequest", m), NEW g, Chained(g, 0, Parts("td_QueryParamsRequest", m))
  PROVE  g[0] = Encoded("td_QueryParamsRequest", m) /\ Len(g[0]) = SizeOf("td_QueryParamsRequest", m)
<1>1. g[0] = << >> /\ Len(<< >>) = 0
  BY EmptySeq DEF Chained
<1> QED BY <1>1 DEF Encoded, Written, SizeOf, Size

(* What the codec of td_QueryParamsResponse writes, and its size.          *)
LEMMA td_QueryParamsResponseBytes ==
  ASSUME NEW m, PartsOK("td_QueryParamsResponse", m), NEW g, Chained(g, 1, Parts("td_QueryParamsResponse", m))
  PROVE  g[1] = Encoded("td_QueryParamsResponse", m) /\ Len(g[1]) = SizeOf("td_QueryParamsResponse", m)
<1> DEFINE p == Parts("td_QueryParamsResponse", m)
<1>0. \A k \in 1..1 : /\ p[k] \in Seq(Byte)
                       /\ p[k] = Part(k, td_QueryParamsResponse[k], m[td_QueryParamsResponse[k].name])
                       /\ Len(p[k]) = PartSize(td_QueryParamsResponse[k], m[td_QueryParamsResponse[k].name])
  BY td_QueryParamsResponseShape DEF PartsOK, Parts
<1> HIDE DEF p
<1>1. p[1] = Put(10, Marshal_td_Params(m.params)) /\ Len(p[1]) = SizePut(Size_td_Params(m.params))
  <2> DEFINE f == Embedded("params", "td_Params", td_Params)
  <2>1. p[1] = Part(1, f, m[f.name]) /\ Len(p[1]) = PartSize(f, m[f.name])
    BY <1>0, td_QueryParamsResponseShape
  <2>2. /\ Part(1, f, m[f.name]) = Put(8 * 1 + 2, Encoded("td_Params", m.params))
        /\ PartSize(f, m[f.name]) = SizePut(SizeOf("td_Params", m.params))
    BY NestedParts
  <2> HIDE DEF f
  <2> QED BY <2>1, <2>2, td_ParamsCodec
<1>2. /\ g[1] = p[1]
      /\ Len(g[1]) = Len(p[1])
  <2>1. Chained(g, 1, p)
    BY DEF p
  <2>2. p[1] \in Seq(Byte) /\ 1 \in Nat /\ 1 >= 1
    BY <1>0
  <2> QED BY <2>1, <2>2, ChainOne
<1>3. /\ g[1] = Put(10, Marshal_td_Params(m.params))
      /\ Len(g[1]) = SizePut(Size_td_Params(m.params))
  BY <1>1, <1>2, Zenon
<1>4. Encoded("td_QueryParamsResponse", m) = Marshal_td_QueryParamsResponse(m) /\ SizeOf("td_QueryParamsResponse", m) = Size_td_QueryParamsResponse(m)
  BY DEF Encoded, SizeOf, Written, Size
<1> QED BY <1>3, <1>4 DEF Marshal_td_QueryParamsResponse, Size_td_QueryParamsResponse

(* What the codec of PageRequest writes, and its size.                     *)
LEMMA PageRequestBytes ==
  ASSUME NEW m, PartsOK("PageRequest", m), NEW g, Chained(g, 3, Parts("PageRequest", m))
  PROVE  g[3] = Encoded("PageRequest", m) /\ Len(g[3]) = SizeOf("PageRequest", m)
<1> DEFINE p == Parts("PageRequest", m)
<1>0. \A k \in 1..3 : /\ p[k] \in Seq(Byte)
                       /\ p[k] = Part(k, PageRequest[k], m[PageRequest[k].name])
                       /\ Len(p[k]) = PartSize(PageRequest[k], m[PageRequest[k].name])
  BY PageRequestShape DEF PartsOK, Parts
<1> HIDE DEF p
<1>1. p[1] = PutText(10, m.key) /\ Len(p[1]) = SizeText(m.key)
  <2>1. p[1] = Part(1, Text("key"), m.key) /\ Len(p[1]) = PartSize(Text("key"), m.key)
    BY <1>0, PageRequestShape, PlainFields
  <2> QED BY <2>1, PlainParts
<1>2. p[2] = PutNumber(16, m.offset) /\ Len(p[2]) = SizeNumber(m.offset)
  <2>1. p[2] = Part(2, Uint64("offset"), m.offset) /\ Len(p[2]) = PartSize(Uint64("offset"), m.offset)
    BY <1>0, PageRequestShape, PlainFields
  <2> QED BY <2>1, PlainParts
<1>3. p[3] = PutNumber(24, m.limit) /\ Len(p[3]) = SizeNumber(m.limit)
  <2>1. p[3] = Part(3, Uint64("limit"), m.limit) /\ Len(p[3]) = PartSize(Uint64("limit"), m.limit)
    BY <1>0, PageRequestShape, PlainFields
  <2> QED BY <2>1, PlainParts
<1>4. /\ g[3] = p[1] \o p[2] \o p[3]
      /\ Len(g[3]) = Len(p[1]) + Len(p[2]) + Len(p[3])
  <2>1. Chained(g, 3, p)
    BY DEF p
  <2>2. BytesTo(p, 3)
    BY <1>0 DEF BytesTo
  <2> QED BY <2>1, <2>2, ChainThree
<1>5. /\ g[3] = PutText(10, m.key)
               \o PutNumber(16, m.offset)
               \o PutNumber(24, m.limit)
      /\ Len(g[3]) = SizeText(m.key)
               + SizeNumber(m.offset)
               + SizeNumber(m.limit)
  BY <1>1, <1>2, <1>3, <1>4, Zenon
<1> QED BY <1>5 DEF Encoded, SizeOf, Marshal_PageRequest, Size_PageRequest

(* What the codec of PageResponse writes, and its size.                    *)
LEMMA PageResponseBytes ==
  ASSUME NEW m, PartsOK("PageResponse", m), NEW g, Chained(g, 2, Parts("PageResponse", m))
  PROVE  g[2] = Encoded("PageResponse", m) /\ Len(g[2]) = SizeOf("PageResponse", m)
<1> DEFINE p == Parts("PageResponse", m)
<1>0. \A k \in 1..2 : /\ p[k] \in Seq(Byte)
                       /\ p[k] = Part(k, PageResponse[k], m[PageResponse[k].name])
                       /\ Len(p[k]) = PartSize(PageResponse[k], m[PageResponse[k].name])
  BY PageResponseShape DEF PartsOK, Parts
<1> HIDE DEF p
<1>1. p[1] = PutText(10, m.next_key) /\ Len(p[1]) = SizeText(m.next_key)
  <2>1. p[1] = Part(1, Text("next_key"), m.next_key) /\ Len(p[1]) = PartSize(Text("next_key"), m.next_key)
    BY <1>0, PageResponseShape, PlainFields
  <2> QED BY <2>1, PlainParts
<1>2. p[2] = PutNumber(16, m.total) /\ Len(p[2]) = SizeNumber(m.total)
  <2>1. p[2] = Part(2, Uint64("total"), m.total) /\ Len(p[2]) = PartSize(Uint64("total"), m.total)
    BY <1>0, PageResponseShape, PlainFields
  <2> QED BY <2>1, PlainParts
<1>3. /\ g[2] = p[1] \o p[2]
      /\ Len(g[2]) = Len(p[1]) + Len(p[2])
  <2>1. Chained(g, 2, p)
    BY DEF p
  <2>2. BytesTo(p, 2)
    BY <1>0 DEF BytesTo
  <2> QED BY <2>1, <2>2, ChainTwo
<1>4. /\ g[2] = PutText(10, m.next_key)
               \o PutNumber(16, m.total)
      /\ Len(g[2]) = SizeText(m.next_key)
               + SizeNumber(m.total)
  BY <1>1, <1>2, <1>3, Zenon
<1> QED BY <1>4 DEF Encoded, SizeOf, Marshal_PageResponse, Size_PageResponse

(* What the codec of Validator writes, and its size.                       *)
LEMMA ValidatorBytes ==
  ASSUME NEW m, PartsOK("Validator", m), NEW g, Chained(g, 6, Parts("Validator", m))
  PROVE  g[6] = Encoded("Validator", m) /\ Len(g[6]) = SizeOf("Validator", m)
<1> DEFINE p == Parts("Validator", m)
<1>0. \A k \in 1..6 : /\ p[k] \in Seq(Byte)
                       /\ p[k] = Part(k, Validator[k], m[Validator[k].name])
                       /\ Len(p[k]) = PartSize(Validator[k], m[Validator[k].name])
  BY ValidatorShape DEF PartsOK, Parts
<1> HIDE DEF p
<1>1. p[1] = PutText(10, m.index) /\ Len(p[1]) = SizeText(m.index)
  <2>1. p[1] = Part(1, Text("index"), m.index) /\ Len(p[1]) = PartSize(Text("index"), m.index)
    BY <1>0, ValidatorShape, PlainFields
  <2> QED BY <2>1, PlainParts
<1>2. p[2] = PutText(18, m.member_id) /\ Len(p[2]) = SizeText(m.member_id)
  <2>1. p[2] = Part(2, Text("member_id"), m.member_id) /\ Len(p[2]) = PartSize(Text("member_id"), m.member_id)
    BY <1>0, ValidatorShape, PlainFields
  <2> QED BY <2>1, PlainParts
<1>3. p[3] = PutText(26, m.operator_address) /\ Len(p[3]) = SizeText(m.operator_address)
  <2>1. p[3] = Part(3, Text("operator_address"), m.operator_address) /\ Len(p[3]) = PartSize(Text("operator_address"), m.operator_address)
    BY <1>0, ValidatorShape, PlainFields
  <2> QED BY <2>1, PlainParts
<1>4. p[4] = PutText(34, m.consensus_pubkey) /\ Len(p[4]) = SizeText(m.consensus_pubkey)
  <2>1. p[4] = Part(4, Text("consensus_pubkey"), m.consensus_pubkey) /\ Len(p[4]) = PartSize(Text("consensus_pubkey"), m.consensus_pubkey)
    BY <1>0, ValidatorShape, PlainFields
  <2> QED BY <2>1, PlainParts
<1>5. p[5] = PutText(42, m.status) /\ Len(p[5]) = SizeText(m.status)
  <2>1. p[5] = Part(5, Text("status"), m.status) /\ Len(p[5]) = PartSize(Text("status"), m.status)
    BY <1>0, ValidatorShape, PlainFields
  <2> QED BY <2>1, PlainParts
<1>6. p[6] = PutNumber(48, m.term_end) /\ Len(p[6]) = SizeNumber(m.term_end)
  <2>1. p[6] = Part(6, Uint64("term_end"), m.term_end) /\ Len(p[6]) = PartSize(Uint64("term_end"), m.term_end)
    BY <1>0, ValidatorShape, PlainFields
  <2> QED BY <2>1, PlainParts
<1>7. /\ g[6] = p[1] \o p[2] \o p[3] \o p[4] \o p[5] \o p[6]
      /\ Len(g[6]) = Len(p[1]) + Len(p[2]) + Len(p[3]) + Len(p[4]) + Len(p[5]) + Len(p[6])
  <2>1. Chained(g, 6, p)
    BY DEF p
  <2>2. BytesTo(p, 6)
    BY <1>0 DEF BytesTo
  <2> QED BY <2>1, <2>2, ChainSix
<1>8. /\ g[6] = PutText(10, m.index)
               \o PutText(18, m.member_id)
               \o PutText(26, m.operator_address)
               \o PutText(34, m.consensus_pubkey)
               \o PutText(42, m.status)
               \o PutNumber(48, m.term_end)
      /\ Len(g[6]) = SizeText(m.index)
               + SizeText(m.member_id)
               + SizeText(m.operator_address)
               + SizeText(m.consensus_pubkey)
               + SizeText(m.status)
               + SizeNumber(m.term_end)
  BY <1>1, <1>2, <1>3, <1>4, <1>5, <1>6, <1>7, Zenon
<1>9. Encoded("Validator", m) = Marshal_Validator(m) /\ SizeOf("Validator", m) = Size_Validator(m)
  BY DEF Encoded, SizeOf, Written, Size
<1> QED BY <1>8, <1>9 DEF Marshal_Validator, Size_Validator

(* What the codec of vr_Params writes, and its size.                       *)
LEMMA vr_ParamsBytes ==
  ASSUME NEW m, PartsOK("vr_Params", m), NEW g, Chained(g, 0, Parts("vr_Params", m))
  PROVE  g[0] = Encoded("vr_Params", m) /\ Len(g[0]) = SizeOf("vr_Params", m)
<1>1. g[0] = << >> /\ Len(<< >>) = 0
  BY EmptySeq DEF Chained
<1> QED BY <1>1 DEF Encoded, Written, SizeOf, Size

(* What the codec of vr_GenesisState writes, and its size.                 *)
LEMMA vr_GenesisStateBytes ==
  ASSUME NEW m, PartsOK("vr_GenesisState", m), NEW g, Chained(g, 2, Parts("vr_GenesisState", m))
  PROVE  g[2] = Encoded("vr_GenesisState", m) /\ Len(g[2]) = SizeOf("vr_GenesisState", m)
<1> DEFINE p == Parts("vr_GenesisState", m)
<1>0. \A k \in 1..2 : /\ p[k] \in Seq(Byte)
                       /\ p[k] = Part(k, vr_GenesisState[k], m[vr_GenesisState[k].name])
                       /\ Len(p[k]) = PartSize(vr_GenesisState[k], m[vr_GenesisState[k].name])
  BY vr_GenesisStateShape DEF PartsOK, Parts
<1> HIDE DEF p
<1>1. p[1] = Put(10, << >>) /\ Len(p[1]) = SizePut(0)
  <2> DEFINE f == Embedded("params", "vr_Params", vr_Params)
  <2>1. p[1] = Part(1, f, m[f.name]) /\ Len(p[1]) = PartSize(f, m[f.name])
    BY <1>0, vr_GenesisStateShape
  <2>2. /\ Part(1, f, m[f.name]) = Put(8 * 1 + 2, Encoded("vr_Params", m.params))
        /\ PartSize(f, m[f.name]) = SizePut(SizeOf("vr_Params", m.params))
    BY NestedParts
  <2> HIDE DEF f
  <2> QED BY <2>1, <2>2, vr_ParamsCodec
<1>2. p[2] = PutEach(18, EachOf(m.validator_map, Marshal_Validator)) /\ Len(p[2]) = SizeEach(EachOf(m.validator_map, Size_Validator))
  <2> DEFINE f == Repeated("validator_map", "Validator", Validator)
  <2>1. p[2] = Part(2, f, m[f.name]) /\ Len(p[2]) = PartSize(f, m[f.name])
    BY <1>0, vr_GenesisStateShape
  <2>2. /\ Part(2, f, m[f.name]) = PutEach(8 * 2 + 2, EncodedEach("Validator", m.validator_map))
        /\ PartSize(f, m[f.name]) = SizeEach(SizeOfEach("Validator", m.validator_map))
    BY NestedParts
  <2> HIDE DEF f
  <2>3. /\ EncodedEach("Validator", m.validator_map) = EachOf(m.validator_map, Marshal_Validator)
        /\ SizeOfEach("Validator", m.validator_map) = EachOf(m.validator_map, Size_Validator)
    BY ValidatorEach
  <2>4. 8 * 2 + 2 = 18
    OBVIOUS
  <2> QED BY <2>1, <2>2, <2>3, <2>4, Zenon
<1>3. /\ g[2] = p[1] \o p[2]
      /\ Len(g[2]) = Len(p[1]) + Len(p[2])
  <2>1. Chained(g, 2, p)
    BY DEF p
  <2>2. BytesTo(p, 2)
    BY <1>0 DEF BytesTo
  <2> QED BY <2>1, <2>2, ChainTwo
<1>4. /\ g[2] = Put(10, << >>)
               \o PutEach(18, EachOf(m.validator_map, Marshal_Validator))
      /\ Len(g[2]) = SizePut(0)
               + SizeEach(EachOf(m.validator_map, Size_Validator))
  BY <1>1, <1>2, <1>3, Zenon
<1>5. Encoded("vr_GenesisState", m) = Marshal_vr_GenesisState(m) /\ SizeOf("vr_GenesisState", m) = Size_vr_GenesisState(m)
  BY DEF Encoded, SizeOf, Written, Size
<1> QED BY <1>4, <1>5 DEF Marshal_vr_GenesisState, Size_vr_GenesisState

(* What the codec of vr_Module writes, and its size.                       *)
LEMMA vr_ModuleBytes ==
  ASSUME NEW m, PartsOK("vr_Module", m), NEW g, Chained(g, 1, Parts("vr_Module", m))
  PROVE  g[1] = Encoded("vr_Module", m) /\ Len(g[1]) = SizeOf("vr_Module", m)
<1> DEFINE p == Parts("vr_Module", m)
<1>0. \A k \in 1..1 : /\ p[k] \in Seq(Byte)
                       /\ p[k] = Part(k, vr_Module[k], m[vr_Module[k].name])
                       /\ Len(p[k]) = PartSize(vr_Module[k], m[vr_Module[k].name])
  BY vr_ModuleShape DEF PartsOK, Parts
<1> HIDE DEF p
<1>1. p[1] = PutText(10, m.authority) /\ Len(p[1]) = SizeText(m.authority)
  <2>1. p[1] = Part(1, Text("authority"), m.authority) /\ Len(p[1]) = PartSize(Text("authority"), m.authority)
    BY <1>0, vr_ModuleShape, PlainFields
  <2> QED BY <2>1, PlainParts
<1>2. /\ g[1] = p[1]
      /\ Len(g[1]) = Len(p[1])
  <2>1. Chained(g, 1, p)
    BY DEF p
  <2>2. p[1] \in Seq(Byte) /\ 1 \in Nat /\ 1 >= 1
    BY <1>0
  <2> QED BY <2>1, <2>2, ChainOne
<1>3. /\ g[1] = PutText(10, m.authority)
      /\ Len(g[1]) = SizeText(m.authority)
  BY <1>1, <1>2, Zenon
<1>4. Encoded("vr_Module", m) = Marshal_vr_Module(m) /\ SizeOf("vr_Module", m) = Size_vr_Module(m)
  BY DEF Encoded, SizeOf, Written, Size
<1> QED BY <1>3, <1>4 DEF Marshal_vr_Module, Size_vr_Module

(* What the codec of vr_MsgUpdateParams writes, and its size.              *)
LEMMA vr_MsgUpdateParamsBytes ==
  ASSUME NEW m, PartsOK("vr_MsgUpdateParams", m), NEW g, Chained(g, 2, Parts("vr_MsgUpdateParams", m))
  PROVE  g[2] = Encoded("vr_MsgUpdateParams", m) /\ Len(g[2]) = SizeOf("vr_MsgUpdateParams", m)
<1> DEFINE p == Parts("vr_MsgUpdateParams", m)
<1>0. \A k \in 1..2 : /\ p[k] \in Seq(Byte)
                       /\ p[k] = Part(k, vr_MsgUpdateParams[k], m[vr_MsgUpdateParams[k].name])
                       /\ Len(p[k]) = PartSize(vr_MsgUpdateParams[k], m[vr_MsgUpdateParams[k].name])
  BY vr_MsgUpdateParamsShape DEF PartsOK, Parts
<1> HIDE DEF p
<1>1. p[1] = PutText(10, m.authority) /\ Len(p[1]) = SizeText(m.authority)
  <2>1. p[1] = Part(1, Text("authority"), m.authority) /\ Len(p[1]) = PartSize(Text("authority"), m.authority)
    BY <1>0, vr_MsgUpdateParamsShape, PlainFields
  <2> QED BY <2>1, PlainParts
<1>2. p[2] = Put(18, << >>) /\ Len(p[2]) = SizePut(0)
  <2> DEFINE f == Embedded("params", "vr_Params", vr_Params)
  <2>1. p[2] = Part(2, f, m[f.name]) /\ Len(p[2]) = PartSize(f, m[f.name])
    BY <1>0, vr_MsgUpdateParamsShape
  <2>2. /\ Part(2, f, m[f.name]) = Put(8 * 2 + 2, Encoded("vr_Params", m.params))
        /\ PartSize(f, m[f.name]) = SizePut(SizeOf("vr_Params", m.params))
    BY NestedParts
  <2> HIDE DEF f
  <2> QED BY <2>1, <2>2, vr_ParamsCodec
<1>3. /\ g[2] = p[1] \o p[2]
      /\ Len(g[2]) = Len(p[1]) + Len(p[2])
  <2>1. Chained(g, 2, p)
    BY DEF p
  <2>2. BytesTo(p, 2)
    BY <1>0 DEF BytesTo
  <2> QED BY <2>1, <2>2, ChainTwo
<1>4. /\ g[2] = PutText(10, m.authority)
               \o Put(18, << >>)
      /\ Len(g[2]) = SizeText(m.authority)
               + SizePut(0)
  BY <1>1, <1>2, <1>3, Zenon
<1>5. Encoded("vr_MsgUpdateParams", m) = Marshal_vr_MsgUpdateParams(m) /\ SizeOf("vr_MsgUpdateParams", m) = Size_vr_MsgUpdateParams(m)
  BY DEF Encoded, SizeOf, Written, Size
<1> QED BY <1>4, <1>5 DEF Marshal_vr_MsgUpdateParams, Size_vr_MsgUpdateParams

(* What the codec of vr_MsgUpdateParamsResponse writes, and its size.      *)
LEMMA vr_MsgUpdateParamsResponseBytes ==
  ASSUME NEW m, PartsOK("vr_MsgUpdateParamsResponse", m), NEW g, Chained(g, 0, Parts("vr_MsgUpdateParamsResponse", m))
  PROVE  g[0] = Encoded("vr_MsgUpdateParamsResponse", m) /\ Len(g[0]) = SizeOf("vr_MsgUpdateParamsResponse", m)
<1>1. g[0] = << >> /\ Len(<< >>) = 0
  BY EmptySeq DEF Chained
<1> QED BY <1>1 DEF Encoded, Written, SizeOf, Size

(* What the codec of MsgOnboardValidator writes, and its size.             *)
LEMMA MsgOnboardValidatorBytes ==
  ASSUME NEW m, PartsOK("MsgOnboardValidator", m), NEW g, Chained(g, 7, Parts("MsgOnboardValidator", m))
  PROVE  g[7] = Encoded("MsgOnboardValidator", m) /\ Len(g[7]) = SizeOf("MsgOnboardValidator", m)
<1> DEFINE p == Parts("MsgOnboardValidator", m)
<1>0. \A k \in 1..7 : /\ p[k] \in Seq(Byte)
                       /\ p[k] = Part(k, MsgOnboardValidator[k], m[MsgOnboardValidator[k].name])
                       /\ Len(p[k]) = PartSize(MsgOnboardValidator[k], m[MsgOnboardValidator[k].name])
  BY MsgOnboardValidatorShape DEF PartsOK, Parts
<1> HIDE DEF p
<1>1. p[1] = PutText(10, m.creator) /\ Len(p[1]) = SizeText(m.creator)
  <2>1. p[1] = Part(1, Text("creator"), m.creator) /\ Len(p[1]) = PartSize(Text("creator"), m.creator)
    BY <1>0, MsgOnboardValidatorShape, PlainFields
  <2> QED BY <2>1, PlainParts
<1>2. p[2] = PutText(18, m.index) /\ Len(p[2]) = SizeText(m.index)
  <2>1. p[2] = Part(2, Text("index"), m.index) /\ Len(p[2]) = PartSize(Text("index"), m.index)
    BY <1>0, MsgOnboardValidatorShape, PlainFields
  <2> QED BY <2>1, PlainParts
<1>3. p[3] = PutText(26, m.member_id) /\ Len(p[3]) = SizeText(m.member_id)
  <2>1. p[3] = Part(3, Text("member_id"), m.member_id) /\ Len(p[3]) = PartSize(Text("member_id"), m.member_id)
    BY <1>0, MsgOnboardValidatorShape, PlainFields
  <2> QED BY <2>1, PlainParts
<1>4. p[4] = PutText(34, m.operator_address) /\ Len(p[4]) = SizeText(m.operator_address)
  <2>1. p[4] = Part(4, Text("operator_address"), m.operator_address) /\ Len(p[4]) = PartSize(Text("operator_address"), m.operator_address)
    BY <1>0, MsgOnboardValidatorShape, PlainFields
  <2> QED BY <2>1, PlainParts
<1>5. p[5] = PutText(42, m.consensus_pubkey) /\ Len(p[5]) = SizeText(m.consensus_pubkey)
  <2>1. p[5] = Part(5, Text("consensus_pubkey"), m.consensus_pubkey) /\ Len(p[5]) = PartSize(Text("consensus_pubkey"), m.consensus_pubkey)
    BY <1>0, MsgOnboardValidatorShape, PlainFields
  <2> QED BY <2>1, PlainParts
<1>6. p[6] = PutText(50, m.status) /\ Len(p[6]) = SizeText(m.status)
  <2>1. p[6] = Part(6, Text("status"), m.status) /\ Len(p[6]) = PartSize(Text("status"), m.status)
    BY <1>0, MsgOnboardValidatorShape, PlainFields
  <2> QED BY <2>1, PlainParts
<1>7. p[7] = PutNumber(56, m.term_end) /\ Len(p[7]) = SizeNumber(m.term_end)
  <2>1. p[7] = Part(7, Uint64("term_end"), m.term_end) /\ Len(p[7]) = PartSize(Uint64("term_end"), m.term_end)
    BY <1>0, MsgOnboardValidatorShape, PlainFields
  <2> QED BY <2>1, PlainParts
<1>8. /\ g[7] = p[1] \o p[2] \o p[3] \o p[4] \o p[5] \o p[6] \o p[7]
      /\ Len(g[7]) = Len(p[1]) + Len(p[2]) + Len(p[3]) + Len(p[4]) + Len(p[5]) + Len(p[6]) + Len(p[7])
  <2>1. Chained(g, 7, p)
    BY DEF p
  <2>2. BytesTo(p, 7)
    BY <1>0 DEF BytesTo
  <2> QED BY <2>1, <2>2, ChainSeven
<1>9. /\ g[7] = PutText(10, m.creator)
               \o PutText(18, m.index)
               \o PutText(26, m.member_id)
               \o PutText(34, m.operator_address)
               \o PutText(42, m.consensus_pubkey)
               \o PutText(50, m.status)
               \o PutNumber(56, m.term_end)
      /\ Len(g[7]) = SizeText(m.creator)
               + SizeText(m.index)
               + SizeText(m.member_id)
               + SizeText(m.operator_address)
               + SizeText(m.consensus_pubkey)
               + SizeText(m.status)
               + SizeNumber(m.term_end)
  BY <1>1, <1>2, <1>3, <1>4, <1>5, <1>6, <1>7, <1>8, Zenon
<1>10. Encoded("MsgOnboardValidator", m) = Marshal_MsgOnboardValidator(m) /\ SizeOf("MsgOnboardValidator", m) = Size_MsgOnboardValidator(m)
  BY DEF Encoded, SizeOf, Written, Size
<1> QED BY <1>9, <1>10 DEF Marshal_MsgOnboardValidator, Size_MsgOnboardValidator

(* What the codec of MsgOnboardValidatorResponse writes, and its size.     *)
LEMMA MsgOnboardValidatorResponseBytes ==
  ASSUME NEW m, PartsOK("MsgOnboardValidatorResponse", m), NEW g, Chained(g, 0, Parts("MsgOnboardValidatorResponse", m))
  PROVE  g[0] = Encoded("MsgOnboardValidatorResponse", m) /\ Len(g[0]) = SizeOf("MsgOnboardValidatorResponse", m)
<1>1. g[0] = << >> /\ Len(<< >>) = 0
  BY EmptySeq DEF Chained
<1> QED BY <1>1 DEF Encoded, Written, SizeOf, Size

(* What the codec of vr_QueryParamsRequest writes, and its size.           *)
LEMMA vr_QueryParamsRequestBytes ==
  ASSUME NEW m, PartsOK("vr_QueryParamsRequest", m), NEW g, Chained(g, 0, Parts("vr_QueryParamsRequest", m))
  PROVE  g[0] = Encoded("vr_QueryParamsRequest", m) /\ Len(g[0]) = SizeOf("vr_QueryParamsRequest", m)
<1>1. g[0] = << >> /\ Len(<< >>) = 0
  BY EmptySeq DEF Chained
<1> QED BY <1>1 DEF Encoded, Written, SizeOf, Size

(* What the codec of vr_QueryParamsResponse writes, and its size.          *)
LEMMA vr_QueryParamsResponseBytes ==
  ASSUME NEW m, PartsOK("vr_QueryParamsResponse", m), NEW g, Chained(g, 1, Parts("vr_QueryParamsResponse", m))
  PROVE  g[1] = Encoded("vr_QueryParamsResponse", m) /\ Len(g[1]) = SizeOf("vr_QueryParamsResponse", m)
<1> DEFINE p == Parts("vr_QueryParamsResponse", m)
<1>0. \A k \in 1..1 : /\ p[k] \in Seq(Byte)
                       /\ p[k] = Part(k, vr_QueryParamsResponse[k], m[vr_QueryParamsResponse[k].name])
                       /\ Len(p[k]) = PartSize(vr_QueryParamsResponse[k], m[vr_QueryParamsResponse[k].name])
  BY vr_QueryParamsResponseShape DEF PartsOK, Parts
<1> HIDE DEF p
<1>1. p[1] = Put(10, << >>) /\ Len(p[1]) = SizePut(0)
  <2> DEFINE f == Embedded("params", "vr_Params", vr_Params)
  <2>1. p[1] = Part(1, f, m[f.name]) /\ Len(p[1]) = PartSize(f, m[f.name])
    BY <1>0, vr_QueryParamsResponseShape
  <2>2. /\ Part(1, f, m[f.name]) = Put(8 * 1 + 2, Encoded("vr_Params", m.params))
        /\ PartSize(f, m[f.name]) = SizePut(SizeOf("vr_Params", m.params))
    BY NestedParts
  <2> HIDE DEF f
  <2> QED BY <2>1, <2>2, vr_ParamsCodec
<1>2. /\ g[1] = p[1]
      /\ Len(g[1]) = Len(p[1])
  <2>1. Chained(g, 1, p)
    BY DEF p
  <2>2. p[1] \in Seq(Byte) /\ 1 \in Nat /\ 1 >= 1
    BY <1>0
  <2> QED BY <2>1, <2>2, ChainOne
<1>3. /\ g[1] = Put(10, << >>)
      /\ Len(g[1]) = SizePut(0)
  BY <1>1, <1>2, Zenon
<1>4. Encoded("vr_QueryParamsResponse", m) = Marshal_vr_QueryParamsResponse(m) /\ SizeOf("vr_QueryParamsResponse", m) = Size_vr_QueryParamsResponse(m)
  BY DEF Encoded, SizeOf, Written, Size
<1> QED BY <1>3, <1>4 DEF Marshal_vr_QueryParamsResponse, Size_vr_QueryParamsResponse

(* What the codec of QueryGetValidatorRequest writes, and its size.        *)
LEMMA QueryGetValidatorRequestBytes ==
  ASSUME NEW m, PartsOK("QueryGetValidatorRequest", m), NEW g, Chained(g, 1, Parts("QueryGetValidatorRequest", m))
  PROVE  g[1] = Encoded("QueryGetValidatorRequest", m) /\ Len(g[1]) = SizeOf("QueryGetValidatorRequest", m)
<1> DEFINE p == Parts("QueryGetValidatorRequest", m)
<1>0. \A k \in 1..1 : /\ p[k] \in Seq(Byte)
                       /\ p[k] = Part(k, QueryGetValidatorRequest[k], m[QueryGetValidatorRequest[k].name])
                       /\ Len(p[k]) = PartSize(QueryGetValidatorRequest[k], m[QueryGetValidatorRequest[k].name])
  BY QueryGetValidatorRequestShape DEF PartsOK, Parts
<1> HIDE DEF p
<1>1. p[1] = PutText(10, m.index) /\ Len(p[1]) = SizeText(m.index)
  <2>1. p[1] = Part(1, Text("index"), m.index) /\ Len(p[1]) = PartSize(Text("index"), m.index)
    BY <1>0, QueryGetValidatorRequestShape, PlainFields
  <2> QED BY <2>1, PlainParts
<1>2. /\ g[1] = p[1]
      /\ Len(g[1]) = Len(p[1])
  <2>1. Chained(g, 1, p)
    BY DEF p
  <2>2. p[1] \in Seq(Byte) /\ 1 \in Nat /\ 1 >= 1
    BY <1>0
  <2> QED BY <2>1, <2>2, ChainOne
<1>3. /\ g[1] = PutText(10, m.index)
      /\ Len(g[1]) = SizeText(m.index)
  BY <1>1, <1>2, Zenon
<1>4. Encoded("QueryGetValidatorRequest", m) = Marshal_QueryGetValidatorRequest(m) /\ SizeOf("QueryGetValidatorRequest", m) = Size_QueryGetValidatorRequest(m)
  BY DEF Encoded, SizeOf, Written, Size
<1> QED BY <1>3, <1>4 DEF Marshal_QueryGetValidatorRequest, Size_QueryGetValidatorRequest

(* What the codec of QueryGetValidatorResponse writes, and its size.       *)
LEMMA QueryGetValidatorResponseBytes ==
  ASSUME NEW m, PartsOK("QueryGetValidatorResponse", m), NEW g, Chained(g, 1, Parts("QueryGetValidatorResponse", m))
  PROVE  g[1] = Encoded("QueryGetValidatorResponse", m) /\ Len(g[1]) = SizeOf("QueryGetValidatorResponse", m)
<1> DEFINE p == Parts("QueryGetValidatorResponse", m)
<1>0. \A k \in 1..1 : /\ p[k] \in Seq(Byte)
                       /\ p[k] = Part(k, QueryGetValidatorResponse[k], m[QueryGetValidatorResponse[k].name])
                       /\ Len(p[k]) = PartSize(QueryGetValidatorResponse[k], m[QueryGetValidatorResponse[k].name])
  BY QueryGetValidatorResponseShape DEF PartsOK, Parts
<1> HIDE DEF p
<1>1. p[1] = Put(10, Marshal_Validator(m.validator)) /\ Len(p[1]) = SizePut(Size_Validator(m.validator))
  <2> DEFINE f == Embedded("validator", "Validator", Validator)
  <2>1. p[1] = Part(1, f, m[f.name]) /\ Len(p[1]) = PartSize(f, m[f.name])
    BY <1>0, QueryGetValidatorResponseShape
  <2>2. /\ Part(1, f, m[f.name]) = Put(8 * 1 + 2, Encoded("Validator", m.validator))
        /\ PartSize(f, m[f.name]) = SizePut(SizeOf("Validator", m.validator))
    BY NestedParts
  <2> HIDE DEF f
  <2> QED BY <2>1, <2>2, ValidatorCodec
<1>2. /\ g[1] = p[1]
      /\ Len(g[1]) = Len(p[1])
  <2>1. Chained(g, 1, p)
    BY DEF p
  <2>2. p[1] \in Seq(Byte) /\ 1 \in Nat /\ 1 >= 1
    BY <1>0
  <2> QED BY <2>1, <2>2, ChainOne
<1>3. /\ g[1] = Put(10, Marshal_Validator(m.validator))
      /\ Len(g[1]) = SizePut(Size_Validator(m.validator))
  BY <1>1, <1>2, Zenon
<1>4. Encoded("QueryGetValidatorResponse", m) = Marshal_QueryGetValidatorResponse(m) /\ SizeOf("QueryGetValidatorResponse", m) = Size_QueryGetValidatorResponse(m)
  BY DEF Encoded, SizeOf, Written, Size
<1> QED BY <1>3, <1>4 DEF Marshal_QueryGetValidatorResponse, Size_QueryGetValidatorResponse

(* What the codec of QueryAllValidatorRequest writes, and its size.        *)
LEMMA QueryAllValidatorRequestBytes ==
  ASSUME NEW m, PartsOK("QueryAllValidatorRequest", m), NEW g, Chained(g, 1, Parts("QueryAllValidatorRequest", m))
  PROVE  g[1] = Encoded("QueryAllValidatorRequest", m) /\ Len(g[1]) = SizeOf("QueryAllValidatorRequest", m)
<1> DEFINE p == Parts("QueryAllValidatorRequest", m)
<1>0. \A k \in 1..1 : /\ p[k] \in Seq(Byte)
                       /\ p[k] = Part(k, QueryAllValidatorRequest[k], m[QueryAllValidatorRequest[k].name])
                       /\ Len(p[k]) = PartSize(QueryAllValidatorRequest[k], m[QueryAllValidatorRequest[k].name])
  BY QueryAllValidatorRequestShape DEF PartsOK, Parts
<1> HIDE DEF p
<1>1. p[1] = PutEach(10, EachOf(m.pagination, Marshal_PageRequest)) /\ Len(p[1]) = SizeEach(EachOf(m.pagination, Size_PageRequest))
  <2> DEFINE f == Pointer("pagination", "PageRequest", PageRequest)
  <2>1. p[1] = Part(1, f, m[f.name]) /\ Len(p[1]) = PartSize(f, m[f.name])
    BY <1>0, QueryAllValidatorRequestShape
  <2>2. /\ Part(1, f, m[f.name]) = PutEach(8 * 1 + 2, EncodedEach("PageRequest", m.pagination))
        /\ PartSize(f, m[f.name]) = SizeEach(SizeOfEach("PageRequest", m.pagination))
    BY NestedParts
  <2> HIDE DEF f
  <2>3. /\ EncodedEach("PageRequest", m.pagination) = EachOf(m.pagination, Marshal_PageRequest)
        /\ SizeOfEach("PageRequest", m.pagination) = EachOf(m.pagination, Size_PageRequest)
    BY PageRequestEach
  <2>4. 8 * 1 + 2 = 10
    OBVIOUS
  <2> QED BY <2>1, <2>2, <2>3, <2>4, Zenon
<1>2. /\ g[1] = p[1]
      /\ Len(g[1]) = Len(p[1])
  <2>1. Chained(g, 1, p)
    BY DEF p
  <2>2. p[1] \in Seq(Byte) /\ 1 \in Nat /\ 1 >= 1
    BY <1>0
  <2> QED BY <2>1, <2>2, ChainOne
<1>3. /\ g[1] = PutEach(10, EachOf(m.pagination, Marshal_PageRequest))
      /\ Len(g[1]) = SizeEach(EachOf(m.pagination, Size_PageRequest))
  BY <1>1, <1>2, Zenon
<1>4. Encoded("QueryAllValidatorRequest", m) = Marshal_QueryAllValidatorRequest(m) /\ SizeOf("QueryAllValidatorRequest", m) = Size_QueryAllValidatorRequest(m)
  BY DEF Encoded, SizeOf, Written, Size
<1> QED BY <1>3, <1>4 DEF Marshal_QueryAllValidatorRequest, Size_QueryAllValidatorRequest

(* What the codec of QueryAllValidatorResponse writes, and its size.       *)
LEMMA QueryAllValidatorResponseBytes ==
  ASSUME NEW m, PartsOK("QueryAllValidatorResponse", m), NEW g, Chained(g, 2, Parts("QueryAllValidatorResponse", m))
  PROVE  g[2] = Encoded("QueryAllValidatorResponse", m) /\ Len(g[2]) = SizeOf("QueryAllValidatorResponse", m)
<1> DEFINE p == Parts("QueryAllValidatorResponse", m)
<1>0. \A k \in 1..2 : /\ p[k] \in Seq(Byte)
                       /\ p[k] = Part(k, QueryAllValidatorResponse[k], m[QueryAllValidatorResponse[k].name])
                       /\ Len(p[k]) = PartSize(QueryAllValidatorResponse[k], m[QueryAllValidatorResponse[k].name])
  BY QueryAllValidatorResponseShape DEF PartsOK, Parts
<1> HIDE DEF p
<1>1. p[1] = PutEach(10, EachOf(m.validator, Marshal_Validator)) /\ Len(p[1]) = SizeEach(EachOf(m.validator, Size_Validator))
  <2> DEFINE f == Repeated("validator", "Validator", Validator)
  <2>1. p[1] = Part(1, f, m[f.name]) /\ Len(p[1]) = PartSize(f, m[f.name])
    BY <1>0, QueryAllValidatorResponseShape
  <2>2. /\ Part(1, f, m[f.name]) = PutEach(8 * 1 + 2, EncodedEach("Validator", m.validator))
        /\ PartSize(f, m[f.name]) = SizeEach(SizeOfEach("Validator", m.validator))
    BY NestedParts
  <2> HIDE DEF f
  <2>3. /\ EncodedEach("Validator", m.validator) = EachOf(m.validator, Marshal_Validator)
        /\ SizeOfEach("Validator", m.validator) = EachOf(m.validator, Size_Validator)
    BY ValidatorEach
  <2>4. 8 * 1 + 2 = 10
    OBVIOUS
  <2> QED BY <2>1, <2>2, <2>3, <2>4, Zenon
<1>2. p[2] = PutEach(18, EachOf(m.pagination, Marshal_PageResponse)) /\ Len(p[2]) = SizeEach(EachOf(m.pagination, Size_PageResponse))
  <2> DEFINE f == Pointer("pagination", "PageResponse", PageResponse)
  <2>1. p[2] = Part(2, f, m[f.name]) /\ Len(p[2]) = PartSize(f, m[f.name])
    BY <1>0, QueryAllValidatorResponseShape
  <2>2. /\ Part(2, f, m[f.name]) = PutEach(8 * 2 + 2, EncodedEach("PageResponse", m.pagination))
        /\ PartSize(f, m[f.name]) = SizeEach(SizeOfEach("PageResponse", m.pagination))
    BY NestedParts
  <2> HIDE DEF f
  <2>3. /\ EncodedEach("PageResponse", m.pagination) = EachOf(m.pagination, Marshal_PageResponse)
        /\ SizeOfEach("PageResponse", m.pagination) = EachOf(m.pagination, Size_PageResponse)
    BY PageResponseEach
  <2>4. 8 * 2 + 2 = 18
    OBVIOUS
  <2> QED BY <2>1, <2>2, <2>3, <2>4, Zenon
<1>3. /\ g[2] = p[1] \o p[2]
      /\ Len(g[2]) = Len(p[1]) + Len(p[2])
  <2>1. Chained(g, 2, p)
    BY DEF p
  <2>2. BytesTo(p, 2)
    BY <1>0 DEF BytesTo
  <2> QED BY <2>1, <2>2, ChainTwo
<1>4. /\ g[2] = PutEach(10, EachOf(m.validator, Marshal_Validator))
               \o PutEach(18, EachOf(m.pagination, Marshal_PageResponse))
      /\ Len(g[2]) = SizeEach(EachOf(m.validator, Size_Validator))
               + SizeEach(EachOf(m.pagination, Size_PageResponse))
  BY <1>1, <1>2, <1>3, Zenon
<1>5. Encoded("QueryAllValidatorResponse", m) = Marshal_QueryAllValidatorResponse(m) /\ SizeOf("QueryAllValidatorResponse", m) = Size_QueryAllValidatorResponse(m)
  BY DEF Encoded, SizeOf, Written, Size
<1> QED BY <1>4, <1>5 DEF Marshal_QueryAllValidatorResponse, Size_QueryAllValidatorResponse

Flat(type) == \A k \in DOMAIN Fields[type] : Fields[type][k].kind \in Scalars

(* A message has at most seven fields, numbered from one.                  *)
LEMMA FieldOf ==
  ASSUME NEW type \in Types
  PROVE  /\ Len(Fields[type]) \in 0..7 /\ Len(Fields[type]) \in Nat
         /\ DOMAIN Fields[type] = 1..Len(Fields[type])
         /\ \A k \in 1..Len(Fields[type]) : k \in 1..7 /\ FieldOK(Fields[type][k])
<1> DEFINE fields == Fields[type]
<1>1. SchemaOK(fields)
  BY Schema
<1> HIDE DEF fields
<1>2. /\ Len(fields) \in 0..7
      /\ DOMAIN fields = 1..Len(fields)
      /\ \A k \in DOMAIN fields : FieldOK(fields[k])
  BY <1>1 DEF SchemaOK
<1>3. \A k \in 1..Len(fields) : k \in 1..7
  BY <1>2
<1>4. Len(fields) \in Nat
  BY <1>2
<1> QED BY <1>2, <1>3, <1>4 DEF fields

(* The chain of a message's parts is what its codec writes, and as long as *)
(* its size.                                                               *)
LEMMA ChainIsEncoding ==
  ASSUME NEW type \in Types, NEW m, PartsOK(type, m),
         NEW g, Chained(g, Len(Fields[type]), Parts(type, m))
  PROVE  g[Len(Fields[type])] = Encoded(type, m) /\ Len(Encoded(type, m)) = SizeOf(type, m)
<1>1. CASE type \in {"td_Params", "td_DustAmount", "td_GenesisState",
                     "td_Module", "td_MsgUpdateParams",
                     "td_MsgUpdateParamsResponse", "td_MsgFundModule",
                     "td_MsgFundModuleResponse", "td_QueryParamsRequest",
                     "td_QueryParamsResponse", "PageRequest", "PageResponse",
                     "Validator"}
  <2>1. CASE type = "td_Params"
    <3>1. Len(Fields["td_Params"]) = 3 /\ Chained(g, 3, Parts("td_Params", m))
      BY <2>1, td_ParamsShape
    <3>2. g[3] = Encoded("td_Params", m) /\ Len(g[3]) = SizeOf("td_Params", m)
      BY <2>1, <3>1, td_ParamsBytes
    <3> QED BY <2>1, <3>1, <3>2
  <2>2. CASE type = "td_DustAmount"
    <3>1. Len(Fields["td_DustAmount"]) = 1 /\ Chained(g, 1, Parts("td_DustAmount", m))
      BY <2>2, td_DustAmountShape
    <3>2. g[1] = Encoded("td_DustAmount", m) /\ Len(g[1]) = SizeOf("td_DustAmount", m)
      BY <2>2, <3>1, td_DustAmountBytes
    <3> QED BY <2>2, <3>1, <3>2
  <2>3. CASE type = "td_GenesisState"
    <3>1. Len(Fields["td_GenesisState"]) = 1 /\ Chained(g, 1, Parts("td_GenesisState", m))
      BY <2>3, td_GenesisStateShape
    <3>2. g[1] = Encoded("td_GenesisState", m) /\ Len(g[1]) = SizeOf("td_GenesisState", m)
      BY <2>3, <3>1, td_GenesisStateBytes
    <3> QED BY <2>3, <3>1, <3>2
  <2>4. CASE type = "td_Module"
    <3>1. Len(Fields["td_Module"]) = 1 /\ Chained(g, 1, Parts("td_Module", m))
      BY <2>4, td_ModuleShape
    <3>2. g[1] = Encoded("td_Module", m) /\ Len(g[1]) = SizeOf("td_Module", m)
      BY <2>4, <3>1, td_ModuleBytes
    <3> QED BY <2>4, <3>1, <3>2
  <2>5. CASE type = "td_MsgUpdateParams"
    <3>1. Len(Fields["td_MsgUpdateParams"]) = 2 /\ Chained(g, 2, Parts("td_MsgUpdateParams", m))
      BY <2>5, td_MsgUpdateParamsShape
    <3>2. g[2] = Encoded("td_MsgUpdateParams", m) /\ Len(g[2]) = SizeOf("td_MsgUpdateParams", m)
      BY <2>5, <3>1, td_MsgUpdateParamsBytes
    <3> QED BY <2>5, <3>1, <3>2
  <2>6. CASE type = "td_MsgUpdateParamsResponse"
    <3>1. Len(Fields["td_MsgUpdateParamsResponse"]) = 0 /\ Chained(g, 0, Parts("td_MsgUpdateParamsResponse", m))
      BY <2>6, td_MsgUpdateParamsResponseShape
    <3>2. g[0] = Encoded("td_MsgUpdateParamsResponse", m) /\ Len(g[0]) = SizeOf("td_MsgUpdateParamsResponse", m)
      BY <2>6, <3>1, td_MsgUpdateParamsResponseBytes
    <3> QED BY <2>6, <3>1, <3>2
  <2>7. CASE type = "td_MsgFundModule"
    <3>1. Len(Fields["td_MsgFundModule"]) = 3 /\ Chained(g, 3, Parts("td_MsgFundModule", m))
      BY <2>7, td_MsgFundModuleShape
    <3>2. g[3] = Encoded("td_MsgFundModule", m) /\ Len(g[3]) = SizeOf("td_MsgFundModule", m)
      BY <2>7, <3>1, td_MsgFundModuleBytes
    <3> QED BY <2>7, <3>1, <3>2
  <2>8. CASE type = "td_MsgFundModuleResponse"
    <3>1. Len(Fields["td_MsgFundModuleResponse"]) = 0 /\ Chained(g, 0, Parts("td_MsgFundModuleResponse", m))
      BY <2>8, td_MsgFundModuleResponseShape
    <3>2. g[0] = Encoded("td_MsgFundModuleResponse", m) /\ Len(g[0]) = SizeOf("td_MsgFundModuleResponse", m)
      BY <2>8, <3>1, td_MsgFundModuleResponseBytes
    <3> QED BY <2>8, <3>1, <3>2
  <2>9. CASE type = "td_QueryParamsRequest"
    <3>1. Len(Fields["td_QueryParamsRequest"]) = 0 /\ Chained(g, 0, Parts("td_QueryParamsRequest", m))
      BY <2>9, td_QueryParamsRequestShape
    <3>2. g[0] = Encoded("td_QueryParamsRequest", m) /\ Len(g[0]) = SizeOf("td_QueryParamsRequest", m)
      BY <2>9, <3>1, td_QueryParamsRequestBytes
    <3> QED BY <2>9, <3>1, <3>2
  <2>10. CASE type = "td_QueryParamsResponse"
    <3>1. Len(Fields["td_QueryParamsResponse"]) = 1 /\ Chained(g, 1, Parts("td_QueryParamsResponse", m))
      BY <2>10, td_QueryParamsResponseShape
    <3>2. g[1] = Encoded("td_QueryParamsResponse", m) /\ Len(g[1]) = SizeOf("td_QueryParamsResponse", m)
      BY <2>10, <3>1, td_QueryParamsResponseBytes
    <3> QED BY <2>10, <3>1, <3>2
  <2>11. CASE type = "PageRequest"
    <3>1. Len(Fields["PageRequest"]) = 3 /\ Chained(g, 3, Parts("PageRequest", m))
      BY <2>11, PageRequestShape
    <3>2. g[3] = Encoded("PageRequest", m) /\ Len(g[3]) = SizeOf("PageRequest", m)
      BY <2>11, <3>1, PageRequestBytes
    <3> QED BY <2>11, <3>1, <3>2
  <2>12. CASE type = "PageResponse"
    <3>1. Len(Fields["PageResponse"]) = 2 /\ Chained(g, 2, Parts("PageResponse", m))
      BY <2>12, PageResponseShape
    <3>2. g[2] = Encoded("PageResponse", m) /\ Len(g[2]) = SizeOf("PageResponse", m)
      BY <2>12, <3>1, PageResponseBytes
    <3> QED BY <2>12, <3>1, <3>2
  <2>13. CASE type = "Validator"
    <3>1. Len(Fields["Validator"]) = 6 /\ Chained(g, 6, Parts("Validator", m))
      BY <2>13, ValidatorShape
    <3>2. g[6] = Encoded("Validator", m) /\ Len(g[6]) = SizeOf("Validator", m)
      BY <2>13, <3>1, ValidatorBytes
    <3> QED BY <2>13, <3>1, <3>2
  <2> QED BY <1>1, <2>1, <2>2, <2>3, <2>4, <2>5, <2>6, <2>7, <2>8, <2>9, <2>10, <2>11,
    <2>12, <2>13
<1>2. CASE type \in {"vr_Params", "vr_GenesisState", "vr_Module",
                     "vr_MsgUpdateParams", "vr_MsgUpdateParamsResponse",
                     "MsgOnboardValidator", "MsgOnboardValidatorResponse",
                     "vr_QueryParamsRequest", "vr_QueryParamsResponse",
                     "QueryGetValidatorRequest", "QueryGetValidatorResponse",
                     "QueryAllValidatorRequest", "QueryAllValidatorResponse"}
  <2>1. CASE type = "vr_Params"
    <3>1. Len(Fields["vr_Params"]) = 0 /\ Chained(g, 0, Parts("vr_Params", m))
      BY <2>1, vr_ParamsShape
    <3>2. g[0] = Encoded("vr_Params", m) /\ Len(g[0]) = SizeOf("vr_Params", m)
      BY <2>1, <3>1, vr_ParamsBytes
    <3> QED BY <2>1, <3>1, <3>2
  <2>2. CASE type = "vr_GenesisState"
    <3>1. Len(Fields["vr_GenesisState"]) = 2 /\ Chained(g, 2, Parts("vr_GenesisState", m))
      BY <2>2, vr_GenesisStateShape
    <3>2. g[2] = Encoded("vr_GenesisState", m) /\ Len(g[2]) = SizeOf("vr_GenesisState", m)
      BY <2>2, <3>1, vr_GenesisStateBytes
    <3> QED BY <2>2, <3>1, <3>2
  <2>3. CASE type = "vr_Module"
    <3>1. Len(Fields["vr_Module"]) = 1 /\ Chained(g, 1, Parts("vr_Module", m))
      BY <2>3, vr_ModuleShape
    <3>2. g[1] = Encoded("vr_Module", m) /\ Len(g[1]) = SizeOf("vr_Module", m)
      BY <2>3, <3>1, vr_ModuleBytes
    <3> QED BY <2>3, <3>1, <3>2
  <2>4. CASE type = "vr_MsgUpdateParams"
    <3>1. Len(Fields["vr_MsgUpdateParams"]) = 2 /\ Chained(g, 2, Parts("vr_MsgUpdateParams", m))
      BY <2>4, vr_MsgUpdateParamsShape
    <3>2. g[2] = Encoded("vr_MsgUpdateParams", m) /\ Len(g[2]) = SizeOf("vr_MsgUpdateParams", m)
      BY <2>4, <3>1, vr_MsgUpdateParamsBytes
    <3> QED BY <2>4, <3>1, <3>2
  <2>5. CASE type = "vr_MsgUpdateParamsResponse"
    <3>1. Len(Fields["vr_MsgUpdateParamsResponse"]) = 0 /\ Chained(g, 0, Parts("vr_MsgUpdateParamsResponse", m))
      BY <2>5, vr_MsgUpdateParamsResponseShape
    <3>2. g[0] = Encoded("vr_MsgUpdateParamsResponse", m) /\ Len(g[0]) = SizeOf("vr_MsgUpdateParamsResponse", m)
      BY <2>5, <3>1, vr_MsgUpdateParamsResponseBytes
    <3> QED BY <2>5, <3>1, <3>2
  <2>6. CASE type = "MsgOnboardValidator"
    <3>1. Len(Fields["MsgOnboardValidator"]) = 7 /\ Chained(g, 7, Parts("MsgOnboardValidator", m))
      BY <2>6, MsgOnboardValidatorShape
    <3>2. g[7] = Encoded("MsgOnboardValidator", m) /\ Len(g[7]) = SizeOf("MsgOnboardValidator", m)
      BY <2>6, <3>1, MsgOnboardValidatorBytes
    <3> QED BY <2>6, <3>1, <3>2
  <2>7. CASE type = "MsgOnboardValidatorResponse"
    <3>1. Len(Fields["MsgOnboardValidatorResponse"]) = 0 /\ Chained(g, 0, Parts("MsgOnboardValidatorResponse", m))
      BY <2>7, MsgOnboardValidatorResponseShape
    <3>2. g[0] = Encoded("MsgOnboardValidatorResponse", m) /\ Len(g[0]) = SizeOf("MsgOnboardValidatorResponse", m)
      BY <2>7, <3>1, MsgOnboardValidatorResponseBytes
    <3> QED BY <2>7, <3>1, <3>2
  <2>8. CASE type = "vr_QueryParamsRequest"
    <3>1. Len(Fields["vr_QueryParamsRequest"]) = 0 /\ Chained(g, 0, Parts("vr_QueryParamsRequest", m))
      BY <2>8, vr_QueryParamsRequestShape
    <3>2. g[0] = Encoded("vr_QueryParamsRequest", m) /\ Len(g[0]) = SizeOf("vr_QueryParamsRequest", m)
      BY <2>8, <3>1, vr_QueryParamsRequestBytes
    <3> QED BY <2>8, <3>1, <3>2
  <2>9. CASE type = "vr_QueryParamsResponse"
    <3>1. Len(Fields["vr_QueryParamsResponse"]) = 1 /\ Chained(g, 1, Parts("vr_QueryParamsResponse", m))
      BY <2>9, vr_QueryParamsResponseShape
    <3>2. g[1] = Encoded("vr_QueryParamsResponse", m) /\ Len(g[1]) = SizeOf("vr_QueryParamsResponse", m)
      BY <2>9, <3>1, vr_QueryParamsResponseBytes
    <3> QED BY <2>9, <3>1, <3>2
  <2>10. CASE type = "QueryGetValidatorRequest"
    <3>1. Len(Fields["QueryGetValidatorRequest"]) = 1 /\ Chained(g, 1, Parts("QueryGetValidatorRequest", m))
      BY <2>10, QueryGetValidatorRequestShape
    <3>2. g[1] = Encoded("QueryGetValidatorRequest", m) /\ Len(g[1]) = SizeOf("QueryGetValidatorRequest", m)
      BY <2>10, <3>1, QueryGetValidatorRequestBytes
    <3> QED BY <2>10, <3>1, <3>2
  <2>11. CASE type = "QueryGetValidatorResponse"
    <3>1. Len(Fields["QueryGetValidatorResponse"]) = 1 /\ Chained(g, 1, Parts("QueryGetValidatorResponse", m))
      BY <2>11, QueryGetValidatorResponseShape
    <3>2. g[1] = Encoded("QueryGetValidatorResponse", m) /\ Len(g[1]) = SizeOf("QueryGetValidatorResponse", m)
      BY <2>11, <3>1, QueryGetValidatorResponseBytes
    <3> QED BY <2>11, <3>1, <3>2
  <2>12. CASE type = "QueryAllValidatorRequest"
    <3>1. Len(Fields["QueryAllValidatorRequest"]) = 1 /\ Chained(g, 1, Parts("QueryAllValidatorRequest", m))
      BY <2>12, QueryAllValidatorRequestShape
    <3>2. g[1] = Encoded("QueryAllValidatorRequest", m) /\ Len(g[1]) = SizeOf("QueryAllValidatorRequest", m)
      BY <2>12, <3>1, QueryAllValidatorRequestBytes
    <3> QED BY <2>12, <3>1, <3>2
  <2>13. CASE type = "QueryAllValidatorResponse"
    <3>1. Len(Fields["QueryAllValidatorResponse"]) = 2 /\ Chained(g, 2, Parts("QueryAllValidatorResponse", m))
      BY <2>13, QueryAllValidatorResponseShape
    <3>2. g[2] = Encoded("QueryAllValidatorResponse", m) /\ Len(g[2]) = SizeOf("QueryAllValidatorResponse", m)
      BY <2>13, <3>1, QueryAllValidatorResponseBytes
    <3> QED BY <2>13, <3>1, <3>2
  <2> QED BY <1>2, <2>1, <2>2, <2>3, <2>4, <2>5, <2>6, <2>7, <2>8, <2>9, <2>10, <2>11,
    <2>12, <2>13
<1> QED BY <1>1, <1>2, TypesKnown

(* A message whose parts are bytes is written as bytes.                    *)
LEMMA EncodingOfParts ==
  ASSUME NEW type \in Types, NEW m, PartsOK(type, m)
  PROVE  Encoded(type, m) \in Seq(Byte) /\ Len(Encoded(type, m)) = SizeOf(type, m)
<1> DEFINE n == Len(Fields[type])
           p == Parts(type, m)
<1>1. n \in Nat
  BY FieldOf
<1>2. \A k \in 1..n : p[k] \in Seq(Byte)
  BY DEF PartsOK
<1> HIDE DEF n, p
<1>3. PICK g : Chained(g, n, p)
  BY <1>1, <1>2, ChainExists
<1>4. g[n] = Encoded(type, m) /\ Len(Encoded(type, m)) = SizeOf(type, m)
  <2>1. Chained(g, Len(Fields[type]), Parts(type, m))
    BY <1>3 DEF n, p
  <2>2. g[Len(Fields[type])] = Encoded(type, m) /\ Len(Encoded(type, m)) = SizeOf(type, m)
    BY <2>1, ChainIsEncoding
  <2> QED BY <2>2 DEF n
<1>5. g[n] \in Seq(Byte)
  <2>1. n \in 0..n
    BY <1>1
  <2> QED BY <1>3, <2>1 DEF Chained
<1> QED BY <1>4, <1>5

(* The parts are bytes when the values of the fields are of their kinds.   *)
LEMMA PartsOfFields ==
  ASSUME NEW type \in Types, NEW m,
         \A k \in 1..Len(Fields[type]) :
           LET f == Fields[type][k] IN
           /\ IsScalar(Decimals, f, m[f.name])
           /\ IsNested(Decimals, f, m[f.name])
           /\ NestedBytes(f, m[f.name])
  PROVE  PartsOK(type, m)
<1>1. SUFFICES ASSUME NEW k \in 1..Len(Fields[type])
               PROVE  /\ Parts(type, m)[k] \in Seq(Byte)
                      /\ Len(Parts(type, m)[k])
                           = PartSize(Fields[type][k], m[Fields[type][k].name])
  BY DEF PartsOK
<1> DEFINE f == Fields[type][k]
           x == m[f.name]
<1>2. Parts(type, m)[k] = Part(k, f, x)
  BY DEF Parts
<1>3. k \in 1..7 /\ FieldOK(f)
  BY FieldOf
<1>4. IsScalar(Decimals, f, x) /\ IsNested(Decimals, f, x) /\ NestedBytes(f, x)
  OBVIOUS
<1> HIDE DEF f, x
<1>5. Part(k, f, x) \in Seq(Byte) /\ Len(Part(k, f, x)) = PartSize(f, x)
  BY <1>3, <1>4, PartBytes
<1> QED BY <1>2, <1>5 DEF f, x

(* A message without messages in it is written.                            *)
LEMMA PlainIsWritten ==
  ASSUME NEW type \in Types, Flat(type), NEW m, IsPlain(Decimals, Fields[type], m)
  PROVE  PartsOK(type, m)
<1>1. ASSUME NEW k \in 1..Len(Fields[type])
      PROVE  LET f == Fields[type][k] IN
             /\ IsScalar(Decimals, f, m[f.name])
             /\ IsNested(Decimals, f, m[f.name])
             /\ NestedBytes(f, m[f.name])
  <2> DEFINE f == Fields[type][k]
  <2>1. k \in DOMAIN Fields[type]
    BY FieldOf
  <2>2. IsScalar(Decimals, f, m[f.name])
    BY <2>1 DEF IsPlain
  <2>3. f.kind \in Scalars
    BY <2>1 DEF Flat
  <2> QED BY <2>2, <2>3 DEF IsNested, NestedBytes, Scalars, Lists
<1> QED BY <1>1, PartsOfFields

(* A message inside a message is written.                                  *)
LEMMA EntryIsWritten ==
  ASSUME NEW of \in Types, Flat(of), NEW x, IsEntry(Decimals, of, x)
  PROVE  EntryBytes(of, x) /\ PartsOK(of, x)
<1>1. IsPlain(Decimals, Fields[of], x) /\ Len(Encoded(of, x)) < Half
  BY DEF IsEntry
<1>2. PartsOK(of, x)
  BY <1>1, PlainIsWritten
<1>3. Encoded(of, x) \in Seq(Byte) /\ Len(Encoded(of, x)) = SizeOf(of, x)
  BY <1>2, EncodingOfParts
<1> QED BY <1>1, <1>2, <1>3 DEF EntryBytes, Buffers

(* The messages of a field are written.                                    *)
LEMMA NestedIsWritten ==
  ASSUME NEW f, FieldOK(f), NEW x, IsNested(Decimals, f, x)
  PROVE  NestedBytes(f, x)
<1>1. CASE f.kind \in Scalars
  BY <1>1 DEF NestedBytes, Scalars, Lists
<1>2. CASE f.kind \notin Scalars
  <2>1. f.of \in Types /\ Flat(f.of)
    BY <1>2 DEF FieldOK, Flat
  <2>2. CASE f.kind = "embedded"
    <3>1. IsEntry(Decimals, f.of, x)
      BY <2>2 DEF IsNested
    <3>2. EntryBytes(f.of, x)
      BY <2>1, <3>1, EntryIsWritten
    <3> QED BY <2>2, <3>2 DEF NestedBytes, Lists
  <2>3. CASE f.kind # "embedded"
    <3>1. f.kind \in Lists
      BY <1>2, <2>3 DEF FieldOK
    <3>2. ASSUME NEW j \in 1..Len(x) PROVE EntryBytes(f.of, x[j])
      <4> DEFINE y == x[j]
      <4>1. IsEntry(Decimals, f.of, y)
        BY <3>1 DEF IsNested
      <4> HIDE DEF y
      <4>2. EntryBytes(f.of, y)
        BY <2>1, <4>1, EntryIsWritten
      <4> QED BY <4>2 DEF y
    <3> QED BY <2>3, <3>2 DEF NestedBytes
  <2> QED BY <2>2, <2>3
<1> QED BY <1>1, <1>2

(* Every message is written.                                               *)
LEMMA MessageIsWritten ==
  ASSUME NEW type \in Types, NEW m, IsMessage(Decimals, type, m)
  PROVE  PartsOK(type, m)
<1>1. ASSUME NEW k \in 1..Len(Fields[type])
      PROVE  LET f == Fields[type][k] IN
             /\ IsScalar(Decimals, f, m[f.name])
             /\ IsNested(Decimals, f, m[f.name])
             /\ NestedBytes(f, m[f.name])
  <2> DEFINE f == Fields[type][k]
             x == m[f.name]
  <2>1. k \in DOMAIN Fields[type] /\ FieldOK(f)
    BY FieldOf
  <2>2. IsScalar(Decimals, f, x) /\ IsNested(Decimals, f, x)
    BY <2>1 DEF IsMessage
  <2> HIDE DEF f, x
  <2>3. NestedBytes(f, x)
    BY <2>1, <2>2, NestedIsWritten
  <2> QED BY <2>2, <2>3 DEF f, x
<1> QED BY <1>1, PartsOfFields

(* A buffer of the right size is filled from its first byte.               *)
LEMMA BufferOfSize ==
  ASSUME NEW b \in Seq(Byte)
  PROVE  SizedBuffer(Len(b), b) = b
<1> DEFINE n == Len(b)
<1>1. n \in Nat
  BY LenProperties
<1>2. [k \in 1..(n - n) |-> 0] = << >>
  BY <1>1
<1>3. << >> \o b = b
  BY ConcatEmptySeq
<1>4. SubSeq(b, 1, Len(b)) = b
  BY SubSeqFull
<1> HIDE DEF n
<1>5. SizedBuffer(n, b) = SubSeq([k \in 1..(n - n) |-> 0] \o b, 1, n)
  BY <1>1 DEF SizedBuffer, n
<1> QED BY <1>2, <1>3, <1>4, <1>5 DEF n

(* The messages with a generated codec in this repository.                 *)
Codecs == Types \ {"PageRequest", "PageResponse"}

(* Every message is marshalled into exactly the bytes of its fields: its   *)
(* Size is the number of bytes it writes, so the buffer made from it is    *)
(* neither too small nor left with zeros in front.                         *)
THEOREM SizeIsLength ==
  ASSUME NEW type \in Codecs, NEW m, IsMessage(Decimals, type, m)
  PROVE  /\ Written(type, m) \in Seq(Byte)
         /\ Len(Written(type, m)) = Size(type, m)
         /\ Marshal(type, m) = Written(type, m)
<1>1. type \in Types
  BY DEF Codecs
<1>2. PartsOK(type, m)
  BY <1>1, MessageIsWritten
<1>3. Encoded(type, m) \in Seq(Byte) /\ Len(Encoded(type, m)) = SizeOf(type, m)
  BY <1>1, <1>2, EncodingOfParts
<1>4. Encoded(type, m) = Written(type, m) /\ SizeOf(type, m) = Size(type, m)
  BY DEF Codecs, Encoded, SizeOf
<1>5. Written(type, m) \in Seq(Byte) /\ Len(Written(type, m)) = Size(type, m)
  BY <1>3, <1>4
<1>6. SizedBuffer(Len(Written(type, m)), Written(type, m)) = Written(type, m)
  BY <1>5, BufferOfSize
<1> QED BY <1>5, <1>6 DEF Marshal

(* The items of a field: what is written after one tag, as often as the    *)
(* tag appears.                                                            *)
Count(f, x) ==
  CASE f.kind = "text" -> IF x = << >> THEN 0 ELSE 1
    [] f.kind \in Numbers -> IF x = 0 THEN 0 ELSE 1
    [] f.kind \in Lists -> Len(x)
    [] OTHER -> 1
Entry(f, x, j) == IF f.kind \in Lists THEN x[j] ELSE x
Body(f, x, j) ==
  CASE f.kind = "text" -> x
    [] f.kind = "dec" -> DecBytes(x)
    [] OTHER -> Encoded(f.of, Entry(f, x, j))
TagOf(n, f) == IF f.kind \in Numbers THEN 8 * n ELSE 8 * n + 2
Rest(f, x, j) ==
  IF f.kind \in Numbers THEN EncodeVarint(x % Word)
  ELSE EncodeVarint(Len(Body(f, x, j))) \o Body(f, x, j)
Item(n, f, x, j) == <<TagOf(n, f)>> \o Rest(f, x, j)
Items(n, f, x) == [j \in 1..Count(f, x) |-> Item(n, f, x, j)]

FieldValue(f, x) == FieldOK(f) /\ IsScalar(Settled, f, x) /\ IsNested(Settled, f, x)

(* The values that can be read back are values that can be written.        *)
LEMMA SettledDecimals ==
  /\ Settled \subseteq Decimals
  /\ \A f, x : IsScalar(Settled, f, x) => IsScalar(Decimals, f, x)
  /\ \A fields, m : IsPlain(Settled, fields, m) => IsPlain(Decimals, fields, m)
  /\ \A of, x : IsEntry(Settled, of, x) => IsEntry(Decimals, of, x)
  /\ \A f, x : IsNested(Settled, f, x) => IsNested(Decimals, f, x)
  /\ \A type, m : IsMessage(Settled, type, m) => IsMessage(Decimals, type, m)
<1>1. Settled \subseteq Decimals
  BY DEF Settled
<1>2. ASSUME NEW f, NEW x, IsScalar(Settled, f, x) PROVE IsScalar(Decimals, f, x)
  BY <1>1, <1>2 DEF IsScalar
<1>3. ASSUME NEW fields, NEW m, IsPlain(Settled, fields, m)
      PROVE  IsPlain(Decimals, fields, m)
  BY <1>2, <1>3 DEF IsPlain
<1>4. ASSUME NEW of, NEW x, IsEntry(Settled, of, x) PROVE IsEntry(Decimals, of, x)
  BY <1>3, <1>4 DEF IsEntry
<1>5. ASSUME NEW f, NEW x, IsNested(Settled, f, x) PROVE IsNested(Decimals, f, x)
  BY <1>4, <1>5 DEF IsNested
<1>6. ASSUME NEW type, NEW m, IsMessage(Settled, type, m)
      PROVE  IsMessage(Decimals, type, m)
  BY <1>2, <1>5, <1>6 DEF IsMessage
<1> QED BY <1>1, <1>2, <1>3, <1>4, <1>5, <1>6

(* The payload of an item is a buffer.                                     *)
LEMMA BodyBytes ==
  ASSUME NEW f, NEW x, FieldValue(f, x), f.kind \notin Numbers,
         NEW j \in Nat, j \in 1..Count(f, x)
  PROVE  Body(f, x, j) \in Buffers
<1>0. FieldOK(f) /\ IsScalar(Settled, f, x) /\ IsNested(Settled, f, x)
  BY DEF FieldValue
<1>1. CASE f.kind = "text"
  BY <1>0, <1>1 DEF IsScalar, Body
<1>2. CASE f.kind = "dec"
  <2>1. x \in Decimals
    BY <1>0, <1>2, SettledDecimals DEF IsScalar
  <2> QED BY <1>2, <2>1, DecIsBuffer DEF Body
<1>3. CASE f.kind \notin {"text", "dec"}
  <2> DEFINE y == Entry(f, x, j)
  <2>1. f.kind \notin Scalars
    BY <1>3 DEF Scalars, Numbers
  <2>2. f.of \in Types /\ Flat(f.of)
    BY <1>0, <2>1 DEF FieldOK, Flat
  <2>3. IsEntry(Settled, f.of, y)
    <3>1. CASE f.kind \in Lists
      <4>1. Count(f, x) = Len(x)
        BY <3>1 DEF Count, Lists, Numbers
      <4>2. \A i \in 1..Len(x) : IsEntry(Settled, f.of, x[i])
        BY <1>0, <3>1 DEF IsNested
      <4> QED BY <3>1, <4>1, <4>2 DEF Entry
    <3>2. CASE f.kind \notin Lists
      <4>1. f.kind = "embedded"
        BY <1>0, <2>1, <3>2 DEF FieldOK
      <4>2. IsEntry(Settled, f.of, x)
        BY <1>0, <4>1 DEF IsNested
      <4> QED BY <3>2, <4>2 DEF Entry
    <3> QED BY <3>1, <3>2
  <2>4. IsEntry(Decimals, f.of, y)
    BY <2>3, SettledDecimals
  <2>5. Body(f, x, j) = Encoded(f.of, y)
    BY <1>3 DEF Body
  <2> HIDE DEF y
  <2>6. EntryBytes(f.of, y)
    BY <2>2, <2>4, EntryIsWritten
  <2> QED BY <2>5, <2>6 DEF EntryBytes
<1> QED BY <1>1, <1>2, <1>3

(* What follows the tag of an item is bytes.                               *)
LEMMA RestBytes ==
  ASSUME NEW f, NEW x, FieldValue(f, x), NEW j \in Nat, j \in 1..Count(f, x)
  PROVE  Rest(f, x, j) \in Seq(Byte) /\ Len(Rest(f, x, j)) \in Nat \ {0}
<1>0. FieldOK(f) /\ IsScalar(Settled, f, x)
  BY DEF FieldValue
<1>1. CASE f.kind \in Numbers
  <2>1. x \in (-Half)..(Word - 1)
    BY <1>0, <1>1 DEF IsScalar, Numbers, Word
  <2> DEFINE w == x % Word
  <2>2. w \in 0..(Word - 1)
    BY <2>1, WordFits
  <2>3. Rest(f, x, j) = EncodeVarint(w)
    BY <1>1 DEF Rest
  <2> HIDE DEF w
  <2>4. EncodeVarint(w) \in Seq(Byte) /\ Len(EncodeVarint(w)) = Sov(w) /\ Sov(w) \in Nat \ {0}
    BY <2>2, VarintBytes
  <2> QED BY <2>3, <2>4
<1>2. CASE f.kind \notin Numbers
  <2> DEFINE b == Body(f, x, j)
             v == Len(b)
             e == EncodeVarint(v)
  <2>1. b \in Buffers
    BY <1>2, BodyBytes
  <2>2. Rest(f, x, j) = e \o b
    BY <1>2 DEF Rest
  <2> HIDE DEF b
  <2>3. b \in Seq(Byte) /\ v \in 0..(Word - 1)
    <3>1. b \in Seq(Byte) /\ Len(b) < Half
      BY <2>1 DEF Buffers
    <3>2. Len(b) \in Nat
      BY <3>1, LenProperties
    <3> QED BY <3>1, <3>2 DEF Word
  <2> HIDE DEF v
  <2>4. e \in Seq(Byte) /\ Len(e) = Sov(v) /\ Sov(v) \in Nat \ {0}
    BY <2>3, VarintBytes
  <2> HIDE DEF e
  <2>5. e \o b \in Seq(Byte) /\ Len(e \o b) = Len(e) + Len(b) /\ Len(b) \in Nat
    BY <2>3, <2>4, ConcatBytes
  <2>6. Len(e \o b) \in Nat \ {0}
    BY <2>4, <2>5
  <2> QED BY <2>2, <2>5, <2>6
<1> QED BY <1>1, <1>2

(* An item is its tag, one byte, and the rest.                             *)
LEMMA ItemBytes ==
  ASSUME NEW n \in 1..7, NEW f, NEW x, FieldValue(f, x),
         NEW j \in Nat, j \in 1..Count(f, x)
  PROVE  /\ Item(n, f, x, j) \in Seq(Byte)
         /\ Len(Item(n, f, x, j)) = 1 + Len(Rest(f, x, j))
         /\ TagOf(n, f) \in 0..127
<1> DEFINE t == <<TagOf(n, f)>>
           r == Rest(f, x, j)
<1>1. TagOf(n, f) \in 0..127 /\ TagOf(n, f) \in Byte
  BY DEF TagOf, Byte
<1>2. t \in Seq(Byte) /\ Len(t) = 1
  BY <1>1
<1>3. r \in Seq(Byte)
  BY RestBytes
<1>4. Item(n, f, x, j) = t \o r
  BY DEF Item
<1> HIDE DEF t, r
<1>5. t \o r \in Seq(Byte) /\ Len(t \o r) = Len(t) + Len(r)
  BY <1>2, <1>3, ConcatBytes
<1> QED BY <1>1, <1>2, <1>4, <1>5 DEF r

(* What Put writes is an item.                                             *)
LEMMA PutIsItem ==
  ASSUME NEW n \in 1..7, NEW f, f.kind \notin Numbers, NEW x, FieldValue(f, x),
         NEW j \in Nat, j \in 1..Count(f, x)
  PROVE  Item(n, f, x, j) = Put(8 * n + 2, Body(f, x, j))
<1> DEFINE tag == 8 * n + 2
           t == <<tag>>
           b == Body(f, x, j)
           v == Len(b)
           e == EncodeVarint(v)
<1>1. b \in Buffers
  BY BodyBytes
<1>2. b \in Seq(Byte) /\ Len(b) < Half
  BY <1>1 DEF Buffers
<1>3. v \in 0..(Word - 1)
  <2>1. Len(b) \in Nat
    BY <1>2, LenProperties
  <2> QED BY <1>2, <2>1 DEF Word
<1>4. e \in Seq(Byte)
  <2> HIDE DEF v
  <2> QED BY <1>3, VarintBytes
<1>5. t \in Seq(Byte)
  <2>1. tag \in Byte
    BY DEF Byte
  <2> HIDE DEF tag
  <2> QED BY <2>1
<1>6. Item(n, f, x, j) = t \o (e \o b)
  BY DEF Item, TagOf, Rest
<1>7. Put(tag, b) = (t \o e) \o b
  BY DEF Put
<1> HIDE DEF t, e, b, tag
<1>8. (t \o e) \o b = t \o (e \o b)
  BY <1>2, <1>4, <1>5, ConcatAssociative
<1> QED BY <1>6, <1>7, <1>8 DEF tag, b

(* A field that is not a list is one item or nothing; a list is an item    *)
(* per entry.                                                              *)
LEMMA SingleField ==
  ASSUME NEW n \in 1..7, NEW f, NEW x, FieldValue(f, x), f.kind \notin Lists
  PROVE  /\ Count(f, x) \in {0, 1}
         /\ Count(f, x) = 0 => Part(n, f, x) = << >> /\ x = f.zero
         /\ Count(f, x) = 1 => Part(n, f, x) = Item(n, f, x, 1)
<1>0. FieldOK(f) /\ f.kind \in {"text", "uint64", "int64", "dec", "embedded"}
  BY DEF FieldValue, FieldOK, Scalars, Lists
<1>1. CASE f.kind = "text"
  <2>1. Count(f, x) = (IF x = << >> THEN 0 ELSE 1) /\ Part(n, f, x) = PutText(8 * n + 2, x)
    BY <1>1 DEF Count, Part, Numbers, Lists
  <2>2. CASE x = << >>
    <3>1. Count(f, x) = 0
      BY <2>1, <2>2
    <3>2. Part(n, f, x) = << >>
      BY <2>1, <2>2 DEF PutText
    <3>3. f.zero = << >>
      BY <1>0, <1>1 DEF FieldOK
    <3> QED BY <2>2, <3>1, <3>2, <3>3
  <2>3. CASE x # << >>
    <3>1. Count(f, x) = 1
      BY <2>1, <2>3
    <3>2. 1 \in Nat /\ 1 \in 1..Count(f, x) /\ f.kind \notin Numbers
      BY <1>1, <3>1 DEF Numbers
    <3>3. Item(n, f, x, 1) = Put(8 * n + 2, Body(f, x, 1))
      BY <3>2, PutIsItem
    <3>4. Body(f, x, 1) = x
      BY <1>1 DEF Body
    <3>5. Part(n, f, x) = Put(8 * n + 2, x)
      BY <2>1, <2>3 DEF PutText
    <3> QED BY <3>1, <3>3, <3>4, <3>5
  <2> QED BY <2>2, <2>3
<1>2. CASE f.kind \in Numbers
  <2>1. Count(f, x) = (IF x = 0 THEN 0 ELSE 1) /\ Part(n, f, x) = PutNumber(8 * n, x)
    BY <1>2 DEF Count, Part, Numbers
  <2>2. CASE x = 0
    <3>1. Count(f, x) = 0
      BY <2>1, <2>2
    <3>2. Part(n, f, x) = << >>
      BY <2>1, <2>2 DEF PutNumber
    <3>3. f.zero = 0
      BY <1>0, <1>2 DEF FieldOK
    <3> QED BY <2>2, <3>1, <3>2, <3>3
  <2>3. CASE x # 0
    <3>1. Count(f, x) = 1
      BY <2>1, <2>3
    <3>2. Item(n, f, x, 1) = <<8 * n>> \o EncodeVarint(x % Word)
      BY <1>2 DEF Item, TagOf, Rest
    <3>3. Part(n, f, x) = <<8 * n>> \o EncodeVarint(x % Word)
      BY <2>1, <2>3 DEF PutNumber
    <3> QED BY <3>1, <3>2, <3>3
  <2> QED BY <2>2, <2>3
<1>3. CASE f.kind \in {"dec", "embedded"}
  <2>1. Count(f, x) = 1
    BY <1>3 DEF Count, Numbers, Lists
  <2>2. 1 \in Nat /\ 1 \in 1..Count(f, x) /\ f.kind \notin Numbers
    BY <1>3, <2>1 DEF Numbers
  <2>3. Item(n, f, x, 1) = Put(8 * n + 2, Body(f, x, 1))
    BY <2>2, PutIsItem
  <2>4. Part(n, f, x) = Put(8 * n + 2, Body(f, x, 1))
    <3>1. CASE f.kind = "dec"
      BY <3>1 DEF Part, Body, Numbers
    <3>2. CASE f.kind = "embedded"
      BY <3>2 DEF Part, Body, Numbers, Entry, Lists
    <3> QED BY <1>3, <3>1, <3>2
  <2> QED BY <2>1, <2>3, <2>4
<1> QED BY <1>0, <1>1, <1>2, <1>3 DEF Numbers

ItemsBytes(n, f, x) == BytesTo(Items(n, f, x), Count(f, x))

(* A field has finitely many items.                                        *)
LEMMA CountIsNat ==
  ASSUME NEW f, NEW x, FieldValue(f, x)
  PROVE  Count(f, x) \in Nat
<1>1. CASE f.kind \in Lists
  <2>1. Count(f, x) = Len(x)
    BY <1>1 DEF Count, Lists, Numbers
  <2>2. Len(x) \in Nat
    BY <1>1 DEF FieldValue, IsNested
  <2> QED BY <2>1, <2>2
<1>2. CASE f.kind \notin Lists
  <2>1. 1 \in 1..7
    OBVIOUS
  <2> QED BY <1>2, <2>1, SingleField
<1> QED BY <1>1, <1>2

(* The items of a field are bytes.                                         *)
LEMMA ItemsAreBytes ==
  ASSUME NEW n \in 1..7, NEW f, NEW x, FieldValue(f, x)
  PROVE  ItemsBytes(n, f, x)
<1> DEFINE c == Count(f, x)
<1>1. c \in Nat
  BY CountIsNat
<1>2. ASSUME NEW j \in 1..c PROVE Items(n, f, x)[j] \in Seq(Byte)
  <2>1. Items(n, f, x)[j] = Item(n, f, x, j)
    BY DEF Items
  <2>2. j \in Nat
    BY <1>1
  <2>3. Item(n, f, x, j) \in Seq(Byte)
    BY <2>2, ItemBytes
  <2> QED BY <2>1, <2>3
<1> QED BY <1>2 DEF ItemsBytes, BytesTo

(* What is written of a field is its items in a row.                       *)
LEMMA FieldChain ==
  ASSUME NEW n \in 1..7, NEW f, NEW x, FieldValue(f, x),
         NEW h, Chained(h, Count(f, x), Items(n, f, x))
  PROVE  h[Count(f, x)] = Part(n, f, x)
<1> DEFINE c == Count(f, x)
           p == Items(n, f, x)
<1>1. c \in Nat
  BY CountIsNat
<1>2. CASE f.kind \notin Lists
  <2>1. /\ c \in {0, 1}
        /\ c = 0 => Part(n, f, x) = << >>
        /\ c = 1 => Part(n, f, x) = Item(n, f, x, 1)
    BY <1>2, SingleField
  <2>2. CASE c = 0
    <3>1. h[0] = << >>
      BY DEF Chained
    <3> QED BY <2>1, <2>2, <3>1
  <2>3. CASE c = 1
    <3>1. 1 \in 1..c /\ p[1] = Item(n, f, x, 1)
      BY <2>3 DEF Items
    <3>2. p[1] \in Seq(Byte)
      BY <3>1, ItemsAreBytes DEF ItemsBytes, BytesTo
    <3>3. Chained(h, c, p)
      OBVIOUS
    <3> HIDE DEF c, p
    <3>4. h[1] = p[1]
      <4>1. c >= 1
        BY <2>3
      <4> QED BY <1>1, <3>2, <3>3, <4>1, ChainOne
    <3>5. h[c] = Part(n, f, x)
      BY <2>1, <2>3, <3>1, <3>4
    <3> QED BY <3>5 DEF c
  <2> QED BY <2>1, <2>2, <2>3
<1>3. CASE f.kind \in Lists
  <2> DEFINE list == EncodedEach(f.of, x)
             sizes == SizeOfEach(f.of, x)
             tag == 8 * n + 2
  <2>1. /\ c = Len(x) /\ DOMAIN x = 1..Len(x)
        /\ FieldOK(f) /\ IsNested(Settled, f, x)
    BY <1>3 DEF Count, Lists, Numbers, FieldValue, IsNested
  <2>2. NestedBytes(f, x)
    <3>1. IsNested(Decimals, f, x)
      BY <2>1, SettledDecimals
    <3> QED BY <2>1, <3>1, NestedIsWritten
  <2>3. \A j \in 1..c : EntryBytes(f.of, x[j])
    BY <1>3, <2>1, <2>2 DEF NestedBytes
  <2>4. DOMAIN list = 1..c /\ Len(sizes) = c
    <3>1. list = [j \in 1..c |-> Encoded(f.of, x[j])]
      BY <2>1 DEF EncodedEach
    <3>2. sizes = [j \in 1..c |-> SizeOf(f.of, x[j])]
      BY <2>1 DEF SizeOfEach
    <3> HIDE DEF c
    <3> QED BY <1>1, <3>1, <3>2
  <2>5. \A j \in 1..c : list[j] \in Buffers /\ Len(list[j]) = sizes[j]
    BY <2>1, <2>3 DEF EncodedEach, SizeOfEach, EntryBytes
  <2>6. Part(n, f, x) = PutEach(tag, list)
    BY <1>3 DEF Part, Lists, Numbers, EncodedEach
  <2>7. \A j \in 1..c : Puts(tag, list)[j] = p[j]
    <3> SUFFICES ASSUME NEW j \in 1..c PROVE Puts(tag, list)[j] = p[j]
      OBVIOUS
    <3>1. j \in Nat
      BY <1>1
    <3>2. p[j] = Item(n, f, x, j)
      BY DEF Items
    <3>3. f.kind \notin Numbers
      BY <1>3 DEF Numbers, Lists
    <3>4. Item(n, f, x, j) = Put(tag, Body(f, x, j))
      BY <3>1, <3>3, PutIsItem
    <3>5. Body(f, x, j) = list[j]
      BY <1>3, <2>1 DEF Body, Lists, Entry, EncodedEach
    <3>6. Puts(tag, list)[j] = Put(tag, list[j])
      BY <2>4 DEF Puts
    <3> QED BY <3>2, <3>4, <3>5, <3>6
  <2>70. Chained(h, c, p)
    OBVIOUS
  <2> HIDE DEF c, list, sizes, p
  <2>8. Entries(list, sizes, c)
    BY <2>4, <2>5 DEF Entries
  <2>9. PutChain(8 * n + 2, list, c)
    BY <1>1, <2>8, ListPart
  <2>10. PICK g : Chained(g, c, Puts(tag, list)) /\ PutEach(tag, list) = g[c]
    BY <2>9 DEF PutChain
  <2>11. g[c] = h[c]
    <3> HIDE DEF tag
    <3> DEFINE q == Puts(tag, list)
    <3>1. Chained(g, c, q) /\ \A j \in 1..c : q[j] = p[j]
      BY <2>7, <2>10
    <3> HIDE DEF q
    <3>2. c \in 0..c /\ c <= c
      BY <1>1
    <3> QED BY <1>1, <2>70, <3>1, <3>2, ChainSame
  <2>12. h[c] = Part(n, f, x)
    BY <2>6, <2>10, <2>11
  <2> QED BY <2>12 DEF c
<1> QED BY <1>2, <1>3

-----------------------------------------------------------------------------
(* How far a decoder is: n - 1 fields and j items of the next one are      *)
(* read.                                                                   *)
ChainOf(n, p) == CHOOSE g : Chained(g, n, p)
FieldCount(type) == Len(Fields[type])
FieldAt(type, n) == Fields[type][n]
ValueAt(type, m, n) == m[Fields[type][n].name]
CountAt(type, m, n) == Count(FieldAt(type, n), ValueAt(type, m, n))
ItemAt(type, m, n, j) == Item(n, FieldAt(type, n), ValueAt(type, m, n), j)
Ends(type, m) == ChainOf(FieldCount(type), Parts(type, m))
Inner(type, m, n) ==
  ChainOf(CountAt(type, m, n), Items(n, FieldAt(type, n), ValueAt(type, m, n)))
Position(type, m, n, j) ==
  /\ n \in 1..(FieldCount(type) + 1)
  /\ j \in Nat
  /\ n <= FieldCount(type) => j <= CountAt(type, m, n)
  /\ n > FieldCount(type) => j = 0
At(type, m, n, j) ==
  Len(Ends(type, m)[n - 1])
    + IF n <= FieldCount(type) THEN Len(Inner(type, m, n)[j]) ELSE 0

(* A message that can be sent: its decimals are set, and an int holds the  *)
(* length of its encoding.                                                 *)
Readable(type, m) ==
  /\ type \in Types
  /\ IsMessage(Settled, type, m)
  /\ Len(Encoded(type, m)) < Half

(* The fields of a message that can be read back.                          *)
LEMMA ReadableFields ==
  ASSUME NEW type, NEW m, Readable(type, m)
  PROVE  /\ type \in Types /\ FieldCount(type) \in 0..7 /\ FieldCount(type) \in Nat
         /\ DOMAIN Fields[type] = 1..FieldCount(type)
         /\ PartsOK(type, m)
         /\ HasFields(Fields[type], m)
         /\ \A n \in 1..FieldCount(type) :
              n \in 1..7 /\ FieldValue(FieldAt(type, n), ValueAt(type, m, n))
<1>1. type \in Types /\ IsMessage(Settled, type, m)
  BY DEF Readable
<1>2. IsMessage(Decimals, type, m)
  BY <1>1, SettledDecimals
<1>3. PartsOK(type, m)
  BY <1>1, <1>2, MessageIsWritten
<1>4. /\ Len(Fields[type]) \in 0..7 /\ Len(Fields[type]) \in Nat
      /\ DOMAIN Fields[type] = 1..Len(Fields[type])
      /\ \A k \in 1..Len(Fields[type]) : k \in 1..7 /\ FieldOK(Fields[type][k])
  BY <1>1, FieldOf
<1>5. HasFields(Fields[type], m)
  BY <1>1 DEF IsMessage
<1>6. \A k \in DOMAIN Fields[type] :
        /\ IsScalar(Settled, Fields[type][k], m[Fields[type][k].name])
        /\ IsNested(Settled, Fields[type][k], m[Fields[type][k].name])
  BY <1>1 DEF IsMessage
<1> QED BY <1>1, <1>3, <1>4, <1>5, <1>6 DEF FieldCount, FieldAt, ValueAt, FieldValue

(* An encoding is the parts of its fields in a row.                        *)
LEMMA EndsChained ==
  ASSUME NEW type, NEW m, Readable(type, m)
  PROVE  /\ Chained(Ends(type, m), FieldCount(type), Parts(type, m))
         /\ BytesTo(Parts(type, m), FieldCount(type))
         /\ Ends(type, m)[FieldCount(type)] = Encoded(type, m)
         /\ Encoded(type, m) \in Seq(Byte)
<1> DEFINE n == FieldCount(type)
           p == Parts(type, m)
           g == Ends(type, m)
<1>1. type \in Types /\ n \in Nat /\ PartsOK(type, m)
  BY ReadableFields
<1>2. \A k \in 1..n : p[k] \in Seq(Byte)
  BY <1>1 DEF PartsOK, FieldCount
<1>20. n = Len(Fields[type]) /\ p = Parts(type, m) /\ g = ChainOf(n, p)
  BY DEF FieldCount, Ends
<1> HIDE DEF n, p, g
<1>3. \E h : Chained(h, n, p)
  BY <1>1, <1>2, ChainExists
<1>4. Chained(g, n, p)
  BY <1>3, <1>20 DEF ChainOf
<1>5. g[n] = Encoded(type, m)
  <2>1. Chained(g, Len(Fields[type]), Parts(type, m))
    BY <1>4, <1>20
  <2>2. g[Len(Fields[type])] = Encoded(type, m)
    BY <1>1, <2>1, ChainIsEncoding
  <2> QED BY <1>20, <2>2
<1>6. BytesTo(p, n)
  BY <1>2 DEF BytesTo
<1>7. Encoded(type, m) \in Seq(Byte)
  BY <1>1, EncodingOfParts
<1> QED BY <1>4, <1>5, <1>6, <1>7 DEF n, p, g

(* The part of a field is its items in a row.                              *)
LEMMA InnerChained ==
  ASSUME NEW type, NEW m, Readable(type, m), NEW n \in 1..FieldCount(type)
  PROVE  LET c == CountAt(type, m, n)
             p == Items(n, FieldAt(type, n), ValueAt(type, m, n)) IN
         /\ c \in Nat
         /\ Chained(Inner(type, m, n), c, p)
         /\ BytesTo(p, c)
         /\ Inner(type, m, n)[c] = Parts(type, m)[n]
<1> DEFINE f == FieldAt(type, n)
           x == ValueAt(type, m, n)
           c == Count(f, x)
           p == Items(n, f, x)
           h == Inner(type, m, n)
<1>1. n \in 1..7 /\ FieldValue(f, x)
  BY ReadableFields
<1>2. h = ChainOf(c, p) /\ CountAt(type, m, n) = c
  BY DEF Inner, CountAt
<1>3. Parts(type, m)[n] = Part(n, f, x)
  BY DEF Parts, FieldCount, FieldAt, ValueAt
<1> HIDE DEF f, x, h
<1>4. c \in Nat
  BY <1>1, CountIsNat
<1>5. BytesTo(p, c)
  BY <1>1, ItemsAreBytes DEF ItemsBytes
<1>6. Chained(h, c, p)
  <2>1. \A k \in 1..c : p[k] \in Seq(Byte)
    BY <1>5 DEF BytesTo
  <2> HIDE DEF c, p
  <2>2. \E g : Chained(g, c, p)
    BY <1>4, <2>1, ChainExists
  <2> QED BY <1>2, <2>2 DEF ChainOf
<1>7. h[c] = Part(n, f, x)
  BY <1>1, <1>6, FieldChain
<1> QED BY <1>2, <1>3, <1>4, <1>5, <1>6, <1>7 DEF f, x, h

(* No bytes come before the first item.                                    *)
LEMMA InnerFirst ==
  ASSUME NEW type, NEW m, Readable(type, m), NEW n \in 1..FieldCount(type)
  PROVE  Inner(type, m, n)[0] = << >> /\ CountAt(type, m, n) \in Nat
<1> DEFINE c == CountAt(type, m, n)
           p == Items(n, FieldAt(type, n), ValueAt(type, m, n))
           h == Inner(type, m, n)
<1>1. c \in Nat /\ Chained(h, c, p)
  BY InnerChained
<1> HIDE DEF c, p, h
<1>2. h[0] = << >>
  BY <1>1 DEF Chained
<1> QED BY <1>1, <1>2 DEF c, h

(* The first place is the beginning.                                       *)
LEMMA AtStart ==
  ASSUME NEW type, NEW m, Readable(type, m)
  PROVE  Position(type, m, 1, 0) /\ At(type, m, 1, 0) = 0
<1>1. FieldCount(type) \in Nat
  BY ReadableFields
<1>2. Ends(type, m)[0] = << >>
  BY EndsChained DEF Chained
<1>3. Len(<< >>) = 0
  BY EmptySeq
<1>4. ASSUME 1 <= FieldCount(type)
      PROVE  Inner(type, m, 1)[0] = << >> /\ CountAt(type, m, 1) \in Nat
  <2>1. 1 \in 1..FieldCount(type)
    BY <1>1, <1>4
  <2> QED BY <2>1, InnerFirst
<1>5. Position(type, m, 1, 0)
  BY <1>1, <1>4 DEF Position
<1>6. Ends(type, m)[1 - 1] = << >>
  BY <1>2
<1> QED BY <1>3, <1>4, <1>5, <1>6 DEF At

(* Behind the last item of a field is the place of the next field.         *)
LEMMA AtNext ==
  ASSUME NEW type, NEW m, Readable(type, m), NEW n \in 1..FieldCount(type)
  PROVE  /\ Position(type, m, n + 1, 0)
         /\ At(type, m, n + 1, 0) = At(type, m, n, CountAt(type, m, n))
<1> DEFINE N == FieldCount(type)
           g == Ends(type, m)
           h == Inner(type, m, n)
           c == CountAt(type, m, n)
           p == Parts(type, m)
<1>1. N \in Nat
  BY ReadableFields
<1>2. Chained(g, N, p) /\ BytesTo(p, N)
  BY EndsChained
<1>3. h[c] = p[n]
  BY InnerChained
<1>4. Len(g[n]) = Len(g[n - 1]) + Len(p[n])
  <2> HIDE DEF N, g, p
  <2>1. n \in 1..N
    BY DEF N
  <2>2. Linked(g, p, n)
    BY <1>1, <1>2, <2>1, ChainStep
  <2> QED BY <2>2 DEF Linked
<1>5. ASSUME n + 1 <= N
      PROVE  Inner(type, m, n + 1)[0] = << >> /\ CountAt(type, m, n + 1) \in Nat
  <2>1. n + 1 \in 1..N
    BY <1>1, <1>5
  <2> QED BY <2>1, InnerFirst
<1>6. Position(type, m, n + 1, 0)
  BY <1>1, <1>5 DEF Position
<1>7. At(type, m, n + 1, 0) = Len(g[n]) + 0
  <2>1. Len(<< >>) = 0
    BY EmptySeq
  <2>2. g[(n + 1) - 1] = g[n]
    OBVIOUS
  <2> QED BY <1>5, <2>1, <2>2 DEF At
<1>8. At(type, m, n, c) = Len(g[n - 1]) + Len(h[c])
  BY <1>1 DEF At
<1>9. Len(g[n]) \in Nat
  <2>1. n \in 0..N
    BY <1>1
  <2>2. g[n] \in Seq(Byte)
    BY <1>2, <2>1 DEF Chained
  <2> QED BY <2>2, LenProperties
<1> HIDE DEF g, h, c, p
<1>10. At(type, m, n + 1, 0) = At(type, m, n, c)
  <2>1. Len(h[c]) = Len(p[n])
    BY <1>3
  <2> DEFINE l == Len(g[n])
  <2>2. l = Len(g[n - 1]) + Len(h[c]) /\ l \in Nat
    BY <1>4, <1>9, <2>1
  <2>3. At(type, m, n + 1, 0) = l + 0 /\ At(type, m, n, c) = Len(g[n - 1]) + Len(h[c])
    BY <1>7, <1>8
  <2> HIDE DEF l
  <2>4. l + 0 = l
    BY <2>2
  <2> QED BY <2>2, <2>3, <2>4
<1> QED BY <1>6, <1>10 DEF c

(* The last place is the end.                                              *)
LEMMA AtEnd ==
  ASSUME NEW type, NEW m, Readable(type, m)
  PROVE  At(type, m, FieldCount(type) + 1, 0) = Len(Encoded(type, m))
<1> DEFINE N == FieldCount(type)
<1>1. N \in Nat
  BY ReadableFields
<1>2. Ends(type, m)[N] = Encoded(type, m) /\ Encoded(type, m) \in Seq(Byte)
  BY EndsChained
<1>3. Len(Encoded(type, m)) \in Nat
  BY <1>2, LenProperties
<1>4. (N + 1) - 1 = N /\ ~(N + 1 <= N)
  BY <1>1
<1> HIDE DEF N
<1>5. At(type, m, N + 1, 0) = Len(Ends(type, m)[(N + 1) - 1]) + 0
  BY <1>4 DEF At, N
<1> QED BY <1>2, <1>3, <1>4, <1>5 DEF N

(* The item that comes next.                                               *)
LEMMA AtItem ==
  ASSUME NEW type, NEW m, Readable(type, m), NEW n \in 1..FieldCount(type),
         NEW j \in Nat, j < CountAt(type, m, n)
  PROVE  /\ At(type, m, n, j) \in Nat
         /\ At(type, m, n, j + 1) = At(type, m, n, j) + Len(ItemAt(type, m, n, j + 1))
         /\ At(type, m, n, j + 1) <= Len(Encoded(type, m))
         /\ Position(type, m, n, j + 1)
         /\ \A data : Holds(data, 0, Encoded(type, m)) =>
              Holds(data, At(type, m, n, j), ItemAt(type, m, n, j + 1))
<1> DEFINE N == FieldCount(type)
           g == Ends(type, m)
           h == Inner(type, m, n)
           c == CountAt(type, m, n)
           p == Parts(type, m)
           q == Items(n, FieldAt(type, n), ValueAt(type, m, n))
           i == j + 1
<1>1. N \in Nat /\ n \in 1..N /\ n - 1 \in 0..N /\ n \in 0..N
  <2>1. N \in Nat
    BY ReadableFields
  <2> QED BY <2>1
<1>2. Chained(g, N, p) /\ BytesTo(p, N) /\ g[N] = Encoded(type, m)
  BY EndsChained
<1>3. c \in Nat /\ Chained(h, c, q) /\ BytesTo(q, c) /\ h[c] = p[n]
  BY InnerChained
<1>4. i \in 1..c /\ i \in 0..c /\ i - 1 = j /\ j \in 0..c /\ i \in Nat
  BY <1>3
<1>5. q[i] = ItemAt(type, m, n, i)
  BY <1>4 DEF Items, ItemAt, CountAt
<1>6. /\ At(type, m, n, j) = Len(g[n - 1]) + Len(h[j])
      /\ At(type, m, n, i) = Len(g[n - 1]) + Len(h[i])
  BY <1>1 DEF At
<1>7. Position(type, m, n, i)
  BY <1>1, <1>3, <1>4 DEF Position
<1> HIDE DEF N, g, h, c, p, q, i
<1>8. Len(h[i]) = Len(h[i - 1]) + Len(q[i]) /\ Len(q[i]) \in Nat
  <2>1. Linked(h, q, i)
    BY <1>3, <1>4, ChainStep
  <2> QED BY <2>1 DEF Linked
<1>9. Len(g[n]) = Len(g[n - 1]) + Len(p[n]) /\ Len(p[n]) \in Nat
  <2>1. Linked(g, p, n)
    BY <1>1, <1>2, ChainStep
  <2> QED BY <2>1 DEF Linked
<1>10. /\ g[n - 1] \in Seq(Byte) /\ h[j] \in Seq(Byte) /\ h[i] \in Seq(Byte)
       /\ g[n] \in Seq(Byte) /\ g[N] \in Seq(Byte) /\ h[c] \in Seq(Byte)
  <2>1. N \in 0..N /\ c \in 0..c
    BY <1>1, <1>3
  <2> QED BY <1>1, <1>2, <1>3, <1>4, <2>1 DEF Chained
<1>11. /\ Len(g[n - 1]) \in Nat /\ Len(h[j]) \in Nat /\ Len(h[i]) \in Nat
       /\ Len(g[n]) \in Nat /\ Len(g[N]) \in Nat /\ Len(h[c]) \in Nat
  BY <1>10, LenProperties
<1>12. Len(h[i]) <= Len(h[c])
  <2>1. \A k \in 1..c : q[k] \in Seq(Byte)
    BY <1>3 DEF BytesTo
  <2>2. Chained(h, c, q)
    BY <1>3
  <2> QED BY <1>3, <1>4, <2>1, <2>2, ChainPrefix
<1>13. Len(g[n]) <= Len(g[N])
  <2>1. \A k \in 1..N : p[k] \in Seq(Byte)
    BY <1>2 DEF BytesTo
  <2>2. Chained(g, N, p)
    BY <1>2
  <2> QED BY <1>1, <2>1, <2>2, ChainPrefix
<1>20. Len(h[c]) = Len(p[n])
  BY <1>3
<1>21. Len(h[i - 1]) = Len(h[j])
  BY <1>4
<1> DEFINE lg == Len(g[n - 1])
           lp == Len(p[n])
           ln == Len(g[n])
           lN == Len(g[N])
           lj == Len(h[j])
           li == Len(h[i])
           lq == Len(q[i])
           aj == At(type, m, n, j)
           ai == At(type, m, n, i)
<1>22. /\ lg \in Nat /\ lp \in Nat /\ ln \in Nat /\ lN \in Nat /\ lj \in Nat
       /\ li \in Nat /\ lq \in Nat
       /\ aj = lg + lj /\ ai = lg + li
       /\ li = lj + lq /\ ln = lg + lp /\ li <= lp /\ ln <= lN
  <2>1. li <= lp
    BY <1>12, <1>20
  <2>2. li = lj + lq
    BY <1>8, <1>21
  <2>3. aj = lg + lj /\ ai = lg + li
    BY <1>6
  <2>4. lp \in Nat /\ ln = lg + lp
    BY <1>9
  <2>5. lq \in Nat /\ ln <= lN
    BY <1>8, <1>13
  <2> QED BY <1>11, <2>1, <2>2, <2>3, <2>4, <2>5
<1> HIDE DEF lg, lp, ln, lN, lj, li, lq, aj, ai
<1>23. aj \in Nat /\ ai = aj + lq /\ ai <= lN
  BY <1>22
<1>14. At(type, m, n, j) \in Nat
  BY <1>23 DEF aj
<1>15. At(type, m, n, i) = At(type, m, n, j) + Len(q[i])
  BY <1>23 DEF aj, ai, lq
<1>16. At(type, m, n, i) <= Len(g[N])
  BY <1>23 DEF ai, lN
<1>17. ASSUME NEW data, Holds(data, 0, Encoded(type, m))
       PROVE  Holds(data, At(type, m, n, j), q[i])
  <2>1. \A k \in 1..N : p[k] \in Seq(Byte)
    BY <1>2 DEF BytesTo
  <2>2. \A k \in 1..c : q[k] \in Seq(Byte)
    BY <1>3 DEF BytesTo
  <2>3. Holds(data, 0, g[N]) /\ 0 \in Nat
    BY <1>2, <1>17
  <2>4. Chained(g, N, p) /\ Chained(h, c, q)
    BY <1>2, <1>3
  <2>5. Holds(data, 0 + Len(g[n - 1]), p[n])
    BY <1>1, <2>1, <2>3, <2>4, ChainPart
  <2> DEFINE l == Len(g[n - 1])
  <2>6. Holds(data, l, h[c]) /\ l \in Nat /\ 0 + l = l
    <3>1. 0 + l = l /\ l \in Nat
      BY <1>11
    <3> QED BY <1>3, <2>5, <3>1
  <2> HIDE DEF l
  <2>7. Holds(data, l + Len(h[i - 1]), q[i])
    BY <1>3, <1>4, <2>2, <2>4, <2>6, ChainPart
  <2> QED BY <1>4, <1>6, <2>7 DEF l
<1> QED BY <1>2, <1>5, <1>7, <1>14, <1>15, <1>16, <1>17 DEF i

(* The message under construction: the fields before n as they are in m,   *)
(* j items of field n, the rest as in a new message.                       *)
Value(f, x, j) ==
  IF f.kind \in Lists THEN SubSeq(x, 1, j) ELSE IF j = 0 THEN f.zero ELSE x
GotAt(type, m, n, j, k) ==
  IF k < n THEN ValueAt(type, m, k)
  ELSE IF k = n THEN Value(FieldAt(type, n), ValueAt(type, m, n), j)
  ELSE FieldAt(type, k).zero
IsGot(msg, type, m, n, j) ==
  /\ HasFields(Fields[type], msg)
  /\ \A k \in 1..FieldCount(type) : msg[FieldAt(type, k).name] = GotAt(type, m, n, j, k)

(* Two fields have two names.                                              *)
LEMMA DistinctNames ==
  ASSUME NEW type \in Types, NEW j \in 1..FieldCount(type), NEW k \in 1..FieldCount(type),
         FieldAt(type, j).name = FieldAt(type, k).name
  PROVE  j = k
<1>1. SchemaOK(Fields[type])
  BY Schema
<1> QED BY <1>1 DEF SchemaOK, FieldCount, FieldAt

(* A field of which nothing was read is as in a new message.               *)
LEMMA ValueStarts ==
  ASSUME NEW f, NEW x, FieldValue(f, x)
  PROVE  Value(f, x, 0) = f.zero
<1>1. CASE f.kind \in Lists
  <2>1. f.zero = << >>
    BY <1>1 DEF FieldValue, FieldOK
  <2>2. SubSeq(x, 1, 0) = << >>
    BY SubSeqEmpty
  <2> QED BY <1>1, <2>1, <2>2 DEF Value
<1>2. CASE f.kind \notin Lists
  BY <1>2 DEF Value
<1> QED BY <1>1, <1>2

(* A field of which all was read is as in the message sent.                *)
LEMMA ValueEnds ==
  ASSUME NEW f, NEW x, FieldValue(f, x)
  PROVE  Value(f, x, Count(f, x)) = x
<1>1. CASE f.kind \in Lists
  <2>1. Len(x) \in Nat /\ x = [j \in 1..Len(x) |-> x[j]] /\ Count(f, x) = Len(x)
    BY <1>1 DEF FieldValue, IsNested, Count, Lists, Numbers
  <2> DEFINE S == {x[j] : j \in 1..Len(x)}
  <2>2. x \in Seq(S)
    <3> DEFINE l == Len(x)
    <3>1. x \in [1..l -> S] /\ l \in Nat
      BY <2>1
    <3> HIDE DEF l, S
    <3> QED BY <3>1
  <2> HIDE DEF S
  <2>3. SubSeq(x, 1, Len(x)) = x
    BY <2>2, SubSeqFull
  <2> QED BY <1>1, <2>1, <2>3 DEF Value
<1>2. CASE f.kind \notin Lists
  <2>1. 1 \in 1..7
    OBVIOUS
  <2>2. Count(f, x) \in {0, 1} /\ (Count(f, x) = 0 => x = f.zero)
    BY <1>2, <2>1, SingleField
  <2> QED BY <1>2, <2>2 DEF Value
<1> QED BY <1>1, <1>2

(* The fields of a new message.                                            *)
LEMMA ZeroFields ==
  ASSUME NEW type \in Types
  PROVE  /\ HasFields(Fields[type], Zero(Fields[type]))
         /\ \A k \in 1..FieldCount(type) :
              Zero(Fields[type])[FieldAt(type, k).name] = FieldAt(type, k).zero
<1> DEFINE fields == Fields[type]
           z == Zero(fields)
<1>1. DOMAIN fields = 1..FieldCount(type)
  BY FieldOf DEF FieldCount
<1>2. HasFields(fields, z)
  BY DEF HasFields, Zero
<1>3. ASSUME NEW k \in 1..FieldCount(type)
      PROVE  z[FieldAt(type, k).name] = FieldAt(type, k).zero
  <2> DEFINE name == fields[k].name
             c == CHOOSE i \in DOMAIN fields : fields[i].name = name
  <2>1. k \in DOMAIN fields /\ fields[k] = FieldAt(type, k)
    BY <1>1 DEF FieldAt
  <2>2. c \in DOMAIN fields /\ fields[c].name = name
    BY <2>1
  <2>3. c \in 1..FieldCount(type) /\ FieldAt(type, c).name = FieldAt(type, k).name
    BY <1>1, <2>2 DEF FieldAt
  <2>4. c = k
    <3> HIDE DEF c
    <3> QED BY <2>3, DistinctNames
  <2>5. z[name] = fields[c].zero
    BY <2>1 DEF Zero
  <2> QED BY <2>1, <2>4, <2>5
<1> QED BY <1>2, <1>3

(* At the start the message is new.                                        *)
LEMMA GotZero ==
  ASSUME NEW type, NEW m, Readable(type, m)
  PROVE  IsGot(Zero(Fields[type]), type, m, 1, 0)
<1> DEFINE z == Zero(Fields[type])
<1>1. type \in Types /\ FieldCount(type) \in Nat
  BY ReadableFields
<1>2. /\ HasFields(Fields[type], z)
      /\ \A k \in 1..FieldCount(type) : z[FieldAt(type, k).name] = FieldAt(type, k).zero
  BY <1>1, ZeroFields
<1>4. ASSUME NEW k \in 1..FieldCount(type)
      PROVE  GotAt(type, m, 1, 0, k) = FieldAt(type, k).zero
  <2>1. CASE k = 1
    <3>1. FieldValue(FieldAt(type, 1), ValueAt(type, m, 1))
      BY <2>1, ReadableFields
    <3>2. Value(FieldAt(type, 1), ValueAt(type, m, 1), 0) = FieldAt(type, 1).zero
      BY <3>1, ValueStarts
    <3> QED BY <2>1, <3>2 DEF GotAt
  <2>2. CASE k # 1
    BY <2>2 DEF GotAt
  <2> QED BY <2>1, <2>2
<1> HIDE DEF z
<1> QED BY <1>2, <1>4 DEF IsGot, z

(* A field that is read to its end is read.                                *)
LEMMA GotNext ==
  ASSUME NEW type, NEW m, Readable(type, m), NEW n \in 1..FieldCount(type),
         NEW msg, IsGot(msg, type, m, n, CountAt(type, m, n))
  PROVE  IsGot(msg, type, m, n + 1, 0)
<1> DEFINE f == FieldAt(type, n)
           x == ValueAt(type, m, n)
<1>1. FieldCount(type) \in Nat
  BY ReadableFields
<1>2. FieldValue(f, x)
  BY ReadableFields
<1>3. Value(f, x, CountAt(type, m, n)) = x
  <2> HIDE DEF f, x
  <2>1. Value(f, x, Count(f, x)) = x
    BY <1>2, ValueEnds
  <2> QED BY <2>1 DEF f, x, CountAt
<1>4. ASSUME NEW k \in 1..FieldCount(type)
      PROVE  GotAt(type, m, n + 1, 0, k) = GotAt(type, m, n, CountAt(type, m, n), k)
  <2>1. CASE k < n
    BY <2>1 DEF GotAt
  <2>2. CASE k = n
    BY <1>3, <2>2 DEF GotAt
  <2>3. CASE k = n + 1
    <3>1. FieldValue(FieldAt(type, k), ValueAt(type, m, k))
      BY ReadableFields
    <3>2. Value(FieldAt(type, k), ValueAt(type, m, k), 0) = FieldAt(type, k).zero
      BY <3>1, ValueStarts
    <3> QED BY <2>3, <3>2 DEF GotAt
  <2>4. CASE k > n + 1
    BY <2>4 DEF GotAt
  <2> QED BY <1>1, <2>1, <2>2, <2>3, <2>4
<1> QED BY <1>4 DEF IsGot

(* Setting the field reads one item more.                                  *)
LEMMA GotSet ==
  ASSUME NEW type, NEW m, Readable(type, m), NEW n \in 1..FieldCount(type),
         NEW j, NEW i, NEW msg, IsGot(msg, type, m, n, j),
         NEW v, v = Value(FieldAt(type, n), ValueAt(type, m, n), i)
  PROVE  IsGot([msg EXCEPT ![FieldAt(type, n).name] = v], type, m, n, i)
<1> DEFINE name == FieldAt(type, n).name
           new == [msg EXCEPT ![name] = v]
           fields == Fields[type]
           names == {fields[k].name : k \in DOMAIN fields}
<1>1. type \in Types /\ DOMAIN fields = 1..FieldCount(type)
  BY ReadableFields
<1>2. msg = [y \in names |-> msg[y]]
  BY DEF IsGot, HasFields
<1>3. \A k \in 1..FieldCount(type) : FieldAt(type, k).name \in names
  BY <1>1 DEF FieldAt
<1> HIDE DEF names
<1>4. DOMAIN msg = names
  BY <1>2
<1>5. new = [y \in names |-> new[y]]
  BY <1>4
<1>6. ASSUME NEW k \in 1..FieldCount(type)
      PROVE  new[FieldAt(type, k).name] = GotAt(type, m, n, i, k)
  <2>1. CASE k = n
    <3>1. new[name] = v
      BY <1>3, <1>4
    <3> QED BY <2>1, <3>1 DEF GotAt
  <2>2. CASE k # n
    <3>1. FieldAt(type, k).name # name
      BY <1>1, <2>2, DistinctNames
    <3>2. new[FieldAt(type, k).name] = msg[FieldAt(type, k).name]
      BY <1>3, <1>4, <3>1
    <3>3. msg[FieldAt(type, k).name] = GotAt(type, m, n, j, k)
      BY DEF IsGot
    <3> QED BY <2>2, <3>2, <3>3 DEF GotAt
  <2> QED BY <2>1, <2>2
<1>7. HasFields(fields, new)
  BY <1>5 DEF HasFields, names
<1> QED BY <1>6, <1>7 DEF IsGot

(* With all fields read it is the message sent.                            *)
LEMMA GotAll ==
  ASSUME NEW type, NEW m, Readable(type, m),
         NEW msg, IsGot(msg, type, m, FieldCount(type) + 1, 0)
  PROVE  msg = m
<1> DEFINE fields == Fields[type]
           names == {fields[k].name : k \in DOMAIN fields}
<1>1. /\ type \in Types /\ DOMAIN fields = 1..FieldCount(type)
      /\ HasFields(fields, m) /\ FieldCount(type) \in Nat
  BY ReadableFields
<1>2. msg = [y \in names |-> msg[y]] /\ m = [y \in names |-> m[y]]
  BY <1>1 DEF IsGot, HasFields
<1>3. ASSUME NEW y \in names PROVE msg[y] = m[y]
  <2>1. PICK k \in 1..FieldCount(type) : y = FieldAt(type, k).name
    BY <1>1 DEF FieldAt
  <2>2. k < FieldCount(type) + 1
    BY <1>1
  <2>3. msg[y] = GotAt(type, m, FieldCount(type) + 1, 0, k)
    BY <2>1 DEF IsGot
  <2>4. GotAt(type, m, FieldCount(type) + 1, 0, k) = m[y]
    BY <2>1, <2>2 DEF GotAt, ValueAt, FieldAt
  <2> QED BY <2>3, <2>4
<1> HIDE DEF names
<1> QED BY <1>2, <1>3

-----------------------------------------------------------------------------
(* A place in the encoding, and the message read up to it.                 *)
Reached(index, msg, type, m, n, j) ==
  /\ Position(type, m, n, j)
  /\ index = At(type, m, n, j)
  /\ IsGot(msg, type, m, n, j)

(* At a place there is a next item, or all is read: a field without items  *)
(* is passed over.                                                         *)
LEMMA NextPlace ==
  ASSUME NEW type, NEW m, Readable(type, m), NEW index, NEW msg,
         \E n, j : Reached(index, msg, type, m, n, j)
  PROVE  \/ Reached(index, msg, type, m, FieldCount(type) + 1, 0)
         \/ \E n \in 1..FieldCount(type) : \E j \in Nat :
              j < CountAt(type, m, n) /\ Reached(index, msg, type, m, n, j)
<1> DEFINE N == FieldCount(type)
           S == {d \in 0..N : \E j : Reached(index, msg, type, m, (N + 1) - d, j)}
<1>1. N \in Nat
  BY ReadableFields
<1>2. S # {}
  <2>1. PICK n, j : Reached(index, msg, type, m, n, j)
    OBVIOUS
  <2>2. n \in 1..(N + 1)
    BY <2>1 DEF Reached, Position
  <2> DEFINE d == (N + 1) - n
  <2>3. d \in 0..N /\ (N + 1) - d = n
    BY <1>1, <2>2
  <2> HIDE DEF d
  <2>4. d \in S
    BY <2>1, <2>3
  <2> QED BY <2>4
<1>3. PICK d \in S : \A e \in S : ~(e < d)
  <2>1. S \in SUBSET Nat
    BY <1>1
  <2> HIDE DEF S
  <2> QED BY <1>2, <2>1, LeastNumber
<1> DEFINE n == (N + 1) - d
<1>4. PICK j : Reached(index, msg, type, m, n, j)
  BY <1>3
<1>5. d \in 0..N /\ n \in 1..(N + 1) /\ j \in Nat
  BY <1>1, <1>3, <1>4 DEF Reached, Position
<1>6. CASE n = N + 1
  <2>1. j = 0
    BY <1>1, <1>4, <1>6 DEF Reached, Position
  <2> QED BY <1>4, <1>6, <2>1
<1>7. CASE n # N + 1
  <2>1. n \in 1..N /\ d - 1 \in 0..N /\ (N + 1) - (d - 1) = n + 1 /\ d - 1 < d
    BY <1>1, <1>5, <1>7
  <2>2. j <= CountAt(type, m, n)
    BY <1>4, <2>1 DEF Reached, Position
  <2>3. CASE j = CountAt(type, m, n)
    <3> HIDE DEF n
    <3>1. Position(type, m, n + 1, 0) /\ At(type, m, n + 1, 0) = At(type, m, n, CountAt(type, m, n))
      BY <2>1, AtNext
    <3>2. IsGot(msg, type, m, n + 1, 0)
      BY <1>4, <2>1, <2>3, GotNext DEF Reached
    <3>3. Reached(index, msg, type, m, n + 1, 0)
      BY <1>4, <2>3, <3>1, <3>2 DEF Reached
    <3>4. Reached(index, msg, type, m, (N + 1) - (d - 1), 0)
      BY <2>1, <3>3
    <3>5. d - 1 \in S
      BY <2>1, <3>4
    <3> QED BY <1>3, <2>1, <3>5
  <2>4. CASE j # CountAt(type, m, n)
    <3>1. CountAt(type, m, n) \in Nat
      BY <2>1, InnerFirst
    <3> HIDE DEF n
    <3>2. j < CountAt(type, m, n)
      BY <1>5, <2>2, <2>4, <3>1
    <3> QED BY <1>4, <1>5, <2>1, <3>2
  <2> QED BY <2>3, <2>4
<1> QED BY <1>6, <1>7

(* A buffer with an encoding, whole or cut.                                *)
Begins(data, type, m) ==
  /\ data \in Seq(Byte)
  /\ Len(data) < Half
  /\ Len(data) <= Len(Encoded(type, m))
  /\ Holds(data, 0, Encoded(type, m))

Tagged(data, i, n, f, rest) ==
  /\ i \in Nat /\ i + 1 \in 0..Len(data)
  /\ VarintError(data, i) = "nil"
  /\ VarintNext(data, i) = i + 1
  /\ FieldNumber(VarintValue(data, i)) = n
  /\ WireType(VarintValue(data, i)) = WireTypeOf(f.kind)
  /\ Holds(data, i + 1, rest)

(* A tag names the number of its field and the wire type.                  *)
LEMMA TagNames ==
  ASSUME NEW n \in 1..7, NEW f
  PROVE  FieldNumber(TagOf(n, f)) = n /\ WireType(TagOf(n, f)) = WireTypeOf(f.kind)
<1> DEFINE tag == TagOf(n, f)
           l == 2 * FieldHalf
<1>1. FieldHalf \in Nat /\ FieldHalf >= 8
  BY TagAssumption
<1>2. /\ f.kind \in Numbers => tag = 8 * n
      /\ f.kind \notin Numbers => tag = 8 * n + 2
  BY DEF TagOf
<1>3. tag \div 8 = n /\ (f.kind \in Numbers => tag % 8 = 0) /\ (f.kind \notin Numbers => tag % 8 = 2)
  <2> HIDE DEF tag
  <2>1. CASE f.kind \in Numbers
    BY <1>2, <2>1
  <2>2. CASE f.kind \notin Numbers
    BY <1>2, <2>2
  <2> QED BY <2>1, <2>2
<1> HIDE DEF tag, l
<1>4. n % l = n
  BY <1>1 DEF l
<1>5. FieldNumber(tag) = n
  BY <1>1, <1>3, <1>4 DEF FieldNumber, l
<1>6. WireType(tag) = WireTypeOf(f.kind)
  BY <1>3 DEF WireType, WireTypeOf, Numbers
<1> QED BY <1>5, <1>6 DEF tag

(* At a place that is not the end the next tag is read whole.              *)
LEMMA NextTag ==
  ASSUME NEW type, NEW m, Readable(type, m), NEW data, Begins(data, type, m),
         NEW n \in 1..FieldCount(type), NEW j \in Nat, j < CountAt(type, m, n),
         NEW i, i = At(type, m, n, j), i < Len(data)
  PROVE  LET f == FieldAt(type, n)
             x == ValueAt(type, m, n) IN
         /\ Tagged(data, i, n, f, Rest(f, x, j + 1))
         /\ At(type, m, n, j + 1) = (i + 1) + Len(Rest(f, x, j + 1))
         /\ At(type, m, n, j + 1) <= Len(Encoded(type, m))
<1> DEFINE f == FieldAt(type, n)
           x == ValueAt(type, m, n)
           k == j + 1
           tag == TagOf(n, f)
           rest == Rest(f, x, k)
           t == <<tag>>
<1>1. n \in 1..7 /\ FieldValue(f, x)
  BY ReadableFields
<1>2. CountAt(type, m, n) = Count(f, x) /\ CountAt(type, m, n) \in Nat
  BY InnerFirst DEF CountAt
<1>3. k \in Nat /\ k \in 1..Count(f, x)
  BY <1>2
<1>4. /\ i \in Nat
      /\ At(type, m, n, k) = i + Len(ItemAt(type, m, n, k))
      /\ At(type, m, n, k) <= Len(Encoded(type, m))
      /\ Holds(data, i, ItemAt(type, m, n, k))
  <2>1. Holds(data, 0, Encoded(type, m))
    BY DEF Begins
  <2> QED BY <2>1, AtItem
<1>5. ItemAt(type, m, n, k) = Item(n, f, x, k) /\ Item(n, f, x, k) = t \o rest
  BY DEF ItemAt, Item
<1>6. data \in Seq(Byte) /\ Len(data) \in Nat
  BY LenProperties DEF Begins
<1> HIDE DEF f, x, k
<1>7. Len(Item(n, f, x, k)) = 1 + Len(rest) /\ tag \in 0..127 /\ tag \in Nat
  <2>1. Len(Item(n, f, x, k)) = 1 + Len(Rest(f, x, k)) /\ TagOf(n, f) \in 0..127
    BY <1>1, <1>3, ItemBytes
  <2>2. TagOf(n, f) \in Nat
    <3>1. TagOf(n, f) \in 0..127
      BY <2>1
    <3>2. \A z \in 0..127 : z \in Nat
      OBVIOUS
    <3> QED BY <3>1, <3>2, Zenon
  <2> HIDE DEF t
  <2> QED BY <2>1, <2>2 DEF tag, rest
<1>8. rest \in Seq(Byte) /\ Len(rest) \in Nat
  BY <1>1, <1>3, RestBytes
<1>9. FieldNumber(tag) = n /\ WireType(tag) = WireTypeOf(f.kind)
  BY <1>1, TagNames
<1> HIDE DEF tag, rest
<1>10. t \in Seq(Byte) /\ Len(t) = 1
  <2>1. tag \in Byte
    BY <1>7 DEF Byte
  <2> QED BY <2>1
<1>11. t = EncodeVarint(tag) /\ Sov(tag) = 1 /\ tag \in 0..(Word - 1)
  BY <1>7, TagByte
<1> HIDE DEF t
<1>12. Holds(data, i, t) /\ Holds(data, i + 1, rest)
  <2>1. Holds(data, i, t \o rest)
    BY <1>4, <1>5
  <2>2. Holds(data, i, t) /\ Holds(data, i + Len(t), rest)
    BY <1>4, <1>8, <1>10, <2>1, HoldsConcat
  <2> QED BY <1>10, <2>2
<1>13. i \in 0..Len(data) /\ i + Sov(tag) <= Len(data) /\ i + 1 \in 0..Len(data)
  BY <1>4, <1>6, <1>11
<1>14. Holds(data, i, EncodeVarint(tag))
  BY <1>11, <1>12
<1>15. VarintError(data, i) = "nil" /\ VarintNext(data, i) = i + Sov(tag)
  BY <1>6, <1>11, <1>13, <1>14, VarintStops
<1>16. VarintValue(data, i) = tag
  BY <1>6, <1>11, <1>13, <1>14, VarintRead
<1>17. Tagged(data, i, n, f, rest)
  BY <1>4, <1>9, <1>11, <1>12, <1>13, <1>15, <1>16 DEF Tagged
<1>18. At(type, m, n, k) = (i + 1) + Len(rest)
  BY <1>4, <1>5, <1>7, <1>8
<1> QED BY <1>4, <1>17, <1>18 DEF f, x, k, rest

(* A number is the sum of its quotient and its remainder.                  *)
LEMMA DivMod ==
  ASSUME NEW v \in Int, NEW d \in Nat \ {0}
  PROVE  /\ v % d \in 0..(d - 1) /\ v \div d \in Int
         /\ v = d * (v \div d) + (v % d)
OBVIOUS

(* An int64 that went through a word is itself.                            *)
LEMMA SignedBack ==
  ASSUME NEW v \in (-Half)..(Half - 1)
  PROVE  Signed(v % Word) = v
<1> DEFINE w == v % Word
           q == v \div Word
<1>1. Word \in Nat \ {0} /\ v \in Int /\ Word = 2 * Half /\ Half \in Nat \ {0}
  BY DEF Word
<1>2. w \in 0..(Word - 1) /\ q \in Int /\ v = Word * q + w
  BY <1>1, DivMod
<1> HIDE DEF w, q
<1>3. CASE q >= 1
  <2>1. Word * q >= Word
    BY <1>1, <1>2, <1>3
  <2> QED BY <1>1, <1>2, <2>1
<1>4. CASE q <= -2
  <2>1. Word * q <= -2 * Word
    BY <1>1, <1>2, <1>4
  <2> QED BY <1>1, <1>2, <2>1
<1>5. CASE q = 0
  <2>1. w = v
    BY <1>1, <1>2, <1>5
  <2>2. w < Half
    BY <2>1
  <2> QED BY <2>1, <2>2 DEF Signed, w
<1>6. CASE q = -1
  <2>1. w = v + Word
    BY <1>1, <1>2, <1>6
  <2>2. ~(w < Half) /\ w - Word = v
    BY <1>1, <2>1
  <2> QED BY <2>2 DEF Signed, w
<1> QED BY <1>2, <1>3, <1>4, <1>5, <1>6

-----------------------------------------------------------------------------
(* A call of Unmarshal under way on an encoding.                           *)
Frame(c, type, m) ==
  /\ Readable(type, m)
  /\ c.type = type
  /\ Begins(c.data, type, m)
  /\ c.index \in 0..Len(c.data)
  /\ \E n, j : Reached(c.index, c.msg, type, m, n, j)

(* The call is at item j + 1 of field n.                                   *)
Faces(c, type, m, n, j) ==
  LET rest == Rest(FieldAt(type, n), ValueAt(type, m, n), j + 1) IN
  /\ n \in 1..FieldCount(type) /\ j \in Nat /\ j < CountAt(type, m, n)
  /\ Reached(c.index, c.msg, type, m, n, j)
  /\ Tagged(c.data, c.index, n, FieldAt(type, n), rest)
  /\ At(type, m, n, j + 1) = (c.index + 1) + Len(rest)
  /\ At(type, m, n, j + 1) <= Len(Encoded(type, m))

(* A call before the end of its buffer is at an item.                      *)
LEMMA FrameFaces ==
  ASSUME NEW c, NEW type, NEW m, Frame(c, type, m), c.index < Len(c.data)
  PROVE  \E n, j : Faces(c, type, m, n, j)
<1> DEFINE i == c.index
           data == c.data
           msg == c.msg
           N == FieldCount(type)
<1>1. /\ Readable(type, m) /\ Begins(data, type, m) /\ i \in 0..Len(data)
      /\ \E n, j : Reached(i, msg, type, m, n, j)
  BY DEF Frame
<1>2. i < Len(data)
  OBVIOUS
<1> HIDE DEF i, data, msg
<1>3. Len(data) \in Nat /\ Len(Encoded(type, m)) \in Nat /\ Len(data) <= Len(Encoded(type, m))
  <2>1. data \in Seq(Byte) /\ Encoded(type, m) \in Seq(Byte)
    BY <1>1, EndsChained DEF Begins
  <2>2. Len(data) <= Len(Encoded(type, m))
    BY <1>1 DEF Begins
  <2> QED BY <2>1, <2>2, LenProperties
<1>4. \/ Reached(i, msg, type, m, N + 1, 0)
      \/ \E n \in 1..N : \E j \in Nat :
           j < CountAt(type, m, n) /\ Reached(i, msg, type, m, n, j)
  BY <1>1, NextPlace
<1>5. CASE Reached(i, msg, type, m, N + 1, 0)
  <2>1. i = At(type, m, N + 1, 0)
    BY <1>5 DEF Reached
  <2>2. At(type, m, N + 1, 0) = Len(Encoded(type, m))
    BY <1>1, AtEnd
  <2> QED BY <1>1, <1>2, <1>3, <2>1, <2>2
<1>6. CASE \E n \in 1..N : \E j \in Nat :
             j < CountAt(type, m, n) /\ Reached(i, msg, type, m, n, j)
  <2>1. PICK n \in 1..N : \E j \in Nat :
             j < CountAt(type, m, n) /\ Reached(i, msg, type, m, n, j)
    BY <1>6
  <2>2. PICK j \in Nat : j < CountAt(type, m, n) /\ Reached(i, msg, type, m, n, j)
    BY <2>1
  <2>3. i = At(type, m, n, j)
    BY <2>2 DEF Reached
  <2> DEFINE rest == Rest(FieldAt(type, n), ValueAt(type, m, n), j + 1)
  <2>4. /\ Tagged(data, i, n, FieldAt(type, n), rest)
        /\ At(type, m, n, j + 1) = (i + 1) + Len(rest)
        /\ At(type, m, n, j + 1) <= Len(Encoded(type, m))
    BY <1>1, <1>2, <2>2, <2>3, NextTag
  <2> HIDE DEF rest
  <2>5. Faces(c, type, m, n, j)
    BY <2>1, <2>2, <2>4 DEF Faces, i, data, msg, rest
  <2> QED BY <2>5
<1> QED BY <1>4, <1>5, <1>6

(* A call at the end of a whole encoding has read the message.             *)
LEMMA FrameDone ==
  ASSUME NEW c, NEW type, NEW m, Frame(c, type, m), c.index >= Len(c.data),
         Len(c.data) = Len(Encoded(type, m))
  PROVE  c.msg = m
<1> DEFINE i == c.index
           data == c.data
           msg == c.msg
           N == FieldCount(type)
<1>1. /\ Readable(type, m) /\ Begins(data, type, m) /\ i \in 0..Len(data)
      /\ \E n, j : Reached(i, msg, type, m, n, j)
  BY DEF Frame
<1>2. i >= Len(data) /\ Len(data) = Len(Encoded(type, m))
  OBVIOUS
<1> HIDE DEF i, data, msg
<1>3. Len(data) \in Nat
  <2>1. data \in Seq(Byte)
    BY <1>1 DEF Begins
  <2> QED BY <2>1, LenProperties
<1>4. \/ Reached(i, msg, type, m, N + 1, 0)
      \/ \E n \in 1..N : \E j \in Nat :
           j < CountAt(type, m, n) /\ Reached(i, msg, type, m, n, j)
  BY <1>1, NextPlace
<1>5. CASE Reached(i, msg, type, m, N + 1, 0)
  <2>1. IsGot(msg, type, m, N + 1, 0)
    BY <1>5 DEF Reached
  <2>2. msg = m
    BY <1>1, <2>1, GotAll
  <2> QED BY <2>2 DEF msg
<1>6. CASE \E n \in 1..N : \E j \in Nat :
             j < CountAt(type, m, n) /\ Reached(i, msg, type, m, n, j)
  <2>1. PICK n \in 1..N : \E j \in Nat :
             j < CountAt(type, m, n) /\ Reached(i, msg, type, m, n, j)
    BY <1>6
  <2>2. PICK j \in Nat : j < CountAt(type, m, n) /\ Reached(i, msg, type, m, n, j)
    BY <2>1
  <2> DEFINE f == FieldAt(type, n)
             x == ValueAt(type, m, n)
             k == j + 1
  <2>3. i = At(type, m, n, j)
    BY <2>2 DEF Reached
  <2>4. /\ At(type, m, n, k) = At(type, m, n, j) + Len(ItemAt(type, m, n, k))
        /\ At(type, m, n, k) <= Len(Encoded(type, m))
    BY <1>1, <2>2, AtItem
  <2>5. n \in 1..7 /\ FieldValue(f, x)
    BY <1>1, ReadableFields
  <2>6. k \in Nat /\ k \in 1..Count(f, x)
    <3>1. CountAt(type, m, n) \in Nat /\ CountAt(type, m, n) = Count(f, x)
      BY <1>1, InnerFirst DEF CountAt
    <3> QED BY <2>2, <3>1
  <2>7. ItemAt(type, m, n, k) = Item(n, f, x, k)
    BY DEF ItemAt
  <2> HIDE DEF f, x, k
  <2>8. Len(Item(n, f, x, k)) = 1 + Len(Rest(f, x, k)) /\ Len(Rest(f, x, k)) \in Nat
    BY <2>5, <2>6, ItemBytes, RestBytes
  <2>9. i \in Nat
    BY <1>1, <1>3
  <2> DEFINE next == At(type, m, n, k)
             end == Len(Encoded(type, m))
  <2>10. next \in Nat /\ next > i /\ next <= end
    BY <2>3, <2>4, <2>7, <2>8, <2>9
  <2>11. end \in Nat /\ end <= i
    BY <1>1, <1>2, <1>3
  <2> HIDE DEF next, end
  <2> QED BY <2>9, <2>10, <2>11
<1> QED BY <1>4, <1>5, <1>6

(* A new call is under way.                                                *)
LEMMA FrameStart ==
  ASSUME NEW type, NEW m, Readable(type, m), NEW data, Begins(data, type, m), NEW into
  PROVE  Frame(Call(type, data, 0, Zero(Fields[type]), into), type, m)
<1>1. Reached(0, Zero(Fields[type]), type, m, 1, 0)
  BY AtStart, GotZero DEF Reached
<1>2. Len(data) \in Nat
  BY LenProperties DEF Begins
<1>3. 0 \in 0..Len(data)
  BY <1>2
<1> QED BY <1>1, <1>3 DEF Frame, Call

(* The next item is read: the call is at the place behind it.              *)
LEMMA FrameAt ==
  ASSUME NEW type, NEW m, Readable(type, m), NEW data, Begins(data, type, m),
         NEW n \in 1..FieldCount(type), NEW j \in Nat, j < CountAt(type, m, n),
         NEW old, IsGot(old, type, m, n, j),
         NEW v, v = Value(FieldAt(type, n), ValueAt(type, m, n), j + 1),
         NEW next, next = At(type, m, n, j + 1), next <= Len(data), NEW into,
         NEW name, name = FieldAt(type, n).name
  PROVE  Frame(Call(type, data, next, [old EXCEPT ![name] = v], into), type, m)
<1> DEFINE msg == [old EXCEPT ![name] = v]
           call == Call(type, data, next, msg, into)
<1>3. /\ Position(type, m, n, j + 1)
      /\ At(type, m, n, j) \in Nat
      /\ next = At(type, m, n, j) + Len(ItemAt(type, m, n, j + 1))
  BY AtItem
<1>4. IsGot(msg, type, m, n, j + 1)
  <2>1. IsGot([old EXCEPT ![FieldAt(type, n).name] = v], type, m, n, j + 1)
    BY GotSet
  <2> QED BY <2>1
<1>5. Reached(next, msg, type, m, n, j + 1)
  <2> HIDE DEF msg
  <2> QED BY <1>3, <1>4 DEF Reached
<1>6. next \in 0..Len(data)
  <2>1. Len(data) \in Nat
    BY LenProperties DEF Begins
  <2> DEFINE f == FieldAt(type, n)
             x == ValueAt(type, m, n)
             k == j + 1
  <2>2. n \in 1..7 /\ FieldValue(f, x)
    BY ReadableFields
  <2>3. k \in Nat /\ k \in 1..Count(f, x)
    <3>1. CountAt(type, m, n) \in Nat /\ CountAt(type, m, n) = Count(f, x)
      BY InnerFirst DEF CountAt
    <3> QED BY <3>1
  <2>4. ItemAt(type, m, n, k) = Item(n, f, x, k)
    BY DEF ItemAt
  <2> HIDE DEF f, x
  <2>5. Len(Item(n, f, x, k)) = 1 + Len(Rest(f, x, k)) /\ Len(Rest(f, x, k)) \in Nat
    BY <2>2, <2>3, ItemBytes, RestBytes
  <2>6. next \in Nat
    BY <1>3, <2>4, <2>5
  <2> QED BY <2>1, <2>6
<1>7. /\ call.type = type /\ call.data = data /\ call.index = next /\ call.msg = msg
  BY DEF Call
<1> HIDE DEF call, msg
<1>8. Frame(call, type, m)
  BY <1>5, <1>6, <1>7 DEF Frame
<1> QED BY <1>8 DEF call, msg

(* FrameAt for a call at an item.                                          *)
LEMMA FramePass ==
  ASSUME NEW c, NEW type, NEW m, Frame(c, type, m), NEW n, NEW j, Faces(c, type, m, n, j),
         NEW v, v = Value(FieldAt(type, n), ValueAt(type, m, n), j + 1),
         NEW next, next = At(type, m, n, j + 1), next <= Len(c.data), NEW into,
         NEW name, name = FieldAt(type, n).name
  PROVE  Frame(Call(type, c.data, next, [c.msg EXCEPT ![name] = v], into), type, m)
<1>1. /\ Readable(type, m) /\ Begins(c.data, type, m)
      /\ n \in 1..FieldCount(type) /\ j \in Nat /\ j < CountAt(type, m, n)
      /\ IsGot(c.msg, type, m, n, j)
  BY DEF Frame, Faces, Reached
<1> QED BY <1>1, FrameAt

(* What a step at a field comes to: the call moves on to the next item, or *)
(* the buffer was cut and the step fails.                                  *)
Passed(type, m) ==
  /\ \E c : /\ stack' = Append(Below, c)
            /\ Frame(c, type, m)
            /\ c.data = Top.data
            /\ c.into = Top.into
  /\ UNCHANGED <<input, skip, outcome>>
Refused(type, m) ==
  /\ \E error : error \notin {"ok", "running"} /\ Fail(error)
  /\ Len(Top.data) < Len(Encoded(type, m))

(* The tag the innermost call is at.                                       *)
LEMMA TagOfTop ==
  ASSUME NEW type, NEW m, Frame(Top, type, m), NEW n, NEW j, Faces(Top, type, m, n, j)
  PROVE  /\ TagError = "nil" /\ IsKnown
         /\ FieldNumber(Wire) = n
         /\ Known = FieldAt(type, n)
         /\ WireType(Wire) = WireTypeOf(Known.kind)
         /\ AfterTag = Top.index + 1
         /\ AfterTag \in 0..Len(Top.data)
<1>1. Top.type = type /\ Readable(type, m)
  BY DEF Frame
<1>2. n \in 1..FieldCount(type)
  BY DEF Faces
<1>3. n \in 1..7 /\ DOMAIN Fields[type] = 1..FieldCount(type)
  BY <1>1, <1>2, ReadableFields
<1>4. /\ VarintError(Top.data, Top.index) = "nil"
      /\ VarintNext(Top.data, Top.index) = Top.index + 1
      /\ FieldNumber(Wire) = n
      /\ WireType(Wire) = WireTypeOf(FieldAt(type, n).kind)
      /\ Top.index + 1 \in 0..Len(Top.data)
  BY DEF Faces, Tagged, Wire
<1>5. AfterTag = Top.index + 1
  BY <1>4 DEF AfterTag
<1>6. Known = FieldAt(type, n)
  BY <1>1, <1>4 DEF Known, FieldAt
<1>7. IsKnown
  BY <1>1, <1>2, <1>3, <1>4 DEF IsKnown
<1>8. n \in 1..(FieldHalf - 1)
  BY <1>3, TagAssumption
<1>9. WireType(Wire) # 4
  BY <1>4 DEF WireTypeOf
<1>10. TagError = "nil"
  BY <1>4, <1>8, <1>9 DEF TagError
<1> QED BY <1>4, <1>5, <1>6, <1>7, <1>10

(* The tag of an encoding is never refused, unknown or of another type.    *)
LEMMA TagIsGood ==
  ASSUME NEW type, NEW m, Frame(Top, type, m)
  PROVE  ~BadTag /\ ~WrongWireType /\ ~EnterSkip
<1>1. SUFFICES ASSUME BadTag \/ WrongWireType \/ EnterSkip PROVE FALSE
  OBVIOUS
<1>2. Top.index < Len(Top.data)
  BY <1>1 DEF BadTag, WrongWireType, EnterSkip, TagRead, InLoop
<1>3. PICK n, j : Faces(Top, type, m, n, j)
  BY <1>2, FrameFaces
<1>4. TagError = "nil" /\ IsKnown /\ WireType(Wire) = WireTypeOf(Known.kind)
  BY <1>3, TagOfTop
<1> QED BY <1>1, <1>4 DEF BadTag, WrongWireType, EnterSkip

(* A call at a field of some kinds is at an item of one of them.           *)
LEMMA AtFieldFaces ==
  ASSUME NEW type, NEW m, Frame(Top, type, m), NEW kinds, AtField(kinds)
  PROVE  \E n, j : Faces(Top, type, m, n, j) /\ FieldAt(type, n).kind \in kinds
<1>1. Top.index < Len(Top.data) /\ Known.kind \in kinds
  BY DEF AtField, TagRead, InLoop
<1>2. PICK n, j : Faces(Top, type, m, n, j)
  BY <1>1, FrameFaces
<1>3. Known = FieldAt(type, n)
  BY <1>2, TagOfTop
<1> QED BY <1>1, <1>2, <1>3

(* A scalar that is read is the message's own.                             *)
LEMMA ScalarSet ==
  ASSUME NEW type, NEW m, Frame(Top, type, m), NEW n, NEW j, Faces(Top, type, m, n, j),
         FieldAt(type, n).kind \in Scalars,
         NEW next, next = At(type, m, n, j + 1), next <= Len(Top.data),
         NEW v, v = ValueAt(type, m, n), SetField(v, next)
  PROVE  Passed(type, m)
<1> DEFINE f == FieldAt(type, n)
           x == ValueAt(type, m, n)
           msg == [Top.msg EXCEPT ![f.name] = v]
           c == Call(type, Top.data, next, msg, Top.into)
<1>1. Top.type = type /\ Readable(type, m)
  BY DEF Frame
<1>2. Known = f
  BY TagOfTop
<1>3. v = Value(f, x, j + 1)
  <2>1. f.kind \notin Lists
    BY DEF Scalars, Lists
  <2>2. j + 1 # 0
    BY DEF Faces
  <2> QED BY <2>1, <2>2 DEF Value
<1>4. Frame(Call(type, Top.data, next, [Top.msg EXCEPT ![f.name] = v], Top.into), type, m)
  <2> DEFINE t == Top
             name == f.name
  <2>1. Frame(t, type, m) /\ Faces(t, type, m, n, j) /\ next <= Len(t.data)
    OBVIOUS
  <2>2. name = FieldAt(type, n).name /\ v = Value(FieldAt(type, n), ValueAt(type, m, n), j + 1)
    BY <1>3
  <2> HIDE DEF t, name, f, x
  <2>3. Frame(Call(type, t.data, next, [t.msg EXCEPT ![name] = v], Top.into), type, m)
    BY <2>1, <2>2, FramePass
  <2> QED BY <2>3 DEF t, name
<1>5. stack' = Append(Below, c) /\ UNCHANGED <<input, skip, outcome>>
  BY <1>1, <1>2 DEF SetField
<1>6. c.data = Top.data /\ c.into = Top.into
  BY DEF Call
<1>7. Frame(c, type, m)
  BY <1>4
<1> HIDE DEF c
<1> QED BY <1>5, <1>6, <1>7 DEF Passed

(* ReadNumber reads the number that was sent, or finds it cut.             *)
LEMMA NumberStep ==
  ASSUME NEW type, NEW m, Frame(Top, type, m), ReadNumber
  PROVE  Passed(type, m) \/ Refused(type, m)
<1>1. AtField({"uint64", "int64"})
  BY DEF ReadNumber
<1>2. PICK n, j : Faces(Top, type, m, n, j) /\ FieldAt(type, n).kind \in {"uint64", "int64"}
  BY <1>1, AtFieldFaces
<1> DEFINE f == FieldAt(type, n)
           x == ValueAt(type, m, n)
           w == x % Word
           data == Top.data
           i == AfterTag
           error == VarintError(data, i)
           value == VarintValue(data, i)
           read == IF f.kind = "int64" THEN Signed(value) ELSE value
           next == VarintNext(data, i)
           rest == EncodeVarint(w)
           end == At(type, m, n, j + 1)
<1>3. Known = f /\ i = Top.index + 1 /\ i \in 0..Len(data)
  BY <1>2, TagOfTop
<1>4. Readable(type, m) /\ data \in Seq(Byte) /\ Len(data) \in Nat
  BY LenProperties DEF Frame, Begins
<1>5. n \in 1..FieldCount(type) /\ j \in Nat /\ j < CountAt(type, m, n)
  BY <1>2 DEF Faces
<1>6. f.kind \in Numbers /\ f.kind \in Scalars
  BY <1>2 DEF Numbers, Scalars
<1>7. Rest(f, x, j + 1) = rest
  BY <1>6 DEF Rest
<1>8. /\ Holds(data, i, rest) /\ end = i + Len(rest)
      /\ end <= Len(Encoded(type, m))
  BY <1>2, <1>3, <1>7 DEF Faces, Tagged
<1>9. FieldValue(f, x)
  BY <1>4, <1>5, ReadableFields
<1>10. /\ f.kind = "uint64" => x \in 0..(Word - 1)
       /\ f.kind = "int64" => x \in (-Half)..(Half - 1)
  BY <1>9 DEF FieldValue, IsScalar
<1>11. w \in 0..(Word - 1)
  <2>1. x \in Int
    BY <1>2, <1>10 DEF Word
  <2> QED BY <2>1, WordFits, DivMod
<1>12. IF error # "nil" THEN Fail(error) ELSE SetField(read, next)
  BY <1>3 DEF ReadNumber
<1>13. f.kind \in {"uint64", "int64"}
  BY <1>2
<1>14. Top.data = data
  OBVIOUS
<1>141. Len(Encoded(type, m)) \in Nat
  <2>1. Encoded(type, m) \in Seq(Byte)
    BY <1>4, EndsChained
  <2> QED BY <2>1, LenProperties
<1>142. f.kind = "uint64" => w = x
  <2>1. ASSUME f.kind = "uint64" PROVE w = x
    <3>1. x \in 0..(Word - 1) /\ Word \in Nat \ {0}
      BY <1>10, <2>1, WordFits
    <3> DEFINE d == Word
    <3> HIDE DEF d, x
    <3>2. x \in 0..(d - 1) /\ d \in Nat \ {0}
      BY <3>1 DEF d
    <3>3. x % d = x
      BY <3>2
    <3> QED BY <3>3 DEF d
  <2> QED BY <2>1
<1>143. f.kind = "int64" => Signed(w) = x
  BY <1>10, SignedBack
<1> HIDE DEF f, x, w, data, i, end, rest
<1>15. rest = EncodeVarint(w)
  BY DEF rest
<1>16. Len(rest) = Sov(w) /\ Sov(w) \in Nat
  BY <1>11, <1>15, VarintBytes
<1>17. CASE i + Sov(w) <= Len(data)
  <2>1. error = "nil" /\ next = i + Sov(w)
    BY <1>3, <1>4, <1>8, <1>11, <1>15, <1>17, VarintStops
  <2>2. value = w
    BY <1>3, <1>4, <1>8, <1>11, <1>15, <1>17, VarintRead
  <2>3. read = x
    BY <1>13, <1>142, <1>143, <2>2
  <2>4. next = end /\ next <= Len(data)
    BY <1>8, <1>16, <1>17, <2>1
  <2>5. SetField(read, next)
    BY <1>12, <2>1
  <2> HIDE DEF read, next
  <2>6. Passed(type, m)
    <3>1. /\ FieldAt(type, n).kind \in Scalars
          /\ next = At(type, m, n, j + 1) /\ next <= Len(Top.data)
          /\ read = ValueAt(type, m, n)
      BY <1>6, <1>14, <2>3, <2>4 DEF f, x, end
    <3> QED BY <1>2, <2>5, <3>1, ScalarSet
  <2> QED BY <2>6
<1>18. CASE ~(i + Sov(w) <= Len(data))
  <2>1. i + Sov(w) > Len(data)
    BY <1>3, <1>4, <1>16, <1>18
  <2>2. error # "nil"
    BY <1>3, <1>4, <1>8, <1>11, <1>15, <2>1, VarintCut
  <2>3. Fail(error)
    BY <1>12, <2>2
  <2>4. error \notin {"ok", "running"}
    BY DEF VarintError
  <2>5. Len(data) < Len(Encoded(type, m))
    <3> DEFINE l == Len(Encoded(type, m))
               s == Sov(w)
    <3>1. i + s <= l /\ i + s > Len(data) /\ l \in Nat /\ s \in Nat /\ i \in Nat
      BY <1>3, <1>4, <1>8, <1>16, <1>141, <2>1
    <3> HIDE DEF l, s
    <3>2. Len(data) < l
      BY <1>4, <3>1
    <3> QED BY <3>2 DEF l
  <2> HIDE DEF error
  <2> QED BY <1>14, <2>3, <2>4, <2>5 DEF Refused
<1> QED BY <1>17, <1>18

(* The payload of an encoding, or its refusal.                             *)
LEMMA PayloadOfTop ==
  ASSUME NEW type, NEW m, Frame(Top, type, m), NEW n, NEW j, Faces(Top, type, m, n, j),
         FieldAt(type, n).kind \notin Numbers
  PROVE  LET b == Body(FieldAt(type, n), ValueAt(type, m, n), j + 1)
             error == PayloadError(Top.data, AfterTag) IN
         /\ error \notin {"ok", "running"}
         /\ error = "nil" => /\ PayloadEnd(Top.data, AfterTag) = At(type, m, n, j + 1)
                             /\ PayloadEnd(Top.data, AfterTag) <= Len(Top.data)
                             /\ Payload(Top.data, AfterTag) = b
                             /\ b \in Seq(Byte) /\ Len(b) < Half
         /\ error # "nil" => Len(Top.data) < Len(Encoded(type, m))
<1> DEFINE f == FieldAt(type, n)
           x == ValueAt(type, m, n)
           b == Body(f, x, j + 1)
           v == Len(b)
           e == EncodeVarint(v)
           data == Top.data
           i == AfterTag
           error == PayloadError(data, i)
           end == At(type, m, n, j + 1)
           l == Len(Encoded(type, m))
<1>1. i = Top.index + 1 /\ i \in 0..Len(data)
  BY TagOfTop
<1>2. Readable(type, m) /\ data \in Seq(Byte) /\ Len(data) \in Nat /\ Len(data) < Half
  BY LenProperties DEF Frame, Begins
<1>3. n \in 1..FieldCount(type) /\ j \in Nat /\ j < CountAt(type, m, n)
  BY DEF Faces
<1>4. FieldValue(f, x) /\ CountAt(type, m, n) = Count(f, x) /\ CountAt(type, m, n) \in Nat
  BY <1>2, <1>3, ReadableFields, InnerFirst DEF CountAt
<1>5. j + 1 \in Nat /\ j + 1 \in 1..Count(f, x)
  BY <1>3, <1>4
<1>6. b \in Buffers
  <2> DEFINE k == j + 1
  <2>1. k \in Nat /\ k \in 1..Count(f, x) /\ f.kind \notin Numbers
    BY <1>5
  <2> HIDE DEF f, x, k
  <2>2. Body(f, x, k) \in Buffers
    BY <1>4, <2>1, BodyBytes
  <2> QED BY <2>2 DEF k
<1>7. b \in Seq(Byte) /\ Len(b) < Half
  BY <1>6 DEF Buffers
<1>8. Rest(f, x, j + 1) = e \o b
  BY DEF Rest
<1>9. Holds(data, i, e \o b) /\ end = i + Len(e \o b) /\ end <= l
  BY <1>1, <1>8 DEF Faces, Tagged
<1>10. l \in Nat
  <2>1. Encoded(type, m) \in Seq(Byte)
    BY <1>2, EndsChained
  <2> QED BY <2>1, LenProperties
<1>11. error \notin {"ok", "running"}
  <2>1. error \in {"nil", "ErrIntOverflow", "io.ErrUnexpectedEOF", "ErrInvalidLength", "panic"}
    BY DEF PayloadError, VarintError, SliceError
  <2> QED BY <2>1
<1>12. e = EncodeVarint(Len(b)) /\ v = Len(b)
  OBVIOUS
<1> HIDE DEF f, x, b, e, data, i, error, end, l
<1>13. v \in Nat /\ v \in 0..(Word - 1)
  <2>1. Len(b) \in Nat
    BY <1>7, LenProperties
  <2> QED BY <1>7, <2>1 DEF Word
<1> HIDE DEF v
<1>14. e \in Seq(Byte) /\ Len(e) = Sov(v) /\ Sov(v) \in Nat
  <2>1. e = EncodeVarint(v)
    BY <1>12
  <2> QED BY <1>13, <2>1, VarintBytes
<1>15. Len(e \o b) = Len(e) + Len(b)
  BY <1>7, <1>14, ConcatBytes
<1>16. end = i + Sov(v) + Len(b) /\ Len(b) \in Nat /\ Sov(Len(b)) = Sov(v) /\ i \in Nat
  BY <1>1, <1>2, <1>9, <1>12, <1>13, <1>14, <1>15
<1>17. Holds(data, i, EncodeVarint(Len(b)) \o b)
  BY <1>9, <1>12
<1>18. CASE end <= Len(data)
  <2>1. i + Sov(Len(b)) + Len(b) <= Len(data)
    BY <1>16, <1>18
  <2>2. /\ PayloadError(data, i) = "nil"
        /\ PayloadEnd(data, i) = i + Sov(Len(b)) + Len(b)
        /\ Payload(data, i) = b
    BY <1>1, <1>2, <1>7, <1>17, <2>1, PayloadRead
  <2>3. error = "nil" /\ PayloadEnd(data, i) = end
    BY <1>16, <2>2 DEF error
  <2> QED BY <1>7, <1>11, <1>18, <2>2, <2>3 DEF error, b, f, x, data, i, end
<1>19. CASE ~(end <= Len(data))
  <2>1. i + Sov(Len(b)) + Len(b) > Len(data)
    BY <1>2, <1>14, <1>16, <1>19
  <2>2. PayloadError(data, i) # "nil"
    BY <1>1, <1>2, <1>7, <1>17, <2>1, PayloadCut
  <2>3. error # "nil"
    BY <2>2 DEF error
  <2>4. Len(data) < l
    BY <1>2, <1>9, <1>10, <1>14, <1>16, <1>19
  <2> QED BY <1>11, <2>3, <2>4 DEF error, data, i, l
<1> QED BY <1>18, <1>19

(* BadPayload is taken only when bytes are missing.                        *)
LEMMA BadPayloadStep ==
  ASSUME NEW type, NEW m, Frame(Top, type, m), BadPayload
  PROVE  Refused(type, m)
<1> DEFINE error == PayloadError(Top.data, AfterTag)
<1>1. AtField({"text", "dec", "embedded", "pointer", "repeated"}) /\ error # "nil" /\ Fail(error)
  BY DEF BadPayload
<1>2. PICK n, j : /\ Faces(Top, type, m, n, j)
                  /\ FieldAt(type, n).kind \in {"text", "dec", "embedded", "pointer", "repeated"}
  BY <1>1, AtFieldFaces
<1>3. FieldAt(type, n).kind \notin Numbers
  BY <1>2 DEF Numbers
<1>4. error \notin {"ok", "running"} /\ (error # "nil" => Len(Top.data) < Len(Encoded(type, m)))
  BY <1>2, <1>3, PayloadOfTop
<1> HIDE DEF error
<1> QED BY <1>1, <1>4 DEF Refused

(* ReadText and ReadDec read what was sent; the digits of a decimal pass.  *)
LEMMA TextStep ==
  ASSUME NEW type, NEW m, Frame(Top, type, m), ReadText \/ ReadDec
  PROVE  Passed(type, m)
<1> DEFINE text == Payload(Top.data, AfterTag)
           next == PayloadEnd(Top.data, AfterTag)
<1>1. AtField({"text"}) \/ AtField({"dec"})
  BY DEF ReadText, ReadDec
<1>2. PICK n, j : Faces(Top, type, m, n, j) /\ FieldAt(type, n).kind \in {"text", "dec"}
  <2>1. CASE AtField({"text"})
    <3>1. PICK n, j : Faces(Top, type, m, n, j) /\ FieldAt(type, n).kind \in {"text"}
      BY <2>1, AtFieldFaces
    <3> QED BY <3>1
  <2>2. CASE AtField({"dec"})
    <3>1. PICK n, j : Faces(Top, type, m, n, j) /\ FieldAt(type, n).kind \in {"dec"}
      BY <2>2, AtFieldFaces
    <3> QED BY <3>1
  <2> QED BY <1>1, <2>1, <2>2
<1> DEFINE f == FieldAt(type, n)
           x == ValueAt(type, m, n)
<1>3. PayloadError(Top.data, AfterTag) = "nil"
  BY DEF ReadText, ReadDec
<1>4. f.kind \notin Numbers /\ f.kind \in Scalars
  BY <1>2 DEF Numbers, Scalars
<1>5. next = At(type, m, n, j + 1) /\ next <= Len(Top.data) /\ text = Body(f, x, j + 1)
  BY <1>2, <1>3, <1>4, PayloadOfTop
<1>6. Known = f
  BY <1>2, TagOfTop
<1>7. Readable(type, m) /\ n \in 1..FieldCount(type)
  BY <1>2 DEF Frame, Faces
<1>8. FieldValue(f, x)
  BY <1>7, ReadableFields
<1>9. SetField(x, next)
  <2>1. CASE f.kind = "text"
    <3>1. text = x
      BY <1>5, <2>1 DEF Body
    <3>2. ReadText
      BY <1>6, <2>1 DEF ReadDec, AtField
    <3>3. SetField(text, next)
      BY <3>2 DEF ReadText
    <3> QED BY <3>1, <3>3
  <2>2. CASE f.kind = "dec"
    <3>1. x \in Settled
      BY <1>8, <2>2 DEF FieldValue, IsScalar
    <3>2. x # << >> /\ DecValue(x) = x /\ IsDecText(x)
      BY <3>1 DEF Settled, Decimals
    <3>3. text = x
      BY <1>5, <2>2, <3>2 DEF Body, DecBytes
    <3>4. ReadDec
      BY <1>6, <2>2 DEF ReadText, AtField
    <3>5. IF IsDecText(text) THEN SetField(DecRead(Top.msg[Known.name], text), next)
          ELSE Fail("not a number")
      BY <3>4 DEF ReadDec
    <3>6. DecRead(Top.msg[Known.name], x) = x
      BY <3>2 DEF DecRead
    <3> HIDE DEF text, next, x
    <3>7. SetField(DecRead(Top.msg[Known.name], x), next)
      BY <3>2, <3>3, <3>5
    <3> QED BY <3>6, <3>7
  <2> QED BY <1>2, <2>1, <2>2
<1> HIDE DEF text, next
<1> QED BY <1>2, <1>4, <1>5, <1>9, ScalarSet

-----------------------------------------------------------------------------
(* Messages in messages.                                                   *)
LEMMA EntryReadable ==
  ASSUME NEW f, NEW x, FieldValue(f, x), f.kind \notin Scalars,
         NEW k \in Nat, k \in 1..Count(f, x)
  PROVE  /\ Readable(f.of, Entry(f, x, k)) /\ Flat(f.of)
         /\ Body(f, x, k) = Encoded(f.of, Entry(f, x, k))
         /\ f.kind \in {"embedded", "pointer", "repeated"}
         /\ f.kind = "embedded" => k = 1 /\ Entry(f, x, k) = x
         /\ f.kind \in Lists => Count(f, x) = Len(x) /\ Entry(f, x, k) = x[k]
<1> DEFINE y == Entry(f, x, k)
<1>1. FieldOK(f) /\ IsNested(Settled, f, x)
  BY DEF FieldValue
<1>2. f.of \in Types /\ Flat(f.of) /\ f.kind \in {"embedded", "pointer", "repeated"}
  BY <1>1 DEF FieldOK, Flat, Scalars, Lists
<1>3. f.kind \in Lists => Count(f, x) = Len(x) /\ y = x[k]
  BY DEF Count, Lists, Numbers, Entry
<1>4. f.kind = "embedded" => k = 1 /\ y = x
  <2>1. ASSUME f.kind = "embedded" PROVE Count(f, x) = 1 /\ y = x
    BY <2>1 DEF Count, Numbers, Lists, Entry
  <2> QED BY <2>1
<1>5. IsEntry(Settled, f.of, y)
  <2>1. CASE f.kind \in Lists
    <3>1. \A i \in 1..Len(x) : IsEntry(Settled, f.of, x[i])
      BY <1>1, <2>1 DEF IsNested
    <3> QED BY <1>3, <2>1, <3>1
  <2>2. CASE f.kind \notin Lists
    <3>1. f.kind = "embedded"
      BY <1>2, <2>2 DEF Lists
    <3>2. IsEntry(Settled, f.of, x)
      BY <1>1, <3>1 DEF IsNested
    <3> QED BY <1>4, <3>1, <3>2
  <2> QED BY <2>1, <2>2
<1>6. Body(f, x, k) = Encoded(f.of, y)
  BY <1>2 DEF Body
<1> HIDE DEF y
<1>7. IsMessage(Settled, f.of, y)
  <2> DEFINE fields == Fields[f.of]
  <2>1. /\ HasFields(fields, y)
        /\ \A i \in DOMAIN fields : IsScalar(Settled, fields[i], y[fields[i].name])
    BY <1>5 DEF IsEntry, IsPlain
  <2>2. \A i \in DOMAIN fields : IsNested(Settled, fields[i], y[fields[i].name])
    <3> SUFFICES ASSUME NEW i \in DOMAIN fields
                 PROVE  IsNested(Settled, fields[i], y[fields[i].name])
      OBVIOUS
    <3>1. fields[i].kind \in Scalars
      BY <1>2 DEF Flat
    <3> QED BY <3>1 DEF IsNested, Scalars, Lists
  <2> QED BY <2>1, <2>2 DEF IsMessage
<1>8. Readable(f.of, y)
  BY <1>2, <1>5, <1>7 DEF Readable, IsEntry
<1> QED BY <1>2, <1>3, <1>4, <1>6, <1>8 DEF y

(* A call that waits for the one on the message inside it.                 *)
Waits(c, e, type, m) ==
  /\ Readable(type, m)
  /\ c.type = type
  /\ Begins(c.data, type, m)
  /\ \E n, j :
       LET f == FieldAt(type, n)
           y == Entry(f, ValueAt(type, m, n), j + 1) IN
       /\ n \in 1..FieldCount(type) /\ j \in Nat /\ j < CountAt(type, m, n)
       /\ IsGot(c.msg, type, m, n, j)
       /\ f.kind \notin Scalars
       /\ c.into = n
       /\ c.index = At(type, m, n, j + 1)
       /\ c.index <= Len(c.data)
       /\ Frame(e, f.of, y)
       /\ Len(e.data) = Len(Encoded(f.of, y))

(* EnterMessage starts a call on the whole of a message inside.            *)
LEMMA EnterFrame ==
  ASSUME NEW type, NEW m, Frame(Top, type, m), EnterMessage
  PROVE  /\ \E c, e : /\ stack' = Below \o <<c, e>>
                      /\ Waits(c, e, type, m)
                      /\ c.data = Top.data
         /\ UNCHANGED <<input, skip, outcome>>
         /\ ~Flat(type)
<1>1. /\ AtField({"embedded", "pointer", "repeated"})
      /\ PayloadError(Top.data, AfterTag) = "nil"
      /\ UNCHANGED <<input, skip, outcome>>
  BY DEF EnterMessage
<1>2. PICK n, j : /\ Faces(Top, type, m, n, j)
                  /\ FieldAt(type, n).kind \in {"embedded", "pointer", "repeated"}
  BY <1>1, AtFieldFaces
<1> DEFINE f == FieldAt(type, n)
           x == ValueAt(type, m, n)
           k == j + 1
           y == Entry(f, x, k)
           next == PayloadEnd(Top.data, AfterTag)
           body == Payload(Top.data, AfterTag)
           old == Top.msg[Known.name]
           into == CASE Known.kind = "embedded" -> old
                     [] Known.kind = "pointer" /\ old # << >> -> old[1]
                     [] OTHER -> Known.fresh
           c == Call(Top.type, Top.data, next, Top.msg, FieldNumber(Wire))
           e == Call(Known.of, body, 0, into, 0)
<1>3. f.kind \notin Numbers /\ f.kind \notin Scalars
  BY <1>2 DEF Numbers, Scalars
<1>4. /\ next = At(type, m, n, k) /\ next <= Len(Top.data)
      /\ body = Body(f, x, k) /\ body \in Seq(Byte) /\ Len(body) < Half
  BY <1>1, <1>2, <1>3, PayloadOfTop
<1>5. Known = f /\ FieldNumber(Wire) = n
  BY <1>2, TagOfTop
<1>6. Readable(type, m) /\ Top.type = type /\ Begins(Top.data, type, m)
  BY DEF Frame
<1>7. /\ n \in 1..FieldCount(type) /\ j \in Nat /\ j < CountAt(type, m, n)
      /\ IsGot(Top.msg, type, m, n, j)
  BY <1>2 DEF Faces, Reached
<1>8. FieldValue(f, x) /\ type \in Types /\ DOMAIN Fields[type] = 1..FieldCount(type)
  BY <1>6, <1>7, ReadableFields
<1>9. k \in Nat /\ k \in 1..Count(f, x)
  <2>1. CountAt(type, m, n) \in Nat /\ CountAt(type, m, n) = Count(f, x)
    BY <1>6, <1>7, InnerFirst DEF CountAt
  <2> QED BY <1>7, <2>1
<1>10. /\ Readable(f.of, y)
       /\ Body(f, x, k) = Encoded(f.of, y)
       /\ f.kind = "embedded" => k = 1
       /\ f.kind \in Lists => Count(f, x) = Len(x)
  <2> HIDE DEF f, x, k
  <2> QED BY <1>3, <1>8, <1>9, EntryReadable
<1>11. old = Value(f, x, j)
  <2>1. Top.msg[f.name] = GotAt(type, m, n, j, n)
    BY <1>7 DEF IsGot
  <2>2. GotAt(type, m, n, j, n) = Value(f, x, j)
    BY <1>7 DEF GotAt
  <2> QED BY <1>5, <2>1, <2>2
<1>12. into = Zero(Fields[f.of])
  <2>1. CASE f.kind = "embedded"
    <3>1. j = 0
      BY <1>7, <1>10, <2>1
    <3>2. old = f.zero
      BY <1>11, <2>1, <3>1 DEF Value, Lists
    <3>3. f.zero = Zero(Fields[f.of])
      BY <1>8, <2>1 DEF FieldValue, FieldOK
    <3> QED BY <1>5, <2>1, <3>2, <3>3
  <2>2. CASE f.kind = "pointer"
    <3>1. Len(x) <= 1 /\ f.kind \in Lists
      BY <1>8, <2>2 DEF FieldValue, IsNested, Lists
    <3>2. j = 0
      <4>1. k <= Len(x) /\ Len(x) \in Nat
        BY <1>8, <1>9, <1>10, <3>1 DEF FieldValue, IsNested
      <4> QED BY <1>7, <3>1, <4>1
    <3>3. old = << >>
      <4>1. SubSeq(x, 1, 0) = << >>
        BY SubSeqEmpty
      <4> QED BY <1>11, <3>1, <3>2, <4>1 DEF Value
    <3>4. f.fresh = Zero(Fields[f.of])
      BY <1>8, <3>1 DEF FieldValue, FieldOK
    <3>5. into = Known.fresh
      BY <1>5, <2>2, <3>3
    <3> QED BY <1>5, <3>4, <3>5
  <2>3. CASE f.kind = "repeated"
    <3>1. f.fresh = Zero(Fields[f.of])
      BY <1>8, <2>3 DEF FieldValue, FieldOK, Lists
    <3>2. into = Known.fresh
      BY <1>5, <2>3
    <3> QED BY <1>5, <3>1, <3>2
  <2> QED BY <1>2, <2>1, <2>2, <2>3
<1>13. stack' = Below \o <<c, e>>
  BY DEF EnterMessage
<1>14. Begins(body, f.of, y)
  <2>1. body = Encoded(f.of, y)
    BY <1>4, <1>10
  <2>2. Len(body) \in Nat
    BY <1>4, LenProperties
  <2>3. Holds(body, 0, body)
    BY DEF Holds
  <2> HIDE DEF body, y
  <2> QED BY <1>4, <2>1, <2>2, <2>3 DEF Begins
<1>15. e = Call(f.of, body, 0, Zero(Fields[f.of]), 0)
  BY <1>5, <1>12
<1>16. Frame(e, f.of, y)
  <2> HIDE DEF f, y, body, e
  <2>1. Frame(Call(f.of, body, 0, Zero(Fields[f.of]), 0), f.of, y)
    BY <1>10, <1>14, FrameStart
  <2> QED BY <1>15, <2>1
<1>17. /\ c.type = type /\ c.data = Top.data /\ c.index = next /\ c.msg = Top.msg
       /\ c.into = n /\ e.data = body
  BY <1>5, <1>6 DEF Call
<1>18. Len(e.data) = Len(Encoded(f.of, y))
  BY <1>4, <1>10, <1>17
<1>19. ~Flat(type)
  BY <1>3, <1>7, <1>8 DEF Flat, FieldAt
<1> HIDE DEF c, e, next, body
<1>20. Waits(c, e, type, m)
  BY <1>3, <1>4, <1>6, <1>7, <1>16, <1>17, <1>18 DEF Waits
<1> QED BY <1>1, <1>13, <1>17, <1>19, <1>20

(* One more entry of a list.                                               *)
LEMMA ListGrows ==
  ASSUME NEW f, NEW x, FieldValue(f, x), f.kind \in Lists, NEW j \in Nat, j < Len(x)
  PROVE  /\ SubSeq(x, 1, j + 1) = Append(SubSeq(x, 1, j), x[j + 1])
         /\ f.kind = "pointer" => Append(SubSeq(x, 1, j), x[j + 1]) = <<x[j + 1]>>
<1>1. Len(x) \in Nat /\ x = [i \in 1..Len(x) |-> x[i]]
  BY DEF FieldValue, IsNested
<1> DEFINE S == {x[i] : i \in 1..Len(x)}
<1>2. x \in Seq(S)
  <2> DEFINE l == Len(x)
  <2>1. x \in [1..l -> S] /\ l \in Nat
    BY <1>1
  <2> HIDE DEF l, S
  <2> QED BY <2>1
<1> HIDE DEF S
<1>3. SubSeq(x, 1, j + 1) = Append(SubSeq(x, 1, (j + 1) - 1), x[j + 1])
  <2> DEFINE k == j + 1
             z == x[k]
             s == SubSeq(x, 1, k - 1)
  <2>1. 1 \in 1..Len(x) /\ k \in 1..Len(x) /\ z \in S /\ k - 1 \in 0..Len(x)
    BY <1>1, <1>2
  <2>2. SubSeq(x, 1, k) = s \o <<z>>
    <3> HIDE DEF k
    <3> QED BY <1>2, <2>1, SubSeqRecursiveSecond
  <2>3. s \in Seq(S)
    <3> HIDE DEF k
    <3>1. \A i \in 1..(k - 1) : x[i] \in S
      BY <1>1, <1>2, <2>1
    <3> QED BY <1>1, <2>1, <3>1
  <2> HIDE DEF k, z, s
  <2>4. Append(s, z) = s \o <<z>>
    BY <2>1, <2>3, AppendIsConcat
  <2> QED BY <2>2, <2>4 DEF k, z, s
<1>4. (j + 1) - 1 = j
  OBVIOUS
<1>5. ASSUME f.kind = "pointer" PROVE Append(SubSeq(x, 1, j), x[j + 1]) = <<x[j + 1]>>
  <2>1. Len(x) <= 1
    BY <1>5 DEF FieldValue, IsNested
  <2>2. j = 0
    BY <1>1, <2>1
  <2>3. SubSeq(x, 1, 0) = << >>
    BY SubSeqEmpty
  <2> DEFINE z == x[j + 1]
  <2> HIDE DEF z
  <2>4. Append(<< >>, z) = <<z>>
    OBVIOUS
  <2> QED BY <2>2, <2>3, <2>4 DEF z
<1> QED BY <1>3, <1>4, <1>5

-----------------------------------------------------------------------------
(* The message inside is whole in the buffer, so its call ends with it and *)
(* the call that waited goes on behind the item.                           *)
LEMMA OneMore ==
  ASSUME NEW f, NEW x, FieldValue(f, x), f.kind \notin Scalars,
         NEW j \in Nat, j < Count(f, x), NEW y, y = Entry(f, x, j + 1)
  PROVE  (CASE f.kind = "embedded" -> y
            [] f.kind = "pointer" -> <<y>>
            [] OTHER -> Append(Value(f, x, j), y)) = Value(f, x, j + 1)
<1>1. f.kind \in {"embedded", "pointer", "repeated"}
  BY DEF FieldValue, FieldOK, Lists
<1>2. CASE f.kind = "embedded"
  <2>1. Entry(f, x, j + 1) = x /\ Value(f, x, j + 1) = x
    BY <1>2 DEF Entry, Value, Lists
  <2> QED BY <1>2, <2>1
<1>3. CASE f.kind \in Lists
  <2>1. Count(f, x) = Len(x) /\ Entry(f, x, j + 1) = x[j + 1]
    BY <1>3 DEF Count, Entry, Lists, Numbers
  <2>2. /\ SubSeq(x, 1, j + 1) = Append(SubSeq(x, 1, j), x[j + 1])
        /\ f.kind = "pointer" => Append(SubSeq(x, 1, j), x[j + 1]) = <<x[j + 1]>>
    BY <1>3, <2>1, ListGrows
  <2>3. Value(f, x, j) = SubSeq(x, 1, j) /\ Value(f, x, j + 1) = SubSeq(x, 1, j + 1)
    BY <1>3 DEF Value
  <2>4. f.kind # "embedded"
    BY <1>3 DEF Lists
  <2> QED BY <2>1, <2>2, <2>3, <2>4
<1> QED BY <1>1, <1>2, <1>3 DEF Lists

(* LeaveMessage sets the field as it was sent and goes on behind it.       *)
LEMMA LeaveFrame ==
  ASSUME NEW c, NEW e, stack = <<c, e>>, NEW type, NEW m, Waits(c, e, type, m),
         LeaveMessage
  PROVE  /\ \E d : stack' = <<d>> /\ Frame(d, type, m) /\ d.data = c.data
         /\ UNCHANGED <<input, skip, outcome>>
<1>1. /\ Len(stack) = 2 /\ Top = e /\ stack[Len(stack) - 1] = c
      /\ SubSeq(stack, 1, Len(stack) - 2) = << >>
  <2>1. Len(stack) = 2 /\ stack[1] = c /\ stack[2] = e
    OBVIOUS
  <2>2. SubSeq(stack, 1, 0) = << >>
    BY SubSeqEmpty
  <2> QED BY <2>1, <2>2 DEF Top
<1>2. PICK n, j :
        LET f == FieldAt(type, n)
            y == Entry(f, ValueAt(type, m, n), j + 1) IN
        /\ n \in 1..FieldCount(type) /\ j \in Nat /\ j < CountAt(type, m, n)
        /\ IsGot(c.msg, type, m, n, j)
        /\ f.kind \notin Scalars
        /\ c.into = n
        /\ c.index = At(type, m, n, j + 1)
        /\ c.index <= Len(c.data)
        /\ Frame(e, f.of, y)
        /\ Len(e.data) = Len(Encoded(f.of, y))
  BY DEF Waits
<1>3. Readable(type, m) /\ c.type = type /\ Begins(c.data, type, m)
  BY DEF Waits
<1> DEFINE f == FieldAt(type, n)
           x == ValueAt(type, m, n)
           y == Entry(f, x, j + 1)
           old == c.msg[f.name]
           new == CASE f.kind = "embedded" -> y
                    [] f.kind = "pointer" -> <<y>>
                    [] OTHER -> Append(old, y)
           d == Call(type, c.data, c.index, [c.msg EXCEPT ![f.name] = new], 0)
<1>4. e.msg = y
  <2>1. e.index >= Len(e.data)
    BY <1>1 DEF LeaveMessage
  <2>2. Frame(e, f.of, y) /\ Len(e.data) = Len(Encoded(f.of, y))
    BY <1>2
  <2> HIDE DEF y, f
  <2> QED BY <2>1, <2>2, FrameDone
<1>5. Fields[c.type][c.into] = f
  BY <1>2, <1>3 DEF FieldAt
<1>6. stack' = <<d>> /\ UNCHANGED <<input, skip, outcome>>
  <2>1. Top.msg = y
    BY <1>1, <1>4
  <2> HIDE DEF y, f
  <2>2. stack' = Append(<< >>, d)
    BY <1>1, <1>3, <1>5, <2>1 DEF LeaveMessage
  <2>3. UNCHANGED <<input, skip, outcome>>
    BY DEF LeaveMessage
  <2> HIDE DEF d
  <2> QED BY <2>2, <2>3
<1>7. FieldValue(f, x) /\ j < Count(f, x)
  <2>1. FieldValue(f, x)
    BY <1>2, <1>3, ReadableFields
  <2>2. CountAt(type, m, n) = Count(f, x)
    BY DEF CountAt
  <2> QED BY <1>2, <2>1, <2>2
<1>8. old = Value(f, x, j)
  <2>1. c.msg[f.name] = GotAt(type, m, n, j, n)
    BY <1>2 DEF IsGot
  <2>2. GotAt(type, m, n, j, n) = Value(f, x, j)
    BY <1>2 DEF GotAt
  <2> QED BY <2>1, <2>2
<1>9. new = Value(f, x, j + 1)
  <2>1. j \in Nat /\ f.kind \notin Scalars /\ y = Entry(f, x, j + 1)
    BY <1>2
  <2> HIDE DEF f, x, y, old
  <2>2. (CASE f.kind = "embedded" -> y
           [] f.kind = "pointer" -> <<y>>
           [] OTHER -> Append(Value(f, x, j), y)) = Value(f, x, j + 1)
    BY <1>7, <2>1, OneMore
  <2> QED BY <1>8, <2>2
<1>10. Frame(d, type, m)
  <2> DEFINE data == c.data
             msg == c.msg
             next == c.index
             name == f.name
  <2>1. /\ n \in 1..FieldCount(type) /\ j \in Nat /\ j < CountAt(type, m, n)
        /\ IsGot(msg, type, m, n, j) /\ next = At(type, m, n, j + 1) /\ next <= Len(data)
        /\ new = Value(FieldAt(type, n), ValueAt(type, m, n), j + 1)
        /\ name = FieldAt(type, n).name /\ Begins(data, type, m)
    BY <1>2, <1>3, <1>9
  <2> HIDE DEF data, msg, next, name, new, f, x
  <2>2. Frame(Call(type, data, next, [msg EXCEPT ![name] = new], 0), type, m)
    BY <1>3, <2>1, FrameAt
  <2> QED BY <2>2 DEF data, msg, next, name
<1>11. d.data = c.data
  BY DEF Call
<1> HIDE DEF d
<1> QED BY <1>6, <1>10, <1>11

-----------------------------------------------------------------------------
(* The stack of a decoder that reads an encoding of m: one call, or one    *)
(* that waits and one on a message inside it, which is there whole.        *)
Alone(c, s, type, data, m) == s = <<c>> /\ Frame(c, type, m) /\ c.data = data
Reads(s, type, data, m) ==
  \/ \E c : Alone(c, s, type, data, m)
  \/ \E c, e : s = <<c, e>> /\ Waits(c, e, type, m) /\ c.data = data

Follows(m) ==
  /\ ~skip.on
  /\ Reads(stack, input.type, input.bytes, m)
  /\ outcome \in {"running", "ok"} \/ Len(input.bytes) < Len(Encoded(input.type, m))
  /\ outcome = "ok" =>
       \E c : Alone(c, stack, input.type, input.bytes, m) /\ c.index >= Len(c.data)

(* A stack of one call.                                                    *)
LEMMA OneCall ==
  ASSUME NEW c, stack = <<c>>
  PROVE  /\ Top = c /\ Len(stack) = 1
         /\ \A d : Append(Below, d) = <<d>>
         /\ \A d, e : Below \o <<d, e>> = <<d, e>>
<1>1. Len(stack) = 1 /\ stack[1] = c
  OBVIOUS
<1>2. Below = << >>
  BY <1>1, SubSeqEmpty DEF Below
<1>3. \A d, e : << >> \o <<d, e>> = <<d, e>>
  <2> SUFFICES ASSUME NEW d, NEW e PROVE << >> \o <<d, e>> = <<d, e>>
    OBVIOUS
  <2>1. <<d, e>> \in Seq({d, e})
    OBVIOUS
  <2> QED BY <2>1, ConcatEmptySeq
<1>4. \A d : Append(<< >>, d) = <<d>>
  OBVIOUS
<1> QED BY <1>1, <1>2, <1>3, <1>4 DEF Top

(* A stack of two.                                                         *)
LEMMA TwoCalls ==
  ASSUME NEW c, NEW e, stack = <<c, e>>
  PROVE  /\ Top = e /\ Len(stack) = 2
         /\ \A d : Append(Below, d) = <<c, d>>
<1>1. Len(stack) = 2 /\ stack[1] = c /\ stack[2] = e
  OBVIOUS
<1>2. Below = <<c>>
  <2>1. Below = SubSeq(stack, 1, 1)
    BY <1>1 DEF Below
  <2>2. stack \in Seq({c, e}) /\ 1 \in 1..Len(stack)
    BY <1>1
  <2>3. SubSeq(stack, 1, 1) = SubSeq(stack, 1, 1 - 1) \o <<c>>
    BY <1>1, <2>2, SubSeqRecursiveSecond
  <2>4. SubSeq(stack, 1, 1 - 1) = << >>
    BY SubSeqEmpty
  <2>5. << >> \o <<c>> = <<c>>
    <3>1. <<c>> \in Seq({c})
      OBVIOUS
    <3> QED BY <3>1, ConcatEmptySeq
  <2> QED BY <2>1, <2>3, <2>4, <2>5
<1>3. \A d : Append(<<c>>, d) = <<c, d>>
  <2> SUFFICES ASSUME NEW d PROVE Append(<<c>>, d) = <<c, d>>
    OBVIOUS
  <2> DEFINE S == {c, d}
             s == <<c>>
             u == <<c, d>>
  <2>1. s \in Seq(S) /\ d \in S /\ Len(s) = 1 /\ s[1] = c
    OBVIOUS
  <2>2. u \in Seq(S) /\ Len(u) = 2 /\ u[1] = c /\ u[2] = d
    OBVIOUS
  <2> HIDE DEF S, s, u
  <2>3. Append(s, d) \in Seq(S) /\ Len(Append(s, d)) = Len(s) + 1
    BY <2>1, AppendProperties
  <2>4. \A i \in 1..Len(s) : Append(s, d)[i] = s[i]
    BY <2>1, AppendProperties
  <2>5. Append(s, d)[Len(s) + 1] = d
    BY <2>1, AppendProperties
  <2> DEFINE t == Append(s, d)
  <2>6. t \in Seq(S) /\ Len(t) = 2 /\ t[1] = c /\ t[2] = d
    <3>1. Len(s) + 1 = 2 /\ 1 \in 1..Len(s)
      BY <2>1
    <3>2. t \in Seq(S) /\ Len(t) = Len(s) + 1 /\ t[1] = s[1] /\ t[Len(s) + 1] = d
      BY <2>3, <2>4, <2>5, <3>1
    <3> HIDE DEF t
    <3> QED BY <2>1, <3>1, <3>2
  <2> HIDE DEF t
  <2>7. \A i \in 1..Len(t) : t[i] = u[i]
    BY <2>2, <2>6
  <2>8. t = u
    BY <2>2, <2>6, <2>7, SeqEqual
  <2> QED BY <2>8 DEF s, t, u
<1> QED BY <1>1, <1>2, <1>3 DEF Top

(* The call inside: its message has no messages of its own, and as long as *)
(* it goes on the call around it waits.                                    *)
LEMMA WaitsOn ==
  ASSUME NEW c, NEW e, NEW type, NEW m, Waits(c, e, type, m)
  PROVE  \E of, y : /\ Frame(e, of, y) /\ Flat(of)
                    /\ Len(e.data) = Len(Encoded(of, y))
                    /\ \A d : Frame(d, of, y) /\ d.data = e.data => Waits(c, d, type, m)
<1>1. Readable(type, m) /\ c.type = type /\ Begins(c.data, type, m)
  BY DEF Waits
<1>2. PICK n, j :
        LET f == FieldAt(type, n)
            y == Entry(f, ValueAt(type, m, n), j + 1) IN
        /\ n \in 1..FieldCount(type) /\ j \in Nat /\ j < CountAt(type, m, n)
        /\ IsGot(c.msg, type, m, n, j)
        /\ f.kind \notin Scalars
        /\ c.into = n
        /\ c.index = At(type, m, n, j + 1)
        /\ c.index <= Len(c.data)
        /\ Frame(e, f.of, y)
        /\ Len(e.data) = Len(Encoded(f.of, y))
  BY DEF Waits
<1> DEFINE f == FieldAt(type, n)
           y == Entry(f, ValueAt(type, m, n), j + 1)
<1>3. Flat(f.of)
  <2>1. FieldValue(f, ValueAt(type, m, n)) /\ f.kind \notin Scalars
    BY <1>1, <1>2, ReadableFields
  <2> QED BY <2>1 DEF FieldValue, FieldOK, Flat
<1>4. ASSUME NEW d, Frame(d, f.of, y), d.data = e.data PROVE Waits(c, d, type, m)
  BY <1>1, <1>2, <1>4 DEF Waits
<1>5. Frame(e, f.of, y) /\ Len(e.data) = Len(Encoded(f.of, y))
  BY <1>2
<1> HIDE DEF f, y
<1> QED BY <1>3, <1>4, <1>5

(* The steps at a scalar field.                                            *)
ScalarStep == ReadNumber \/ BadPayload \/ ReadText \/ ReadDec
(* Such a step reads what was sent, or finds it cut.                       *)
LEMMA ScalarSteps ==
  ASSUME NEW type, NEW m, Frame(Top, type, m), ScalarStep
  PROVE  Passed(type, m) \/ Refused(type, m)
<1>1. CASE ReadNumber
  BY <1>1, NumberStep
<1>2. CASE BadPayload
  BY <1>2, BadPayloadStep
<1>3. CASE ReadText \/ ReadDec
  BY <1>3, TextStep
<1> QED BY <1>1, <1>2, <1>3 DEF ScalarStep

(* Every step of a decoder with one call.                                  *)
LEMMA StepAlone ==
  ASSUME NEW m, Follows(m), NEW c, Alone(c, stack, input.type, input.bytes, m), Next
  PROVE  Follows(m)'
<1> DEFINE type == input.type
           data == input.bytes
<1>1. Frame(Top, type, m) /\ Top = c /\ c.data = data /\ stack = <<c>> /\ Len(stack) = 1
  BY OneCall DEF Alone
<1>2. ~skip.on
  BY DEF Follows
<1>3. ~BadTag /\ ~WrongWireType /\ ~EnterSkip
  BY <1>1, TagIsGood
<1>4. ~SkipItem /\ ~BadSkipTag /\ ~UnclosedGroup
  BY <1>2 DEF SkipItem, BadSkipTag, UnclosedGroup, InSkip
<1>5. ~LeaveMessage
  BY <1>1 DEF LeaveMessage
<1>6. outcome = "running"
  BY <1>3, <1>4 DEF Next, ReadNumber, BadPayload, ReadText, ReadDec, EnterMessage,
    LeaveMessage, Return, AtField, TagRead, InLoop
<1>7. CASE ScalarStep
  <2>1. CASE Passed(type, m)
    <3>1. PICK d : stack' = Append(Below, d) /\ Frame(d, type, m) /\ d.data = Top.data
      BY <2>1 DEF Passed
    <3>2. stack' = <<d>>
      BY <1>1, <3>1, OneCall
    <3>3. Alone(d, stack', type, data, m)
      BY <1>1, <3>1, <3>2 DEF Alone
    <3>4. UNCHANGED <<input, skip, outcome>>
      BY <2>1 DEF Passed
    <3> QED BY <1>2, <1>6, <3>3, <3>4 DEF Follows, Reads
  <2>2. CASE Refused(type, m)
    <3>1. /\ outcome' # "ok" /\ UNCHANGED <<input, stack, skip>>
          /\ Len(data) < Len(Encoded(type, m))
      BY <1>1, <2>2 DEF Refused, Fail
    <3>2. Reads(stack, type, data, m)
      BY DEF Follows
    <3> QED BY <1>2, <3>1, <3>2 DEF Follows
  <2> QED BY <1>1, <1>7, <2>1, <2>2, ScalarSteps
<1>8. CASE EnterMessage
  <2>1. PICK d, e : /\ stack' = Below \o <<d, e>>
                    /\ Waits(d, e, type, m)
                    /\ d.data = Top.data
    BY <1>1, <1>8, EnterFrame
  <2>2. UNCHANGED <<input, skip, outcome>>
    BY <1>1, <1>8, EnterFrame
  <2>3. stack' = <<d, e>>
    BY <1>1, <2>1, OneCall
  <2>4. Reads(stack', type, data, m)
    BY <1>1, <2>1, <2>3 DEF Reads
  <2> QED BY <1>2, <1>6, <2>2, <2>4 DEF Follows
<1>9. CASE Return
  <2>1. c.index >= Len(c.data) /\ UNCHANGED <<input, stack, skip>>
    BY <1>1, <1>9 DEF Return
  <2>2. c.index <= Len(c.data)
    <3>1. Begins(c.data, type, m) /\ c.index \in 0..Len(c.data)
      BY <1>1 DEF Frame
    <3>2. Len(c.data) \in Nat
      BY <3>1, LenProperties DEF Begins
    <3> QED BY <3>1, <3>2
  <2>3. outcome' = "ok"
    <3>1. ~(c.index > Len(c.data))
      <4>1. c.index \in 0..Len(c.data) /\ Begins(c.data, type, m)
        BY <1>1 DEF Frame
      <4>2. Len(c.data) \in Nat
        BY <4>1, LenProperties DEF Begins
      <4> QED BY <4>1, <4>2
    <3> QED BY <1>1, <1>9, <3>1 DEF Return
  <2>4. Reads(stack, type, data, m)
    BY DEF Follows
  <2> QED BY <1>2, <2>1, <2>3, <2>4 DEF Follows
<1> QED BY <1>3, <1>4, <1>5, <1>7, <1>8, <1>9 DEF Next, ScalarStep

(* Every step of a decoder inside a message.                               *)
LEMMA StepInside ==
  ASSUME NEW m, Follows(m), NEW c, NEW e, stack = <<c, e>>,
         Waits(c, e, input.type, m), c.data = input.bytes, Next
  PROVE  Follows(m)'
<1> DEFINE type == input.type
           data == input.bytes
<1>1. Top = e /\ Len(stack) = 2
  BY TwoCalls
<1>2. ~skip.on
  BY DEF Follows
<1>3. PICK of, y : /\ Frame(e, of, y) /\ Flat(of)
                   /\ Len(e.data) = Len(Encoded(of, y))
                   /\ \A d : Frame(d, of, y) /\ d.data = e.data => Waits(c, d, type, m)
  BY WaitsOn
<1>4. ~BadTag /\ ~WrongWireType /\ ~EnterSkip
  BY <1>1, <1>3, TagIsGood
<1>5. ~SkipItem /\ ~BadSkipTag /\ ~UnclosedGroup
  BY <1>2 DEF SkipItem, BadSkipTag, UnclosedGroup, InSkip
<1>6. ~Return
  BY <1>1 DEF Return
<1>7. ~EnterMessage
  BY <1>1, <1>3, EnterFrame
<1>8. outcome = "running"
  BY <1>4, <1>5 DEF Next, ReadNumber, BadPayload, ReadText, ReadDec, EnterMessage,
    LeaveMessage, Return, AtField, TagRead, InLoop
<1>9. CASE ScalarStep
  <2>1. CASE Passed(of, y)
    <3>1. PICK d : stack' = Append(Below, d) /\ Frame(d, of, y) /\ d.data = Top.data
      BY <2>1 DEF Passed
    <3>2. stack' = <<c, d>>
      BY <3>1, TwoCalls
    <3>3. Waits(c, d, type, m)
      BY <1>1, <1>3, <3>1
    <3>4. UNCHANGED <<input, skip, outcome>>
      BY <2>1 DEF Passed
    <3>5. Reads(stack', type, data, m)
      BY <3>2, <3>3 DEF Reads
    <3> QED BY <1>2, <1>8, <3>4, <3>5 DEF Follows
  <2>2. CASE Refused(of, y)
    <3>1. Len(e.data) < Len(Encoded(of, y))
      BY <1>1, <2>2 DEF Refused
    <3>2. Len(e.data) \in Nat
      <4>1. Begins(e.data, of, y)
        BY <1>3 DEF Frame
      <4> QED BY <4>1, LenProperties DEF Begins
    <3> QED BY <1>3, <3>1, <3>2
  <2> QED BY <1>1, <1>3, <1>9, <2>1, <2>2, ScalarSteps
<1>10. CASE LeaveMessage
  <2>1. PICK d : stack' = <<d>> /\ Frame(d, type, m) /\ d.data = c.data
    BY <1>10, LeaveFrame
  <2>2. UNCHANGED <<input, skip, outcome>>
    BY <1>10, LeaveFrame
  <2>3. Alone(d, stack', type, data, m)
    BY <2>1 DEF Alone
  <2> QED BY <1>2, <1>8, <2>2, <2>3 DEF Follows, Reads
<1> QED BY <1>4, <1>5, <1>6, <1>7, <1>9, <1>10 DEF Next, ScalarStep

(* Every step follows the encoding.                                        *)
LEMMA FollowsStep ==
  ASSUME NEW m, Follows(m), [Next]_vars
  PROVE  Follows(m)'
<1>1. CASE UNCHANGED vars
  BY <1>1 DEF vars, Follows
<1>2. CASE Next
  <2>1. CASE \E c : Alone(c, stack, input.type, input.bytes, m)
    BY <1>2, <2>1, StepAlone
  <2>2. CASE \E c, e : /\ stack = <<c, e>> /\ Waits(c, e, input.type, m)
                       /\ c.data = input.bytes
    BY <1>2, <2>2, StepInside
  <2> QED BY <2>1, <2>2 DEF Follows, Reads
<1> QED BY <1>1, <1>2

(* A buffer that begins an encoding of m.                                  *)
BeginsWith(in, m) ==
  /\ in.type \in Codecs
  /\ Readable(in.type, m)
  /\ in.bytes \in Seq(Byte)
  /\ IsPrefix(in.bytes, Marshal(in.type, m))

(* A message that can be read back is marshalled as its fields in a row.   *)
LEMMA MarshalIsEncoded ==
  ASSUME NEW type \in Codecs, NEW m, Readable(type, m)
  PROVE  /\ Marshal(type, m) = Encoded(type, m) /\ Written(type, m) = Encoded(type, m)
         /\ Encoded(type, m) \in Seq(Byte)
         /\ Len(Encoded(type, m)) \in Nat /\ Len(Encoded(type, m)) < Half
<1>1. type \in Types /\ IsMessage(Settled, type, m) /\ Len(Encoded(type, m)) < Half
  BY DEF Readable
<1>2. IsMessage(Decimals, type, m)
  BY <1>1, SettledDecimals
<1>3. Marshal(type, m) = Written(type, m) /\ Written(type, m) \in Seq(Byte)
  BY <1>2, SizeIsLength
<1>4. Encoded(type, m) = Written(type, m)
  BY DEF Encoded, Codecs
<1> QED BY <1>1, <1>3, <1>4, LenProperties

(* A beginning of a string holds the string as far as it goes.             *)
LEMMA PrefixHolds ==
  ASSUME NEW a \in Seq(Byte), NEW b \in Seq(Byte), IsPrefix(a, b)
  PROVE  Len(a) \in Nat /\ Len(b) \in Nat /\ Len(a) <= Len(b) /\ Holds(a, 0, b)
<1>1. Len(a) \in Nat /\ Len(b) \in Nat
  BY LenProperties
<1>2. Len(a) <= Len(b) /\ SubSeq(a, 1, Len(a)) = SubSeq(b, 1, Len(a))
  BY DEF IsPrefix
<1>3. ASSUME NEW k \in 1..Len(a) PROVE a[k] = b[k]
  <2> DEFINE n == Len(a)
  <2>1. k \in 1..n /\ n \in Nat /\ n <= Len(b) /\ 1 \in Nat
    BY <1>1, <1>2
  <2>2. SubSeq(a, 1, n) = [i \in 1..n |-> a[i]] /\ SubSeq(b, 1, n) = [i \in 1..n |-> b[i]]
    <3> HIDE DEF n
    <3> QED BY <2>1
  <2> QED BY <1>2, <2>1, <2>2
<1>4. ASSUME NEW k \in 1..Len(b), 0 + k <= Len(a) PROVE a[0 + k] = b[k]
  <2>1. 0 + k = k /\ k \in 1..Len(a)
    BY <1>1, <1>4
  <2> QED BY <1>3, <2>1
<1> QED BY <1>1, <1>2, <1>4 DEF Holds

(* A decoder that has not begun follows the encoding.                      *)
LEMMA FollowsStart ==
  ASSUME Init, NEW m, BeginsWith(input, m)
  PROVE  Follows(m)
<1> DEFINE type == input.type
           data == input.bytes
           c == Call(type, data, 0, Zero(Fields[type]), 0)
<1>1. type \in Codecs /\ Readable(type, m) /\ data \in Seq(Byte)
      /\ IsPrefix(data, Marshal(type, m))
  BY DEF BeginsWith
<1>2. /\ Marshal(type, m) = Encoded(type, m) /\ Encoded(type, m) \in Seq(Byte)
      /\ Len(Encoded(type, m)) \in Nat /\ Len(Encoded(type, m)) < Half
  BY <1>1, MarshalIsEncoded
<1>3. /\ Len(data) \in Nat /\ Len(data) <= Len(Encoded(type, m))
      /\ Holds(data, 0, Encoded(type, m))
  <2> DEFINE b == Encoded(type, m)
  <2>1. b \in Seq(Byte) /\ IsPrefix(data, b)
    BY <1>1, <1>2
  <2> HIDE DEF b, data
  <2> QED BY <1>1, <2>1, PrefixHolds DEF b
<1>4. Begins(data, type, m)
  <2>1. Half \in Nat
    BY HalfAssumption, WireAssumption, TagAssumption
  <2>2. Len(data) < Half
    BY <1>2, <1>3, <2>1
  <2> QED BY <1>1, <1>3, <2>2 DEF Begins
<1>5. Frame(c, type, m)
  <2> HIDE DEF type, data
  <2> QED BY <1>1, <1>4, FrameStart
<1>6. stack = <<c>> /\ c.data = data /\ ~skip.on /\ outcome = "running"
  BY DEF Init, Call, NoSkip
<1> HIDE DEF c
<1>7. Reads(stack, type, data, m)
  BY <1>5, <1>6 DEF Reads, Alone
<1> QED BY <1>6, <1>7 DEF Follows

(* No step changes the buffer.                                             *)
LEMMA InputStays ==
  ASSUME [Next]_vars
  PROVE  input' = input
<1>1. CASE UNCHANGED vars
  BY <1>1 DEF vars
<1>2. CASE BadTag \/ WrongWireType \/ ReadNumber \/ BadPayload \/ ReadText \/ ReadDec
  BY <1>2 DEF BadTag, WrongWireType, ReadNumber, BadPayload, ReadText, ReadDec, Fail,
    SetField
<1>3. CASE EnterMessage \/ LeaveMessage \/ Return
  BY <1>3 DEF EnterMessage, LeaveMessage, Return
<1>4. CASE EnterSkip \/ SkipItem \/ BadSkipTag \/ UnclosedGroup
  BY <1>4 DEF EnterSkip, SkipItem, BadSkipTag, UnclosedGroup, Fail, Skipped
<1> QED BY <1>1, <1>2, <1>3, <1>4 DEF Next

(* On a buffer that begins an encoding the decoder follows the encoding.   *)
FollowsAll == \A m : BeginsWith(input, m) => Follows(m)
(* The inductive invariant of the theorems on round trips and cuts.        *)
LEMMA FollowsAlways == Spec => []FollowsAll
<1>1. Init => FollowsAll
  BY FollowsStart DEF FollowsAll
<1>2. FollowsAll /\ [Next]_vars => FollowsAll'
  <2> SUFFICES ASSUME FollowsAll, [Next]_vars, NEW m, BeginsWith(input, m)'
               PROVE  Follows(m)'
    BY DEF FollowsAll
  <2>1. input' = input
    BY InputStays
  <2>2. BeginsWith(input, m)
    BY <2>1
  <2>3. Follows(m)
    BY <2>2 DEF FollowsAll
  <2> QED BY <2>3, FollowsStep
<1> QED BY <1>1, <1>2, PTL DEF Spec

(* A buffer with the encoding of the message that comes with it.           *)
IsEncoding(in) ==
  /\ in.form = "message"
  /\ in.type \in Codecs
  /\ Readable(in.type, in.message)
  /\ in.bytes = Marshal(in.type, in.message)

(* A message whose decimals are set is read back from its encoding as it   *)
(* was: in each of the generated codecs the case of Unmarshal undoes what  *)
(* MarshalToSizedBuffer wrote, whatever the values of the fields and the   *)
(* messages in them.                                                       *)
THEOREM ReadsBack == Spec => [](IsEncoding(input) => RoundTrip)
<1>1. FollowsAll /\ IsEncoding(input) => RoundTrip
  <2> SUFFICES ASSUME FollowsAll, IsEncoding(input), outcome # "running"
               PROVE  outcome = "ok" /\ stack[1].msg = input.message
    BY DEF RoundTrip
  <2> DEFINE type == input.type
             m == input.message
             data == input.bytes
  <2>1. type \in Codecs /\ Readable(type, m) /\ data = Marshal(type, m)
    BY DEF IsEncoding
  <2>2. /\ Marshal(type, m) = Encoded(type, m)
        /\ Encoded(type, m) \in Seq(Byte) /\ Len(Encoded(type, m)) \in Nat
    BY <2>1, MarshalIsEncoded
  <2>3. data \in Seq(Byte) /\ data = Encoded(type, m) /\ Len(data) \in Nat
    BY <2>1, <2>2
  <2>4. IsPrefix(data, Marshal(type, m))
    <3> HIDE DEF data
    <3>1. IsPrefix(data, data)
      BY <2>3 DEF IsPrefix
    <3> QED BY <2>1, <3>1
  <2>5. Follows(m)
    BY <2>1, <2>3, <2>4 DEF BeginsWith, FollowsAll
  <2>6. ~(Len(data) < Len(Encoded(type, m)))
    <3> DEFINE l == Len(data)
    <3>1. l \in Nat /\ Len(Encoded(type, m)) = l
      BY <2>3
    <3> HIDE DEF l, data
    <3> QED BY <3>1 DEF l
  <2>7. outcome = "ok"
    BY <2>5, <2>6 DEF Follows
  <2>8. PICK c : Alone(c, stack, type, data, m) /\ c.index >= Len(c.data)
    BY <2>5, <2>7 DEF Follows
  <2>9. stack = <<c>> /\ Frame(c, type, m) /\ Len(c.data) = Len(Encoded(type, m))
    BY <2>3, <2>8 DEF Alone
  <2>10. c.msg = m
    BY <2>8, <2>9, FrameDone
  <2>11. stack[1] = c
    BY <2>9
  <2> QED BY <2>7, <2>10, <2>11
<1> QED BY <1>1, FollowsAlways, PTL

-----------------------------------------------------------------------------
(* New messages are messages: a decoder that stops early leaves fields as  *)
(* they were.                                                              *)
LEMMA ZeroScalar ==
  ASSUME NEW f, FieldOK(f)
  PROVE  IsScalar(Decimals, f, f.zero)
<1>1. << >> \in Buffers
  <2>1. << >> \in Seq(Byte) /\ Len(<< >>) = 0
    BY EmptySeq
  <2> QED BY <2>1, TagAssumption DEF Buffers
<1>2. << >> \in Decimals
  <2>1. DOMAIN << >> = {}
    OBVIOUS
  <2> QED BY <1>1, <2>1 DEF Decimals, IsDecText
<1>3. 0 \in 0..(Word - 1) /\ 0 \in (-Half)..(Half - 1)
  BY TagAssumption DEF Word
<1> QED BY <1>1, <1>2, <1>3 DEF IsScalar, FieldOK, Numbers

(* A plain field of a new message takes three bytes at most.               *)
LEMMA ZeroPart ==
  ASSUME NEW n \in 1..7, NEW f, FieldOK(f), f.kind \in Scalars
  PROVE  /\ Part(n, f, f.zero) \in Seq(Byte)
         /\ Len(Part(n, f, f.zero)) \in 0..3
<1> DEFINE x == f.zero
<1>1. IsScalar(Decimals, f, x)
  BY ZeroScalar
<1>2. IsNested(Decimals, f, x) /\ NestedBytes(f, x)
  BY DEF IsNested, NestedBytes, Scalars, Lists
<1>3. f.kind \in {"text", "dec"} => x = << >>
  BY DEF FieldOK
<1>4. f.kind \in Numbers => x = 0
  BY DEF FieldOK
<1> HIDE DEF x
<1>5. Part(n, f, x) \in Seq(Byte) /\ Len(Part(n, f, x)) = PartSize(f, x)
  BY <1>1, <1>2, PartBytes
<1>6. PartSize(f, x) \in 0..3
  <2>1. CASE f.kind = "text"
    <3>1. PartSize(f, x) = SizeText(x) /\ x = << >>
      BY <1>3, <2>1 DEF PartSize, Numbers
    <3>2. SizeText(x) = 0
      BY <3>1 DEF SizeText
    <3> QED BY <3>1, <3>2
  <2>2. CASE f.kind \in Numbers
    BY <1>4, <2>2 DEF PartSize, SizeNumber, Numbers
  <2>3. CASE f.kind = "dec"
    <3>1. DecBytes(x) = <<48>>
      BY <1>3, <2>3 DEF DecBytes
    <3>2. Len(DecBytes(x)) = 1
      BY <3>1
    <3>3. Sov(1) = 1
      BY TagByte
    <3>4. PartSize(f, x) = SizePut(1)
      BY <2>3, <3>2 DEF PartSize, Numbers
    <3> QED BY <3>3, <3>4 DEF SizePut
  <2> QED BY <2>1, <2>2, <2>3 DEF Scalars, Numbers
<1> QED BY <1>5, <1>6 DEF x

(* A new message can be a message inside another.                          *)
LEMMA ZeroEntry ==
  ASSUME NEW type \in Types, Flat(type)
  PROVE  IsEntry(Decimals, type, Zero(Fields[type]))
<1> DEFINE z == Zero(Fields[type])
           N == FieldCount(type)
           p == Parts(type, z)
<1>1. /\ HasFields(Fields[type], z)
      /\ \A k \in 1..N : z[FieldAt(type, k).name] = FieldAt(type, k).zero
  BY ZeroFields
<1>2. /\ N \in 0..7 /\ DOMAIN Fields[type] = 1..N /\ N = Len(Fields[type])
      /\ \A k \in 1..N : k \in 1..7 /\ FieldOK(FieldAt(type, k))
  BY FieldOf DEF FieldCount, FieldAt
<1>3. \A k \in 1..N : FieldAt(type, k).kind \in Scalars
  BY <1>2 DEF Flat, FieldAt
<1>4. IsPlain(Decimals, Fields[type], z)
  <2> SUFFICES ASSUME NEW k \in 1..N
               PROVE  IsScalar(Decimals, FieldAt(type, k), z[FieldAt(type, k).name])
    BY <1>1, <1>2 DEF IsPlain, FieldAt
  <2> QED BY <1>1, <1>2, ZeroScalar
<1>5. \A k \in 1..N : p[k] \in Seq(Byte) /\ Len(p[k]) \in 0..3
  <2> SUFFICES ASSUME NEW k \in 1..N PROVE p[k] \in Seq(Byte) /\ Len(p[k]) \in 0..3
    OBVIOUS
  <2> DEFINE f == FieldAt(type, k)
  <2>1. p[k] = Part(k, f, z[f.name])
    BY <1>2 DEF Parts, FieldAt
  <2>2. z[f.name] = f.zero /\ k \in 1..7 /\ FieldOK(f) /\ f.kind \in Scalars
    BY <1>1, <1>2, <1>3
  <2> HIDE DEF f, z, p
  <2> QED BY <2>1, <2>2, ZeroPart
<1>6. PartsOK(type, z)
  BY <1>4, PlainIsWritten
<1>7. PICK g : Chained(g, N, p)
  <2> HIDE DEF p, N
  <2>1. N \in Nat /\ \A k \in 1..N : p[k] \in Seq(Byte)
    BY <1>2, <1>5
  <2> QED BY <2>1, ChainExists
<1>8. g[N] = Encoded(type, z)
  <2>1. Chained(g, Len(Fields[type]), Parts(type, z))
    BY <1>2, <1>7
  <2> HIDE DEF z, N, p
  <2>2. g[Len(Fields[type])] = Encoded(type, z)
    BY <1>6, <2>1, ChainIsEncoding
  <2> QED BY <1>2, <2>2
<1> HIDE DEF N, p
<1> DEFINE T == {k \in 0..N : Len(g[k]) \in 0..(3 * k)}
<1>9. 0 \in T
  <2>1. g[0] = << >>
    BY <1>7 DEF Chained
  <2>2. Len(<< >>) = 0
    BY EmptySeq
  <2> QED BY <1>2, <2>1, <2>2
<1>10. ASSUME NEW k \in 1..N, k - 1 \in T PROVE k \in T
  <2>1. BytesTo(p, N)
    BY <1>5 DEF BytesTo
  <2>2. Len(g[k]) = Len(g[k - 1]) + Len(p[k])
    <3>1. Linked(g, p, k)
      BY <1>2, <1>7, <2>1, ChainStep
    <3> QED BY <3>1 DEF Linked
  <2>3. Len(p[k]) \in 0..3 /\ Len(g[k - 1]) \in 0..(3 * (k - 1)) /\ k \in 0..N
    BY <1>2, <1>5, <1>10
  <2> DEFINE l == Len(g[k])
             l1 == Len(g[k - 1])
             lp == Len(p[k])
  <2>4. l = l1 + lp /\ lp \in 0..3 /\ l1 \in 0..(3 * (k - 1)) /\ k \in Nat
    BY <1>2, <2>2, <2>3
  <2> HIDE DEF l, l1, lp
  <2>5. l \in 0..(3 * k)
    BY <2>4
  <2> QED BY <2>3, <2>5 DEF l
<1>11. N \in T
  <2> HIDE DEF T
  <2>1. N \in Nat /\ N \in 0..N
    BY <1>2
  <2> QED BY <1>9, <1>10, <2>1, UpTo
<1>12. Len(Encoded(type, z)) < Half
  <2>1. Len(g[N]) \in 0..(3 * N)
    BY <1>11
  <2> DEFINE l == Len(g[N])
  <2> HIDE DEF l
  <2>2. l \in 0..(3 * N)
    BY <2>1 DEF l
  <2>3. l < Half
    BY <1>2, <2>2, TagAssumption
  <2> QED BY <1>8, <2>3 DEF l
<1> QED BY <1>4, <1>12 DEF IsEntry

(* The value of a new message in a field with messages.                    *)
LEMMA ZeroNested ==
  ASSUME NEW f, FieldOK(f)
  PROVE  IsNested(Decimals, f, f.zero)
<1>1. f.kind = "embedded" => IsEntry(Decimals, f.of, f.zero)
  <2> SUFFICES ASSUME f.kind = "embedded" PROVE IsEntry(Decimals, f.of, f.zero)
    OBVIOUS
  <2>1. f.of \in Types /\ Flat(f.of) /\ f.zero = Zero(Fields[f.of])
    BY DEF FieldOK, Flat, Scalars
  <2> QED BY <2>1, ZeroEntry
<1>2. f.kind \in Lists => f.zero = << >>
  BY DEF FieldOK
<1>3. DOMAIN << >> = 1..0 /\ Len(<< >>) = 0 /\ << >> = [j \in 1..0 |-> << >>[j]]
  OBVIOUS
<1> QED BY <1>1, <1>2, <1>3 DEF IsNested, Lists

-----------------------------------------------------------------------------
(* What was read of a cut buffer is written as the bytes that were there.  *)
Agrees(a, b) == Len(a) <= Len(b) /\ \A k \in 1..Len(a) : b[k] = a[k]

(* A beginning of a beginning is a beginning.                              *)
LEMMA AgreesTwice ==
  ASSUME NEW a \in Seq(Byte), NEW b \in Seq(Byte), NEW c \in Seq(Byte),
         Agrees(a, b), Agrees(b, c)
  PROVE  Agrees(a, c)
<1>1. Len(a) \in Nat /\ Len(b) \in Nat /\ Len(c) \in Nat
  BY LenProperties
<1>2. Len(a) <= Len(b) /\ Len(b) <= Len(c)
  BY DEF Agrees
<1>3. Len(a) <= Len(c)
  BY <1>1, <1>2
<1>4. ASSUME NEW k \in 1..Len(a) PROVE c[k] = a[k]
  <2>1. k \in 1..Len(b)
    BY <1>1, <1>2
  <2> QED BY <2>1 DEF Agrees
<1> QED BY <1>3, <1>4 DEF Agrees

(* A beginning behind the same bytes.                                      *)
LEMMA AgreesConcat ==
  ASSUME NEW a \in Seq(Byte), NEW b \in Seq(Byte), NEW c \in Seq(Byte), Agrees(b, c)
  PROVE  Agrees(a \o b, a \o c)
<1>1. Len(a) \in Nat /\ Len(b) \in Nat /\ Len(c) \in Nat
  BY LenProperties
<1>2. Len(b) <= Len(c) /\ \A k \in 1..Len(b) : c[k] = b[k]
  BY DEF Agrees
<1>3. /\ Len(a \o b) = Len(a) + Len(b)
      /\ \A k \in 1..(Len(a) + Len(b)) :
           (a \o b)[k] = IF k <= Len(a) THEN a[k] ELSE b[k - Len(a)]
  BY ConcatProperties
<1>4. /\ Len(a \o c) = Len(a) + Len(c)
      /\ \A k \in 1..(Len(a) + Len(c)) :
           (a \o c)[k] = IF k <= Len(a) THEN a[k] ELSE c[k - Len(a)]
  BY ConcatProperties
<1> DEFINE ab == a \o b
           ac == a \o c
           la == Len(a)
           lb == Len(b)
           lc == Len(c)
<1>5. /\ Len(ab) = la + lb /\ Len(ac) = la + lc
      /\ la \in Nat /\ lb \in Nat /\ lc \in Nat /\ lb <= lc
      /\ \A k \in 1..(la + lb) : ab[k] = IF k <= la THEN a[k] ELSE b[k - la]
      /\ \A k \in 1..(la + lc) : ac[k] = IF k <= la THEN a[k] ELSE c[k - la]
      /\ \A k \in 1..lb : c[k] = b[k]
  BY <1>1, <1>2, <1>3, <1>4
<1> HIDE DEF ab, ac, la, lb, lc
<1>6. ASSUME NEW k \in 1..(la + lb) PROVE ac[k] = ab[k]
  <2>1. k \in 1..(la + lc)
    BY <1>5
  <2>2. ~(k <= la) => k - la \in 1..lb
    BY <1>5
  <2> QED BY <1>5, <2>1, <2>2
<1>7. Len(ab) <= Len(ac)
  BY <1>5
<1>8. Agrees(ab, ac)
  BY <1>5, <1>6, <1>7 DEF Agrees
<1> QED BY <1>8 DEF ab, ac

(* Each link is a beginning of the last one.                               *)
LEMMA AgreesChain ==
  ASSUME NEW n \in Nat, NEW p, NEW g, Chained(g, n, p), BytesTo(p, n), NEW k \in 0..n
  PROVE  Agrees(g[k], g[n]) /\ g[k] \in Seq(Byte) /\ g[n] \in Seq(Byte)
<1>1. \A i \in 1..n : p[i] \in Seq(Byte)
  BY DEF BytesTo
<1>2. /\ Len(g[k]) <= Len(g[n])
      /\ \A j \in 1..Len(g[k]) : g[n][j] = g[k][j]
  BY <1>1, ChainPrefix
<1>3. n \in 0..n
  OBVIOUS
<1> QED BY <1>2, <1>3 DEF Agrees, Chained

(* The first entries of a list are a list.                                 *)
LEMMA ShortList ==
  ASSUME NEW f, NEW x, FieldValue(f, x), f.kind \in Lists,
         NEW j \in Nat, j <= Len(x)
  PROVE  LET y == SubSeq(x, 1, j) IN
         /\ FieldValue(f, y) /\ Count(f, y) = j
         /\ \A i \in 1..j : Entry(f, y, i) = Entry(f, x, i)
<1>1. /\ FieldOK(f) /\ IsScalar(Settled, f, x) /\ IsNested(Settled, f, x)
      /\ f.kind \notin Scalars /\ f.kind # "embedded"
  BY DEF FieldValue, Lists, Scalars
<1>2. /\ Len(x) \in Nat /\ DOMAIN x = 1..Len(x)
      /\ \A i \in 1..Len(x) : IsEntry(Settled, f.of, x[i])
      /\ f.kind = "pointer" => Len(x) <= 1
  BY <1>1 DEF IsNested
<1> DEFINE y == SubSeq(x, 1, j)
           z == [i \in 1..j |-> x[i]]
           S == {x[i] : i \in 1..Len(x)}
<1>3. x \in Seq(S)
  <2> DEFINE l == Len(x)
  <2>1. x \in [1..l -> S] /\ l \in Nat
    <3>1. x = [i \in 1..Len(x) |-> x[i]]
      BY <1>1 DEF IsNested
    <3> QED BY <1>2, <3>1
  <2> HIDE DEF l, S
  <2> QED BY <2>1
<1>4. y = z
  <2> HIDE DEF S
  <2> QED BY <1>2, <1>3
<1>5. Len(z) = j /\ DOMAIN z = 1..j /\ \A i \in 1..j : z[i] = x[i] /\ i \in 1..Len(x)
  BY <1>2
<1>6. z = [i \in 1..j |-> z[i]]
  OBVIOUS
<1> HIDE DEF z
<1>7. IsNested(Settled, f, z)
  <2>1. f.kind = "pointer" => j <= 1
    BY <1>2
  <2>2. \A i \in 1..j : IsEntry(Settled, f.of, z[i])
    BY <1>2, <1>5
  <2> QED BY <1>1, <1>5, <1>6, <2>1, <2>2 DEF IsNested
<1>8. IsScalar(Settled, f, z)
  BY <1>1 DEF IsScalar, Scalars
<1>9. FieldValue(f, z)
  BY <1>1, <1>7, <1>8 DEF FieldValue
<1>10. Count(f, z) = j
  BY <1>5 DEF Count, Lists, Numbers
<1>11. \A i \in 1..j : Entry(f, z, i) = Entry(f, x, i)
  BY <1>5 DEF Entry
<1> QED BY <1>4, <1>9, <1>10, <1>11

(* A field that is read in part is a list; of another nothing was read.    *)
LEMMA ListOrNone ==
  ASSUME NEW f, NEW x, FieldValue(f, x), NEW j \in Nat, j < Count(f, x)
  PROVE  \/ f.kind \in Lists /\ j <= Len(x) /\ Value(f, x, j) = SubSeq(x, 1, j)
         \/ f.kind \notin Lists /\ j = 0 /\ Value(f, x, j) = f.zero
<1>1. CASE f.kind \in Lists
  <2>1. Count(f, x) = Len(x)
    BY <1>1 DEF Count, Lists, Numbers
  <2>2. Len(x) \in Nat
    BY <1>1 DEF FieldValue, IsNested
  <2> QED BY <1>1, <2>1, <2>2 DEF Value
<1>2. CASE f.kind \notin Lists
  <2>1. 1 \in 1..7
    OBVIOUS
  <2>2. Count(f, x) \in {0, 1}
    BY <1>2, <2>1, SingleField
  <2>3. j = 0
    BY <2>2
  <2> QED BY <1>2, <2>3 DEF Value
<1> QED BY <1>1, <1>2

(* A field of which some items were read.                                  *)
LEMMA ValueFits ==
  ASSUME NEW f, NEW x, FieldValue(f, x), NEW j \in Nat, j < Count(f, x)
  PROVE  IsScalar(Decimals, f, Value(f, x, j)) /\ IsNested(Decimals, f, Value(f, x, j))
<1>1. CASE f.kind \in Lists /\ j <= Len(x) /\ Value(f, x, j) = SubSeq(x, 1, j)
  <2>1. FieldValue(f, SubSeq(x, 1, j))
    BY <1>1, ShortList
  <2> QED BY <1>1, <2>1, SettledDecimals DEF FieldValue
<1>2. CASE f.kind \notin Lists /\ j = 0 /\ Value(f, x, j) = f.zero
  <2>1. FieldOK(f)
    BY DEF FieldValue
  <2> QED BY <1>2, <2>1, ZeroScalar, ZeroNested
<1> QED BY <1>1, <1>2, ListOrNone

(* Items read are written as the first bytes of the field.                 *)
LEMMA PartAgrees ==
  ASSUME NEW n \in 1..7, NEW f, NEW x, FieldValue(f, x), NEW j \in Nat, j < Count(f, x),
         NEW h, Chained(h, Count(f, x), Items(n, f, x))
  PROVE  Agrees(h[j], Part(n, f, Value(f, x, j)))
<1> DEFINE v == Value(f, x, j)
           P == Part(n, f, v)
<1>1. P \in Seq(Byte)
  <2>1. IsScalar(Decimals, f, v) /\ IsNested(Decimals, f, v)
    BY ValueFits
  <2>2. FieldOK(f)
    BY DEF FieldValue
  <2> HIDE DEF v
  <2>3. NestedBytes(f, v)
    BY <2>1, <2>2, NestedIsWritten
  <2> QED BY <2>1, <2>2, <2>3, PartBytes
<1>2. CASE j = 0
  <2>1. h[0] = << >>
    BY DEF Chained
  <2>2. Len(P) \in Nat
    BY <1>1, LenProperties
  <2>3. Len(<< >>) = 0
    BY EmptySeq
  <2> HIDE DEF P
  <2>4. Agrees(<< >>, P)
    BY <2>2, <2>3 DEF Agrees
  <2> QED BY <1>2, <2>1, <2>4 DEF P
<1>3. CASE j # 0
  <2>1. f.kind \in Lists /\ j <= Len(x) /\ v = SubSeq(x, 1, j)
    BY <1>3, ListOrNone
  <2>2. /\ FieldValue(f, v) /\ Count(f, v) = j
        /\ \A i \in 1..j : Entry(f, v, i) = Entry(f, x, i)
    BY <2>1, ShortList
  <2> HIDE DEF v
  <2> DEFINE p == Items(n, f, x)
             q == Items(n, f, v)
             c == Count(f, x)
  <2>3. c \in Nat
    BY CountIsNat
  <2>4. ASSUME NEW i \in 1..j PROVE q[i] = p[i]
    <3>1. Entry(f, v, i) = Entry(f, x, i) /\ f.kind \notin Numbers \cup {"text", "dec"}
      BY <2>1, <2>2 DEF Lists, Numbers
    <3>2. Item(n, f, v, i) = Item(n, f, x, i)
      BY <3>1 DEF Item, Rest, Body
    <3>3. i \in 1..c
      BY <2>3
    <3> QED BY <2>2, <3>2, <3>3 DEF Items
  <2>5. ItemsBytes(n, f, v)
    BY <2>2, ItemsAreBytes
  <2> DEFINE d == Count(f, v)
  <2>6. \A i \in 1..d : q[i] \in Seq(Byte)
    BY <2>5 DEF ItemsBytes, BytesTo
  <2>7. d = j
    BY <2>2
  <2>8. Chained(h, c, p)
    OBVIOUS
  <2> HIDE DEF p, q, c, d
  <2>9. PICK g : Chained(g, j, q)
    BY <2>6, <2>7, ChainExists
  <2>10. g[j] = Part(n, f, v)
    <3>1. Chained(g, Count(f, v), Items(n, f, v))
      BY <2>7, <2>9 DEF q, d
    <3>2. g[Count(f, v)] = Part(n, f, v)
      BY <2>2, <3>1, FieldChain
    <3> QED BY <2>2, <3>2
  <2>11. g[j] = h[j]
    <3>1. j \in 0..j /\ j <= c
      BY <2>3 DEF c
    <3> QED BY <2>3, <2>4, <2>8, <2>9, <3>1, ChainSame
  <2>12. Agrees(P, P)
    <3> DEFINE l == Len(P)
    <3>1. l \in Nat
      BY <1>1, LenProperties
    <3> HIDE DEF P
    <3> QED BY <3>1 DEF Agrees
  <2> QED BY <2>10, <2>11, <2>12 DEF v
<1> QED BY <1>2, <1>3

(* What was read of a message can be written.                              *)
LEMMA GotParts ==
  ASSUME NEW type, NEW m, Readable(type, m), NEW n \in 1..FieldCount(type),
         NEW j \in Nat, j < CountAt(type, m, n), NEW got, IsGot(got, type, m, n, j)
  PROVE  PartsOK(type, got)
<1>1. type \in Types /\ FieldCount(type) = Len(Fields[type])
  BY DEF Readable, FieldCount
<1> SUFFICES ASSUME NEW k \in 1..FieldCount(type)
             PROVE  LET f == Fields[type][k] IN
                    /\ IsScalar(Decimals, f, got[f.name])
                    /\ IsNested(Decimals, f, got[f.name])
                    /\ NestedBytes(f, got[f.name])
  BY <1>1, PartsOfFields
<1> DEFINE f == Fields[type][k]
           v == got[f.name]
<1>2. f = FieldAt(type, k) /\ v = GotAt(type, m, n, j, k)
  BY DEF FieldAt, IsGot
<1>3. FieldValue(f, ValueAt(type, m, k))
  BY <1>2, ReadableFields
<1>4. FieldOK(f)
  BY <1>3 DEF FieldValue
<1>5. IsScalar(Decimals, f, v) /\ IsNested(Decimals, f, v)
  <2>1. CASE k < n
    <3>1. v = ValueAt(type, m, k)
      BY <1>2, <2>1 DEF GotAt
    <3> HIDE DEF f, v
    <3> QED BY <1>3, <3>1, SettledDecimals DEF FieldValue
  <2>2. CASE k = n
    <3>1. v = Value(f, ValueAt(type, m, n), j)
      BY <1>2, <2>2 DEF GotAt
    <3>2. FieldValue(f, ValueAt(type, m, n)) /\ j < Count(f, ValueAt(type, m, n))
      BY <1>2, <1>3, <2>2 DEF CountAt
    <3> HIDE DEF f, v
    <3> QED BY <3>1, <3>2, ValueFits
  <2>3. CASE k > n
    <3>1. v = f.zero
      BY <1>2, <2>3 DEF GotAt
    <3> HIDE DEF f, v
    <3> QED BY <1>4, <3>1, ZeroScalar, ZeroNested
  <2> QED BY <2>1, <2>2, <2>3
<1> HIDE DEF f, v
<1>6. NestedBytes(f, v)
  BY <1>4, <1>5, NestedIsWritten
<1> QED BY <1>5, <1>6 DEF f, v

(* The bytes before a place, and the encoding of what was read before it.  *)
LEMMA GotBytes ==
  ASSUME NEW type, NEW m, Readable(type, m), NEW n \in 1..FieldCount(type),
         NEW j \in Nat, j < CountAt(type, m, n), NEW got, IsGot(got, type, m, n, j)
  PROVE  \E b \in Seq(Byte) :
           /\ Len(b) = At(type, m, n, j)
           /\ Agrees(b, Encoded(type, m))
           /\ Agrees(b, Encoded(type, got))
           /\ Encoded(type, got) \in Seq(Byte)
<1> DEFINE N == FieldCount(type)
           f == FieldAt(type, n)
           x == ValueAt(type, m, n)
           c == CountAt(type, m, n)
           p == Parts(type, m)
           q == Parts(type, got)
           g == Ends(type, m)
           h == Inner(type, m, n)
           its == Items(n, f, x)
           b == g[n - 1] \o h[j]
<1>1. N \in Nat /\ n \in 1..N /\ n - 1 \in 0..N /\ n \in 0..N /\ N = Len(Fields[type])
  <2>1. N \in Nat
    BY ReadableFields
  <2> QED BY <2>1 DEF FieldCount
<1>2. n \in 1..7 /\ FieldValue(f, x) /\ type \in Types
  BY ReadableFields
<1>3. Chained(g, N, p) /\ BytesTo(p, N) /\ g[N] = Encoded(type, m)
  BY EndsChained
<1>4. c \in Nat /\ Chained(h, c, its) /\ BytesTo(its, c) /\ h[c] = p[n] /\ c = Count(f, x)
  BY InnerChained DEF CountAt
<1>5. At(type, m, n, j) = Len(g[n - 1]) + Len(h[j])
  <2>1. n <= FieldCount(type)
    BY <1>1
  <2> QED BY <2>1 DEF At
<1>6. PartsOK(type, got)
  BY GotParts
<1>7. BytesTo(q, N)
  BY <1>1, <1>6 DEF PartsOK, BytesTo
<1>8. q[n] = Part(n, f, Value(f, x, j))
  <2>1. got[f.name] = Value(f, x, j)
    BY DEF IsGot, GotAt
  <2> QED BY <1>1, <2>1 DEF Parts, FieldAt
<1>9. \A k \in 1..(n - 1) : p[k] = q[k]
  <2> SUFFICES ASSUME NEW k \in 1..(n - 1) PROVE p[k] = q[k]
    OBVIOUS
  <2>1. k \in 1..N /\ k < n
    BY <1>1
  <2>2. got[FieldAt(type, k).name] = ValueAt(type, m, k)
    BY <2>1 DEF IsGot, GotAt
  <2> QED BY <1>1, <2>1, <2>2 DEF Parts, FieldAt, ValueAt
<1>10. Agrees(h[j], q[n])
  <2>1. Chained(h, Count(f, x), Items(n, f, x)) /\ j < Count(f, x)
    BY <1>4
  <2> HIDE DEF f, x, h, q
  <2> QED BY <1>2, <1>8, <2>1, PartAgrees
<1> HIDE DEF N, f, x, c, p, q, g, h, its
<1>11. \A k \in 1..N : q[k] \in Seq(Byte)
  BY <1>7 DEF BytesTo
<1>12. PICK e : Chained(e, N, q)
  BY <1>1, <1>11, ChainExists
<1>13. e[N] = Encoded(type, got)
  <2>1. Chained(e, Len(Fields[type]), Parts(type, got))
    BY <1>1, <1>12 DEF q
  <2>2. e[Len(Fields[type])] = Encoded(type, got)
    BY <1>2, <1>6, <2>1, ChainIsEncoding
  <2> QED BY <1>1, <2>2
<1>14. e[n - 1] = g[n - 1]
  <2>1. n - 1 <= N
    BY <1>1
  <2> QED BY <1>1, <1>3, <1>9, <1>12, <2>1, ChainSame
<1>15. /\ g[n] = g[n - 1] \o p[n] /\ e[n] = g[n - 1] \o q[n]
       /\ g[n - 1] \in Seq(Byte) /\ p[n] \in Seq(Byte) /\ q[n] \in Seq(Byte)
  <2>1. g[n] = g[n - 1] \o p[n] /\ e[n] = e[n - 1] \o q[n] /\ g[n - 1] \in Seq(Byte)
    BY <1>1, <1>3, <1>12 DEF Chained
  <2>2. p[n] \in Seq(Byte) /\ q[n] \in Seq(Byte)
    BY <1>1, <1>3, <1>7 DEF BytesTo
  <2> QED BY <1>14, <2>1, <2>2
<1>16. Agrees(h[j], p[n]) /\ h[j] \in Seq(Byte)
  <2>1. j \in 0..c
    BY <1>4 DEF c
  <2> QED BY <1>4, <2>1, AgreesChain
<1>17. Agrees(g[n], g[N]) /\ Agrees(e[n], e[N]) /\ g[n] \in Seq(Byte)
       /\ e[n] \in Seq(Byte) /\ g[N] \in Seq(Byte) /\ e[N] \in Seq(Byte)
  <2>1. Agrees(g[n], g[N]) /\ g[n] \in Seq(Byte) /\ g[N] \in Seq(Byte)
    BY <1>1, <1>3, AgreesChain
  <2>2. Agrees(e[n], e[N]) /\ e[n] \in Seq(Byte) /\ e[N] \in Seq(Byte)
    BY <1>1, <1>7, <1>12, AgreesChain
  <2> QED BY <2>1, <2>2
<1>18. b \in Seq(Byte) /\ Len(b) = Len(g[n - 1]) + Len(h[j])
  BY <1>15, <1>16, ConcatBytes
<1>19. Agrees(b, g[n])
  <2>1. Agrees(g[n - 1] \o h[j], g[n - 1] \o p[n])
    BY <1>15, <1>16, AgreesConcat
  <2> QED BY <1>15, <2>1
<1>20. Agrees(b, e[n])
  <2>1. Agrees(g[n - 1] \o h[j], g[n - 1] \o q[n])
    BY <1>10, <1>15, <1>16, AgreesConcat
  <2> QED BY <1>15, <2>1
<1> HIDE DEF b
<1>21. Agrees(b, g[N]) /\ Agrees(b, e[N])
  BY <1>17, <1>18, <1>19, <1>20, AgreesTwice
<1>22. Len(b) = At(type, m, n, j)
  BY <1>5, <1>18 DEF g, h
<1> QED BY <1>3, <1>13, <1>17, <1>18, <1>21, <1>22

(* A cut of one string that is a beginning of another.                     *)
LEMMA BothAgree ==
  ASSUME NEW a \in Seq(Byte), NEW b \in Seq(Byte), NEW c \in Seq(Byte), NEW d \in Seq(Byte),
         Holds(a, 0, b), Len(a) = Len(d), Agrees(d, b), Agrees(d, c)
  PROVE  IsPrefix(a, c)
<1>1. Len(a) \in Nat /\ Len(b) \in Nat /\ Len(c) \in Nat
  BY LenProperties
<1>2. Len(a) <= Len(b) /\ Len(a) <= Len(c)
  BY DEF Agrees
<1>3. ASSUME NEW k \in 1..Len(a) PROVE a[k] = c[k]
  <2>1. k \in 1..Len(b) /\ 0 + k = k /\ k \in 1..Len(d) /\ k <= Len(a)
    BY <1>1, <1>2
  <2>2. a[k] = b[k]
    BY <2>1 DEF Holds
  <2> QED BY <2>1, <2>2 DEF Agrees
<1>4. SubSeq(a, 1, Len(a)) = SubSeq(c, 1, Len(a))
  <2> DEFINE l == Len(a)
  <2>1. l \in Nat /\ l <= Len(c) /\ l <= Len(a) /\ \A k \in 1..l : a[k] = c[k]
    BY <1>1, <1>2, <1>3
  <2>2. SubSeq(a, 1, l) = [k \in 1..l |-> a[k]] /\ SubSeq(c, 1, l) = [k \in 1..l |-> c[k]]
    <3> HIDE DEF l
    <3> QED BY <2>1
  <2> HIDE DEF l
  <2>3. [k \in 1..l |-> a[k]] = [k \in 1..l |-> c[k]]
    BY <2>1
  <2>4. SubSeq(a, 1, l) = SubSeq(c, 1, l)
    BY <2>2, <2>3
  <2> QED BY <2>4 DEF l
<1> QED BY <1>2, <1>4 DEF IsPrefix

(* The beginning of an encoding, cut anywhere, is answered with an error,  *)
(* or with a message whose own encoding begins with exactly these bytes:   *)
(* no value is made from a field that was cut.                             *)
THEOREM CutsAreNoticed == Spec => []((\E m : BeginsWith(input, m)) => CutIsNoticed)
<1>1. FollowsAll /\ (\E m : BeginsWith(input, m)) => CutIsNoticed
  <2> SUFFICES ASSUME FollowsAll, NEW m, BeginsWith(input, m), outcome = "ok"
               PROVE  IsPrefix(input.bytes, Written(input.type, stack[1].msg))
    BY DEF CutIsNoticed
  <2> DEFINE type == input.type
             data == input.bytes
             N == FieldCount(type)
  <2>1. type \in Codecs /\ Readable(type, m) /\ data \in Seq(Byte)
        /\ IsPrefix(data, Marshal(type, m))
    BY DEF BeginsWith
  <2>2. /\ Marshal(type, m) = Encoded(type, m) /\ Written(type, m) = Encoded(type, m)
        /\ Encoded(type, m) \in Seq(Byte)
    BY <2>1, MarshalIsEncoded
  <2>3. Follows(m)
    BY DEF FollowsAll
  <2>4. PICK c : Alone(c, stack, type, data, m) /\ c.index >= Len(c.data)
    BY <2>3 DEF Follows
  <2>5. stack = <<c>> /\ Frame(c, type, m) /\ c.data = data
    BY <2>4 DEF Alone
  <2>6. stack[1].msg = c.msg
    BY <2>5
  <2> DEFINE got == c.msg
  <2>7. /\ Begins(data, type, m) /\ c.index = Len(data)
        /\ \E n, j : Reached(c.index, got, type, m, n, j)
    <3>1. /\ Begins(data, type, m) /\ c.index \in 0..Len(data)
          /\ \E n, j : Reached(c.index, got, type, m, n, j)
      BY <2>5 DEF Frame
    <3>2. Len(data) \in Nat
      BY <2>1, LenProperties
    <3>3. c.index >= Len(data)
      BY <2>4, <2>5
    <3> QED BY <3>1, <3>2, <3>3
  <2>8. Written(type, got) = Encoded(type, got)
    BY <2>1 DEF Encoded, Codecs
  <2>9. \/ Reached(c.index, got, type, m, N + 1, 0)
        \/ \E n \in 1..N : \E j \in Nat :
             j < CountAt(type, m, n) /\ Reached(c.index, got, type, m, n, j)
    BY <2>1, <2>7, NextPlace
  <2> HIDE DEF got, type, data
  <2>10. IsPrefix(data, Encoded(type, got))
    <3>1. CASE Reached(c.index, got, type, m, N + 1, 0)
      <4>1. IsGot(got, type, m, N + 1, 0)
        BY <3>1 DEF Reached
      <4>2. got = m
        BY <2>1, <4>1, GotAll
      <4> QED BY <2>1, <2>2, <4>2
    <3>2. CASE \E n \in 1..N : \E j \in Nat :
                 j < CountAt(type, m, n) /\ Reached(c.index, got, type, m, n, j)
      <4>1. PICK n \in 1..N : \E j \in Nat :
                 j < CountAt(type, m, n) /\ Reached(c.index, got, type, m, n, j)
        BY <3>2
      <4>2. PICK j \in Nat :
                 j < CountAt(type, m, n) /\ Reached(c.index, got, type, m, n, j)
        BY <4>1
      <4>3. c.index = At(type, m, n, j) /\ IsGot(got, type, m, n, j)
        BY <4>2 DEF Reached
      <4>4. PICK b \in Seq(Byte) :
              /\ Len(b) = At(type, m, n, j)
              /\ Agrees(b, Encoded(type, m))
              /\ Agrees(b, Encoded(type, got))
              /\ Encoded(type, got) \in Seq(Byte)
        BY <2>1, <4>2, <4>3, GotBytes
      <4>5. Len(data) = Len(b) /\ Holds(data, 0, Encoded(type, m))
        BY <2>7, <4>3, <4>4 DEF Begins
      <4> QED BY <2>1, <2>2, <4>4, <4>5, BothAgree
    <3> QED BY <2>9, <3>1, <3>2
  <2> QED BY <2>6, <2>8, <2>10 DEF got, type, data
<1> QED BY <1>1, FollowsAlways, PTL
=============================================================================
