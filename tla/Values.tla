------------------------------- MODULE Values -------------------------------
(***************************************************************************)
(* What a value goes through between a caller and the device.  A write:    *)
(* type information, validation and conversion (Client.Write and its       *)
(* helpers, internal/opcua/client.go).  A value read or pushed:            *)
(* NormalizeReadValue (value_convert.go), the store's encode and decode    *)
(* (store/value_encoding.go).                                              *)
(*                                                                         *)
(* A Go value is [kind, val], or [kind, elems] for slices.  An integer has *)
(* the width Bits gives its kind; a float is counted in halves and has the *)
(* precision and the range Mantissa and MaxFloat give its kind, so that    *)
(* truncation, wrapping, rounding and overflow happen as in the code, at   *)
(* Go's widths or at a scale TLC can enumerate.                            *)
(***************************************************************************)
EXTENDS Integers, Sequences

CONSTANTS
  Bits,      \* width of the integer kinds
  Mantissa,  \* precision of float32 and float64
  MaxFloat,  \* greatest finite value of float32 and float64, in halves
  Inf, NaN,  \* infinity and not-a-number: beyond every number of halves
  MaxExponent,  \* of a float's unit in the last place
  MaxTime,   \* the end of the times whose nanoseconds int64 can count
  Numeral, Word, GUIDText, Base64Text, DateText, Text,  \* see Strings
  Nodes,     \* [type, rank, length, writable]: nodes to write to
  Requests,  \* values asked to be written
  Samples,   \* values a node of no fixed type takes by itself
  MaxWrites, \* bound: calls of Write
  MaxSets    \* bound: values the device takes by itself

SignedKinds   == {"int", "int8", "int16", "int32", "int64"}
UnsignedKinds == {"uint", "uint8", "uint16", "uint32", "uint64"}
IntKinds      == SignedKinds \cup UnsignedKinds
FloatKinds    == {"float32", "float64"}

ASSUME ValuesAssumption ==
  /\ Bits \in [IntKinds -> Nat \ {0}]
  /\ Mantissa \in [FloatKinds -> Nat \ {0}] /\ MaxFloat \in [FloatKinds -> Nat]
  /\ Inf \in Nat /\ NaN \in Nat /\ MaxExponent \in Nat /\ MaxTime \in Nat
  /\ \A n \in Nodes : n = [type |-> n.type, rank |-> n.rank,
                          length |-> n.length, writable |-> n.writable]
  /\ \A n \in Nodes : n.rank \in Int /\ n.length \in Nat
  /\ MaxWrites \in Nat /\ MaxSets \in Nat

\* Strings, by which parser accepts them: an integer, a boolean, a GUID,
\* base64, a date, none.
Strings == {Numeral, Word, GUIDText, Base64Text, DateText, Text}

VARIABLES
  build,    \* result of a float to integer conversion that does not fit
  node,     \* the device's node
  device,   \* its value, as gopcua decodes it
  pc,       \* the write: idle, typeinfo, validate, convert, basic, send, done
  request,  \* value given to Write
  info,     \* type information as read
  wire,     \* the variant to be written: [type, isArray, value]
  outcome,  \* none, ok, refused by this program, failed at the server
  cache,    \* the node's entry in the values bucket
  batch,    \* the node's value in the pump's batch
  kept,     \* history: the last storable value given to PutValue
  writes,   \* calls of Write
  sets      \* values the device took by itself

write == <<pc, request, info, wire, outcome, writes>>
vars  == <<build, node, device, write, cache, batch, kept, sets>>

Value(k, x) == [kind |-> k, val |-> x]
Slice(s)    == [kind |-> "slice", elems |-> s]
Nil         == Value("nil", 0)
None        == Value("none", 0)
Fail        == Value("error", 0)

-----------------------------------------------------------------------------
(***************************************************************************)
(* Go's numbers.                                                           *)
(***************************************************************************)
Lo(k) == IF k \in SignedKinds THEN -(2 ^ (Bits[k] - 1)) ELSE 0
Hi(k) == IF k \in SignedKinds THEN 2 ^ (Bits[k] - 1) - 1 ELSE 2 ^ Bits[k] - 1
Fits(n, k) == Lo(k) <= n /\ n <= Hi(k)

Abs(h)   == IF h < 0 THEN -h ELSE h
Trunc(h) == IF h < 0 THEN -(Abs(h) \div 2) ELSE h \div 2

\* Two[n] is 2 ^ n, by the recursion that its proofs use.
Two[n \in 0 .. MaxExponent + 1 + Mantissa["float64"]] ==
  IF n = 0 THEN 1 ELSE 2 * Two[n - 1]

\* The distance between neighbours of h among the floats of kind k.
Spacing(h, k) ==
  Two[CHOOSE e \in 0 .. MaxExponent :
        /\ Abs(h) < Two[e + Mantissa[k]]
        /\ e > 0 => Abs(h) >= Two[e - 1 + Mantissa[k]]]

\* Mutant: a Float keeps the precision of the Double it is made of.
RoundedNever(h, k) == h

\* The float of kind k nearest to h, the even one of two, or an infinity.
Rounded(h, k) ==
  LET unit == Spacing(h, k)
      down == h \div unit
      rest == 2 * (h % unit)
      r    == unit * (IF rest > unit \/ (rest = unit /\ down % 2 = 1)
                        THEN down + 1 ELSE down)
  IN  IF Abs(r) <= MaxFloat[k] THEN r ELSE IF r > 0 THEN Inf ELSE -Inf

\* int64(f) and uint64(f): out of range, the result is the processor's.
FloatToInt64(h) ==
  IF Fits(Trunc(h), "int64") THEN Trunc(h)
  ELSE IF build = "saturating" /\ h > 0 THEN Hi("int64") ELSE Lo("int64")

FloatToUInt64(h) ==
  IF Fits(Trunc(h), "uint64") THEN Trunc(h)
  ELSE IF build = "saturating" THEN Hi("uint64") ELSE Hi("int64") + 1

\* A uint64 beyond int64 wraps.
toInt64(v) ==
  IF v.kind = "float64" THEN FloatToInt64(v.val)
  ELSE IF Fits(v.val, "int64") THEN v.val ELSE v.val - 2 ^ Bits["int64"]

toFloat64(v) ==
  IF v.kind \in FloatKinds THEN v.val ELSE Rounded(2 * v.val, "float64")

-----------------------------------------------------------------------------
(***************************************************************************)
(* DataTypes and the Go kind of each.  "Other" is any other DataType of    *)
(* namespace 0, "Custom" one of another namespace.                         *)
(***************************************************************************)
builtinScalarGoType ==
  [Boolean |-> "bool", SByte |-> "int8", Byte |-> "uint8", Int16 |-> "int16",
   UInt16 |-> "uint16", Int32 |-> "int32", UInt32 |-> "uint32",
   Int64 |-> "int64", UInt64 |-> "uint64", Float |-> "float32",
   Double |-> "float64", String |-> "string", DateTime |-> "time",
   Guid |-> "guid", ByteString |-> "bytes"]

Builtin  == DOMAIN builtinScalarGoType
Narrow   == {"SByte", "Byte", "Int16", "UInt16", "Int32", "UInt32"}
IntTypes == Narrow \cup {"Int64", "UInt64"}

-----------------------------------------------------------------------------
(***************************************************************************)
(* ValidateValueForNode.                                                   *)
(***************************************************************************)
isIntegerType(v) == v.kind \in IntKinds \cup {"float64"}

\* Mutant: a boolean passes for a float.
isFloatTypeOrBool(v) == v.kind \in IntKinds \cup FloatKinds \cup {"bool"}

isFloatType(v) == v.kind \in IntKinds \cup FloatKinds
isDateTimeType(v) == v.kind \in {"string", "int", "int64", "float64"}
isInRange(v, k) == Fits(toInt64(v), k)
isNonNegative(v) == v.kind \in UnsignedKinds \/ v.val >= 0

validateScalarValue(v, type) ==
  CASE type = "Custom"             -> FALSE
    [] type = "Boolean"            -> v.kind = "bool"
    [] type \in Narrow             -> /\ isIntegerType(v)
                                      /\ isInRange(v, builtinScalarGoType[type])
    [] type = "Int64"              -> isIntegerType(v)
    [] type = "UInt64"             -> isIntegerType(v) /\ isNonNegative(v)
    [] type \in {"Float", "Double"} -> isFloatType(v)
    [] type \in {"String", "Guid", "ByteString"} -> v.kind = "string"
    [] type = "DateTime"           -> isDateTimeType(v)
    [] OTHER                       -> TRUE

\* A dimension of 0 is unconstrained.
validateArrayValue(v, n) ==
  /\ v.kind = "slice"
  /\ n.length # 0 => Len(v.elems) = n.length
  /\ \A i \in DOMAIN v.elems : validateScalarValue(v.elems[i], n.type)

ValidateValueForNode(v, n) ==
  /\ n.writable
  /\ IF n.isArray THEN validateArrayValue(v, n)
     ELSE validateScalarValue(v, n.type)

-----------------------------------------------------------------------------
(***************************************************************************)
(* convertValueToOPCUAType.                                                *)
(***************************************************************************)
convertToBoolean(v) ==
  CASE v.kind = "bool"        -> v
    [] v.kind = "string"      -> IF v.val \in {Numeral, Word}
                                   THEN Value("bool", 1) ELSE Fail
    [] v.kind \in IntKinds    -> Value("bool", IF toInt64(v) # 0 THEN 1 ELSE 0)
    [] v.kind \in FloatKinds  -> Value("bool", IF v.val # 0 THEN 1 ELSE 0)
    [] OTHER                  -> Fail

\* Mutant: an integer is narrowed without a check of its own.
InRangeUnchecked(n, k) ==
  Value(k, ((n - Lo(k)) % (2 ^ Bits[k])) + Lo(k))

InRange(n, k) == IF Fits(n, k) THEN Value(k, n) ELSE Fail

\* convertToSByte to convertToUInt64; those to 64 bits check what the type of
\* their source leaves to check.
convertToInt(v, k) ==
  CASE v.kind = k            -> v
    [] v.kind \in IntKinds \ {k} -> InRange(v.val, k)
    [] v.kind \in FloatKinds -> IF k # "uint64"
                                  THEN InRange(FloatToInt64(v.val), k)
                                ELSE IF v.val < 0 THEN Fail
                                ELSE Value(k, FloatToUInt64(v.val))
    [] v.kind = "string"     -> IF v.val = Numeral THEN InRange(1, k) ELSE Fail
    [] OTHER                 -> Fail

convertToFloat(v, k) ==
  CASE v.kind = k                        -> v
    [] v.kind \in (IntKinds \cup FloatKinds) \ {k} ->
         Value(k, Rounded(toFloat64(v), k))
    [] v.kind = "string"                 -> IF v.val = Numeral
                                              THEN Value(k, 2) ELSE Fail
    [] OTHER                             -> Fail

convertToString(v) == IF v.kind = "string" THEN v ELSE Value("string", Text)

convertToGUID(v) ==
  IF v.kind = "string" /\ v.val = GUIDText THEN Value("guid", v.val) ELSE Fail

convertToByteString(v) ==
  IF v.kind = "string" /\ v.val = Base64Text THEN Value("bytes", v.val)
  ELSE Fail

\* A time is counted in halves of seconds.
convertToDateTime(v) ==
  CASE v.kind = "time"              -> v
    [] v.kind = "string"            -> IF v.val = DateText
                                         THEN Value("time", 0) ELSE Fail
    [] v.kind \in {"int", "int64"}  -> Value("time", 2 * v.val)
    [] v.kind = "float64"           -> \* sec, and the fraction as nsec
         Value("time", IF Fits(Trunc(v.val), "int64") THEN v.val
                       ELSE 2 * FloatToInt64(v.val))
    [] OTHER                        -> Fail

convertScalarValue(v, type) ==
  CASE type = "Custom"              -> Fail
    [] type = "Boolean"             -> convertToBoolean(v)
    [] type \in IntTypes            ->
         convertToInt(v, builtinScalarGoType[type])
    [] type = "Float"               -> convertToFloat(v, "float32")
    [] type = "Double"              -> convertToFloat(v, "float64")
    [] type = "String"              -> convertToString(v)
    [] type = "DateTime"            -> convertToDateTime(v)
    [] type = "Guid"                -> convertToGUID(v)
    [] type = "ByteString"          -> convertToByteString(v)
    [] OTHER                        -> v

convertArrayValue(v, type) ==
  LET all == [i \in DOMAIN v.elems |-> convertScalarValue(v.elems[i], type)]
  IN  IF /\ v.kind = "slice" /\ type \in Builtin
         /\ \A i \in DOMAIN v.elems : all[i] # Fail
      THEN [kind |-> "array", of |-> builtinScalarGoType[type], elems |-> all]
      ELSE Fail

convertValueToOPCUAType(v, n) ==
  IF n.isArray THEN convertArrayValue(v, n.type)
  ELSE convertScalarValue(v, n.type)

-----------------------------------------------------------------------------
(***************************************************************************)
(* ua.NewVariant, as the comments of client.go describe it: it keeps the   *)
(* value, whose Go type gives the wire type; []byte is a ByteString and    *)
(* []interface{} an array of Variant.  Go's int, uint and maps have no     *)
(* wire type.                                                              *)
(***************************************************************************)
Wire(type, isArray, v) == [type |-> type, isArray |-> isArray, value |-> v]

NoWire == Wire("none", FALSE, Nil)

TypeOf(k) == CHOOSE t \in Builtin : builtinScalarGoType[t] = k

WireKinds == {"nil"} \cup {builtinScalarGoType[t] : t \in Builtin}

\* Lists of lists are left out.
HasWireType(v) ==
  CASE v.kind = "array" -> TRUE
    [] v.kind = "slice" -> \A i \in DOMAIN v.elems :
                             v.elems[i].kind \in WireKinds
    [] OTHER            -> v.kind \in WireKinds

NewVariant(v) ==
  CASE v.kind = "nil"   -> Wire("Null", FALSE, v)
    [] v.kind = "slice" -> Wire("Variant", TRUE, v)
    [] v.kind = "array" -> IF v.of = "uint8" THEN Wire("ByteString", FALSE, v)
                           ELSE Wire(TypeOf(v.of), TRUE, v)
    [] OTHER            -> Wire(TypeOf(v.kind), FALSE, v)

\* gopcua writes a time by its nanoseconds, Go's UnixNano, which wraps.
WireTime(h) ==
  IF -MaxTime <= h /\ h < MaxTime THEN h
  ELSE ((h + MaxTime) % (2 * MaxTime)) - MaxTime

EncodedScalar(x) ==
  IF x.kind = "time" THEN Value("time", WireTime(x.val)) ELSE x

\* v as it is on the wire.
Encoded(v) ==
  IF v.kind \in {"array", "slice"}
    THEN [kind |-> v.kind,
          elems |-> [i \in DOMAIN v.elems |-> EncodedScalar(v.elems[i])]]
    ELSE EncodedScalar(v)

-----------------------------------------------------------------------------
(***************************************************************************)
(* Client.Write.                                                           *)
(***************************************************************************)
NoInfo == [type |-> "none", isArray |-> FALSE, length |-> 0, writable |-> FALSE]

Init ==
  /\ build \in {"saturating", "fixed"}
  /\ node \in Nodes
  /\ device = Nil
  /\ pc = "idle" /\ request = Nil /\ info = NoInfo /\ wire = NoWire
  /\ outcome = "none"
  /\ cache = None /\ batch = None /\ kept = None
  /\ writes = 0 /\ sets = 0

Write(v) ==
  /\ pc = "idle"
  /\ writes < MaxWrites /\ writes' = writes + 1
  /\ pc' = "typeinfo"
  /\ request' = v
  /\ UNCHANGED <<build, node, device, info, wire, outcome, cache, batch, kept,
                 sets>>

\* Mutant: one dimension is taken for a scalar.
IsArrayMany(rank) == rank > 1

\* A rank of 0, one or more dimensions, counts as scalar, and so do -2 and -3,
\* which leave the choice.
IsArray(rank) == rank > 0

\* The type information of n, with the first dimension read as length.
InfoOf(n, length) ==
  [type |-> n.type, isArray |-> IsArray(n.rank), length |-> length,
   writable |-> n.writable]

\* GetNodeTypeInfo: without the dimensions, which are optional, any length
\* goes.
ReadTypeInfo ==
  /\ pc = "typeinfo"
  /\ info' \in {InfoOf(node, node.length), InfoOf(node, 0)}
  /\ pc' = "validate"
  /\ UNCHANGED <<build, node, device, request, wire, outcome, cache, batch,
                 kept, writes, sets>>

\* Another of its reads fails.
TypeInfoFails ==
  /\ pc = "typeinfo"
  /\ pc' = "basic"
  /\ UNCHANGED <<build, node, device, request, info, wire, outcome, cache,
                 batch, kept, writes, sets>>

End(result) == pc' = "done" /\ outcome' = result

Validate ==
  /\ pc = "validate"
  /\ IF ValidateValueForNode(request, info)
       THEN pc' = "convert" /\ UNCHANGED outcome
       ELSE End("refused")
  /\ UNCHANGED <<build, node, device, request, info, wire, cache, batch, kept,
                 writes, sets>>

\* v becomes the variant to be written, if it has a wire type.
Prepare(v) ==
  IF HasWireType(v)
    THEN wire' = NewVariant(v) /\ pc' = "send" /\ UNCHANGED outcome
    ELSE End("refused") /\ UNCHANGED wire

Convert ==
  /\ pc = "convert"
  /\ Prepare(convertValueToOPCUAType(request, info))
  /\ UNCHANGED <<build, node, device, request, info, cache, batch, kept,
                 writes, sets>>

\* writeWithBasicConversion: no validation, no conversion.
Basic ==
  /\ pc = "basic"
  /\ Prepare(request)
  /\ UNCHANGED <<build, node, device, request, info, cache, batch, kept,
                 writes, sets>>

\* The server's rules for ValueRank: -3 a scalar or one dimension, -2 any,
\* -1 a scalar, 0 one or more dimensions, otherwise their number.
TakesScalar(n) == n.rank \in {-3, -2, -1}
TakesList(n)   == n.rank \in {-3, -2, 0, 1}

\* w has the type of n.
IsOf(w, n) ==
  /\ w.type = n.type
  /\ IF w.isArray
       THEN TakesList(n) /\ (n.length # 0 => Len(w.value.elems) = n.length)
       ELSE TakesScalar(n)

\* A ByteString where n is an array of Byte.
IsBytes(w, n) == w.type = "ByteString" /\ n.type = "Byte" /\ TakesList(n)

\* What the server may accept: a value of the node's type, and what it will
\* where the node has no such type and for bytes.
Accepts(w, n) ==
  n.writable /\ (IsOf(w, n) \/ n.type \notin Builtin \/ IsBytes(w, n))

\* What gopcua decodes of w; which bytes they are is left out.
Decoded(w) ==
  IF w.type = "ByteString" THEN Value("bytes", Base64Text)
  ELSE Encoded(w.value)

\* sendWrite; what else can go wrong there is in Connection.
Send ==
  /\ pc = "send"
  /\ \/ Accepts(wire, node) /\ device' = Decoded(wire) /\ End("ok")
     \/ UNCHANGED device /\ End("failed")
  /\ UNCHANGED <<build, node, request, info, wire, cache, batch, kept, writes,
                 sets>>

\* The call returns, and its locals die.
Return ==
  /\ pc = "done"
  /\ pc' = "idle" /\ outcome' = "none"
  /\ request' = Nil /\ info' = NoInfo /\ wire' = NoWire
  /\ UNCHANGED <<build, node, device, cache, batch, kept, writes, sets>>

-----------------------------------------------------------------------------
(***************************************************************************)
(* A value on its way back.                                                *)
(***************************************************************************)
\* A node without a fixed type takes any value; any node may have none, as
\* when its status goes Bad.
DeviceSets(v) ==
  /\ pc = "idle" /\ sets < MaxSets
  /\ v # device /\ (v # Nil => node.type = "Other")
  /\ device' = v
  /\ sets' = sets + 1
  /\ UNCHANGED <<build, node, write, cache, batch, kept>>

\* gopcua's types for identifiers, texts and status codes, and a structure it
\* could not decode: all become strings.
Wrapped == {"guid", "nodeid", "text", "status", "undecoded"}

normalizeFloat(v) ==
  IF v.val \in {Inf, -Inf, NaN} THEN Value("string", v.val)
  ELSE Value("float64", v.val)

normalizeScalar(v) ==
  CASE v.kind \in FloatKinds -> normalizeFloat(v)
    [] v.kind \in Wrapped    -> Value("string", v.val)
    [] OTHER                 -> v

\* A structure that was decoded passes unchanged.
NormalizeReadValue(v) ==
  IF v.kind \in {"array", "slice"}
    THEN Slice([i \in DOMAIN v.elems |-> normalizeScalar(v.elems[i])])
    ELSE normalizeScalar(v)

\* The kinds encode has a tag for.
Tags == {"bool", "string", "time", "bytes"} \cup FloatKinds
          \cup (IntKinds \ {"int", "uint"})

\* encodeScalar; JSON has no NaN and no infinity.
Marshals(v) ==
  v.kind \in Tags /\ (v.kind \in FloatKinds => v.val \notin {Inf, -Inf, NaN})

Encodes(v) ==
  IF v.kind = "slice" THEN \A i \in DOMAIN v.elems : Marshals(v.elems[i])
  ELSE Marshals(v)

Tagged(v) == [tag |-> v.kind, raw |-> v.val]

encode(v) ==
  IF v.kind = "slice"
    THEN [tag |-> "array",
          raw |-> [i \in DOMAIN v.elems |-> Tagged(v.elems[i])]]
    ELSE Tagged(v)

\* Mutant: numbers come back as JSON's own.
UnmarshalUntyped(e) ==
  Value(IF e.tag \in IntKinds THEN "float64" ELSE e.tag, e.raw)

\* unmarshalScalar into a variable of the tag's type.
Unmarshal(e) == Value(e.tag, e.raw)

decode(e) ==
  IF e.tag = "array" THEN Slice([i \in DOMAIN e.raw |-> Unmarshal(e.raw[i])])
  ELSE Unmarshal(e)

\* Neither nothing nor a decoded structure, nor a list with one.
Storable(v) ==
  IF v.kind \in {"array", "slice"}
    THEN \A i \in DOMAIN v.elems : v.elems[i].kind \notin {"nil", "struct"}
    ELSE v.kind \notin {"nil", "struct"}

\* PutValue of a normalized value: what cannot be encoded leaves the entry
\* alone.
PutValue(v) ==
  /\ cache' = IF Encodes(v) THEN encode(v) ELSE cache
  /\ kept' = IF Storable(v) THEN v ELSE kept

\* Client.Read through readLive.
ReadLive ==
  /\ pc = "idle"
  /\ PutValue(NormalizeReadValue(device))
  /\ UNCHANGED <<build, node, device, write, batch, sets>>

\* handleNotification puts the value into the pump's batch ...
Notify ==
  /\ pc = "idle"
  /\ batch' = NormalizeReadValue(device)
  /\ UNCHANGED <<build, node, device, write, cache, kept, sets>>

\* ... and flush stores it.
Flush ==
  /\ batch # None
  /\ PutValue(batch)
  /\ batch' = None
  /\ UNCHANGED <<build, node, device, write, sets>>

-----------------------------------------------------------------------------
Next ==
  \/ \E v \in Requests : Write(v)
  \/ ReadTypeInfo \/ TypeInfoFails \/ Validate \/ Convert \/ Basic \/ Send
  \/ Return
  \/ \E v \in Samples : DeviceSets(v)
  \/ ReadLive \/ Notify \/ Flush

Spec == Init /\ [][Next]_vars
-----------------------------------------------------------------------------
(***************************************************************************)
(* Correctness.                                                            *)
(***************************************************************************)
Scalars(v) ==
  IF v.kind \in {"slice", "array"} THEN {v.elems[i] : i \in DOMAIN v.elems}
  ELSE {v}

IsFinite(v) == v.kind \in FloatKinds /\ v.val \notin {Inf, -Inf, NaN}
IsFloatOf(h, k) == Abs(h) <= MaxFloat[k] /\ h % Spacing(h, k) = 0

\* The ranges of the integer kinds nest as Go's do, float64 has the precision
\* and the range of float32 and more, the greatest float is one of its kind, no
\* number reaches Inf, and the exponents suffice.  Go's own widths, precisions
\* and ranges are so.
ASSUME NumbersAssumption ==
  /\ \A k \in IntKinds :
       /\ Lo(k) \in Int /\ Hi(k) \in Int /\ Lo(k) <= 0 /\ 0 < Hi(k)
       /\ 2 * Hi(k) < Inf /\ -Inf < 2 * Lo(k)
  /\ \A t \in Narrow : LET k == builtinScalarGoType[t] IN
       Lo("int64") < Lo(k) /\ Hi(k) < Hi("int64")
  /\ Lo("int64") <= Lo("int") /\ Hi("int") <= Hi("int64")
  /\ Hi("int64") < Hi("uint64") /\ Hi("uint") <= Hi("uint64")
  /\ 2 <= Mantissa["float32"] /\ Mantissa["float32"] <= Mantissa["float64"]
  /\ 2 <= MaxFloat["float32"] /\ MaxFloat["float32"] <= MaxFloat["float64"]
  /\ MaxFloat["float64"] < Inf /\ Inf < NaN
  /\ \A k \in FloatKinds : IsFloatOf(MaxFloat[k], k)
  /\ NaN < Two[MaxExponent]

\* No value leaves the range or the precision of its kind.
IsValue(v) ==
  \A x \in Scalars(v) :
    /\ x.kind \in IntKinds => Fits(x.val, x.kind)
    /\ IsFinite(x) => IsFloatOf(x.val, x.kind)

\* Every variable keeps its type.
TypeOK ==
  /\ build \in {"saturating", "fixed"}
  /\ node \in Nodes
  /\ info \in {NoInfo, InfoOf(node, node.length), InfoOf(node, 0)}
  /\ \A v \in {device, request, wire.value, batch, kept} : IsValue(v)
  /\ pc \in {"idle", "typeinfo", "validate", "convert", "basic", "send", "done"}
  /\ outcome \in {"none", "ok", "refused", "failed"}
  /\ writes \in 0 .. MaxWrites /\ sets \in 0 .. MaxSets

\* isInRange sees a negative number in such a value.
Wraps(v) == v.kind \in {"uint", "uint64"} /\ ~Fits(v.val, "int64")

\* The two lists of types and ranges, validate's and convert's, agree: what
\* passes the first has a conversion and a wire type, but for strings, which
\* only conversion parses, and unsigned numbers that wrap.
ValidatedConverts ==
  (/\ pc = "convert" /\ info.type \in Builtin
   /\ \A v \in Scalars(request) : v.kind # "string" /\ ~Wraps(v))
    => HasWireType(convertValueToOPCUAType(request, info))

\* What validation and conversion let through goes out as the node's type, an
\* empty array too, so the server need not refuse it; only an array of Byte
\* goes out as a ByteString.  Nodes that take lists alone but are read as
\* scalars, of rank 0, and those of several dimensions, which are sent one, are
\* the exceptions.
SentAsDeclared ==
  (/\ pc = "send" /\ info = InfoOf(node, node.length)
   /\ node.type \in Builtin /\ node.rank \in {-3, -2, -1, 1})
    => IsOf(wire, node) \/ IsBytes(wire, node)

\* What a number is in halves.
Halves(v) == IF v.kind \in FloatKinds THEN v.val ELSE 2 * v.val

\* The finite floats of each kind.
Floats ==
  [k \in FloatKinds |-> {m \in -MaxFloat[k] .. MaxFloat[k] : IsFloatOf(m, k)}]

\* w is h, or finite and one of the two floats of kind k that h lies between.
Nearby(h, w, k) ==
  /\ w \notin {Inf, -Inf, NaN}
  /\ \A m \in Floats[k] : (h <= m => w <= m) /\ (m <= h => m <= w)

\* v and w are the same value, but for the fraction an integer type cuts off
\* and what the precision of a float type rounds away.
Same(v, w, type) ==
  CASE type \in IntTypes            -> w.val = Trunc(Halves(v))
    [] type \in {"Float", "Double"} -> Nearby(Halves(v), w.val, w.kind)
    [] type = "DateTime"            -> v.kind # "string" => w.val = Halves(v)
    [] OTHER                        -> w.val = v.val

\* The values that nothing checks: a float beyond the 64-bit types, a number
\* beyond the float type, which becomes an infinity, and seconds beyond the
\* times of the wire or beyond int64.
Unchecked(v, type) ==
  \/ type = "Int64" /\ v.kind = "float64" /\ ~Fits(Trunc(v.val), "int64")
  \/ type = "UInt64" /\ v.kind = "float64" /\ ~Fits(Trunc(v.val), "uint64")
  \/ type \in {"Float", "Double"}
       /\ Abs(Halves(v)) > MaxFloat[builtinScalarGoType[type]]
  \/ type = "DateTime" /\ v.kind # "string"
       /\ \/ Halves(v) < -MaxTime \/ MaxTime <= Halves(v)
          \/ v.kind = "float64" /\ ~Fits(Trunc(v.val), "int64")

\* An acknowledged write has put the value that was asked for on the device,
\* element by element, with or without type information: what is out of range
\* is refused and not changed into another value.  What nothing checks is the
\* exception: an infinity reaches the device for a number beyond Float, and
\* another number or date for one beyond the 64-bit types.
AcknowledgedArrives ==
  (outcome = "ok" /\ node.type \in Builtin) =>
    LET sent == Encoded(wire.value) IN
      IF node.rank > 0
        THEN /\ DOMAIN sent.elems = DOMAIN request.elems
             /\ \A i \in DOMAIN sent.elems :
                  \/ Same(request.elems[i], sent.elems[i], node.type)
                  \/ Unchecked(request.elems[i], node.type)
        ELSE Same(request, sent, node.type) \/ Unchecked(request, node.type)

\* A cached or pushed value is served as a live read would have returned it,
\* with its Go type; only a null or a decoded structure, alone or in a list,
\* does not reach the store, and then the entry keeps the value before.
StoredReadsAsLive ==
  IF kept = None THEN cache = None
  ELSE cache # None /\ decode(cache) = kept
-----------------------------------------------------------------------------
(***************************************************************************)
(* The inductive invariant behind these.                                   *)
(***************************************************************************)

\* A scalar of one of the kinds, a list of them.
IsScalar(v, kinds) == v.kind \in kinds /\ v = Value(v.kind, v.val)

IsList(v, kinds) ==
  /\ v.kind \in {"slice", "array"}
  /\ Len(v.elems) \in Nat /\ DOMAIN v.elems = 1 .. Len(v.elems)
  /\ v.elems = [i \in DOMAIN v.elems |-> v.elems[i]]
  /\ \A i \in DOMAIN v.elems : IsScalar(v.elems[i], kinds)

\* Its numbers are integers, a float's in halves, NaN the greatest.
IsWhole(v) ==
  \A x \in Scalars(v) :
    x.kind \in IntKinds \cup FloatKinds => x.val \in -NaN .. NaN

\* What JSON and the tools' arguments come to.
RequestKinds == IntKinds \cup FloatKinds \cup {"string", "bool", "nil", "map"}

IsRequest(v) ==
  /\ IsScalar(v, RequestKinds) \/ (v.kind = "slice" /\ IsList(v, RequestKinds))
  /\ IsValue(v) /\ IsWhole(v)
  /\ \A x \in Scalars(v) : x.kind \in FloatKinds => IsFinite(x)

\* What gopcua decodes.
DecodedKinds ==
  (IntKinds \ {"int", "uint"}) \cup FloatKinds \cup Wrapped
    \cup {"nil", "bool", "string", "time", "bytes", "struct"}

IsDecoded(v) == IsScalar(v, DecodedKinds) \/ IsList(v, DecodedKinds)

ASSUME InputsAssumption ==
  /\ \A v \in Requests : IsRequest(v)
  /\ \A v \in Samples : IsDecoded(v) /\ IsValue(v) /\ IsWhole(v)

\* The wire carries the request, or what validation and conversion with the
\* node's type made of it.
Sending ==
  IF info = NoInfo THEN HasWireType(request) /\ wire = NewVariant(request)
  ELSE LET sent == convertValueToOPCUAType(request, info) IN
         /\ ValidateValueForNode(request, info)
         /\ HasWireType(sent) /\ wire = NewVariant(sent)

\* How far a write has come.
WriteInv ==
  /\ node \in Nodes
  /\ pc # "idle" => IsRequest(request)
  /\ pc \in {"idle", "typeinfo", "basic"} => info = NoInfo
  /\ info \in {NoInfo, InfoOf(node, node.length), InfoOf(node, 0)}
  /\ pc = "convert" => info # NoInfo /\ ValidateValueForNode(request, info)
  /\ pc = "send" => Sending
  /\ pc # "done" => outcome = "none"
  /\ outcome = "ok" => Sending /\ Accepts(wire, node)

\* A normalized value.
NormalKinds == Tags \cup {"nil", "struct"}

IsNormal(v) ==
  /\ IsScalar(v, NormalKinds) \/ (v.kind = "slice" /\ IsList(v, NormalKinds))
  /\ v.kind = "slice" => v = Slice(v.elems)
  /\ \A x \in Scalars(v) : x.kind \in FloatKinds => x.val \notin {Inf, -Inf, NaN}

\* What is read from the device or waits in the batch can be told by PutValue
\* to be storable.
StoreInv ==
  /\ IsDecoded(device)
  /\ batch # None => IsNormal(batch)
  /\ StoredReadsAsLive

IndInv == WriteInv /\ StoreInv
=============================================================================
