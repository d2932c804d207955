---------------------------- MODULE ValuesProofs -----------------------------
(***************************************************************************)
(* Theorems about Values for any nodes, requests, widths and precisions.   *)
(***************************************************************************)
EXTENDS Values, Induction, SequenceTheorems, TLAPS

-----------------------------------------------------------------------------
(***************************************************************************)
(* DataTypes and Go kinds.                                                 *)
(***************************************************************************)

LEMMA BuiltinTypes ==
  Builtin = {"Boolean", "SByte", "Byte", "Int16", "UInt16", "Int32", "UInt32",
             "Int64", "UInt64", "Float", "Double", "String", "DateTime", "Guid",
             "ByteString"}
BY DEF Builtin, builtinScalarGoType

LEMMA GoKinds ==
  /\ builtinScalarGoType["Boolean"] = "bool"
  /\ builtinScalarGoType["SByte"] = "int8" /\ builtinScalarGoType["Byte"] = "uint8"
  /\ builtinScalarGoType["Int16"] = "int16"
  /\ builtinScalarGoType["UInt16"] = "uint16"
  /\ builtinScalarGoType["Int32"] = "int32"
  /\ builtinScalarGoType["UInt32"] = "uint32"
  /\ builtinScalarGoType["Int64"] = "int64"
  /\ builtinScalarGoType["UInt64"] = "uint64"
  /\ builtinScalarGoType["Float"] = "float32"
  /\ builtinScalarGoType["Double"] = "float64"
  /\ builtinScalarGoType["String"] = "string"
  /\ builtinScalarGoType["DateTime"] = "time"
  /\ builtinScalarGoType["Guid"] = "guid"
  /\ builtinScalarGoType["ByteString"] = "bytes"
BY DEF builtinScalarGoType

\* A Go kind has one DataType.
LEMMA TypeOfKind ==
  ASSUME NEW t \in Builtin
  PROVE  TypeOf(builtinScalarGoType[t]) = t
<1>1. \A s \in Builtin : builtinScalarGoType[s] = builtinScalarGoType[t] => s = t
  BY BuiltinTypes, GoKinds
<1>2. QED
  BY <1>1 DEF TypeOf

LEMMA WireKindsAre ==
  WireKinds = {"nil", "bool", "int8", "uint8", "int16", "uint16", "int32",
               "uint32", "int64", "uint64", "float32", "float64", "string",
               "time", "guid", "bytes"}
<1>1. \A k \in WireKinds \ {"nil"} : \E t \in Builtin : k = builtinScalarGoType[t]
  BY DEF WireKinds
<1>2. \A t \in Builtin : builtinScalarGoType[t] \in WireKinds
  BY DEF WireKinds
<1>3. "nil" \in WireKinds
  BY DEF WireKinds
<1>4. QED
  BY <1>1, <1>2, <1>3, BuiltinTypes, GoKinds

-----------------------------------------------------------------------------
(***************************************************************************)
(* What the store does to a value.                                         *)
(***************************************************************************)

LEMMA NormalScalar ==
  ASSUME NEW x, IsScalar(x, DecodedKinds)
  PROVE  /\ IsScalar(normalizeScalar(x), NormalKinds)
         /\ normalizeScalar(x).kind \in FloatKinds =>
              normalizeScalar(x).val \notin {Inf, -Inf, NaN}
<1>1. x.kind \in DecodedKinds /\ x = Value(x.kind, x.val)
  BY DEF IsScalar
<1>2. CASE x.kind \in FloatKinds
  <2>1. normalizeScalar(x) = normalizeFloat(x)
    BY <1>2 DEF normalizeScalar, FloatKinds, Wrapped
  <2>2. QED
    BY <2>1 DEF normalizeFloat, IsScalar, NormalKinds, Tags, FloatKinds, Value
<1>3. CASE x.kind \in Wrapped
  <2>1. normalizeScalar(x) = Value("string", x.val)
    BY <1>3 DEF normalizeScalar, Wrapped, FloatKinds
  <2>2. QED
    BY <2>1 DEF IsScalar, NormalKinds, Tags, FloatKinds, Value
<1>4. CASE x.kind \notin FloatKinds \cup Wrapped
  <2>1. normalizeScalar(x) = x
    BY <1>4 DEF normalizeScalar
  <2>2. x.kind \in NormalKinds
    BY <1>1, <1>4
       DEF DecodedKinds, Wrapped, NormalKinds, Tags, IntKinds, SignedKinds,
           UnsignedKinds, FloatKinds
  <2>3. QED
    BY <1>1, <1>4, <2>1, <2>2 DEF IsScalar
<1>5. QED
  BY <1>2, <1>3, <1>4

\* The scalars of a list are its elements.
LEMMA ListScalars ==
  /\ \A v, kinds : IsList(v, kinds) => Scalars(v) = {v.elems[i] : i \in DOMAIN v.elems}
  /\ \A v : v.kind \notin {"slice", "array"} => Scalars(v) = {v}
BY DEF IsList, Scalars

LEMMA ElementKinds ==
  /\ "slice" \notin DecodedKinds /\ "array" \notin DecodedKinds
  /\ "slice" \notin NormalKinds /\ "array" \notin NormalKinds
  /\ "slice" \notin RequestKinds /\ "array" \notin RequestKinds
  /\ "none" \notin NormalKinds /\ WireKinds \subseteq DecodedKinds
BY WireKindsAre
   DEF DecodedKinds, Wrapped, NormalKinds, RequestKinds, Tags, IntKinds, SignedKinds,
       UnsignedKinds, FloatKinds

\* A sequence made of another element by element.
LEMMA SameLength ==
  ASSUME NEW s, Len(s) \in Nat, DOMAIN s = 1 .. Len(s), NEW t,
         t = [i \in DOMAIN s |-> t[i]]
  PROVE  DOMAIN t = DOMAIN s /\ Len(t) = Len(s)
<1> DEFINE S == {t[i] : i \in 1 .. Len(s)}
<1>1. t \in [1 .. Len(s) -> S]
  OBVIOUS
<1> HIDE DEF S
<1>2. t \in Seq(S) /\ Len(t) = Len(s)
  BY <1>1
<1>3. QED
  BY <1>2

LEMMA NormalValue ==
  ASSUME NEW v, IsDecoded(v)
  PROVE  IsNormal(NormalizeReadValue(v))
<1>1. CASE IsScalar(v, DecodedKinds)
  <2>1. NormalizeReadValue(v) = normalizeScalar(v)
    BY <1>1, ElementKinds DEF NormalizeReadValue, IsScalar
  <2> DEFINE w == normalizeScalar(v)
  <2>2. IsScalar(w, NormalKinds)
        /\ (w.kind \in FloatKinds => w.val \notin {Inf, -Inf, NaN})
    BY <1>1, NormalScalar
  <2> HIDE DEF w
  <2>3. w.kind # "slice" /\ Scalars(w) = {w}
    BY <2>2, ElementKinds, ListScalars DEF IsScalar
  <2>4. IsNormal(w)
    BY <2>2, <2>3 DEF IsNormal
  <2>5. QED
    BY <2>1, <2>4 DEF w
<1>2. CASE IsList(v, DecodedKinds)
  <2> DEFINE e == [i \in DOMAIN v.elems |-> normalizeScalar(v.elems[i])]
             w == Slice(e)
  <2>1. NormalizeReadValue(v) = w
    BY <1>2 DEF NormalizeReadValue, IsList
  <2>2. /\ Len(v.elems) \in Nat /\ DOMAIN v.elems = 1 .. Len(v.elems)
        /\ \A i \in DOMAIN v.elems : IsScalar(v.elems[i], DecodedKinds)
    BY <1>2 DEF IsList
  <2>3. \A i \in DOMAIN v.elems :
          /\ IsScalar(e[i], NormalKinds)
          /\ e[i].kind \in FloatKinds => e[i].val \notin {Inf, -Inf, NaN}
    BY <2>2, NormalScalar
  <2>4. DOMAIN e = DOMAIN v.elems /\ Len(e) = Len(v.elems)
        /\ e = [i \in DOMAIN e |-> e[i]]
    <3>1. e = [i \in DOMAIN v.elems |-> e[i]]
      OBVIOUS
    <3> HIDE DEF e
    <3>2. DOMAIN e = DOMAIN v.elems /\ Len(e) = Len(v.elems)
      BY <2>2, <3>1, SameLength
    <3>3. QED
      BY <3>1, <3>2
  <2> HIDE DEF e
  <2>5. w.kind = "slice" /\ w.elems = e
    BY DEF Slice
  <2> HIDE DEF w
  <2>6. IsList(w, NormalKinds)
    BY <2>2, <2>3, <2>4, <2>5 DEF IsList
  <2>7. w = Slice(w.elems)
    BY <2>5 DEF w
  <2>8. \A x \in Scalars(w) : x.kind \in FloatKinds => x.val \notin {Inf, -Inf, NaN}
    BY <2>3, <2>4, <2>5, <2>6, ListScalars
  <2>9. QED
    BY <2>1, <2>5, <2>6, <2>7, <2>8 DEF IsNormal
<1>3. QED
  BY <1>1, <1>2 DEF IsDecoded

\* A normalized scalar can be encoded unless it is a null or a structure.
LEMMA ScalarMarshals ==
  ASSUME NEW x, IsScalar(x, NormalKinds),
         x.kind \in FloatKinds => x.val \notin {Inf, -Inf, NaN}
  PROVE  /\ Marshals(x) <=> x.kind \notin {"nil", "struct"}
         /\ Unmarshal(Tagged(x)) = x
<1>1. x.kind \in NormalKinds /\ x = Value(x.kind, x.val)
  BY DEF IsScalar
<1>2. Marshals(x) <=> x.kind \notin {"nil", "struct"}
  BY <1>1 DEF Marshals, NormalKinds, Tags, IntKinds, SignedKinds, UnsignedKinds,
              FloatKinds
<1>3. Unmarshal(Tagged(x)) = x
  BY <1>1 DEF Unmarshal, Tagged
<1>4. QED
  BY <1>2, <1>3

\* What PutValue stores is what it was given, and is told apart by its kind.
LEMMA StoresWhatItKeeps ==
  ASSUME NEW v, IsNormal(v)
  PROVE  /\ Encodes(v) <=> Storable(v)
         /\ decode(encode(v)) = v /\ encode(v) # None /\ v # None
<1>1. CASE IsScalar(v, NormalKinds)
  <2>1. v.kind \notin {"slice", "array"} /\ Scalars(v) = {v} /\ v.kind # "none"
    BY <1>1, ElementKinds, ListScalars DEF IsScalar
  <2>2. /\ Marshals(v) <=> v.kind \notin {"nil", "struct"}
        /\ Unmarshal(Tagged(v)) = v
    BY <1>1, <2>1, ScalarMarshals DEF IsNormal
  <2>3. Encodes(v) <=> Storable(v)
    BY <2>1, <2>2 DEF Encodes, Storable
  <2>4. encode(v) = Tagged(v) /\ Tagged(v).tag = v.kind
    BY <2>1 DEF encode, Tagged
  <2>5. decode(encode(v)) = v
    BY <2>1, <2>2, <2>4 DEF decode
  <2>6. encode(v) # None /\ v # None
    <3>1. DOMAIN Tagged(v) = {"tag", "raw"} /\ DOMAIN None = {"kind", "val"}
      BY DEF Tagged, None, Value
    <3>2. "tag" \notin {"kind", "val"}
      OBVIOUS
    <3>3. None.kind = "none"
      BY DEF None, Value
    <3>4. QED
      BY <2>1, <2>4, <3>1, <3>2, <3>3
  <2>7. QED
    BY <2>3, <2>5, <2>6
<1>2. CASE v.kind = "slice" /\ IsList(v, NormalKinds)
  <2> DEFINE tags == [i \in DOMAIN v.elems |-> Tagged(v.elems[i])]
  <2>1. /\ v = Slice(v.elems) /\ v.elems = [i \in DOMAIN v.elems |-> v.elems[i]]
        /\ \A i \in DOMAIN v.elems : v.elems[i] \in Scalars(v)
        /\ \A i \in DOMAIN v.elems : IsScalar(v.elems[i], NormalKinds)
    <3>1. Scalars(v) = {v.elems[i] : i \in DOMAIN v.elems}
      BY <1>2, ListScalars
    <3>2. v = Slice(v.elems)
      BY <1>2 DEF IsNormal
    <3>3. /\ v.elems = [i \in DOMAIN v.elems |-> v.elems[i]]
          /\ \A i \in DOMAIN v.elems : IsScalar(v.elems[i], NormalKinds)
      BY <1>2 DEF IsList
    <3>4. QED
      BY <3>1, <3>2, <3>3
  <2>2. \A i \in DOMAIN v.elems :
          /\ Marshals(v.elems[i]) <=> v.elems[i].kind \notin {"nil", "struct"}
          /\ Unmarshal(Tagged(v.elems[i])) = v.elems[i]
    BY <2>1, ScalarMarshals DEF IsNormal
  <2>3. Encodes(v) <=> Storable(v)
    BY <1>2, <2>2 DEF Encodes, Storable
  <2>4. encode(v) = [tag |-> "array", raw |-> tags]
    BY <1>2 DEF encode
  <2>5. DOMAIN tags = DOMAIN v.elems
        /\ \A i \in DOMAIN v.elems : Unmarshal(tags[i]) = v.elems[i]
    BY <2>2
  <2> HIDE DEF tags
  <2>6. decode(encode(v)) = Slice([i \in DOMAIN tags |-> Unmarshal(tags[i])])
    BY <2>4 DEF decode
  <2>7. [i \in DOMAIN tags |-> Unmarshal(tags[i])] = v.elems
    BY <2>1, <2>5
  <2>8. decode(encode(v)) = v
    BY <2>1, <2>6, <2>7
  <2>9. encode(v) # None /\ v # None
    <3>1. DOMAIN encode(v) = {"tag", "raw"} /\ DOMAIN None = {"kind", "val"}
      BY <2>4 DEF None, Value
    <3>2. "tag" \notin {"kind", "val"}
      OBVIOUS
    <3>3. None.kind = "none"
      BY DEF None, Value
    <3>4. QED
      BY <1>2, <3>1, <3>2, <3>3
  <2>10. QED
    BY <2>3, <2>8, <2>9
<1>3. QED
  BY <1>1, <1>2 DEF IsNormal

LEMMA PutKeeps ==
  ASSUME NEW v, IsNormal(v), StoredReadsAsLive, PutValue(v)
  PROVE  StoredReadsAsLive'
<1>1. /\ Encodes(v) <=> Storable(v)
      /\ decode(encode(v)) = v /\ encode(v) # None /\ v # None
  BY StoresWhatItKeeps
<1>2. CASE Encodes(v)
  <2>1. cache' = encode(v) /\ kept' = v
    BY <1>1, <1>2 DEF PutValue
  <2>2. QED
    BY <1>1, <2>1 DEF StoredReadsAsLive
<1>3. CASE ~Encodes(v)
  <2>1. cache' = cache /\ kept' = kept
    BY <1>1, <1>3 DEF PutValue
  <2>2. QED
    BY <2>1 DEF StoredReadsAsLive
<1>4. QED
  BY <1>2, <1>3

-----------------------------------------------------------------------------
(***************************************************************************)
(* Conversion, by DataType.                                                *)
(***************************************************************************)

LEMMA ConvertByType ==
  ASSUME NEW v
  PROVE  /\ convertScalarValue(v, "Boolean") = convertToBoolean(v)
         /\ \A t \in IntTypes :
              convertScalarValue(v, t) = convertToInt(v, builtinScalarGoType[t])
         /\ convertScalarValue(v, "Float") = convertToFloat(v, "float32")
         /\ convertScalarValue(v, "Double") = convertToFloat(v, "float64")
         /\ convertScalarValue(v, "String") = convertToString(v)
         /\ convertScalarValue(v, "DateTime") = convertToDateTime(v)
         /\ convertScalarValue(v, "Guid") = convertToGUID(v)
         /\ convertScalarValue(v, "ByteString") = convertToByteString(v)
BY DEF convertScalarValue, IntTypes, Narrow

LEMMA IntKindsOfTypes ==
  /\ \A t \in IntTypes : t \in Builtin /\ builtinScalarGoType[t] \in IntKinds
  /\ Builtin = IntTypes \cup {"Boolean", "Float", "Double", "String", "DateTime",
                              "Guid", "ByteString"}
  /\ IntTypes = Narrow \cup {"Int64", "UInt64"}
BY BuiltinTypes, GoKinds DEF IntTypes, Narrow, IntKinds, SignedKinds, UnsignedKinds

LEMMA KindsApart ==
  /\ IntKinds \cap FloatKinds = {}
  /\ \A k \in {"string", "bool", "nil", "map", "time", "guid", "bytes", "error"} :
       k \notin IntKinds \cup FloatKinds
BY DEF IntKinds, SignedKinds, UnsignedKinds, FloatKinds

LEMMA ConvertToInt ==
  ASSUME NEW v, NEW k \in IntKinds
  PROVE  /\ v.kind = k => convertToInt(v, k) = v
         /\ v.kind \in IntKinds \ {k} => convertToInt(v, k) = InRange(v.val, k)
         /\ v.kind \in FloatKinds /\ k # "uint64" =>
              convertToInt(v, k) = InRange(FloatToInt64(v.val), k)
         /\ v.kind \in FloatKinds /\ k = "uint64" =>
              convertToInt(v, k) =
                IF v.val < 0 THEN Fail ELSE Value(k, FloatToUInt64(v.val))
         /\ v.kind \notin IntKinds \cup FloatKinds =>
              convertToInt(v, k) \in {InRange(1, k), Fail}
BY KindsApart DEF convertToInt

LEMMA ConvertToFloat ==
  ASSUME NEW v, NEW k \in FloatKinds
  PROVE  /\ v.kind = k => convertToFloat(v, k) = v
         /\ v.kind \in (IntKinds \cup FloatKinds) \ {k} =>
              convertToFloat(v, k) = Value(k, Rounded(toFloat64(v), k))
         /\ v.kind \notin IntKinds \cup FloatKinds =>
              convertToFloat(v, k) \in {Value(k, 2), Fail}
BY KindsApart DEF convertToFloat

LEMMA ConvertToBoolean ==
  ASSUME NEW v
  PROVE  /\ v.kind = "bool" => convertToBoolean(v) = v
         /\ v.kind # "bool" =>
              convertToBoolean(v) \in {Value("bool", 0), Value("bool", 1), Fail}
<1>1. CASE v.kind = "bool"
  BY <1>1, KindsApart DEF convertToBoolean
<1>2. CASE v.kind = "string"
  BY <1>2, KindsApart DEF convertToBoolean
<1>3. CASE v.kind \in IntKinds
  BY <1>3, KindsApart DEF convertToBoolean
<1>4. CASE v.kind \in FloatKinds
  BY <1>4, KindsApart DEF convertToBoolean
<1>5. CASE v.kind \notin IntKinds \cup FloatKinds \cup {"bool", "string"}
  BY <1>5, KindsApart DEF convertToBoolean
<1>6. QED
  BY <1>1, <1>2, <1>3, <1>4, <1>5

LEMMA ConvertToDateTime ==
  ASSUME NEW v
  PROVE  /\ v.kind = "time" => convertToDateTime(v) = v
         /\ v.kind = "string" => convertToDateTime(v) \in {Value("time", 0), Fail}
         /\ v.kind \in {"int", "int64"} =>
              convertToDateTime(v) = Value("time", 2 * v.val)
         /\ v.kind = "float64" =>
              convertToDateTime(v) =
                Value("time", IF Fits(Trunc(v.val), "int64") THEN v.val
                              ELSE 2 * FloatToInt64(v.val))
         /\ v.kind \notin {"time", "string", "int", "int64", "float64"} =>
              convertToDateTime(v) = Fail
BY DEF convertToDateTime

\* A scalar and nothing but its kind and its value.
Plain(v) == v = Value(v.kind, v.val)

LEMMA PlainValues ==
  /\ \A k, x : Plain(Value(k, x)) /\ Value(k, x).kind = k /\ Value(k, x).val = x
  /\ Plain(Fail) /\ Fail.kind = "error"
BY DEF Plain, Value, Fail

\* A conversion fails or yields a scalar of the kind that its DataType has.
LEMMA ConvertedKind ==
  ASSUME NEW v, Plain(v), NEW t \in Builtin
  PROVE  LET c == convertScalarValue(v, t) IN
           Plain(c) /\ (c = Fail \/ c.kind = builtinScalarGoType[t])
<1> DEFINE c == convertScalarValue(v, t)
           k == builtinScalarGoType[t]
<1>1. CASE t \in IntTypes
  <2>1. c = convertToInt(v, k) /\ k \in IntKinds
    BY <1>1, ConvertByType, IntKindsOfTypes
  <2> HIDE DEF k
  <2>2. \A n : InRange(n, k) \in {Value(k, n), Fail}
    BY DEF InRange
  <2>3. (c = v /\ v.kind = k) \/ c = Fail \/ \E n : c = Value(k, n)
    BY <2>1, <2>2, ConvertToInt
  <2> HIDE DEF c
  <2>4. QED
    BY <2>3, PlainValues DEF c, k
<1>2. CASE t \in {"Float", "Double"}
  <2>1. c = convertToFloat(v, k) /\ k \in FloatKinds
    BY <1>2, ConvertByType, GoKinds DEF FloatKinds
  <2> HIDE DEF k
  <2>2. (c = v /\ v.kind = k) \/ c = Fail \/ \E n : c = Value(k, n)
    BY <2>1, ConvertToFloat
  <2> HIDE DEF c
  <2>3. QED
    BY <2>2, PlainValues DEF c, k
<1>3. CASE t = "Boolean"
  <2>1. c = convertToBoolean(v) /\ k = "bool"
    BY <1>3, ConvertByType, GoKinds
  <2> HIDE DEF k, c
  <2>2. (c = v /\ v.kind = k) \/ c = Fail \/ \E n : c = Value(k, n)
    BY <2>1, ConvertToBoolean
  <2>3. QED
    BY <2>2, PlainValues DEF c, k
<1>4. CASE t = "DateTime"
  <2>1. c = convertToDateTime(v) /\ k = "time"
    BY <1>4, ConvertByType, GoKinds
  <2> HIDE DEF k, c
  <2>2. (c = v /\ v.kind = k) \/ c = Fail \/ \E n : c = Value(k, n)
    BY <2>1, ConvertToDateTime
  <2>3. QED
    BY <2>2, PlainValues DEF c, k
<1>5. CASE t \in {"String", "Guid", "ByteString"}
  <2>1. (c = v /\ v.kind = k) \/ c = Fail \/ \E n : c = Value(k, n)
    BY <1>5, ConvertByType, GoKinds
       DEF convertToString, convertToGUID, convertToByteString
  <2> HIDE DEF k, c
  <2>2. QED
    BY <2>1, PlainValues DEF c, k
<1>6. QED
  BY <1>1, <1>2, <1>3, <1>4, <1>5, IntKindsOfTypes

\* What has a wire type goes out under the DataType it was converted to.
LEMMA ConvertedWire ==
  ASSUME NEW v, NEW n, n.type \in Builtin,
         v.kind = "slice" => IsList(v, RequestKinds),
         ~n.isArray => Plain(v),
         HasWireType(convertValueToOPCUAType(v, n))
  PROVE  LET w == NewVariant(convertValueToOPCUAType(v, n)) IN
           IF n.isArray
             THEN /\ v.kind = "slice"
                  /\ w.value.kind = "array"
                  /\ w.value.elems =
                       [i \in DOMAIN v.elems |-> convertScalarValue(v.elems[i], n.type)]
                  /\ \A i \in DOMAIN v.elems :
                       convertScalarValue(v.elems[i], n.type) # Fail
                  /\ DOMAIN w.value.elems = DOMAIN v.elems
                  /\ Len(w.value.elems) = Len(v.elems)
                  /\ IF n.type = "Byte" THEN w.type = "ByteString" /\ ~w.isArray
                     ELSE w.type = n.type /\ w.isArray
             ELSE /\ w.value = convertScalarValue(v, n.type)
                  /\ w.value.kind = builtinScalarGoType[n.type]
                  /\ w.type = n.type /\ ~w.isArray
<1> DEFINE c == convertValueToOPCUAType(v, n)
           w == NewVariant(c)
           k == builtinScalarGoType[n.type]
<1>0. "error" \notin WireKinds /\ Fail.kind = "error" /\ Fail.kind \notin {"array", "slice"}
  BY WireKindsAre, PlainValues
<1>1. c # Fail
  BY <1>0 DEF HasWireType
<1>2. TypeOf(k) = n.type
  BY TypeOfKind
<1>3. k \notin {"nil", "slice", "array"}
  BY BuiltinTypes, GoKinds
<1>4. k = "uint8" <=> n.type = "Byte"
  BY BuiltinTypes, GoKinds
<1>5. CASE n.isArray
  <2> DEFINE all == [i \in DOMAIN v.elems |-> convertScalarValue(v.elems[i], n.type)]
  <2>1. c = convertArrayValue(v, n.type)
    BY <1>5 DEF convertValueToOPCUAType
  <2>2. /\ v.kind = "slice" /\ c = [kind |-> "array", of |-> k, elems |-> all]
        /\ \A i \in DOMAIN v.elems : all[i] # Fail
    BY <1>1, <2>1 DEF convertArrayValue
  <2>3. DOMAIN all = DOMAIN v.elems /\ Len(all) = Len(v.elems)
    <3>1. all = [i \in DOMAIN v.elems |-> all[i]]
      OBVIOUS
    <3>2. Len(v.elems) \in Nat /\ DOMAIN v.elems = 1 .. Len(v.elems)
      BY <2>2 DEF IsList
    <3> HIDE DEF all
    <3>3. QED
      BY <3>1, <3>2, SameLength
  <2> HIDE DEF c
  <2>4. w = IF k = "uint8" THEN Wire("ByteString", FALSE, c)
            ELSE Wire(TypeOf(k), TRUE, c)
    <3> HIDE DEF k, all
    <3> QED BY <2>2 DEF NewVariant
  <2> HIDE DEF w, k, all
  <2>5. w.value = c /\ c.kind = "array" /\ c.elems = all
    BY <2>2, <2>4 DEF Wire
  <2>6. IF n.type = "Byte" THEN w.type = "ByteString" /\ ~w.isArray
        ELSE w.type = n.type /\ w.isArray
    BY <1>2, <1>4, <2>4 DEF Wire
  <2>7. w.value.elems =
          [i \in DOMAIN v.elems |-> convertScalarValue(v.elems[i], n.type)]
    BY <2>5 DEF all
  <2>8. \A i \in DOMAIN v.elems : convertScalarValue(v.elems[i], n.type) # Fail
    BY <2>2 DEF all
  <2>9. QED
    BY <1>5, <2>2, <2>3, <2>5, <2>6, <2>7, <2>8 DEF w, c
<1>6. CASE ~n.isArray
  <2>1. c = convertScalarValue(v, n.type)
    BY <1>6 DEF convertValueToOPCUAType
  <2>2. c.kind = k
    BY <1>1, <1>6, <2>1, ConvertedKind
  <2> HIDE DEF c, k
  <2>3. w = Wire(TypeOf(k), FALSE, c)
    BY <1>3, <2>2 DEF NewVariant
  <2>4. QED
    BY <1>2, <1>6, <2>1, <2>2, <2>3 DEF Wire, w, c, k
<1>7. QED
  BY <1>5, <1>6

-----------------------------------------------------------------------------
(***************************************************************************)
(* Validation, by DataType.                                                *)
(***************************************************************************)

LEMMA ValidatedByType ==
  ASSUME NEW v
  PROVE  /\ validateScalarValue(v, "Boolean") <=> v.kind = "bool"
         /\ \A t \in Narrow : validateScalarValue(v, t) <=>
              isIntegerType(v) /\ isInRange(v, builtinScalarGoType[t])
         /\ validateScalarValue(v, "Int64") <=> isIntegerType(v)
         /\ validateScalarValue(v, "UInt64") <=> isIntegerType(v) /\ isNonNegative(v)
         /\ \A t \in {"Float", "Double"} : validateScalarValue(v, t) <=> isFloatType(v)
         /\ \A t \in {"String", "Guid", "ByteString"} :
              validateScalarValue(v, t) <=> v.kind = "string"
         /\ validateScalarValue(v, "DateTime") <=> isDateTimeType(v)
BY DEF validateScalarValue, Narrow

\* Validation refuses lists where a scalar belongs.
LEMMA ValidatedKinds ==
  ASSUME NEW v, NEW t \in Builtin, validateScalarValue(v, t)
  PROVE  /\ t \in IntTypes => v.kind \in IntKinds \cup {"float64"}
         /\ v.kind \in IntKinds \cup FloatKinds \cup {"bool", "string"}
<1>1. CASE t \in Narrow \cup {"Int64", "UInt64"}
  BY <1>1, ValidatedByType DEF isIntegerType, FloatKinds
<1>2. CASE t \notin IntTypes
  BY <1>2, ValidatedByType, IntKindsOfTypes
     DEF isFloatType, isDateTimeType, IntKinds, SignedKinds, FloatKinds
<1>3. QED
  BY <1>1, <1>2, IntKindsOfTypes

-----------------------------------------------------------------------------
(***************************************************************************)
(* Numbers.                                                                *)
(***************************************************************************)

\* A number that its kind holds.
Number(v) ==
  /\ v.kind \in IntKinds \cup FloatKinds /\ v.val \in Int
  /\ v.kind \in IntKinds => Fits(v.val, v.kind)

LEMMA FitsInt64 ==
  ASSUME NEW v, Number(v), v.kind \in IntKinds, ~Wraps(v)
  PROVE  Fits(v.val, "int64") /\ toInt64(v) = v.val
<1> DEFINE n == v.val
           k == v.kind
<1>1. n \in Int /\ Fits(n, k) /\ k \in IntKinds
  BY DEF Number
<1>2. \/ k \in {"uint", "uint64"} \/ k \in {"int", "int64"}
      \/ \E t \in Narrow : k = builtinScalarGoType[t]
  BY <1>1, GoKinds DEF IntKinds, SignedKinds, UnsignedKinds, Narrow
<1>3. k \in {"uint", "uint64"} => Fits(n, "int64")
  BY DEF Wraps
<1> HIDE DEF n, k
<1>4. "int64" \in IntKinds /\ Lo("int64") \in Int /\ Hi("int64") \in Int
      /\ Lo(k) \in Int /\ Hi(k) \in Int
  BY <1>1, NumbersAssumption DEF IntKinds, SignedKinds
<1>5. k \in {"int", "int64"} =>
        Lo("int64") <= Lo(k) /\ Hi(k) <= Hi("int64")
  BY <1>4, NumbersAssumption
<1>6. (\E t \in Narrow : k = builtinScalarGoType[t]) =>
        Lo("int64") <= Lo(k) /\ Hi(k) <= Hi("int64")
  BY <1>4, NumbersAssumption
<1>7. Fits(n, "int64")
  BY <1>1, <1>2, <1>3, <1>4, <1>5, <1>6 DEF Fits
<1>8. v.kind # "float64"
  BY KindsApart DEF FloatKinds
<1>9. QED
  BY <1>7, <1>8 DEF toInt64, n

\* The processor's results are in the range of int64.
LEMMA FloatToInt64Fits ==
  ASSUME NEW h \in Int
  PROVE  Fits(FloatToInt64(h), "int64") /\ FloatToInt64(h) \in Int /\ Trunc(h) \in Int
<1>1. Trunc(h) \in Int
  BY DEF Trunc, Abs
<1>2. /\ Lo("int64") \in Int /\ Hi("int64") \in Int
      /\ Lo("int64") <= 0 /\ 0 < Hi("int64")
  BY NumbersAssumption DEF IntKinds, SignedKinds
<1>3. QED
  BY <1>1, <1>2 DEF FloatToInt64, Fits

LEMMA InRangeOrFail ==
  ASSUME NEW n, NEW k \in IntKinds
  PROVE  /\ Fits(n, k) => InRange(n, k) = Value(k, n) /\ Value(k, n) # Fail
         /\ ~Fits(n, k) => InRange(n, k) = Fail
<1>1. Value(k, n).kind = k /\ Fail.kind = "error" /\ k # "error"
  BY PlainValues, KindsApart
<1>2. QED
  BY <1>1 DEF InRange

\* What has been validated is converted: the lists of types and the ranges of
\* the two agree.
LEMMA ValidatedScalarConverts ==
  ASSUME NEW v, NEW t \in Builtin, validateScalarValue(v, t), v.kind # "string",
         v.kind \in IntKinds \cup FloatKinds => Number(v), ~Wraps(v)
  PROVE  convertScalarValue(v, t) # Fail
<1>1. \A k, x : k # "error" => Value(k, x) # Fail
  BY PlainValues
<1>2. CASE t = "Boolean"
  <2>1. v.kind = "bool" /\ convertScalarValue(v, t) = v
    BY <1>2, ValidatedByType, ConvertByType, ConvertToBoolean
  <2>2. QED
    BY <2>1, PlainValues
<1>3. CASE t \in {"Float", "Double"}
  <2>1. PICK k \in FloatKinds : convertScalarValue(v, t) = convertToFloat(v, k)
    BY <1>3, ConvertByType DEF FloatKinds
  <2>2. v.kind \in IntKinds \cup FloatKinds
    BY <1>3, ValidatedByType DEF isFloatType
  <2>3. v.kind # "error" /\ k # "error"
    BY <2>1, <2>2, KindsApart
  <2>4. QED
    BY <1>1, <2>1, <2>2, <2>3, ConvertToFloat, PlainValues
<1>4. CASE t \in {"String", "Guid", "ByteString"}
  BY <1>4, ValidatedByType
<1>5. CASE t = "DateTime"
  <2>1. v.kind \in {"int", "int64", "float64"}
    BY <1>5, ValidatedByType DEF isDateTimeType
  <2>2. QED
    BY <1>1, <1>5, <2>1, ConvertByType, ConvertToDateTime
<1>6. CASE t \in IntTypes
  <2> DEFINE k == builtinScalarGoType[t]
  <2>1. /\ k \in IntKinds /\ convertScalarValue(v, t) = convertToInt(v, k)
        /\ v.kind \in IntKinds \cup {"float64"} /\ Number(v)
    BY <1>6, IntKindsOfTypes, ConvertByType, ValidatedKinds DEF FloatKinds
  <2>2. k # "error" /\ v.kind # "error"
    BY <2>1, KindsApart DEF FloatKinds
  <2>3. t = "Int64" => k = "int64"
    BY GoKinds
  <2>4. t = "UInt64" <=> k = "uint64"
    BY <1>6, GoKinds, IntKindsOfTypes, BuiltinTypes
  <2>5. t \in Narrow => Fits(toInt64(v), k)
    BY ValidatedByType DEF isInRange
  <2>6. t = "UInt64" => v.kind \in UnsignedKinds \/ v.val >= 0
    BY ValidatedByType DEF isNonNegative
  <2>7. t \in Narrow \/ t = "Int64" \/ t = "UInt64"
    BY <1>6 DEF IntTypes
  <2> HIDE DEF k
  <2>8. CASE v.kind = k
    BY <2>1, <2>2, <2>8, ConvertToInt, PlainValues
  <2>9. CASE v.kind \in IntKinds \ {k}
    <3>1. convertToInt(v, k) = InRange(v.val, k)
      BY <2>1, <2>9, ConvertToInt
    <3>2. Fits(v.val, "int64") /\ toInt64(v) = v.val
      BY <2>1, <2>9, FitsInt64
    <3>3. CASE t = "UInt64"
      <4>1. v.val >= 0
        <5>1. v.kind \in UnsignedKinds => Lo(v.kind) = 0
          BY DEF Lo, UnsignedKinds, SignedKinds
        <5>2. Fits(v.val, v.kind) /\ v.val \in Int
          BY <2>1, <2>9 DEF Number
        <5>3. QED
          BY <2>6, <3>3, <5>1, <5>2 DEF Fits
      <4>2. /\ Lo("uint64") \in Int /\ Lo("uint64") <= 0 /\ Hi("uint64") \in Int
            /\ Hi("int64") \in Int /\ Hi("int64") <= Hi("uint64")
        BY NumbersAssumption DEF IntKinds, SignedKinds, UnsignedKinds
      <4>3. Fits(v.val, "uint64")
        BY <2>1, <3>2, <4>1, <4>2 DEF Fits, Number
      <4>4. QED
        BY <2>1, <2>4, <3>1, <3>3, <4>3, InRangeOrFail
    <3>4. CASE t # "UInt64"
      <4>1. Fits(v.val, k)
        BY <2>3, <2>5, <2>7, <3>2, <3>4
      <4>2. QED
        BY <2>1, <3>1, <4>1, InRangeOrFail
    <3>5. QED
      BY <3>3, <3>4
  <2>10. CASE v.kind = "float64"
    <3>1. v.val \in Int /\ v.kind \in FloatKinds /\ v.kind \notin UnsignedKinds
      BY <2>1, <2>10 DEF Number, FloatKinds, UnsignedKinds
    <3>2. CASE k = "uint64"
      <4>1. ~(v.val < 0)
        BY <2>4, <2>6, <3>1, <3>2
      <4>2. QED
        BY <1>1, <2>1, <2>2, <3>1, <3>2, <4>1, ConvertToInt
    <3>3. CASE k # "uint64"
      <4>1. convertToInt(v, k) = InRange(FloatToInt64(v.val), k)
        BY <2>1, <3>1, <3>3, ConvertToInt
      <4>2. toInt64(v) = FloatToInt64(v.val)
        BY <2>10 DEF toInt64
      <4>3. Fits(FloatToInt64(v.val), "int64")
        BY <3>1, FloatToInt64Fits
      <4>4. Fits(FloatToInt64(v.val), k)
        BY <2>3, <2>4, <2>5, <2>7, <3>3, <4>2, <4>3
      <4>5. QED
        BY <2>1, <4>1, <4>4, InRangeOrFail
    <3>4. QED
      BY <3>2, <3>3
  <2>11. QED
    BY <2>1, <2>8, <2>9, <2>10
<1>7. QED
  BY <1>2, <1>3, <1>4, <1>5, <1>6, IntKindsOfTypes

-----------------------------------------------------------------------------
(***************************************************************************)
(* Floats.                                                                 *)
(***************************************************************************)

LEMMA MantissaFacts ==
  ASSUME NEW k \in FloatKinds
  PROVE  /\ Mantissa[k] \in Nat /\ 2 <= Mantissa[k]
         /\ MaxFloat[k] \in Nat /\ 2 <= MaxFloat[k] /\ MaxFloat[k] < Inf
         /\ Inf \in Nat /\ NaN \in Nat /\ Inf < NaN /\ MaxExponent \in Nat
<1>1. k = "float32" \/ k = "float64"
  BY DEF FloatKinds
<1>2. Mantissa[k] \in Nat /\ MaxFloat[k] \in Nat
  BY ValuesAssumption
<1>3. /\ Mantissa["float32"] \in Nat /\ Mantissa["float64"] \in Nat
      /\ MaxFloat["float32"] \in Nat /\ MaxFloat["float64"] \in Nat
  BY ValuesAssumption DEF FloatKinds
<1>4. /\ Inf \in Nat /\ NaN \in Nat /\ Inf < NaN /\ MaxExponent \in Nat
      /\ 2 <= Mantissa["float32"] /\ Mantissa["float32"] <= Mantissa["float64"]
      /\ 2 <= MaxFloat["float32"] /\ MaxFloat["float32"] <= MaxFloat["float64"]
      /\ MaxFloat["float64"] < Inf
  BY ValuesAssumption, NumbersAssumption
<1>5. QED
  BY <1>1, <1>2, <1>3, <1>4

\* The powers of two that occur for floats of kind k.
Exponents(k) == 0 .. MaxExponent + 1 + Mantissa[k]

Power(n) == Two[n]

\* The recursion of Two has a value for every exponent.
LEMMA TwoIs ==
  /\ Two[0] = 1
  /\ \A n \in 1 .. MaxExponent + 1 + Mantissa["float64"] : Two[n] = 2 * Two[n - 1]
<1> DEFINE N == MaxExponent + 1 + Mantissa["float64"]
           V == Nat
           step == [n \in 1 .. N |-> [x \in V |-> 2 * x]]
           IsTwo(f) == f = [n \in 0 .. N |-> IF n = 0 THEN 1 ELSE 2 * f[n - 1]]
<1>1. N \in Nat /\ 1 \in V
  BY MantissaFacts DEF FloatKinds
<1>2. IsStep(step, N, V)
  <2> HIDE DEF N
  <2> QED BY DEF IsStep
<1>3. \E f : IsTwo(f)
  <2>1. PICK f : Recurs(f, N, V, 1, step)
    <3> HIDE DEF step, V, N
    <3> QED BY <1>1, <1>2, Recursion
  <2>2. /\ f \in [0 .. N -> V] /\ f[0] = 1
        /\ \A n \in 1 .. N : f[n] = step[n][f[n - 1]]
    <3> HIDE DEF step, V, N
    <3> QED BY <2>1 DEF Recurs
  <2>3. ASSUME NEW n \in 1 .. N
        PROVE  f[n] = 2 * f[n - 1]
    <3>1. n - 1 \in 0 .. N
      BY <1>1
    <3>2. f[n - 1] \in V
      BY <2>2, <3>1
    <3>3. f[n] = step[n][f[n - 1]]
      <4> HIDE DEF step, V, N
      <4> QED BY <2>2
    <3> HIDE DEF N
    <3>4. QED
      BY <3>2, <3>3
  <2>4. f = [n \in 0 .. N |-> f[n]]
    BY <2>2
  <2>5. IsTwo(f)
    <3> HIDE DEF N
    <3>1. \A n \in 0 .. N : n # 0 => n \in 1 .. N
      BY <1>1
    <3>2. QED
      BY <2>2, <2>3, <2>4, <3>1
  <2>6. QED
    BY <2>5
<1>4. IsTwo(Two)
  <2>1. Two = CHOOSE f : IsTwo(f)
    BY DEF Two
  <2> HIDE DEF IsTwo
  <2>2. QED
    BY <1>3, <2>1
<1>5. 0 \in 0 .. N /\ \A n \in 1 .. N : n \in 0 .. N /\ n # 0
  BY <1>1
<1> HIDE DEF N
<1>6. /\ Two[0] = 1
      /\ \A n \in 1 .. N : Two[n] = 2 * Two[n - 1]
  BY <1>4, <1>5
<1>7. QED
  BY <1>6 DEF N

LEMMA Powers ==
  ASSUME NEW k \in FloatKinds
  PROVE  /\ Power(0) = 1
         /\ \A n \in Exponents(k) : Power(n) \in Nat \ {0}
         /\ \A n \in Exponents(k) : n + 1 \in Exponents(k) => Power(n + 1) = 2 * Power(n)
<1> DEFINE M == Mantissa[k]
           S == {n \in Exponents(k) : Power(n) \in Nat \ {0}}
<1>1. M \in Nat /\ MaxExponent \in Nat
  BY MantissaFacts
<1>2. Power(0) = 1
  BY TwoIs DEF Power
<1>3. \A n \in 0 .. MaxExponent + M : Power(n + 1) = 2 * Power(n)
  <2> TAKE n \in 0 .. MaxExponent + M
  <2>1. M <= Mantissa["float64"] /\ Mantissa["float64"] \in Nat
    BY MantissaFacts, NumbersAssumption DEF FloatKinds
  <2>2. n + 1 \in 1 .. MaxExponent + 1 + Mantissa["float64"] /\ (n + 1) - 1 = n
    BY <1>1, <2>1
  <2>3. Two[n + 1] = 2 * Two[(n + 1) - 1]
    BY <2>2, TwoIs
  <2>4. QED
    BY <2>2, <2>3 DEF Power
<1>4. \A n \in Exponents(k) : n + 1 \in Exponents(k) => Power(n + 1) = 2 * Power(n)
  BY <1>1, <1>3 DEF Exponents
<1>5. 0 \in S
  BY <1>1, <1>2 DEF Exponents
<1>6. ASSUME NEW n \in 0 .. (MaxExponent + 1 + M) - 1, n \in S
      PROVE  n + 1 \in S
  <2>1. n + 1 \in Exponents(k) /\ n \in Exponents(k)
    BY <1>1 DEF Exponents
  <2>2. Power(n + 1) = 2 * Power(n) /\ Power(n) \in Nat \ {0}
    BY <1>4, <1>6, <2>1
  <2>3. Power(n + 1) \in Nat \ {0}
    BY <2>2
  <2>4. QED
    BY <2>1, <2>3
<1>7. 0 .. MaxExponent + 1 + M \subseteq S
  <2> HIDE DEF S
  <2>1. MaxExponent + 1 + M \in Nat
    BY <1>1
  <2> HIDE DEF M
  <2>2. QED
    BY <1>5, <1>6, <2>1, CountingTo
<1>8. \A n \in Exponents(k) : Power(n) \in Nat \ {0}
  BY <1>7 DEF Exponents
<1>9. QED
  BY <1>2, <1>4, <1>8

LEMMA PowerOfSum ==
  ASSUME NEW k \in FloatKinds, NEW m \in Nat, NEW n \in Nat, m + n \in Exponents(k)
  PROVE  Power(m + n) = Power(m) * Power(n)
<1> DEFINE S == {i \in 0 .. n : Power(m + i) = Power(m) * Power(i)}
<1>1. /\ \A i \in 0 .. n : m + i \in Exponents(k) /\ i \in Exponents(k)
      /\ m \in Exponents(k)
  BY MantissaFacts DEF Exponents
<1>2. 0 \in S
  <2>1. m + 0 = m /\ Power(m) \in Nat /\ Power(0) = 1
    BY <1>1, Powers
  <2>2. Power(m) * 1 = Power(m)
    BY <2>1
  <2>3. QED
    BY <2>1, <2>2
<1>3. ASSUME NEW i \in 0 .. n - 1, i \in S
      PROVE  i + 1 \in S
  <2>1. i \in 0 .. n /\ i + 1 \in 0 .. n /\ m + (i + 1) = (m + i) + 1 /\ i \in Nat
    OBVIOUS
  <2>2. /\ Power(m + (i + 1)) = 2 * Power(m + i) /\ Power(i + 1) = 2 * Power(i)
        /\ Power(m) \in Nat /\ Power(i) \in Nat
    BY <1>1, <2>1, Powers
  <2>3. Power(m + i) = Power(m) * Power(i)
    BY <1>3
  <2>4. \A a, b \in Nat : 2 * (a * b) = a * (2 * b)
    OBVIOUS
  <2>5. Power(m + (i + 1)) = Power(m) * Power(i + 1)
    BY <2>2, <2>3, <2>4
  <2>6. QED
    BY <2>1, <2>5
<1>4. n \in S
  <2> HIDE DEF S
  <2>1. 0 .. n \subseteq S
    BY <1>2, <1>3, CountingTo
  <2>2. QED
    BY <2>1
<1>5. QED
  BY <1>4

LEMMA PowersGrow ==
  ASSUME NEW k \in FloatKinds, NEW m \in Exponents(k), NEW n \in Exponents(k), m <= n
  PROVE  /\ Power(m) <= Power(n)
         /\ \E d \in Nat \ {0} : Power(n) = Power(m) * d
<1> DEFINE d == Power(n - m)
<1>1. /\ n - m \in Nat /\ n - m \in Exponents(k) /\ m \in Nat /\ n \in Nat
      /\ m + (n - m) = n
  BY MantissaFacts DEF Exponents
<1>2. Power(n) = Power(m) * d
  BY <1>1, PowerOfSum
<1>3. Power(m) \in Nat \ {0} /\ d \in Nat \ {0}
  BY <1>1, Powers
<1> HIDE DEF d
<1>4. Power(m) <= Power(n)
  <2>1. \A a, b \in Nat \ {0} : a <= a * b
    OBVIOUS
  <2>2. QED
    BY <1>2, <1>3, <2>1
<1>5. QED
  BY <1>2, <1>3, <1>4

LEMMA Multiples ==
  ASSUME NEW a \in Nat \ {0}, NEW q \in Int
  PROVE  (a * q) % a = 0
<1> DEFINE h == a * q
           d == h \div a
           m == h % a
<1>1. h \in Int /\ d \in Int /\ m \in 0 .. a - 1 /\ h = a * d + m
  OBVIOUS
<1> HIDE DEF d, m
<1>2. m = a * (q - d)
  BY <1>1
<1> HIDE DEF h
<1>3. q - d >= 1 => a * (q - d) >= a
  BY <1>1
<1>4. q - d <= -1 => a * (q - d) <= -a
  BY <1>1
<1>5. q - d = 0
  BY <1>1, <1>2, <1>3, <1>4
<1>6. QED
  BY <1>1, <1>2, <1>5 DEF m, h

\* e is the exponent of h among the floats of kind k.
IsExponent(e, h, k) ==
  /\ e \in 0 .. MaxExponent
  /\ Abs(h) < Power(e + Mantissa[k])
  /\ e > 0 => Abs(h) >= Power(e - 1 + Mantissa[k])

LEMMA ExponentsOf ==
  ASSUME NEW k \in FloatKinds, NEW e \in 0 .. MaxExponent
  PROVE  /\ e \in Exponents(k) /\ e + Mantissa[k] \in Exponents(k)
         /\ e + 1 \in Exponents(k) /\ (e + 1) + Mantissa[k] \in Exponents(k)
         /\ e > 0 => (e - 1) + Mantissa[k] \in Exponents(k)
         /\ MaxExponent + Mantissa[k] \in Exponents(k) /\ MaxExponent \in Exponents(k)
BY MantissaFacts DEF Exponents

LEMMA NaNIsLow ==
  ASSUME NEW k \in FloatKinds
  PROVE  NaN < Power(MaxExponent + Mantissa[k]) /\ Power(MaxExponent + Mantissa[k]) \in Nat
<1>1. /\ MaxExponent \in Exponents(k) /\ MaxExponent + Mantissa[k] \in Exponents(k)
      /\ MaxExponent <= MaxExponent + Mantissa[k] /\ NaN \in Nat
  BY MantissaFacts DEF Exponents
<1>2. NaN < Power(MaxExponent)
  BY NumbersAssumption DEF Power
<1>3. Power(MaxExponent) <= Power(MaxExponent + Mantissa[k])
  BY <1>1, PowersGrow
<1>4. Power(MaxExponent) \in Nat /\ Power(MaxExponent + Mantissa[k]) \in Nat
  BY <1>1, Powers
<1>5. QED
  BY <1>1, <1>2, <1>3, <1>4

\* Every number has an exponent, and its spacing is that power.
LEMMA SpacingIs ==
  ASSUME NEW k \in FloatKinds, NEW h \in Int, Abs(h) <= NaN
  PROVE  \E e : IsExponent(e, h, k) /\ Spacing(h, k) = Power(e)
<1> DEFINE S == {e \in 0 .. MaxExponent : Abs(h) < Power(e + Mantissa[k])}
<1>1. Abs(h) \in Nat /\ Mantissa[k] \in Nat /\ MaxExponent \in Nat
  BY MantissaFacts DEF Abs
<1>2. MaxExponent \in S
  <2>1. MaxExponent \in 0 .. MaxExponent
    BY <1>1
  <2>2. NaN < Power(MaxExponent + Mantissa[k]) /\ NaN \in Nat
        /\ Power(MaxExponent + Mantissa[k]) \in Nat
    BY <2>1, MantissaFacts, NaNIsLow
  <2>3. Abs(h) < Power(MaxExponent + Mantissa[k])
    BY <1>1, <2>2
  <2>4. QED
    BY <2>1, <2>3
<1>3. PICK e \in S : \A f \in S : e <= f
  <2>1. S \in SUBSET Nat /\ S # {}
    BY <1>2
  <2> HIDE DEF S
  <2>2. QED
    BY <2>1, LeastNatural
<1>4. IsExponent(e, h, k)
  <2>1. CASE e > 0
    <3>1. e - 1 \in 0 .. MaxExponent /\ e - 1 \notin S
      BY <1>1, <1>3, <2>1
    <3>2. ~(Abs(h) < Power((e - 1) + Mantissa[k]))
      BY <3>1
    <3>3. Power((e - 1) + Mantissa[k]) \in Nat
      BY <2>1, ExponentsOf, Powers
    <3>4. Abs(h) >= Power((e - 1) + Mantissa[k])
      BY <1>1, <3>2, <3>3
    <3>5. QED
      BY <2>1, <3>4 DEF IsExponent
  <2>2. CASE ~(e > 0)
    BY <2>2 DEF IsExponent
  <2>3. QED
    BY <2>1, <2>2
<1>5. Spacing(h, k) = Power(CHOOSE f \in 0 .. MaxExponent :
                              /\ Abs(h) < Power(f + Mantissa[k])
                              /\ f > 0 => Abs(h) >= Power(f - 1 + Mantissa[k]))
  BY DEF Spacing, Power
<1> DEFINE f == CHOOSE f \in 0 .. MaxExponent :
                  /\ Abs(h) < Power(f + Mantissa[k])
                  /\ f > 0 => Abs(h) >= Power(f - 1 + Mantissa[k])
<1>6. IsExponent(f, h, k)
  BY <1>4 DEF IsExponent
<1> HIDE DEF f
<1>7. QED
  BY <1>5, <1>6 DEF f

\* The exponent is the least that has room for the number, with a greater
\* mantissa too.
LEMMA LeastExponent ==
  ASSUME NEW k \in FloatKinds, NEW l \in FloatKinds, Mantissa[k] <= Mantissa[l],
         NEW h \in Int, NEW e, IsExponent(e, h, l),
         NEW f \in 0 .. MaxExponent, Abs(h) < Power(f + Mantissa[k])
  PROVE  e <= f
<1>1. /\ e \in 0 .. MaxExponent /\ Mantissa[k] \in Nat /\ Mantissa[l] \in Nat /\ Abs(h) \in Nat
  BY MantissaFacts DEF IsExponent, Abs
<1> SUFFICES ASSUME e > f
             PROVE  FALSE
  BY <1>1
<1>2. Abs(h) >= Power((e - 1) + Mantissa[l])
  BY <1>1 DEF IsExponent
<1>3. f + Mantissa[k] <= (e - 1) + Mantissa[l]
  BY <1>1
<1>4. (e - 1) + Mantissa[l] \in Exponents(l) /\ f + Mantissa[k] \in Exponents(k)
  BY <1>1, ExponentsOf
<1>5. f + Mantissa[k] \in Exponents(l)
  BY <1>1, <1>3, <1>4, MantissaFacts DEF Exponents
<1>6. Power(f + Mantissa[k]) <= Power((e - 1) + Mantissa[l])
  BY <1>3, <1>4, <1>5, PowersGrow
<1>7. Power(f + Mantissa[k]) \in Nat /\ Power((e - 1) + Mantissa[l]) \in Nat
  BY <1>4, Powers
<1>8. QED
  BY <1>1, <1>2, <1>6, <1>7

\* A multiple of a power of two is one of every lower power.
LEMMA MultipleOfLower ==
  ASSUME NEW k \in FloatKinds, NEW e \in Exponents(k), NEW f \in Exponents(k), e <= f,
         NEW h \in Int, h % Power(f) = 0
  PROVE  h % Power(e) = 0
<1>1. Power(e) \in Nat \ {0} /\ Power(f) \in Nat \ {0}
  BY Powers
<1>2. PICK d \in Nat \ {0} : Power(f) = Power(e) * d
  BY PowersGrow
<1> DEFINE a == Power(e)
           b == Power(f)
           q == h \div b
<1>3. q \in Int /\ h = b * q
  BY <1>1
<1> HIDE DEF a, b, q
<1>4. h = a * (d * q) /\ d * q \in Int /\ a \in Nat \ {0}
  BY <1>1, <1>2, <1>3 DEF a, b
<1>5. h % a = 0
  BY <1>4, Multiples
<1>6. QED
  BY <1>5 DEF a

\* A number whose exponent is at most e is a float if it is a multiple of 2^e.
LEMMA IsFloat ==
  ASSUME NEW k \in FloatKinds, NEW h \in Int, Abs(h) <= MaxFloat[k],
         NEW l \in FloatKinds, Mantissa[l] <= Mantissa[k],
         NEW e \in 0 .. MaxExponent, Abs(h) < Power(e + Mantissa[l]), h % Power(e) = 0
  PROVE  IsFloatOf(h, k)
<1>1. Abs(h) <= NaN
  BY MantissaFacts DEF Abs
<1>2. PICK f : IsExponent(f, h, k) /\ Spacing(h, k) = Power(f)
  BY <1>1, SpacingIs
<1>3. f \in 0 .. MaxExponent /\ f <= e
  BY <1>2, LeastExponent DEF IsExponent
<1>4. f \in Exponents(k) /\ e \in Exponents(k)
  BY <1>3, ExponentsOf
<1>5. h % Power(f) = 0
  BY <1>3, <1>4, MultipleOfLower
<1>6. QED
  BY <1>2, <1>5 DEF IsFloatOf

\* A float of one kind is one of a greater kind.
LEMMA FloatIsDouble ==
  ASSUME NEW h \in Int, IsFloatOf(h, "float32")
  PROVE  IsFloatOf(h, "float64")
<1>1. "float32" \in FloatKinds /\ "float64" \in FloatKinds
  BY DEF FloatKinds
<1>2. /\ Mantissa["float32"] <= Mantissa["float64"]
      /\ MaxFloat["float32"] <= MaxFloat["float64"]
      /\ MaxFloat["float32"] \in Nat /\ MaxFloat["float64"] \in Nat
      /\ Abs(h) \in Nat
  BY <1>1, MantissaFacts, NumbersAssumption DEF Abs
<1>3. Abs(h) <= MaxFloat["float32"] /\ h % Spacing(h, "float32") = 0
  BY DEF IsFloatOf
<1>4. Abs(h) <= NaN /\ Abs(h) <= MaxFloat["float64"]
  BY <1>1, <1>2, <1>3, MantissaFacts
<1>5. PICK e : IsExponent(e, h, "float32") /\ Spacing(h, "float32") = Power(e)
  BY <1>1, <1>4, SpacingIs
<1>6. QED
  BY <1>1, <1>2, <1>3, <1>4, <1>5, IsFloat DEF IsExponent

\* Rounding yields a float of the kind, or an infinity.
LEMMA RoundedIsFloat ==
  ASSUME NEW k \in FloatKinds, NEW h \in Int, Abs(h) <= NaN
  PROVE  LET r == Rounded(h, k) IN
           r \in {Inf, -Inf} \/ (r \in Int /\ IsFloatOf(r, k))
<1>1. PICK e : IsExponent(e, h, k) /\ Spacing(h, k) = Power(e)
  BY SpacingIs
<1> DEFINE M == Mantissa[k]
           u == Power(e)
           w == Power(M)
           d == h \div u
           rest == 2 * (h % u)
           c == IF rest > u \/ (rest = u /\ d % 2 = 1) THEN d + 1 ELSE d
           r == u * c
<1>2. /\ M \in Nat /\ 2 <= M /\ MaxFloat[k] \in Nat /\ MaxFloat[k] < Inf
      /\ Inf \in Nat /\ NaN \in Nat /\ Inf < NaN
      /\ MaxExponent \in Nat /\ e \in 0 .. MaxExponent
  BY <1>1, MantissaFacts DEF IsExponent
<1>3. Rounded(h, k) = IF Abs(r) <= MaxFloat[k] THEN r ELSE IF r > 0 THEN Inf ELSE -Inf
  BY <1>1 DEF Rounded
<1>4. /\ e + M \in Exponents(k) /\ e \in Exponents(k) /\ M \in Exponents(k)
      /\ e \in Nat
  BY <1>2, ExponentsOf DEF Exponents
<1>5. u \in Nat \ {0} /\ w \in Nat \ {0} /\ Power(e + M) = u * w
  BY <1>2, <1>4, Powers, PowerOfSum
<1>6. -(u * w) < h /\ h < u * w
  BY <1>1, <1>5 DEF IsExponent, Abs
<1> HIDE DEF u, w
<1>7. d \in Int /\ u * d <= h /\ h < u * (d + 1)
  BY <1>5
<1> HIDE DEF d
<1>8. d < w /\ -w <= d
  <2>1. u * d < u * w
    BY <1>5, <1>6, <1>7
  <2>2. u * (-w) < u * (d + 1)
    <3>1. u * (-w) = -(u * w)
      BY <1>5
    <3>2. QED
      BY <1>5, <1>6, <1>7, <3>1
  <2>3. \A a \in Nat \ {0}, x, y \in Int : a * x < a * y => x < y
    <3> SUFFICES ASSUME NEW a \in Nat \ {0}, NEW x \in Int, NEW y \in Int, ~(x < y)
                 PROVE  ~(a * x < a * y)
      OBVIOUS
    <3>1. x - y \in Nat
      OBVIOUS
    <3>2. a * (x - y) >= 0
      BY <3>1
    <3>3. a * x - a * y = a * (x - y)
      OBVIOUS
    <3>4. QED
      BY <3>2, <3>3
  <2>4. d < w
    BY <1>5, <1>7, <2>1, <2>3
  <2>5. -w < d + 1
    BY <1>5, <1>7, <2>2, <2>3
  <2>6. QED
    BY <1>5, <1>7, <2>4, <2>5
<1>9. c \in Int /\ -w <= c /\ c <= w
  <2>1. c = d \/ c = d + 1
    OBVIOUS
  <2> HIDE DEF c
  <2>2. QED
    BY <1>5, <1>7, <1>8, <2>1
<1> HIDE DEF c
<1>10. r \in Int /\ Abs(r) <= u * w /\ r % u = 0
  <2>1. r \in Int /\ r % u = 0
    BY <1>5, <1>9, Multiples
  <2>2. \A a \in Nat \ {0}, x, y \in Int : x <= y => a * x <= a * y
    <3> SUFFICES ASSUME NEW a \in Nat \ {0}, NEW x \in Int, NEW y \in Int, x <= y
                 PROVE  a * x <= a * y
      OBVIOUS
    <3>1. y - x \in Nat
      OBVIOUS
    <3>2. a * (y - x) >= 0
      BY <3>1
    <3>3. a * y - a * x = a * (y - x)
      OBVIOUS
    <3>4. QED
      BY <3>2, <3>3
  <2>3. u * c <= u * w /\ u * (-w) <= u * c
    BY <1>5, <1>9, <2>2
  <2>4. u * (-w) = -(u * w) /\ u * w \in Int
    BY <1>5
  <2>5. QED
    BY <2>1, <2>3, <2>4 DEF Abs
<1>11. CASE Abs(r) <= MaxFloat[k] /\ Abs(r) < u * w
  <2>1. IsFloatOf(r, k)
    BY <1>2, <1>5, <1>10, <1>11, IsFloat DEF u
  <2>2. QED
    BY <1>3, <1>10, <1>11, <2>1
<1>12. CASE Abs(r) <= MaxFloat[k] /\ Abs(r) = u * w
  <2>1. Abs(r) = Power(e + M) /\ Power(e + M) < NaN
    BY <1>2, <1>5, <1>10, <1>12 DEF Abs
  <2>2. e # MaxExponent
    <3>1. NaN < Power(MaxExponent + M) /\ Power(MaxExponent + M) \in Nat
      BY NaNIsLow
    <3>2. QED
      BY <1>2, <1>4, <2>1, <3>1, Powers
  <2>3. /\ e + 1 \in 0 .. MaxExponent /\ M - 1 \in Nat /\ e + M = (e + 1) + (M - 1)
        /\ (e + 1) + M = (e + M) + 1 /\ e + 1 \in Nat
    BY <1>2, <2>2
  <2>4. (e + 1) + M \in Exponents(k) /\ e + 1 \in Exponents(k)
    BY <1>2, <2>3 DEF Exponents
  <2>5. Power((e + 1) + M) = 2 * Power(e + M) /\ Power(e + M) \in Nat \ {0}
    BY <1>4, <2>3, <2>4, Powers
  <2>6. Abs(r) < Power((e + 1) + M)
    BY <2>1, <2>5
  <2>7. Power(e + M) = Power(e + 1) * Power(M - 1)
    BY <1>4, <2>3, PowerOfSum
  <2>8. Power(e + 1) \in Nat \ {0} /\ Power(M - 1) \in Nat
    <3>1. M - 1 \in Exponents(k)
      BY <1>2 DEF Exponents
    <3>2. QED
      BY <2>4, <3>1, Powers
  <2>9. r % Power(e + 1) = 0
    <3> DEFINE a == Power(e + 1)
               b == Power(M - 1)
    <3>1. a \in Nat \ {0} /\ b \in Nat /\ Abs(r) = a * b
      BY <2>1, <2>7, <2>8
    <3> HIDE DEF a, b
    <3>2. r = a * b \/ r = a * (-b)
      BY <1>10, <3>1 DEF Abs
    <3>3. -b \in Int /\ b \in Int
      BY <3>1
    <3>4. r % a = 0
      BY <3>1, <3>2, <3>3, Multiples
    <3>5. QED
      BY <3>4 DEF a
  <2>10. IsFloatOf(r, k)
    BY <1>2, <1>10, <1>12, <2>3, <2>6, <2>9, IsFloat
  <2>11. QED
    BY <1>3, <1>10, <1>12, <2>10
<1>13. CASE ~(Abs(r) <= MaxFloat[k])
  BY <1>3, <1>13
<1>14. QED
  <2>1. Abs(r) \in Int /\ u * w \in Int
    BY <1>5, <1>10 DEF Abs
  <2>2. QED
    BY <1>10, <1>11, <1>12, <1>13, <2>1

\* The unit in which h is rounded and the multiples of it around h.
IsRounding(h, k, e, d) ==
  /\ IsExponent(e, h, k) /\ Power(e) \in Nat \ {0} /\ d \in Int
  /\ Power(e) * d <= h /\ h < Power(e) * (d + 1)
  /\ \E r : /\ r = Power(e) * d \/ (r = Power(e) * (d + 1) /\ h # Power(e) * d)
            /\ Rounded(h, k) =
                 IF Abs(r) <= MaxFloat[k] THEN r ELSE IF r > 0 THEN Inf ELSE -Inf

LEMMA RoundingIs ==
  ASSUME NEW k \in FloatKinds, NEW h \in Int, Abs(h) <= NaN
  PROVE  \E e, d : IsRounding(h, k, e, d)
<1>1. PICK e : IsExponent(e, h, k) /\ Spacing(h, k) = Power(e)
  BY SpacingIs
<1> DEFINE u == Power(e)
           d == h \div u
           rest == 2 * (h % u)
           c == IF rest > u \/ (rest = u /\ d % 2 = 1) THEN d + 1 ELSE d
           r == u * c
<1>2. e \in Exponents(k)
  BY <1>1, ExponentsOf DEF IsExponent
<1>3. u \in Nat \ {0}
  BY <1>2, Powers
<1>4. Rounded(h, k) = IF Abs(r) <= MaxFloat[k] THEN r ELSE IF r > 0 THEN Inf ELSE -Inf
  BY <1>1 DEF Rounded
<1> HIDE DEF u
<1>5. d \in Int /\ u * d <= h /\ h < u * (d + 1) /\ h = (u * d) + (h % u)
  BY <1>3
<1>6. r = u * d \/ (r = u * (d + 1) /\ h # u * d)
  <2>1. CASE h % u = 0
    <3>1. ~(rest > u) /\ rest # u
      BY <1>3, <2>1
    <3>2. QED
      BY <3>1
  <2>2. CASE h % u # 0
    <3>1. h # u * d
      <4>1. h % u \in Int /\ u * d \in Int
        BY <1>3, <1>5
      <4>2. h = (u * d) + (h % u)
        BY <1>5
      <4>3. \A x, y \in Int : h = x + y /\ y # 0 => h # x
        OBVIOUS
      <4> HIDE DEF d
      <4>4. QED
        BY <2>2, <4>1, <4>2, <4>3
    <3>2. c = d \/ c = d + 1
      OBVIOUS
    <3> HIDE DEF c, d
    <3>3. QED
      BY <3>1, <3>2
  <2>3. QED
    BY <2>1, <2>2
<1> HIDE DEF d, r
<1>7. QED
  BY <1>1, <1>3, <1>4, <1>5, <1>6 DEF IsRounding, u

\* A product by a positive number orders as its other factor.
LEMMA ProductOrder ==
  ASSUME NEW a \in Nat \ {0}, NEW x \in Int, NEW y \in Int
  PROVE  x < y <=> a * x < a * y
<1>1. a * y - a * x = a * (y - x)
  OBVIOUS
<1>2. CASE x < y
  <2>1. y - x \in Nat \ {0}
    BY <1>2
  <2>2. a * (y - x) > 0
    BY <2>1
  <2>3. QED
    BY <1>1, <1>2, <2>2
<1>3. CASE ~(x < y)
  <2>1. x - y \in Nat
    BY <1>3
  <2>2. a * (x - y) >= 0
    BY <2>1
  <2>3. a * x - a * y = a * (x - y)
    OBVIOUS
  <2>4. QED
    BY <1>3, <2>2, <2>3
<1>4. QED
  BY <1>2, <1>3

\* Between a number and a float there is a multiple of the number's unit: the
\* float itself, unless it is of a lower exponent; then the number is beyond a
\* power of two that the float does not reach.
LEMMA UnitBetween ==
  ASSUME NEW k \in FloatKinds, NEW h \in Int, Abs(h) <= NaN,
         NEW m \in Int, IsFloatOf(m, k), NEW e, IsExponent(e, h, k)
  PROVE  \E q \in Int : /\ h <= m => h <= Power(e) * q /\ Power(e) * q <= m
                        /\ m <= h => m <= Power(e) * q /\ Power(e) * q <= h
<1> DEFINE M == Mantissa[k]
           u == Power(e)
<1>1. /\ M \in Nat /\ 2 <= M /\ e \in 0 .. MaxExponent /\ MaxExponent \in Nat
      /\ MaxFloat[k] \in Nat /\ MaxFloat[k] < Inf /\ Inf \in Nat /\ NaN \in Nat
      /\ Inf < NaN
  BY MantissaFacts DEF IsExponent
<1>2. Abs(m) <= MaxFloat[k] /\ m % Spacing(m, k) = 0 /\ Abs(m) \in Nat /\ Abs(h) \in Nat
  BY DEF IsFloatOf, Abs
<1>3. Abs(m) <= NaN
  BY <1>1, <1>2
<1>4. PICK f : IsExponent(f, m, k) /\ Spacing(m, k) = Power(f)
  BY <1>3, SpacingIs
<1>5. /\ f \in 0 .. MaxExponent /\ f \in Exponents(k) /\ e \in Exponents(k)
      /\ u \in Nat \ {0}
  BY <1>1, <1>4, ExponentsOf, Powers DEF IsExponent
<1>6. CASE e <= f
  <2>1. m % u = 0
    BY <1>2, <1>4, <1>5, <1>6, MultipleOfLower
  <2> DEFINE q == m \div u
  <2> HIDE DEF u
  <2>2. q \in Int /\ m = u * q
    BY <1>5, <2>1
  <2> HIDE DEF q
  <2>3. QED
    BY <2>2 DEF u
<1>7. CASE f < e
  <2> DEFINE a == Power((e - 1) + M)
             b == Power(M - 1)
  <2>1. /\ e - 1 \in Nat /\ (e - 1) + M = e + (M - 1) /\ M - 1 \in Nat /\ e \in Nat
        /\ (e - 1) + M \in Exponents(k) /\ f + M \in Exponents(k) /\ f + M <= (e - 1) + M
        /\ M - 1 \in Exponents(k)
    BY <1>1, <1>5, <1>7 DEF Exponents
  <2>2. a \in Nat \ {0} /\ b \in Nat \ {0} /\ Power(f + M) \in Nat
    BY <2>1, Powers
  <2>3. a = u * b
    <3>1. Power(e + (M - 1)) = Power(e) * Power(M - 1)
      BY <2>1, PowerOfSum
    <3>2. QED
      BY <2>1, <3>1
  <2>4. Power(f + M) <= a
    BY <2>1, PowersGrow
  <2>5. Abs(h) >= a
    BY <1>5, <1>7, <2>1 DEF IsExponent
  <2>6. Abs(m) < a
    BY <1>2, <1>4, <2>2, <2>4 DEF IsExponent
  <2> HIDE DEF a, b, u
  <2>7. u * (-b) = -a /\ -b \in Int /\ b \in Int
    BY <1>5, <2>2, <2>3
  <2>8. CASE h >= 0
    <3>1. m <= u * b /\ u * b <= h /\ ~(h <= m)
      BY <2>2, <2>3, <2>5, <2>6, <2>8 DEF Abs
    <3>2. QED
      BY <2>7, <3>1 DEF u
  <2>9. CASE h < 0
    <3>1. h <= u * (-b) /\ u * (-b) <= m /\ ~(m <= h)
      BY <2>2, <2>5, <2>6, <2>7, <2>9 DEF Abs
    <3>2. QED
      BY <2>7, <3>1 DEF u
  <2>10. QED
    BY <2>8, <2>9
<1>8. QED
  BY <1>1, <1>5, <1>6, <1>7

\* Rounding does not pass a float.
LEMMA RoundedBetween ==
  ASSUME NEW k \in FloatKinds, NEW h \in Int, Abs(h) <= NaN,
         NEW m \in Int, IsFloatOf(m, k)
  PROVE  /\ h <= m => Rounded(h, k) <= m
         /\ m <= h => m <= Rounded(h, k)
<1>1. PICK e, d : IsRounding(h, k, e, d)
  BY RoundingIs
<1>2. PICK q \in Int : /\ h <= m => h <= Power(e) * q /\ Power(e) * q <= m
                       /\ m <= h => m <= Power(e) * q /\ Power(e) * q <= h
  BY <1>1, UnitBetween DEF IsRounding
<1> DEFINE u == Power(e)
<1>3. /\ u \in Nat \ {0} /\ d \in Int /\ u * d <= h /\ h < u * (d + 1)
  BY <1>1 DEF IsRounding
<1>4. PICK r : /\ r = u * d \/ (r = u * (d + 1) /\ h # u * d)
               /\ Rounded(h, k) =
                    IF Abs(r) <= MaxFloat[k] THEN r ELSE IF r > 0 THEN Inf ELSE -Inf
  BY <1>1 DEF IsRounding
<1> HIDE DEF u
<1>5. /\ MaxFloat[k] \in Nat /\ MaxFloat[k] < Inf /\ Inf \in Nat
      /\ -MaxFloat[k] <= m /\ m <= MaxFloat[k]
  BY MantissaFacts DEF IsFloatOf, Abs
<1>6. r \in Int /\ u * d \in Int /\ u * (d + 1) \in Int /\ u * q \in Int
  BY <1>3, <1>4
<1>7. ASSUME h <= m PROVE r <= m
  <2>1. h <= u * q /\ u * q <= m
    BY <1>2, <1>7 DEF u
  <2>2. CASE r = u * d
    BY <1>3, <1>6, <1>7, <2>2
  <2>3. CASE r = u * (d + 1) /\ h # u * d
    <3>1. u * d < u * q
      BY <1>3, <1>6, <2>1, <2>3
    <3>2. d < q
      BY <1>3, <3>1, ProductOrder
    <3>3. ~(u * q < u * (d + 1))
      <4>1. ~(q < d + 1) /\ d + 1 \in Int
        BY <1>3, <3>2
      <4>2. QED
        BY <1>3, <4>1, ProductOrder
    <3>4. QED
      BY <1>6, <2>1, <2>3, <3>3
  <2>4. QED
    BY <1>4, <2>2, <2>3
<1>8. ASSUME m <= h PROVE m <= r
  <2>1. m <= u * q /\ u * q <= h
    BY <1>2, <1>8 DEF u
  <2>2. u * q < u * (d + 1)
    BY <1>3, <1>6, <2>1
  <2>3. q < d + 1
    <3>1. d + 1 \in Int
      BY <1>3
    <3>2. QED
      BY <1>3, <2>2, <3>1, ProductOrder
  <2>4. ~(u * d < u * q)
    <3>1. ~(d < q)
      BY <1>3, <2>3
    <3>2. QED
      BY <1>3, <3>1, ProductOrder
  <2>5. u * d <= u * (d + 1)
    BY <1>3, <1>6
  <2>6. QED
    BY <1>4, <1>6, <2>1, <2>4, <2>5
<1>9. h <= m \/ m <= h
  OBVIOUS
<1>10. Rounded(h, k) \in {r, Inf, -Inf} /\ (Rounded(h, k) # r => ~(Abs(r) <= MaxFloat[k]))
       /\ (Rounded(h, k) = Inf => (r > 0 \/ r = Inf)) /\ (Rounded(h, k) = -Inf => ~(r > 0))
  BY <1>4, <1>5, <1>6 DEF Abs
<1>11. QED
  BY <1>5, <1>6, <1>7, <1>8, <1>9, <1>10 DEF Abs

LEMMA EvenTrunc ==
  ASSUME NEW n \in Int
  PROVE  Trunc(2 * n) = n
<1>1. CASE n < 0
  <2>1. Trunc(2 * n) = -((2 * (-n)) \div 2)
    BY <1>1 DEF Trunc, Abs
  <2>2. QED
    BY <2>1
<1>2. CASE n >= 0
  BY <1>2 DEF Trunc
<1>3. QED
  BY <1>1, <1>2

-----------------------------------------------------------------------------
(***************************************************************************)
(* Conversion does not change a value.                                     *)
(***************************************************************************)

LEMMA SameByType ==
  ASSUME NEW v, NEW w
  PROVE  /\ \A t \in IntTypes : Same(v, w, t) <=> w.val = Trunc(Halves(v))
         /\ \A t \in {"Float", "Double"} :
              Same(v, w, t) <=> Nearby(Halves(v), w.val, w.kind)
         /\ Same(v, w, "DateTime") <=> (v.kind # "string" => w.val = Halves(v))
         /\ \A t \in {"Boolean", "String", "Guid", "ByteString"} :
              Same(v, w, t) <=> w.val = v.val
BY DEF Same, IntTypes, Narrow

LEMMA HalvesOf ==
  ASSUME NEW v, Number(v)
  PROVE  /\ v.kind \in IntKinds => Halves(v) = 2 * v.val /\ Trunc(Halves(v)) = v.val
         /\ v.kind \in FloatKinds => Halves(v) = v.val
         /\ Halves(v) \in Int
BY EvenTrunc, KindsApart DEF Halves, Number

LEMMA SameInt ==
  ASSUME NEW v, NEW t \in IntTypes, validateScalarValue(v, t), Number(v),
         convertScalarValue(v, t) # Fail
  PROVE  Same(v, convertScalarValue(v, t), t) \/ Unchecked(v, t)
<1> DEFINE k == builtinScalarGoType[t]
           c == convertScalarValue(v, t)
<1>1. /\ k \in IntKinds /\ c = convertToInt(v, k) /\ t \in Builtin
      /\ v.kind \in IntKinds \cup {"float64"}
  BY IntKindsOfTypes, ConvertByType, ValidatedKinds
<1>2. Same(v, c, t) <=> c.val = Trunc(Halves(v))
  BY SameByType
<1>3. /\ t \in Narrow \/ t = "Int64" \/ t = "UInt64"
      /\ t = "Int64" => k = "int64"
      /\ t = "UInt64" <=> k = "uint64"
  BY <1>1, IntKindsOfTypes, GoKinds, BuiltinTypes
<1>4. t \in Narrow => Lo("int64") < Lo(k) /\ Hi(k) < Hi("int64")
  BY NumbersAssumption
<1>5. c # Fail
  OBVIOUS
<1> HIDE DEF k, c
<1>6. CASE v.kind \in IntKinds
  <2>1. Trunc(Halves(v)) = v.val
    BY <1>6, HalvesOf
  <2>2. CASE v.kind = k
    BY <1>1, <1>2, <2>1, <2>2, ConvertToInt DEF c
  <2>3. CASE v.kind # k
    <3>1. c = InRange(v.val, k)
      BY <1>1, <1>6, <2>3, ConvertToInt
    <3>2. c = Value(k, v.val)
      BY <1>1, <1>5, <3>1, InRangeOrFail
    <3>3. QED
      BY <1>2, <2>1, <3>2, PlainValues DEF c
  <2>4. QED
    BY <2>2, <2>3
<1>7. CASE v.kind = "float64"
  <2>1. v.kind \in FloatKinds /\ v.val \in Int /\ Halves(v) = v.val
    BY <1>7, HalvesOf DEF Number, FloatKinds
  <2>2. Trunc(v.val) \in Int
    BY <2>1, FloatToInt64Fits
  <2>3. CASE k = "uint64"
    <3>1. c = Value(k, FloatToUInt64(v.val))
      BY <1>1, <1>5, <2>1, <2>3, ConvertToInt
    <3>2. CASE Fits(Trunc(v.val), "uint64")
      <4>1. c.val = Trunc(v.val)
        BY <3>1, <3>2, PlainValues DEF FloatToUInt64
      <4>2. QED
        BY <1>2, <2>1, <4>1 DEF c
    <3>3. CASE ~Fits(Trunc(v.val), "uint64")
      BY <1>3, <1>7, <2>3, <3>3 DEF Unchecked
    <3>4. QED
      BY <3>2, <3>3
  <2>4. CASE k # "uint64"
    <3> DEFINE n == FloatToInt64(v.val)
    <3>1. c = InRange(n, k)
      BY <1>1, <2>1, <2>4, ConvertToInt
    <3>2. Fits(n, k) /\ c.val = n
      BY <1>1, <1>5, <3>1, InRangeOrFail, PlainValues
    <3>3. CASE Fits(Trunc(v.val), "int64")
      <4>1. n = Trunc(v.val)
        BY <3>3 DEF FloatToInt64
      <4>2. QED
        BY <1>2, <2>1, <3>2, <4>1 DEF c
    <3>4. CASE ~Fits(Trunc(v.val), "int64")
      <4>1. n \in {Lo("int64"), Hi("int64")}
        BY <3>4 DEF FloatToInt64
      <4>2. t \notin Narrow
        <5>1. /\ Lo("int64") \in Int /\ Hi("int64") \in Int
              /\ Lo(k) \in Int /\ Hi(k) \in Int
          BY <1>1, NumbersAssumption DEF IntKinds, SignedKinds
        <5> HIDE DEF n
        <5>2. QED
          BY <1>4, <3>2, <4>1, <5>1 DEF Fits
      <4>3. t = "Int64"
        BY <1>3, <2>4, <4>2
      <4>4. QED
        BY <1>7, <3>4, <4>3 DEF Unchecked
    <3>5. QED
      BY <3>3, <3>4
  <2>5. QED
    BY <2>3, <2>4
<1>8. QED
  BY <1>1, <1>6, <1>7

\* The greatest floats are finite floats.
LEMMA GreatestFloats ==
  ASSUME NEW k \in FloatKinds
  PROVE  MaxFloat[k] \in Floats[k] /\ -MaxFloat[k] \in Floats[k]
<1> DEFINE x == MaxFloat[k]
<1>1. x \in Nat /\ -x \in -x .. x /\ x \in -x .. x /\ x <= NaN
  BY MantissaFacts
<1>2. IsFloatOf(x, k)
  BY NumbersAssumption
<1>3. IsFloatOf(-x, k)
  <2> DEFINE u == Spacing(x, k)
  <2>1. Abs(x) = x /\ Abs(-x) = x
    BY <1>1 DEF Abs
  <2>2. Spacing(-x, k) = u
    BY <2>1 DEF Spacing
  <2>3. PICK e : IsExponent(e, x, k) /\ u = Power(e)
    BY <1>1, <2>1, SpacingIs
  <2>4. u \in Nat \ {0}
    BY <2>3, ExponentsOf, Powers DEF IsExponent
  <2>5. x % u = 0
    BY <1>2 DEF IsFloatOf
  <2> HIDE DEF u, x
  <2>6. x = u * (x \div u) /\ x \div u \in Int
    BY <1>1, <2>4, <2>5
  <2> DEFINE q == x \div u
  <2> HIDE DEF q
  <2>7. -x = u * (-q) /\ -q \in Int
    BY <1>1, <2>4, <2>6 DEF q
  <2>8. (-x) % u = 0
    BY <2>4, <2>7, Multiples
  <2>9. QED
    BY <1>1, <2>1, <2>2, <2>8 DEF IsFloatOf, u, x
<1>4. QED
  BY <1>1, <1>2, <1>3 DEF Floats

LEMMA FloatsAre ==
  ASSUME NEW k \in FloatKinds, NEW m \in Floats[k]
  PROVE  m \in Int /\ IsFloatOf(m, k) /\ -MaxFloat[k] <= m /\ m <= MaxFloat[k]
<1>1. MaxFloat[k] \in Nat
  BY MantissaFacts
<1>2. QED
  BY <1>1 DEF Floats

\* What lies nearby a number within the range of its kind is finite.
LEMMA NearbyIs ==
  ASSUME NEW k \in FloatKinds, NEW h \in Int, Abs(h) <= MaxFloat[k], NEW w \in Int,
         \A m \in Floats[k] : (h <= m => w <= m) /\ (m <= h => m <= w)
  PROVE  Nearby(h, w, k)
<1>1. /\ MaxFloat[k] \in Nat /\ MaxFloat[k] < Inf /\ Inf < NaN /\ Inf \in Nat
      /\ NaN \in Nat
  BY MantissaFacts
<1>2. -MaxFloat[k] <= h /\ h <= MaxFloat[k]
  BY <1>1 DEF Abs
<1>3. -MaxFloat[k] <= w /\ w <= MaxFloat[k]
  BY <1>2, GreatestFloats
<1>4. QED
  BY <1>1, <1>3 DEF Nearby

LEMMA SameFloat ==
  ASSUME NEW v, NEW t \in {"Float", "Double"}, Number(v)
  PROVE  Same(v, convertScalarValue(v, t), t) \/ Unchecked(v, t)
<1> DEFINE c == convertScalarValue(v, t)
           h == Halves(v)
           k == builtinScalarGoType[t]
<1>1. k \in FloatKinds /\ c = convertToFloat(v, k)
  BY ConvertByType, GoKinds DEF FloatKinds
<1>2. Same(v, c, t) <=> Nearby(h, c.val, c.kind)
  BY SameByType
<1>3. /\ h \in Int /\ (v.kind \in FloatKinds => h = v.val)
      /\ (v.kind \in IntKinds => h = 2 * v.val)
      /\ v.kind \in IntKinds \cup FloatKinds
  BY HalvesOf DEF Number
<1>4. Unchecked(v, t) \/ Abs(h) <= MaxFloat[k]
  <2>1. Abs(h) \in Int /\ MaxFloat[k] \in Int
    BY <1>1, <1>3, MantissaFacts DEF Abs
  <2>2. QED
    BY <2>1 DEF Unchecked
<1> HIDE DEF c, h, k
<1>5. SUFFICES ASSUME Abs(h) <= MaxFloat[k]
               PROVE  Nearby(h, c.val, c.kind)
  BY <1>2, <1>4 DEF c
<1>6. CASE v.kind = k
  <2>1. c.val = h /\ c.kind = k
    BY <1>1, <1>3, <1>6, ConvertToFloat
  <2>2. QED
    BY <1>1, <1>3, <1>5, <2>1, NearbyIs
<1>7. CASE v.kind # k
  <2> DEFINE f == toFloat64(v)
             r == Rounded(f, k)
  <2>1. c.kind = k /\ c.val = r
    BY <1>1, <1>3, <1>7, ConvertToFloat, PlainValues
  <2>2. /\ MaxFloat[k] \in Nat /\ MaxFloat[k] < Inf /\ Inf < NaN /\ Inf \in Nat
        /\ NaN \in Nat
    BY <1>1, MantissaFacts
  <2>3. Abs(h) <= NaN /\ "float64" \in FloatKinds
    BY <1>3, <1>5, <2>2 DEF Abs, FloatKinds
  <2>4. \A m \in Floats[k] : m \in Int /\ IsFloatOf(m, k) /\ IsFloatOf(m, "float64")
    <3>1. k = "float32" \/ k = "float64"
      BY <1>1 DEF FloatKinds
    <3>2. QED
      BY <1>1, <3>1, FloatsAre, FloatIsDouble
  <2>5. /\ f \in Int
        /\ \A m \in Floats[k] : (h <= m => f <= m) /\ (m <= h => m <= f)
    <3>1. CASE v.kind \in FloatKinds
      BY <1>3, <3>1, <2>4 DEF toFloat64
    <3>2. CASE v.kind \in IntKinds
      <4>1. f = Rounded(h, "float64")
        BY <1>3, <3>2, KindsApart DEF toFloat64
      <4>2. f \in Int
        <5>1. f \in {Inf, -Inf} \/ f \in Int
          BY <1>3, <2>3, <4>1, RoundedIsFloat
        <5> HIDE DEF f
        <5>2. QED
          BY <2>2, <5>1
      <4> HIDE DEF f
      <4>3. QED
        BY <1>3, <2>3, <2>4, <4>1, <4>2, RoundedBetween
    <3>3. QED
      BY <1>3, <3>1, <3>2
  <2> HIDE DEF f
  <2>6. Abs(f) <= NaN
    <3>1. -MaxFloat[k] <= h /\ h <= MaxFloat[k]
      BY <1>3, <1>5, <2>2 DEF Abs
    <3>2. -MaxFloat[k] <= f /\ f <= MaxFloat[k]
      BY <1>1, <2>5, <3>1, GreatestFloats
    <3>3. QED
      BY <2>2, <2>5, <3>2 DEF Abs
  <2>7. r \in Int
    <3>1. r \in {Inf, -Inf} \/ r \in Int
      BY <1>1, <2>5, <2>6, RoundedIsFloat
    <3> HIDE DEF r
    <3>2. QED
      BY <2>2, <3>1
  <2>8. \A m \in Floats[k] : (h <= m => r <= m) /\ (m <= h => m <= r)
    BY <1>1, <2>4, <2>5, <2>6, RoundedBetween
  <2> HIDE DEF r
  <2>9. QED
    BY <1>1, <1>3, <1>5, <2>1, <2>7, <2>8, NearbyIs
<1>8. QED
  BY <1>6, <1>7

\* A validated scalar is the same after its conversion, but for what nothing
\* checks.
LEMMA SameConverted ==
  ASSUME NEW v, NEW t \in Builtin, validateScalarValue(v, t),
         v.kind \in IntKinds \cup FloatKinds => Number(v),
         convertScalarValue(v, t) # Fail
  PROVE  Same(v, convertScalarValue(v, t), t) \/ Unchecked(v, t)
<1> DEFINE c == convertScalarValue(v, t)
<1>1. CASE t \in IntTypes
  <2>1. v.kind \in IntKinds \cup FloatKinds
    BY <1>1, ValidatedKinds DEF FloatKinds
  <2>2. QED
    BY <1>1, <2>1, SameInt
<1>2. CASE t \in {"Float", "Double"}
  <2>1. v.kind \in IntKinds \cup FloatKinds
    BY <1>2, ValidatedByType DEF isFloatType
  <2>2. QED
    BY <1>2, <2>1, SameFloat
<1>3. CASE t = "DateTime"
  <2>1. v.kind \in {"string", "int", "int64", "float64"}
    BY <1>3, ValidatedByType DEF isDateTimeType
  <2>2. Same(v, c, t) <=> (v.kind # "string" => c.val = Halves(v))
    BY <1>3, SameByType
  <2>3. c = convertToDateTime(v)
    BY <1>3, ConvertByType
  <2> HIDE DEF c
  <2>4. CASE v.kind = "string"
    BY <2>2, <2>4 DEF c
  <2>5. CASE v.kind \in {"int", "int64"}
    <3>1. c.val = 2 * v.val
      BY <2>3, <2>5, ConvertToDateTime, PlainValues
    <3>2. v.kind \in IntKinds
      BY <2>5 DEF IntKinds, SignedKinds
    <3>3. QED
      BY <2>2, <3>1, <3>2, HalvesOf DEF c
  <2>6. CASE v.kind = "float64" /\ Fits(Trunc(v.val), "int64")
    <3>1. c.val = v.val
      BY <2>3, <2>6, ConvertToDateTime, PlainValues
    <3>2. v.kind \in FloatKinds
      BY <2>6 DEF FloatKinds
    <3>3. QED
      BY <2>2, <3>1, <3>2, HalvesOf DEF c
  <2>7. CASE v.kind = "float64" /\ ~Fits(Trunc(v.val), "int64")
    BY <1>3, <2>7 DEF Unchecked
  <2>8. QED
    BY <2>1, <2>4, <2>5, <2>6, <2>7
<1>4. CASE t = "Boolean"
  BY <1>4, ValidatedByType, ConvertByType, ConvertToBoolean, SameByType
<1>5. CASE t \in {"String", "Guid", "ByteString"}
  <2>1. v.kind = "string"
    BY <1>5, ValidatedByType
  <2>2. c = v \/ \E k : c = Value(k, v.val)
    BY <1>5, <2>1, ConvertByType
       DEF convertToString, convertToGUID, convertToByteString
  <2>3. c.val = v.val
    <3> HIDE DEF c
    <3> QED BY <2>2, PlainValues
  <2>4. QED
    BY <1>5, <2>3, SameByType
<1>6. QED
  BY <1>1, <1>2, <1>3, <1>4, <1>5, IntKindsOfTypes

\* A scalar written as it was asked for.
LEMMA SameItself ==
  ASSUME NEW v, NEW t \in Builtin \ {"DateTime"}, v.kind = builtinScalarGoType[t],
         v.kind \in IntKinds \cup FloatKinds => Number(v)
  PROVE  Same(v, v, t) \/ Unchecked(v, t)
<1>1. CASE t \in IntTypes
  BY <1>1, IntKindsOfTypes, HalvesOf, SameByType
<1>2. CASE t \in {"Float", "Double"}
  <2>1. v.kind \in FloatKinds
    BY <1>2, GoKinds DEF FloatKinds
  <2>2. convertScalarValue(v, t) = v
    BY <1>2, <2>1, GoKinds, ConvertByType, ConvertToFloat
  <2>3. QED
    BY <1>2, <2>1, <2>2, SameFloat
<1>3. CASE t \in {"Boolean", "String", "Guid", "ByteString"}
  BY <1>3, SameByType
<1>4. QED
  BY <1>1, <1>2, <1>3, IntKindsOfTypes

-----------------------------------------------------------------------------
(***************************************************************************)
(* What the wire carries.                                                  *)
(***************************************************************************)

LEMMA VariantValue ==
  ASSUME NEW v
  PROVE  NewVariant(v).value = v /\ NewVariant(v).isArray \in BOOLEAN
<1>1. CASE v.kind = "nil"
  BY <1>1 DEF NewVariant, Wire
<1>2. CASE v.kind = "slice"
  BY <1>2 DEF NewVariant, Wire
<1>3. CASE v.kind = "array"
  BY <1>3 DEF NewVariant, Wire
<1>4. CASE v.kind \notin {"nil", "slice", "array"}
  BY <1>4 DEF NewVariant, Wire
<1>5. QED
  BY <1>1, <1>2, <1>3, <1>4

\* Encoding changes times alone, and those that the wire can count not.
LEMMA EncodedScalars ==
  /\ \A x : x.kind # "time" => EncodedScalar(x) = x
  /\ \A x : x.kind = "time" => EncodedScalar(x) = Value("time", WireTime(x.val))
  /\ \A h : -MaxTime <= h /\ h < MaxTime => WireTime(h) = h
BY DEF EncodedScalar, WireTime

LEMMA EncodedValues ==
  ASSUME NEW v
  PROVE  /\ v.kind \notin {"array", "slice"} => Encoded(v) = EncodedScalar(v)
         /\ v.kind \in {"array", "slice"} =>
              /\ Encoded(v).kind = v.kind
              /\ Encoded(v).elems = [i \in DOMAIN v.elems |-> EncodedScalar(v.elems[i])]
BY DEF Encoded

LEMMA EncodedDecoded ==
  ASSUME NEW v, IsDecoded(v)
  PROVE  IsDecoded(Encoded(v))
<1>1. ASSUME NEW x, IsScalar(x, DecodedKinds)
      PROVE  IsScalar(EncodedScalar(x), DecodedKinds)
  <2>1. CASE x.kind = "time"
    <3>1. EncodedScalar(x) = Value("time", WireTime(x.val)) /\ "time" \in DecodedKinds
      BY <2>1, EncodedScalars DEF DecodedKinds
    <3>2. QED
      BY <3>1, PlainValues DEF IsScalar, Plain
  <2>2. CASE x.kind # "time"
    BY <1>1, <2>2, EncodedScalars
  <2>3. QED
    BY <2>1, <2>2
<1>2. CASE IsScalar(v, DecodedKinds)
  <2>1. Encoded(v) = EncodedScalar(v)
    BY <1>2, ElementKinds, EncodedValues DEF IsScalar
  <2>2. QED
    BY <1>1, <1>2, <2>1 DEF IsDecoded
<1>3. CASE IsList(v, DecodedKinds)
  <2> DEFINE w == Encoded(v)
             e == [i \in DOMAIN v.elems |-> EncodedScalar(v.elems[i])]
  <2>1. /\ Len(v.elems) \in Nat /\ DOMAIN v.elems = 1 .. Len(v.elems)
        /\ \A i \in DOMAIN v.elems : IsScalar(v.elems[i], DecodedKinds)
        /\ v.kind \in {"slice", "array"}
    BY <1>3 DEF IsList
  <2>2. w.kind = v.kind /\ w.elems = e
    BY <2>1, EncodedValues
  <2>3. \A i \in DOMAIN v.elems : IsScalar(e[i], DecodedKinds)
    BY <1>1, <2>1
  <2>4. e = [i \in DOMAIN v.elems |-> e[i]]
    OBVIOUS
  <2> HIDE DEF e, w
  <2>5. DOMAIN e = DOMAIN v.elems /\ Len(e) = Len(v.elems)
    BY <2>1, <2>4, SameLength
  <2>6. IsList(w, DecodedKinds)
    BY <2>1, <2>2, <2>3, <2>4, <2>5 DEF IsList
  <2>7. QED
    BY <2>6 DEF IsDecoded, w
<1>4. QED
  BY <1>2, <1>3 DEF IsDecoded

\* A validated scalar is the same after its conversion, on the wire.
LEMMA SameEncoded ==
  ASSUME NEW v, Plain(v), NEW t \in Builtin, validateScalarValue(v, t),
         v.kind \in IntKinds \cup FloatKinds => Number(v),
         convertScalarValue(v, t) # Fail
  PROVE  Same(v, EncodedScalar(convertScalarValue(v, t)), t) \/ Unchecked(v, t)
<1> DEFINE c == convertScalarValue(v, t)
<1>1. Same(v, c, t) \/ Unchecked(v, t)
  BY SameConverted
<1>2. c.kind = builtinScalarGoType[t]
  BY ConvertedKind
<1> HIDE DEF c
<1>3. CASE t # "DateTime"
  <2>1. c.kind # "time"
    BY <1>2, <1>3, BuiltinTypes, GoKinds
  <2>2. QED
    BY <1>1, <2>1, EncodedScalars DEF c
<1>4. CASE t = "DateTime"
  <2>1. \A w : Same(v, w, t) <=> (v.kind # "string" => w.val = Halves(v))
    BY <1>4, SameByType
  <2>2. CASE v.kind = "string"
    BY <2>1, <2>2
  <2>3. CASE v.kind # "string" /\ ~Unchecked(v, t)
    <3>1. c.val = Halves(v) /\ c.kind = "time"
      BY <1>1, <1>2, <1>4, <2>1, <2>3, GoKinds
    <3>2. ~(Halves(v) < -MaxTime \/ MaxTime <= Halves(v))
      BY <1>4, <2>3 DEF Unchecked
    <3>3. Halves(v) \in Int
      <4>1. v.kind \in {"string", "int", "int64", "float64"}
        BY <1>4, ValidatedByType DEF isDateTimeType
      <4>2. v.kind \in IntKinds \cup FloatKinds
        BY <2>3, <4>1 DEF IntKinds, SignedKinds, FloatKinds
      <4>3. QED
        BY <4>2, HalvesOf
    <3>4. MaxTime \in Nat
      BY ValuesAssumption
    <3>5. -MaxTime <= Halves(v) /\ Halves(v) < MaxTime
      BY <3>2, <3>3, <3>4
    <3>6. EncodedScalar(c) = Value("time", Halves(v))
      BY <3>1, <3>5, EncodedScalars
    <3>7. QED
      BY <2>1, <3>6, PlainValues DEF c
  <2>4. QED
    BY <2>2, <2>3 DEF c
<1>5. QED
  BY <1>3, <1>4 DEF c

LEMMA RequestShape ==
  ASSUME NEW v, IsRequest(v)
  PROVE  /\ \/ /\ v.kind \in RequestKinds /\ Plain(v) /\ Scalars(v) = {v}
               /\ v.kind \notin {"slice", "array"}
            \/ /\ v.kind = "slice" /\ IsList(v, RequestKinds)
               /\ \A i \in DOMAIN v.elems : v.elems[i] \in Scalars(v)
               /\ \A i \in DOMAIN v.elems : Plain(v.elems[i])
         /\ \A x \in Scalars(v) :
              x.kind \in IntKinds \cup FloatKinds => Number(x)
<1>1. \A x \in Scalars(v) : x.kind \in IntKinds \cup FloatKinds => Number(x)
  <2>1. NaN \in Nat
    BY ValuesAssumption
  <2>2. \A n \in -NaN .. NaN : n \in Int
    BY <2>1
  <2>3. QED
    BY <2>2 DEF IsRequest, IsValue, IsWhole, Number
<1>2. CASE IsScalar(v, RequestKinds)
  <2>1. v.kind \in RequestKinds /\ Plain(v) /\ v.kind \notin {"slice", "array"}
    BY <1>2, ElementKinds DEF IsScalar, Plain
  <2>2. QED
    BY <1>1, <2>1, ListScalars
<1>3. CASE v.kind = "slice" /\ IsList(v, RequestKinds)
  <2>1. \A i \in DOMAIN v.elems : v.elems[i] \in Scalars(v)
    BY <1>3, ListScalars
  <2>2. \A i \in DOMAIN v.elems : Plain(v.elems[i])
    BY <1>3 DEF IsList, IsScalar, Plain
  <2>3. QED
    BY <1>1, <1>3, <2>1, <2>2
<1>4. QED
  BY <1>2, <1>3 DEF IsRequest

\* A request that has a wire type comes back as it was.
LEMMA RequestDecoded ==
  ASSUME NEW v, IsRequest(v), HasWireType(v)
  PROVE  IsDecoded(v)
<1>1. CASE v.kind \notin {"slice", "array"} /\ Plain(v)
  <2>1. v.kind \in WireKinds
    BY <1>1 DEF HasWireType
  <2>2. QED
    BY <1>1, <2>1, ElementKinds DEF IsDecoded, IsScalar, Plain
<1>2. CASE v.kind = "slice" /\ IsList(v, RequestKinds)
  <2>1. \A i \in DOMAIN v.elems : v.elems[i].kind \in DecodedKinds
    BY <1>2, ElementKinds DEF HasWireType
  <2>2. IsList(v, DecodedKinds)
    BY <1>2, <2>1 DEF IsList, IsScalar
  <2>3. QED
    BY <2>2 DEF IsDecoded
<1>3. QED
  BY <1>1, <1>2, RequestShape

LEMMA ConvertOther ==
  ASSUME NEW v, NEW t, t \notin Builtin
  PROVE  convertScalarValue(v, t) \in {v, Fail}
<1>1. CASE t = "Custom"
  BY <1>1 DEF convertScalarValue, IntTypes, Narrow
<1>2. CASE t # "Custom"
  BY <1>2, BuiltinTypes DEF convertScalarValue, IntTypes, Narrow
<1>3. QED
  BY <1>1, <1>2

\* What type information was read.
LEMMA InfoOfNode ==
  ASSUME WriteInv, info # NoInfo
  PROVE  info.type = node.type /\ info.isArray = (node.rank > 0)
         /\ info.length \in {0, node.length} /\ info.isArray \in BOOLEAN
<1>1. node \in Nodes /\ info \in {InfoOf(node, node.length), InfoOf(node, 0)}
  BY DEF WriteInv
<1>2. node.rank \in Int
  BY <1>1, ValuesAssumption
<1>3. ASSUME NEW l, NEW x, x = InfoOf(node, l)
      PROVE  x.type = node.type /\ x.isArray = (node.rank > 0) /\ x.length = l
  BY <1>3 DEF InfoOf, IsArray
<1>4. (node.rank > 0) \in BOOLEAN
  BY <1>2
<1>5. QED
  BY <1>1, <1>3, <1>4

\* Validation lets only lists through to arrays and only scalars to scalars.
LEMMA ValidatedShape ==
  ASSUME NEW v, NEW n, n.type \in Builtin, IsRequest(v), ValidateValueForNode(v, n)
  PROVE  IF n.isArray
           THEN /\ v.kind = "slice" /\ IsList(v, RequestKinds)
                /\ n.length # 0 => Len(v.elems) = n.length
                /\ \A i \in DOMAIN v.elems :
                     /\ validateScalarValue(v.elems[i], n.type)
                     /\ v.elems[i] \in Scalars(v) /\ Plain(v.elems[i])
           ELSE validateScalarValue(v, n.type) /\ Plain(v) /\ v \in Scalars(v)
<1>1. CASE n.isArray
  <2>1. validateArrayValue(v, n)
    BY <1>1 DEF ValidateValueForNode
  <2>2. QED
    BY <1>1, <2>1, RequestShape DEF validateArrayValue
<1>2. CASE ~n.isArray
  <2>1. validateScalarValue(v, n.type)
    BY <1>2 DEF ValidateValueForNode
  <2>2. v.kind # "slice"
    BY <2>1, ValidatedKinds, KindsApart DEF IntKinds, SignedKinds, UnsignedKinds, FloatKinds
  <2>3. QED
    BY <1>2, <2>1, <2>2, RequestShape
<1>3. QED
  BY <1>1, <1>2

\* Whatever a write leaves on the device, gopcua decodes.
LEMMA SentDecoded ==
  ASSUME WriteInv, IsRequest(request), Sending
  PROVE  IsDecoded(Decoded(wire))
<1>1. IsDecoded(Value("bytes", Base64Text))
  BY PlainValues, ElementKinds, WireKindsAre DEF IsDecoded, IsScalar, Plain
<1>2. ASSUME IsDecoded(wire.value) PROVE IsDecoded(Decoded(wire))
  BY <1>1, <1>2, EncodedDecoded DEF Decoded
<1>3. CASE info = NoInfo
  BY <1>2, <1>3, RequestDecoded, VariantValue DEF Sending
<1>4. CASE info # NoInfo /\ info.type \notin Builtin
  <2> DEFINE c == convertValueToOPCUAType(request, info)
  <2>1. HasWireType(c) /\ wire.value = c
    BY <1>4, VariantValue DEF Sending
  <2>2. c \in {request, Fail}
    BY <1>4, ConvertOther DEF convertValueToOPCUAType, convertArrayValue
  <2>3. ~HasWireType(Fail)
    <3>1. "error" \notin WireKinds
      BY WireKindsAre
    <3>2. QED
      BY <3>1, PlainValues DEF HasWireType
  <2> HIDE DEF c
  <2>4. QED
    BY <1>2, <2>1, <2>2, <2>3, RequestDecoded
<1>5. CASE info # NoInfo /\ info.type \in Builtin
  <2> DEFINE c == convertValueToOPCUAType(request, info)
             t == info.type
  <2>1. ValidateValueForNode(request, info) /\ HasWireType(c) /\ wire = NewVariant(c)
    BY <1>5 DEF Sending
  <2>2. builtinScalarGoType[t] \in DecodedKinds
    BY <1>5, ElementKinds DEF WireKinds
  <2>3. CASE info.isArray
    <3>1. /\ IsList(request, RequestKinds)
          /\ \A i \in DOMAIN request.elems : Plain(request.elems[i])
      BY <1>5, <2>1, <2>3, ValidatedShape
    <3> DEFINE e == wire.value.elems
    <3>2. /\ wire.value.kind = "array"
          /\ e = [i \in DOMAIN request.elems |-> convertScalarValue(request.elems[i], t)]
          /\ \A i \in DOMAIN request.elems : convertScalarValue(request.elems[i], t) # Fail
          /\ DOMAIN e = DOMAIN request.elems /\ Len(e) = Len(request.elems)
      BY <1>5, <2>1, <2>3, <3>1, ConvertedWire
    <3>3. \A i \in DOMAIN e : IsScalar(e[i], DecodedKinds)
      <4> TAKE i \in DOMAIN e
      <4>1. e[i] = convertScalarValue(request.elems[i], t) /\ e[i] # Fail
            /\ Plain(request.elems[i])
        BY <3>1, <3>2
      <4>2. Plain(e[i]) /\ e[i].kind = builtinScalarGoType[t]
        BY <1>5, <4>1, ConvertedKind
      <4>3. QED
        BY <2>2, <4>2 DEF IsScalar, Plain
    <3>4. Len(e) \in Nat /\ DOMAIN e = 1 .. Len(e) /\ e = [i \in DOMAIN e |-> e[i]]
      <4>1. Len(request.elems) \in Nat /\ DOMAIN request.elems = 1 .. Len(request.elems)
        BY <3>1 DEF IsList
      <4>2. e = [i \in DOMAIN e |-> e[i]]
        BY <3>2
      <4>3. QED
        BY <3>2, <4>1, <4>2
    <3>5. IsList(wire.value, DecodedKinds)
      <4> HIDE DEF e
      <4>1. wire.value.elems = e
        BY DEF e
      <4>2. QED
        BY <3>2, <3>3, <3>4, <4>1 DEF IsList
    <3>6. QED
      BY <1>2, <3>5 DEF IsDecoded
  <2>4. CASE ~info.isArray
    <3>1. Plain(request) /\ request.kind # "slice"
      <4>1. validateScalarValue(request, t) /\ Plain(request)
        BY <1>5, <2>1, <2>4, ValidatedShape
      <4>2. QED
        BY <1>5, <4>1, ValidatedKinds, ElementKinds DEF RequestKinds
    <3>2. wire.value = convertScalarValue(request, t)
          /\ wire.value.kind = builtinScalarGoType[t]
      BY <1>5, <2>1, <2>4, <3>1, ConvertedWire
    <3>3. Plain(wire.value)
      BY <1>5, <3>1, <3>2, ConvertedKind
    <3>4. QED
      BY <1>2, <2>2, <3>2, <3>3 DEF IsDecoded, IsScalar, Plain
  <2>5. QED
    BY <2>3, <2>4
<1>6. QED
  BY <1>3, <1>4, <1>5

-----------------------------------------------------------------------------
(***************************************************************************)
(* Validation and conversion depend on the state by the processor alone.   *)
(***************************************************************************)
LEMMA SameProcessor ==
  ASSUME build' = build
  PROVE  /\ \A h : FloatToInt64(h)' = FloatToInt64(h)
         /\ \A h : FloatToUInt64(h)' = FloatToUInt64(h)
         /\ \A v : toInt64(v)' = toInt64(v)
         /\ \A v, k : isInRange(v, k)' <=> isInRange(v, k)
<1>1. ASSUME NEW h
      PROVE  FloatToInt64(h)' = FloatToInt64(h) /\ FloatToUInt64(h)' = FloatToUInt64(h)
  BY DEF FloatToInt64, FloatToUInt64
<1>2. ASSUME NEW v
      PROVE  toInt64(v)' = toInt64(v)
  BY DEF toInt64, FloatToInt64
<1>3. ASSUME NEW v, NEW k
      PROVE  isInRange(v, k)' <=> isInRange(v, k)
  BY DEF isInRange, toInt64, FloatToInt64
<1>4. QED
  BY <1>1, <1>2, <1>3

LEMMA SameValidation ==
  ASSUME build' = build, NEW v, NEW n
  PROVE  ValidateValueForNode(v, n)' <=> ValidateValueForNode(v, n)
<1>1. ASSUME NEW x, NEW t
      PROVE  validateScalarValue(x, t)' <=> validateScalarValue(x, t)
  BY SameProcessor DEF validateScalarValue
<1>2. validateArrayValue(v, n)' <=> validateArrayValue(v, n)
  BY <1>1 DEF validateArrayValue
<1>3. QED
  BY <1>1, <1>2 DEF ValidateValueForNode

LEMMA SameConversion ==
  ASSUME build' = build, NEW v, NEW n
  PROVE  convertValueToOPCUAType(v, n)' = convertValueToOPCUAType(v, n)
<1>1. ASSUME NEW x, NEW t
      PROVE  convertScalarValue(x, t)' = convertScalarValue(x, t)
  <2>1. convertToBoolean(x)' = convertToBoolean(x)
    BY SameProcessor DEF convertToBoolean
  <2>2. ASSUME NEW k PROVE convertToInt(x, k)' = convertToInt(x, k)
    BY SameProcessor DEF convertToInt
  <2>3. convertToDateTime(x)' = convertToDateTime(x)
    BY SameProcessor DEF convertToDateTime
  <2>4. QED
    BY <2>1, <2>2, <2>3 DEF convertScalarValue
<1>2. convertArrayValue(v, n.type)' = convertArrayValue(v, n.type)
  BY <1>1 DEF convertArrayValue
<1>3. QED
  BY <1>1, <1>2 DEF convertValueToOPCUAType

LEMMA SameRequest ==
  ASSUME UNCHANGED <<build, request, info>>
  PROVE  /\ ValidateValueForNode(request, info)' <=> ValidateValueForNode(request, info)
         /\ convertValueToOPCUAType(request, info)' =
              convertValueToOPCUAType(request, info)
         /\ wire' = wire /\ Sending => Sending'
<1>1. ValidateValueForNode(request, info)' <=> ValidateValueForNode(request, info)
  BY SameValidation
<1>2. convertValueToOPCUAType(request, info)' = convertValueToOPCUAType(request, info)
  BY SameConversion
<1>3. ASSUME wire' = wire, Sending PROVE Sending'
  BY <1>1, <1>2, <1>3 DEF Sending, HasWireType, NewVariant
<1>4. QED
  BY <1>1, <1>2, <1>3

-----------------------------------------------------------------------------
(***************************************************************************)
(* The invariant.                                                          *)
(***************************************************************************)

LEMMA IndStep == IndInv /\ [Next]_vars => IndInv'
<1> SUFFICES ASSUME IndInv, [Next]_vars PROVE IndInv'
  OBVIOUS
<1>0. WriteInv /\ StoreInv
  BY DEF IndInv
<1>1. ASSUME UNCHANGED <<device, batch, cache, kept>> PROVE StoreInv'
  BY <1>0, <1>1 DEF StoreInv, StoredReadsAsLive
<1>2. ASSUME UNCHANGED <<build, node, write>> PROVE WriteInv'
  <2>1. UNCHANGED <<node, pc, request, info, wire, outcome>>
    BY <1>2 DEF write
  <2>2. /\ ValidateValueForNode(request, info)' <=> ValidateValueForNode(request, info)
        /\ Sending => Sending'
    BY <1>2, <2>1, SameRequest
  <2>3. Accepts(wire, node) => Accepts(wire, node)'
    BY <2>1 DEF Accepts, IsOf, IsBytes, TakesList, TakesScalar
  <2>4. QED
    BY <1>0, <2>1, <2>2, <2>3 DEF WriteInv
<1>3. ASSUME NEW v \in Requests, Write(v) PROVE IndInv'
  <2>1. IsRequest(v)
    BY InputsAssumption
  <2>2. WriteInv'
    BY <1>0, <1>3, <2>1 DEF Write, WriteInv
  <2>3. QED
    BY <1>1, <1>3, <2>2 DEF Write, IndInv
<1>4. ASSUME ReadTypeInfo \/ TypeInfoFails PROVE IndInv'
  <2>1. WriteInv'
    BY <1>0, <1>4 DEF ReadTypeInfo, TypeInfoFails, WriteInv
  <2>2. QED
    BY <1>1, <1>4, <2>1 DEF ReadTypeInfo, TypeInfoFails, IndInv
<1>5. ASSUME Validate PROVE IndInv'
  <2>1. ValidateValueForNode(request, info) => info # NoInfo
    BY DEF ValidateValueForNode, NoInfo
  <2>2. ValidateValueForNode(request, info)' <=> ValidateValueForNode(request, info)
    BY <1>5, SameRequest DEF Validate
  <2>3. IsRequest(request) /\ request' = request /\ info' = info /\ node' = node
    BY <1>0, <1>5 DEF Validate, WriteInv
  <2>4. WriteInv'
    BY <1>0, <1>5, <2>1, <2>2, <2>3 DEF Validate, End, WriteInv
  <2>5. QED
    BY <1>1, <1>5, <2>4 DEF Validate, IndInv
<1>6. ASSUME Convert \/ Basic PROVE IndInv'
  <2>1. /\ UNCHANGED <<node, request, info, device, cache, batch, kept>>
        /\ pc \in {"convert", "basic"} /\ outcome = "none"
    BY <1>0, <1>6 DEF Convert, Basic, WriteInv
  <2>2. CASE pc' = "send" /\ UNCHANGED outcome
    <3>1. /\ ValidateValueForNode(request, info)' <=> ValidateValueForNode(request, info)
          /\ convertValueToOPCUAType(request, info)' =
               convertValueToOPCUAType(request, info)
      BY <1>6, SameRequest DEF Convert, Basic
    <3>2. ASSUME Convert PROVE Sending'
      <4> DEFINE c == convertValueToOPCUAType(request, info)
      <4>1. /\ ValidateValueForNode(request, info) /\ info # NoInfo
            /\ HasWireType(c) /\ wire' = NewVariant(c)
        BY <1>0, <2>1, <2>2, <3>2 DEF Convert, Prepare, End, WriteInv
      <4>2. QED
        BY <2>1, <3>1, <4>1 DEF Sending, HasWireType, NewVariant
    <3>3. ASSUME Basic PROVE Sending'
      <4>1. /\ info = NoInfo
            /\ HasWireType(request) /\ wire' = NewVariant(request)
        BY <1>0, <2>1, <2>2, <3>3 DEF Basic, Prepare, End, WriteInv
      <4>2. QED
        BY <2>1, <4>1 DEF Sending, HasWireType, NewVariant
    <3>4. Sending'
      BY <1>6, <3>2, <3>3
    <3>5. WriteInv'
      BY <1>0, <2>1, <2>2, <3>4 DEF WriteInv
    <3>6. QED
      BY <1>1, <2>1, <3>5 DEF IndInv
  <2>3. CASE pc' = "done" /\ outcome' = "refused"
    <3>1. WriteInv'
      BY <1>0, <2>1, <2>3 DEF WriteInv
    <3>2. QED
      BY <1>1, <2>1, <3>1 DEF IndInv
  <2>4. QED
    BY <1>6, <2>2, <2>3 DEF Convert, Basic, Prepare, End
<1>7. ASSUME Send PROVE IndInv'
  <2>1. /\ pc = "send" /\ Sending /\ IsRequest(request) /\ pc' = "done"
        /\ UNCHANGED <<node, request, info, wire, cache, batch, kept>>
        /\ outcome' = "ok" => Accepts(wire, node)
    BY <1>0, <1>7 DEF Send, End, WriteInv
  <2>2. WriteInv'
    BY <1>0, <1>7, <2>1, SameRequest DEF Send, WriteInv, Accepts, IsOf, IsBytes, TakesList,
       TakesScalar
  <2>3. device' = device \/ device' = Decoded(wire)
    BY <1>7 DEF Send
  <2>4. IsDecoded(device')
    BY <1>0, <2>1, <2>3, SentDecoded DEF StoreInv
  <2>5. StoreInv'
    BY <1>0, <2>1, <2>4 DEF StoreInv, StoredReadsAsLive
  <2>6. QED
    BY <2>2, <2>5 DEF IndInv
<1>8. ASSUME Return PROVE IndInv'
  <2>1. WriteInv'
    BY <1>0, <1>8 DEF Return, WriteInv
  <2>2. QED
    BY <1>1, <1>8, <2>1 DEF Return, IndInv
<1>9. ASSUME NEW v \in Samples, DeviceSets(v) PROVE IndInv'
  <2>1. IsDecoded(v)
    BY InputsAssumption
  <2>2. StoreInv'
    BY <1>0, <1>9, <2>1 DEF DeviceSets, StoreInv, StoredReadsAsLive
  <2>3. QED
    BY <1>2, <1>9, <2>2 DEF DeviceSets, IndInv
<1>10. ASSUME ReadLive PROVE IndInv'
  <2>1. IsNormal(NormalizeReadValue(device))
    BY <1>0, NormalValue DEF StoreInv
  <2>2. StoredReadsAsLive'
    BY <1>0, <1>10, <2>1, PutKeeps DEF ReadLive, StoreInv
  <2>3. StoreInv'
    BY <1>0, <1>10, <2>2 DEF ReadLive, StoreInv
  <2>4. QED
    BY <1>2, <1>10, <2>3 DEF ReadLive, IndInv
<1>11. ASSUME Notify PROVE IndInv'
  <2>1. IsNormal(NormalizeReadValue(device))
    BY <1>0, NormalValue DEF StoreInv
  <2>2. StoreInv'
    BY <1>0, <1>11, <2>1 DEF Notify, StoreInv, StoredReadsAsLive
  <2>3. QED
    BY <1>2, <1>11, <2>2 DEF Notify, IndInv
<1>12. ASSUME Flush PROVE IndInv'
  <2>1. StoredReadsAsLive'
    BY <1>0, <1>12, PutKeeps DEF Flush, StoreInv
  <2>2. StoreInv'
    BY <1>0, <1>12, <2>1 DEF Flush, StoreInv
  <2>3. QED
    BY <1>2, <1>12, <2>2 DEF Flush, IndInv
<1>13. ASSUME UNCHANGED vars PROVE IndInv'
  BY <1>1, <1>2, <1>13 DEF vars, IndInv
<1>14. QED
  BY <1>3, <1>4, <1>5, <1>6, <1>7, <1>8, <1>9, <1>10, <1>11, <1>12, <1>13
     DEF Next

\* A write and a stored value follow what validation, conversion and
\* normalization have made of them.
THEOREM Invariance == Spec => []IndInv
<1>1. Init => IndInv
  <2> SUFFICES ASSUME Init PROVE IndInv
    OBVIOUS
  <2>1. WriteInv
    BY DEF Init, WriteInv
  <2>2. IsDecoded(Nil)
    BY PlainValues, ElementKinds, WireKindsAre DEF IsDecoded, IsScalar, Plain, Nil
  <2>3. StoreInv
    BY <2>2 DEF Init, StoreInv, StoredReadsAsLive
  <2>4. QED
    BY <2>1, <2>3 DEF IndInv
<1>2. QED
  BY <1>1, IndStep, PTL DEF Spec

\* A cached or pushed value is served as a live read would have returned it.
THEOREM StoreFaithful == Spec => []StoredReadsAsLive
<1>1. IndInv => StoredReadsAsLive
  BY DEF IndInv, StoreInv
<1>2. QED
  BY <1>1, Invariance, PTL

\* What validation lets through has a conversion and a wire type.
THEOREM ValidationSuffices == Spec => []ValidatedConverts
<1>1. IndInv => ValidatedConverts
  <2> SUFFICES ASSUME IndInv, pc = "convert", info.type \in Builtin,
                      \A v \in Scalars(request) : v.kind # "string" /\ ~Wraps(v)
               PROVE  HasWireType(convertValueToOPCUAType(request, info))
    BY DEF ValidatedConverts
  <2>1. IsRequest(request) /\ ValidateValueForNode(request, info)
    BY DEF IndInv, WriteInv
  <2>2. \A v \in Scalars(request) : v.kind \in IntKinds \cup FloatKinds => Number(v)
    BY <2>1, RequestShape
  <2>3. CASE info.isArray
    <3>1. /\ request.kind = "slice"
          /\ \A i \in DOMAIN request.elems :
               convertScalarValue(request.elems[i], info.type) # Fail
      BY <2>1, <2>2, <2>3, ValidatedShape, ValidatedScalarConverts
    <3>2. convertValueToOPCUAType(request, info).kind = "array"
      BY <2>3, <3>1 DEF convertValueToOPCUAType, convertArrayValue
    <3>3. QED
      BY <3>2 DEF HasWireType
  <2>4. CASE ~info.isArray
    <3> DEFINE c == convertScalarValue(request, info.type)
    <3>1. c # Fail /\ Plain(request)
      BY <2>1, <2>2, <2>4, ValidatedShape, ValidatedScalarConverts
    <3>2. c.kind = builtinScalarGoType[info.type]
      BY <3>1, ConvertedKind
    <3>3. c.kind \in WireKinds /\ c.kind \notin {"slice", "array"}
      BY <3>2, BuiltinTypes, GoKinds DEF WireKinds
    <3>4. convertValueToOPCUAType(request, info) = c
      BY <2>4 DEF convertValueToOPCUAType
    <3> HIDE DEF c
    <3>5. QED
      BY <3>3, <3>4 DEF HasWireType
  <2>5. QED
    BY <2>3, <2>4
<1>2. QED
  BY <1>1, Invariance, PTL

-----------------------------------------------------------------------------
(***************************************************************************)
(* What goes out, and what arrives.                                        *)
(***************************************************************************)

\* What goes out with type information has its DataType and, where it asks
\* for one, its length; only an array of Byte is a ByteString.
LEMMA SentWithInfo ==
  ASSUME WriteInv, Sending, IsRequest(request), info # NoInfo, node.type \in Builtin
  PROVE  LET sent == Encoded(wire.value) IN
         IF node.rank > 0
           THEN /\ IF node.type = "Byte" THEN wire.type = "ByteString"
                   ELSE wire.type = node.type /\ wire.isArray
                /\ info.length # 0 => Len(wire.value.elems) = info.length
                /\ DOMAIN sent.elems = DOMAIN request.elems
                /\ \A i \in DOMAIN sent.elems :
                     \/ Same(request.elems[i], sent.elems[i], node.type)
                     \/ Unchecked(request.elems[i], node.type)
           ELSE /\ wire.type = node.type /\ ~wire.isArray
                /\ Same(request, sent, node.type) \/ Unchecked(request, node.type)
<1> DEFINE sent == Encoded(wire.value)
<1>1. /\ info.type = node.type /\ info.isArray = (node.rank > 0)
      /\ info.isArray \in BOOLEAN
  BY InfoOfNode
<1>2. /\ ValidateValueForNode(request, info)
      /\ HasWireType(convertValueToOPCUAType(request, info))
      /\ wire = NewVariant(convertValueToOPCUAType(request, info))
  BY DEF Sending
<1>3. \A v \in Scalars(request) : v.kind \in IntKinds \cup FloatKinds => Number(v)
  BY RequestShape
<1>4. /\ request.kind = "slice" => IsList(request, RequestKinds)
      /\ request.kind # "slice" => Plain(request)
  BY RequestShape
<1>5. CASE info.isArray
  <2>1. /\ request.kind = "slice"
        /\ info.length # 0 => Len(request.elems) = info.length
        /\ \A i \in DOMAIN request.elems :
             /\ validateScalarValue(request.elems[i], info.type)
             /\ request.elems[i] \in Scalars(request) /\ Plain(request.elems[i])
    BY <1>1, <1>2, <1>5, ValidatedShape
  <2>2. /\ wire.value.elems =
             [i \in DOMAIN request.elems |-> convertScalarValue(request.elems[i], info.type)]
        /\ \A i \in DOMAIN request.elems :
             convertScalarValue(request.elems[i], info.type) # Fail
        /\ DOMAIN wire.value.elems = DOMAIN request.elems
        /\ Len(wire.value.elems) = Len(request.elems) /\ wire.value.kind = "array"
        /\ IF info.type = "Byte" THEN wire.type = "ByteString" /\ ~wire.isArray
           ELSE wire.type = info.type /\ wire.isArray
    BY <1>1, <1>2, <1>4, <1>5, <2>1, ConvertedWire
  <2>3. sent.elems = [i \in DOMAIN request.elems |->
                        EncodedScalar(convertScalarValue(request.elems[i], info.type))]
    <3>1. sent.elems = [i \in DOMAIN wire.value.elems |->
                          EncodedScalar(wire.value.elems[i])]
      BY <2>2, EncodedValues
    <3> HIDE DEF sent
    <3>2. QED
      BY <2>2, <3>1
  <2> HIDE DEF sent
  <2>4. \A i \in DOMAIN request.elems :
          \/ Same(request.elems[i], sent.elems[i], node.type)
          \/ Unchecked(request.elems[i], node.type)
    <3> TAKE i \in DOMAIN request.elems
    <3>1. \/ Same(request.elems[i],
                 EncodedScalar(convertScalarValue(request.elems[i], info.type)),
                 info.type)
          \/ Unchecked(request.elems[i], info.type)
      BY <1>1, <1>3, <2>1, <2>2, SameEncoded
    <3>2. QED
      BY <1>1, <2>3, <3>1
  <2>5. DOMAIN sent.elems = DOMAIN request.elems
    BY <2>3
  <2>6. QED
    BY <1>1, <1>5, <2>1, <2>2, <2>4, <2>5 DEF sent
<1>6. CASE ~info.isArray
  <2>1. validateScalarValue(request, info.type) /\ Plain(request)
        /\ request \in Scalars(request)
    BY <1>1, <1>2, <1>6, ValidatedShape
  <2>2. /\ wire.value = convertScalarValue(request, info.type)
        /\ wire.value.kind = builtinScalarGoType[info.type]
        /\ wire.type = info.type /\ ~wire.isArray
    BY <1>1, <1>2, <1>4, <1>6, <2>1, ConvertedWire
  <2>3. convertScalarValue(request, info.type) # Fail
    <3>1. Fail.kind = "error" /\ builtinScalarGoType[info.type] # "error"
      BY <1>1, PlainValues, BuiltinTypes, GoKinds
    <3>2. QED
      BY <2>2, <3>1
  <2>4. sent = EncodedScalar(wire.value)
    <3>1. wire.value.kind \notin {"array", "slice"}
      BY <1>1, <2>2, BuiltinTypes, GoKinds
    <3>2. QED
      BY <3>1, EncodedValues
  <2>5. Same(request, sent, node.type) \/ Unchecked(request, node.type)
    BY <1>1, <1>3, <2>1, <2>2, <2>3, <2>4, SameEncoded
  <2>6. QED
    BY <1>1, <1>6, <2>2, <2>5
<1>7. QED
  BY <1>1, <1>5, <1>6

\* Without it, what a server accepts for a typed node already was a scalar of
\* the node's DataType: gopcua gives nothing else in a request that type.
LEMMA SentWithoutInfo ==
  ASSUME WriteInv, Sending, IsRequest(request), info = NoInfo,
         node.type \in Builtin, Accepts(wire, node)
  PROVE  /\ ~(node.rank > 0) /\ Encoded(wire.value) = request
         /\ node.type # "DateTime" /\ request.kind = builtinScalarGoType[node.type]
<1>1. HasWireType(request) /\ wire = NewVariant(request) /\ wire.value = request
  BY VariantValue DEF Sending
<1>2. node.rank \in Int
  BY ValuesAssumption DEF WriteInv
<1>3. IsOf(wire, node) \/ IsBytes(wire, node)
  BY DEF Accepts
<1>4. request.kind \in RequestKinds \cup {"slice"} /\ request.kind # "array"
  BY RequestShape
<1>5. request.kind # "nil" /\ request.kind # "slice"
  <2>1. "Null" \notin Builtin /\ "Variant" \notin Builtin
    BY BuiltinTypes
  <2>2. request.kind = "nil" => wire.type = "Null"
    BY <1>1 DEF NewVariant, Wire
  <2>3. request.kind = "slice" => wire.type = "Variant"
    BY <1>1 DEF NewVariant, Wire
  <2>4. QED
    BY <1>3, <2>1, <2>2, <2>3 DEF IsOf, IsBytes
<1>6. PICK t \in Builtin : request.kind = builtinScalarGoType[t]
  <2>1. request.kind \in WireKinds
    BY <1>1, <1>4, <1>5 DEF HasWireType
  <2>2. QED
    BY <1>5, <2>1 DEF WireKinds
<1>7. t # "DateTime" /\ t # "Guid" /\ t # "ByteString"
  BY <1>4, <1>5, <1>6, GoKinds DEF RequestKinds, IntKinds, SignedKinds, UnsignedKinds,
     FloatKinds
<1>8. wire.type = t /\ ~wire.isArray
  BY <1>1, <1>4, <1>5, <1>6, TypeOfKind DEF NewVariant, Wire
<1>9. Encoded(wire.value) = request
  <2>1. request.kind # "time" /\ request.kind \notin {"array", "slice"}
    BY <1>6, <1>7, BuiltinTypes, GoKinds
  <2>2. QED
    BY <1>1, <2>1, EncodedScalars, EncodedValues
<1>10. QED
  BY <1>2, <1>3, <1>6, <1>7, <1>8, <1>9 DEF IsOf, IsBytes, TakesScalar

\* What validation and conversion let through goes out as the node's type, but
\* for nodes of rank 0 or of several dimensions.
THEOREM DeclaredTypes == Spec => []SentAsDeclared
<1>1. IndInv => SentAsDeclared
  <2> SUFFICES ASSUME IndInv, pc = "send", info = InfoOf(node, node.length),
                      node.type \in Builtin, node.rank \in {-3, -2, -1, 1}
               PROVE  IsOf(wire, node) \/ IsBytes(wire, node)
    BY DEF SentAsDeclared
  <2>1. WriteInv /\ Sending /\ IsRequest(request) /\ node \in Nodes
    BY DEF IndInv, WriteInv
  <2>2. info # NoInfo /\ info.length = node.length
    <3>1. NoInfo.type = "none" /\ info.type = node.type /\ info.length = node.length
      BY DEF NoInfo, InfoOf
    <3>2. QED
      BY <3>1, BuiltinTypes
  <2>3. wire.isArray \in BOOLEAN
    BY <2>1, <2>2, VariantValue DEF Sending
  <2>4. CASE node.rank = 1
    <3>1. TakesList(node) /\ node.rank > 0
      BY <2>4 DEF TakesList
    <3>2. QED
      BY <2>1, <2>2, <2>3, <3>1, SentWithInfo DEF IsOf, IsBytes
  <2>5. CASE node.rank # 1
    <3>1. TakesScalar(node) /\ ~(node.rank > 0)
      BY <2>5 DEF TakesScalar
    <3>2. QED
      BY <2>1, <2>2, <2>3, <3>1, SentWithInfo DEF IsOf
  <2>6. QED
    BY <2>4, <2>5
<1>2. QED
  BY <1>1, Invariance, PTL

\* An acknowledged write has put what was asked for on the device: what does
\* not fit is refused, and nothing arrives as another value but what nothing
\* checks.
THEOREM WritesArrive == Spec => []AcknowledgedArrives
<1>1. IndInv => AcknowledgedArrives
  <2> SUFFICES ASSUME IndInv, outcome = "ok", node.type \in Builtin
               PROVE  AcknowledgedArrives
    BY DEF AcknowledgedArrives
  <2>1. /\ WriteInv /\ Sending /\ Accepts(wire, node) /\ IsRequest(request)
    BY DEF IndInv, WriteInv
  <2>2. CASE info = NoInfo
    <3>1. /\ ~(node.rank > 0) /\ Encoded(wire.value) = request
          /\ node.type # "DateTime" /\ request.kind = builtinScalarGoType[node.type]
      BY <2>1, <2>2, SentWithoutInfo
    <3>2. request.kind # "slice"
      BY <3>1, BuiltinTypes, GoKinds
    <3>3. request.kind \in IntKinds \cup FloatKinds => Number(request)
      BY <2>1, <3>2, RequestShape
    <3>4. Same(request, request, node.type) \/ Unchecked(request, node.type)
      BY <3>1, <3>3, SameItself
    <3>5. QED
      BY <3>1, <3>4 DEF AcknowledgedArrives
  <2>3. CASE info # NoInfo
    BY <2>1, <2>3, SentWithInfo DEF AcknowledgedArrives
  <2>4. QED
    BY <2>2, <2>3
<1>2. QED
  BY <1>1, Invariance, PTL

-----------------------------------------------------------------------------
(***************************************************************************)
(* Ranges and precisions.                                                  *)
(***************************************************************************)

\* A number its kind has.
Represented(x) ==
  /\ x.kind \in IntKinds => Fits(x.val, x.kind)
  /\ IsFinite(x) => IsFloatOf(x.val, x.kind)
  /\ x.kind \in IntKinds \cup FloatKinds => x.val \in -NaN .. NaN

LEMMA RepresentedScalars ==
  ASSUME NEW v
  PROVE  IsValue(v) /\ IsWhole(v) <=> \A x \in Scalars(v) : Represented(x)
BY DEF IsValue, IsWhole, Represented

\* Only numbers are asked anything.
LEMMA NoNumber ==
  ASSUME NEW x, x.kind \notin IntKinds \cup FloatKinds
  PROVE  Represented(x)
BY DEF Represented, IsFinite

LEMMA RepresentedNumber ==
  ASSUME NEW x, Represented(x), x.kind \in IntKinds \cup FloatKinds
  PROVE  Number(x) /\ Abs(x.val) <= NaN
<1>1. NaN \in Nat
  BY ValuesAssumption
<1>2. x.val \in Int /\ -NaN <= x.val /\ x.val <= NaN
  BY <1>1 DEF Represented
<1>3. QED
  BY <1>1, <1>2 DEF Number, Represented, Abs

LEMMA RepresentedInt ==
  ASSUME NEW k \in IntKinds, NEW n \in Int
  PROVE  /\ Fits(n, k) => Represented(Value(k, n))
         /\ Represented(InRange(n, k))
<1>1. Represented(Fail)
  BY PlainValues, KindsApart, NoNumber
<1>2. ASSUME Fits(n, k) PROVE Represented(Value(k, n))
  <2>1. /\ Lo(k) \in Int /\ Hi(k) \in Int /\ Lo(k) <= 0 /\ 0 < Hi(k)
        /\ 2 * Hi(k) < Inf /\ -Inf < 2 * Lo(k)
    BY NumbersAssumption
  <2>2. Inf \in Nat /\ NaN \in Nat /\ Inf < NaN
    BY ValuesAssumption, NumbersAssumption
  <2>3. -NaN <= n /\ n <= NaN /\ NaN \in Int
    BY <1>2, <2>1, <2>2 DEF Fits
  <2>4. ASSUME NEW x, x.kind = k, x.val = n PROVE Represented(x)
    BY <1>2, <2>3, <2>4, KindsApart DEF Represented, IsFinite
  <2>5. QED
    BY <2>4, PlainValues
<1>3. QED
  BY <1>1, <1>2, InRangeOrFail

LEMMA RepresentedFloat ==
  ASSUME NEW k \in FloatKinds, NEW h,
         h \in {Inf, -Inf} \/ (h \in Int /\ IsFloatOf(h, k))
  PROVE  /\ Represented(Value(k, h))
         /\ h \in Int /\ Abs(h) <= NaN
<1>1. Inf \in Nat /\ NaN \in Nat /\ Inf < NaN /\ MaxFloat[k] \in Nat /\ MaxFloat[k] < Inf
  BY MantissaFacts
<1>2. h \in Int /\ Abs(h) <= NaN /\ -NaN <= h /\ h <= NaN /\ NaN \in Int
  BY <1>1 DEF IsFloatOf, Abs
<1>3. ASSUME NEW x, x.kind = k, x.val = h PROVE Represented(x)
  BY <1>2, <1>3, KindsApart DEF Represented, IsFinite
<1>4. QED
  BY <1>2, <1>3, PlainValues

LEMMA ToFloat64 ==
  ASSUME NEW v, Represented(v), v.kind \in IntKinds \cup FloatKinds
  PROVE  toFloat64(v) \in Int /\ Abs(toFloat64(v)) <= NaN
<1>1. Number(v) /\ Abs(v.val) <= NaN
  BY RepresentedNumber
<1>2. CASE v.kind \in FloatKinds
  BY <1>1, <1>2 DEF toFloat64, Number
<1>3. CASE v.kind \in IntKinds
  <2> DEFINE n == v.val
             k == v.kind
             r == Rounded(2 * n, "float64")
  <2>1. /\ Lo(k) \in Int /\ Hi(k) \in Int
        /\ 2 * Hi(k) < Inf /\ -Inf < 2 * Lo(k)
    BY <1>3, NumbersAssumption
  <2>2. n \in Int /\ Lo(k) <= n /\ n <= Hi(k)
    BY <1>1, <1>3 DEF Number, Fits
  <2>3. Inf \in Nat /\ NaN \in Nat /\ Inf < NaN
    BY ValuesAssumption, NumbersAssumption
  <2>4. toFloat64(v) = r
    BY <1>3, KindsApart DEF toFloat64
  <2> HIDE DEF n, k, r
  <2>5. 2 * n \in Int /\ Abs(2 * n) <= NaN
    BY <2>1, <2>2, <2>3 DEF Abs
  <2>6. "float64" \in FloatKinds
    BY DEF FloatKinds
  <2>7. r \in {Inf, -Inf} \/ (r \in Int /\ IsFloatOf(r, "float64"))
    BY <2>5, <2>6, RoundedIsFloat DEF r
  <2>8. QED
    BY <2>4, <2>6, <2>7, RepresentedFloat
<1>4. QED
  BY <1>2, <1>3

\* No conversion leaves the range or the precision of its DataType.
LEMMA ConvertedRepresented ==
  ASSUME NEW v, Plain(v), Represented(v), NEW t \in Builtin
  PROVE  Represented(convertScalarValue(v, t))
<1> DEFINE c == convertScalarValue(v, t)
           k == builtinScalarGoType[t]
<1>0. Represented(Fail)
  BY PlainValues, KindsApart, NoNumber
<1>1. v.kind \in IntKinds \cup FloatKinds => Number(v) /\ Abs(v.val) <= NaN
  BY RepresentedNumber
<1>2. CASE t \in IntTypes
  <2>1. c = convertToInt(v, k) /\ k \in IntKinds
    BY <1>2, ConvertByType, IntKindsOfTypes
  <2> HIDE DEF c, k
  <2>2. CASE v.kind = k
    BY <2>1, <2>2, ConvertToInt DEF c
  <2>3. CASE v.kind \in IntKinds \ {k}
    <3>1. c = InRange(v.val, k) /\ v.val \in Int
      BY <1>1, <2>1, <2>3, ConvertToInt DEF Number
    <3>2. QED
      BY <2>1, <3>1, RepresentedInt DEF c
  <2>4. CASE v.kind \in FloatKinds /\ k # "uint64"
    <3>1. c = InRange(FloatToInt64(v.val), k) /\ v.val \in Int
      BY <1>1, <2>1, <2>4, ConvertToInt DEF Number
    <3>2. FloatToInt64(v.val) \in Int
      BY <3>1, FloatToInt64Fits
    <3>3. QED
      BY <2>1, <3>1, <3>2, RepresentedInt DEF c
  <2>5. CASE v.kind \in FloatKinds /\ k = "uint64"
    <3> DEFINE n == FloatToUInt64(v.val)
    <3>1. c \in {Fail, Value(k, n)} /\ v.val \in Int
      BY <1>1, <2>1, <2>5, ConvertToInt DEF Number
    <3>2. v.val < 0 => c = Fail
      BY <1>1, <2>1, <2>5, ConvertToInt
    <3>3. v.val >= 0 => n \in Int /\ Fits(n, "uint64")
      <4>1. /\ Lo("uint64") = 0 /\ Hi("uint64") \in Int /\ Hi("int64") \in Int
            /\ 0 < Hi("int64") /\ Hi("int64") < Hi("uint64")
        <5>1. "uint64" \in IntKinds /\ "int64" \in IntKinds
          BY DEF IntKinds, SignedKinds, UnsignedKinds
        <5>2. Lo("uint64") = 0
          BY DEF Lo, SignedKinds
        <5>3. QED
          BY <5>1, <5>2, NumbersAssumption
      <4>2. Trunc(v.val) \in Int
        BY <3>1 DEF Trunc, Abs
      <4>3. QED
        BY <4>1, <4>2 DEF FloatToUInt64, Fits
    <3> HIDE DEF n
    <3>4. QED
      BY <1>0, <2>1, <2>5, <3>1, <3>2, <3>3, RepresentedInt DEF c
  <2>6. CASE v.kind \notin IntKinds \cup FloatKinds
    <3>1. c \in {InRange(1, k), Fail}
      BY <2>1, <2>6, ConvertToInt
    <3>2. QED
      BY <1>0, <2>1, <3>1, RepresentedInt DEF c
  <2>7. QED
    BY <2>2, <2>3, <2>4, <2>5, <2>6
<1>3. CASE t \in {"Float", "Double"}
  <2>1. c = convertToFloat(v, k) /\ k \in FloatKinds
    BY <1>3, ConvertByType, GoKinds DEF FloatKinds
  <2> HIDE DEF c, k
  <2>2. CASE v.kind = k
    BY <2>1, <2>2, ConvertToFloat DEF c
  <2>3. CASE v.kind \in (IntKinds \cup FloatKinds) \ {k}
    <3> DEFINE f == toFloat64(v)
               r == Rounded(f, k)
    <3>1. c = Value(k, r)
      BY <2>1, <2>3, ConvertToFloat
    <3>2. f \in Int /\ Abs(f) <= NaN
      BY <2>3, ToFloat64
    <3> HIDE DEF f
    <3>3. r \in {Inf, -Inf} \/ (r \in Int /\ IsFloatOf(r, k))
      BY <2>1, <3>2, RoundedIsFloat
    <3> HIDE DEF r
    <3>4. QED
      BY <2>1, <3>1, <3>3, RepresentedFloat DEF c
  <2>4. CASE v.kind \notin IntKinds \cup FloatKinds
    <3>1. c \in {Value(k, 2), Fail}
      BY <2>1, <2>4, ConvertToFloat
    <3>2. IsFloatOf(2, k)
      <4> DEFINE M == Mantissa[k]
      <4>1. /\ M \in Nat /\ 2 <= M /\ MaxFloat[k] \in Nat /\ 2 <= MaxFloat[k]
            /\ MaxExponent \in Nat
        BY <2>1, MantissaFacts
      <4>2. 0 \in Exponents(k) /\ 1 \in Exponents(k) /\ 2 \in Exponents(k)
            /\ M \in Exponents(k)
        BY <4>1 DEF Exponents
      <4>3. Power(0) = 1 /\ Power(1) = 2 * Power(0) /\ Power(2) = 2 * Power(1)
        <5>1. /\ Power(0 + 1) = 2 * Power(0) /\ Power(1 + 1) = 2 * Power(1)
              /\ Power(0) = 1
          BY <2>1, <4>2, Powers
        <5>2. QED
          BY <5>1
      <4>4. Power(2) <= Power(M) /\ Power(M) \in Nat
        BY <2>1, <4>1, <4>2, PowersGrow, Powers
      <4> HIDE DEF M
      <4>5. Abs(2) = 2 /\ 0 + M = M
        BY <4>1 DEF Abs
      <4>6. Abs(2) < Power(0 + M) /\ 2 % Power(0) = 0
        BY <4>3, <4>4, <4>5
      <4>7. QED
        <5>1. 0 \in 0 .. MaxExponent
          BY <4>1
        <5>2. QED
          BY <2>1, <4>1, <4>5, <4>6, <5>1, IsFloat DEF M
    <3>3. QED
      BY <1>0, <2>1, <3>1, <3>2, RepresentedFloat DEF c
  <2>5. QED
    BY <2>2, <2>3, <2>4
<1>4. CASE t \in {"Boolean", "String", "DateTime", "Guid", "ByteString"}
  <2>1. k \notin IntKinds \cup FloatKinds
    BY <1>4, GoKinds, KindsApart
  <2>2. c = Fail \/ c.kind = k
    BY ConvertedKind
  <2> HIDE DEF c, k
  <2>3. Represented(c)
    BY <1>0, <2>1, <2>2, NoNumber
  <2>4. QED
    BY <2>3 DEF c
<1>5. QED
  BY <1>2, <1>3, <1>4, IntKindsOfTypes

LEMMA NormalizedRepresented ==
  ASSUME NEW x, Represented(x)
  PROVE  Represented(normalizeScalar(x))
<1>1. CASE x.kind \in FloatKinds
  <2>1. normalizeScalar(x) = normalizeFloat(x)
    BY <1>1 DEF normalizeScalar, FloatKinds, Wrapped
  <2>2. CASE x.val \in {Inf, -Inf, NaN}
    <3>1. normalizeFloat(x) = Value("string", x.val)
      BY <2>2 DEF normalizeFloat
    <3>2. QED
      BY <2>1, <3>1, PlainValues, KindsApart, NoNumber
  <2>3. CASE x.val \notin {Inf, -Inf, NaN}
    <3>1. normalizeFloat(x) = Value("float64", x.val)
      BY <2>3 DEF normalizeFloat
    <3>2. x.val \in Int /\ IsFloatOf(x.val, x.kind)
      BY <1>1, <2>3, RepresentedNumber DEF Represented, IsFinite, Number
    <3>3. "float64" \in FloatKinds /\ x.kind \in {"float32", "float64"}
      BY <1>1 DEF FloatKinds
    <3>4. IsFloatOf(x.val, "float64")
      BY <3>2, <3>3, FloatIsDouble
    <3>5. QED
      BY <2>1, <3>1, <3>2, <3>3, <3>4, RepresentedFloat
  <2>4. QED
    BY <2>2, <2>3
<1>2. CASE x.kind \in Wrapped
  <2>1. normalizeScalar(x) = Value("string", x.val)
    BY <1>2 DEF normalizeScalar, Wrapped, FloatKinds
  <2>2. QED
    BY <2>1, PlainValues, KindsApart, NoNumber
<1>3. CASE x.kind \notin FloatKinds \cup Wrapped
  BY <1>3 DEF normalizeScalar
<1>4. QED
  BY <1>1, <1>2, <1>3

\* A value all of whose numbers its kinds have.
AllRepresented(v) == \A x \in Scalars(v) : Represented(x)

LEMMA RepresentedList ==
  ASSUME NEW v, v.kind \in {"slice", "array"},
         \A i \in DOMAIN v.elems : Represented(v.elems[i])
  PROVE  AllRepresented(v)
BY DEF AllRepresented, Scalars

LEMMA RepresentedAlone ==
  ASSUME NEW v, v.kind \notin {"slice", "array"}, Represented(v)
  PROVE  AllRepresented(v)
BY DEF AllRepresented, Scalars

LEMMA RepresentedNothing ==
  AllRepresented(Nil) /\ AllRepresented(None) /\ AllRepresented(NoWire.value)
  /\ AllRepresented(Fail) /\ AllRepresented(Value("bytes", Base64Text))
<1>1. ASSUME NEW k \in {"nil", "none", "error", "bytes"}, NEW x
      PROVE  AllRepresented(Value(k, x))
  <2>1. k \notin IntKinds \cup FloatKinds
    BY DEF IntKinds, SignedKinds, UnsignedKinds, FloatKinds
  <2>2. Represented(Value(k, x)) /\ Value(k, x).kind = k
    BY <2>1, PlainValues, NoNumber
  <2>3. Value(k, x).kind \notin {"slice", "array"}
    BY <2>2
  <2>4. QED
    BY <2>2, <2>3, RepresentedAlone
<1>2. NoWire.value = Nil
  BY DEF NoWire, Wire
<1>3. QED
  BY <1>1, <1>2 DEF Nil, None, Fail

\* The wire keeps the numbers representable.
LEMMA EncodedRepresented ==
  ASSUME NEW v, AllRepresented(v)
  PROVE  AllRepresented(Encoded(v))
<1>1. ASSUME NEW x, Represented(x)
      PROVE  Represented(EncodedScalar(x))
  <2>1. CASE x.kind = "time"
    BY <2>1, EncodedScalars, PlainValues, KindsApart, NoNumber
  <2>2. CASE x.kind # "time"
    BY <1>1, <2>2, EncodedScalars
  <2>3. QED
    BY <2>1, <2>2
<1>2. CASE v.kind \in {"slice", "array"}
  <2> DEFINE w == Encoded(v)
  <2>1. /\ w.kind = v.kind
        /\ w.elems = [i \in DOMAIN v.elems |-> EncodedScalar(v.elems[i])]
    BY <1>2, EncodedValues
  <2>2. \A i \in DOMAIN v.elems : Represented(v.elems[i])
    BY <1>2 DEF AllRepresented, Scalars
  <2> HIDE DEF w
  <2>3. \A i \in DOMAIN w.elems : Represented(w.elems[i])
    BY <1>1, <2>1, <2>2
  <2>4. QED
    BY <1>2, <2>1, <2>3, RepresentedList DEF w
<1>3. CASE v.kind \notin {"slice", "array"}
  <2> DEFINE w == EncodedScalar(v)
  <2>1. Encoded(v) = w
    BY <1>3, EncodedValues
  <2>2. Represented(w)
    BY <1>1, <1>3 DEF AllRepresented, Scalars
  <2>3. w.kind \notin {"slice", "array"}
    BY <1>3, EncodedScalars, PlainValues
  <2> HIDE DEF w
  <2>4. QED
    BY <2>1, <2>2, <2>3, RepresentedAlone
<1>4. QED
  BY <1>2, <1>3

\* So does normalization.
LEMMA NormalizedValue ==
  ASSUME NEW v, IsDecoded(v), AllRepresented(v)
  PROVE  AllRepresented(NormalizeReadValue(v))
<1>1. CASE IsScalar(v, DecodedKinds)
  <2>1. v.kind \notin {"slice", "array"}
    BY <1>1, ElementKinds DEF IsScalar
  <2>2. NormalizeReadValue(v) = normalizeScalar(v) /\ Represented(v)
    BY <2>1, ListScalars DEF NormalizeReadValue, AllRepresented
  <2> DEFINE w == normalizeScalar(v)
  <2>3. Represented(w) /\ IsScalar(w, NormalKinds)
    BY <1>1, <2>2, NormalScalar, NormalizedRepresented
  <2> HIDE DEF w
  <2>4. w.kind \notin {"slice", "array"}
    BY <2>3, ElementKinds DEF IsScalar
  <2>5. AllRepresented(w)
    BY <2>3, <2>4, RepresentedAlone
  <2>6. QED
    BY <2>2, <2>5 DEF w
<1>2. CASE IsList(v, DecodedKinds)
  <2> DEFINE e == [i \in DOMAIN v.elems |-> normalizeScalar(v.elems[i])]
             w == Slice(e)
  <2>1. NormalizeReadValue(v) = w
    BY <1>2 DEF NormalizeReadValue, IsList
  <2>2. \A i \in DOMAIN v.elems : Represented(v.elems[i])
    BY <1>2, ListScalars DEF AllRepresented
  <2>3. DOMAIN e = DOMAIN v.elems /\ \A i \in DOMAIN e : Represented(e[i])
    BY <2>2, NormalizedRepresented
  <2> HIDE DEF e
  <2>4. w.kind = "slice" /\ w.elems = e
    BY DEF Slice
  <2> HIDE DEF w
  <2>5. AllRepresented(w)
    BY <2>3, <2>4, RepresentedList
  <2>6. QED
    BY <2>1, <2>5 DEF w
<1>3. QED
  BY <1>1, <1>2 DEF IsDecoded

\* So does what validation and conversion make of a request.
LEMMA ConvertedValue ==
  ASSUME NEW v, IsRequest(v), AllRepresented(v), NEW n, n.isArray \in BOOLEAN,
         ValidateValueForNode(v, n), HasWireType(convertValueToOPCUAType(v, n))
  PROVE  AllRepresented(convertValueToOPCUAType(v, n))
<1> DEFINE c == convertValueToOPCUAType(v, n)
<1>1. CASE n.type \notin Builtin
  <2>1. c \in {v, Fail}
    BY <1>1, ConvertOther DEF convertValueToOPCUAType, convertArrayValue
  <2> HIDE DEF c
  <2>2. QED
    BY <2>1, RepresentedNothing DEF c
<1>2. CASE n.type \in Builtin /\ n.isArray
  <2>1. /\ v.kind = "slice" /\ IsList(v, RequestKinds)
        /\ \A i \in DOMAIN v.elems : Plain(v.elems[i])
    BY <1>2, ValidatedShape
  <2>2. \A i \in DOMAIN v.elems : Represented(v.elems[i])
    BY <2>1, ListScalars DEF AllRepresented
  <2>3. /\ c.kind = "array"
        /\ c.elems = [i \in DOMAIN v.elems |-> convertScalarValue(v.elems[i], n.type)]
    BY <1>2, <2>1, ConvertedWire, VariantValue
  <2> HIDE DEF c
  <2>4. \A i \in DOMAIN c.elems : Represented(c.elems[i])
    BY <1>2, <2>1, <2>2, <2>3, ConvertedRepresented
  <2>5. QED
    BY <2>3, <2>4, RepresentedList DEF c
<1>3. CASE n.type \in Builtin /\ ~n.isArray
  <2>1. /\ validateScalarValue(v, n.type) /\ Plain(v) /\ v \in Scalars(v)
    BY <1>3, ValidatedShape
  <2>2. c = convertScalarValue(v, n.type)
    BY <1>3 DEF convertValueToOPCUAType
  <2>3. Represented(c) /\ (c = Fail \/ c.kind = builtinScalarGoType[n.type])
    BY <1>3, <2>1, <2>2, ConvertedRepresented, ConvertedKind DEF AllRepresented
  <2> HIDE DEF c
  <2>4. c.kind \notin {"slice", "array"}
    BY <1>3, <2>3, PlainValues, BuiltinTypes, GoKinds
  <2>5. QED
    BY <2>3, <2>4, RepresentedAlone DEF c
<1>4. QED
  BY <1>1, <1>2, <1>3

-----------------------------------------------------------------------------
(***************************************************************************)
(* The type invariant.                                                     *)
(***************************************************************************)

RangesInv ==
  /\ AllRepresented(device) /\ AllRepresented(request)
  /\ AllRepresented(wire.value)
  /\ AllRepresented(batch) /\ AllRepresented(kept)

\* How far a write is, and how many there were.
StepsInv ==
  /\ build \in {"saturating", "fixed"}
  /\ pc \in {"idle", "typeinfo", "validate", "convert", "basic", "send", "done"}
  /\ outcome \in {"none", "ok", "refused", "failed"}
  /\ writes \in 0 .. MaxWrites /\ sets \in 0 .. MaxSets

LEMMA SameRanges ==
  ASSUME NEW v
  PROVE  AllRepresented(v) <=> IsValue(v) /\ IsWhole(v)
BY RepresentedScalars DEF AllRepresented

LEMMA TypeParts ==
  ASSUME WriteInv, RangesInv, StepsInv
  PROVE  TypeOK
<1>1. /\ IsValue(device) /\ IsValue(request) /\ IsValue(wire.value)
      /\ IsValue(batch) /\ IsValue(kept)
  BY SameRanges DEF RangesInv
<1>2. node \in Nodes /\ info \in {NoInfo, InfoOf(node, node.length), InfoOf(node, 0)}
  BY DEF WriteInv
<1>3. QED
  BY <1>1, <1>2 DEF TypeOK, StepsInv

\* Every variable keeps its type: no request, conversion, read or push leaves
\* the range or the precision of the type a value has.
THEOREM TypeCorrect == Spec => []TypeOK
<1>1. Init => RangesInv /\ StepsInv
  BY RepresentedNothing, ValuesAssumption DEF Init, RangesInv, StepsInv
<1>2. IndInv /\ RangesInv /\ StepsInv /\ [Next]_vars => RangesInv' /\ StepsInv'
  <2> SUFFICES ASSUME IndInv, RangesInv, StepsInv, [Next]_vars
               PROVE  RangesInv' /\ StepsInv'
    OBVIOUS
  <2>0. WriteInv /\ StoreInv /\ MaxWrites \in Nat /\ MaxSets \in Nat
    BY ValuesAssumption DEF IndInv
  <2>1. ASSUME UNCHANGED <<device, request, wire, batch, kept>> PROVE RangesInv'
    BY <2>1 DEF RangesInv, AllRepresented
  <2>2. ASSUME NEW v, AllRepresented(v), PutValue(v) PROVE AllRepresented(kept)'
    <3>1. kept' \in {v, kept} 
      BY <2>2 DEF PutValue
    <3>2. QED
      BY <2>2, <3>1 DEF RangesInv, AllRepresented
  <2>3. ASSUME NEW v \in Requests, Write(v) PROVE RangesInv' /\ StepsInv'
    <3>1. AllRepresented(v)
      BY InputsAssumption, SameRanges DEF IsRequest
    <3>2. QED
      BY <2>0, <2>3, <3>1 DEF Write, RangesInv, StepsInv, AllRepresented
  <2>4. ASSUME ReadTypeInfo \/ TypeInfoFails \/ Validate
        PROVE  RangesInv' /\ StepsInv'
    BY <2>1, <2>4 DEF ReadTypeInfo, TypeInfoFails, Validate, End, StepsInv
  <2>5. ASSUME Convert \/ Basic PROVE RangesInv' /\ StepsInv'
    <3>1. /\ UNCHANGED <<build, node, request, info, device, cache, batch, kept,
                         writes, sets>>
          /\ \/ pc' = "send" /\ UNCHANGED outcome
             \/ pc' = "done" /\ outcome' = "refused" /\ UNCHANGED wire
      BY <2>5 DEF Convert, Basic, Prepare, End
    <3>2. StepsInv'
      BY <3>1 DEF StepsInv
    <3>3. ASSUME NEW v, AllRepresented(v), wire' = NewVariant(v)
          PROVE  AllRepresented(wire.value)'
      <4>1. wire'.value = v
        BY <3>3, VariantValue
      <4>2. QED
        BY <3>3, <4>1 DEF AllRepresented
    <3>4. UNCHANGED wire \/ AllRepresented(wire.value)'
      <4>1. CASE Basic
        BY <3>3, <4>1 DEF Basic, Prepare, RangesInv
      <4>2. CASE Convert
        <5> DEFINE c == convertValueToOPCUAType(request, info)
        <5>1. /\ UNCHANGED wire \/ (HasWireType(c) /\ wire' = NewVariant(c))
              /\ ValidateValueForNode(request, info) /\ IsRequest(request)
              /\ info # NoInfo
          BY <2>0, <4>2 DEF Convert, Prepare, WriteInv
        <5>2. info.isArray \in BOOLEAN
          BY <2>0, <5>1, InfoOfNode
        <5>3. CASE HasWireType(c) /\ wire' = NewVariant(c)
          <6>1. AllRepresented(c)
            BY <5>1, <5>2, <5>3, ConvertedValue DEF RangesInv
          <6>2. QED
            BY <3>3, <5>3, <6>1
        <5>4. QED
          BY <5>1, <5>3
      <4>3. QED
        BY <2>5, <4>1, <4>2
    <3>5. RangesInv'
      BY <3>1, <3>4 DEF RangesInv, AllRepresented
    <3>6. QED
      BY <3>2, <3>5
  <2>6. ASSUME Send PROVE RangesInv' /\ StepsInv'
    <3>1. /\ UNCHANGED <<request, wire, batch, kept>>
          /\ device' \in {device, Encoded(wire.value), Value("bytes", Base64Text)}
      BY <2>6 DEF Send, Decoded
    <3>2. AllRepresented(Encoded(wire.value))
      BY EncodedRepresented DEF RangesInv
    <3>3. AllRepresented(device)'
      BY <3>1, <3>2, RepresentedNothing DEF RangesInv, AllRepresented
    <3>4. QED
      BY <2>6, <3>1, <3>3 DEF Send, End, RangesInv, StepsInv, AllRepresented
  <2>7. ASSUME Return PROVE RangesInv' /\ StepsInv'
    BY <2>7, RepresentedNothing DEF Return, RangesInv, StepsInv, AllRepresented
  <2>8. ASSUME NEW v \in Samples, DeviceSets(v) PROVE RangesInv' /\ StepsInv'
    <3>1. AllRepresented(v)
      BY InputsAssumption, SameRanges
    <3>2. QED
      BY <2>0, <2>8, <3>1
         DEF DeviceSets, write, RangesInv, StepsInv, AllRepresented
  <2>9. ASSUME ReadLive \/ Notify PROVE RangesInv' /\ StepsInv'
    <3> DEFINE v == NormalizeReadValue(device)
    <3>1. AllRepresented(v)
      BY <2>0, NormalizedValue DEF StoreInv, RangesInv
    <3> HIDE DEF v
    <3>2. ASSUME ReadLive PROVE AllRepresented(kept)'
      BY <2>2, <3>1, <3>2 DEF ReadLive, v
    <3>3. UNCHANGED <<build, device, request, wire, pc, outcome, writes, sets>>
          /\ batch' \in {batch, v} /\ (kept' = kept \/ ReadLive)
      BY <2>9 DEF ReadLive, Notify, write, v
    <3>4. AllRepresented(kept)' /\ AllRepresented(batch)'
      BY <3>1, <3>2, <3>3 DEF RangesInv, AllRepresented
    <3>5. QED
      BY <3>3, <3>4 DEF RangesInv, StepsInv, AllRepresented
  <2>10. ASSUME Flush PROVE RangesInv' /\ StepsInv'
    <3>1. UNCHANGED <<build, device, request, wire, pc, outcome, writes, sets>>
          /\ batch' = None /\ PutValue(batch)
      BY <2>10 DEF Flush, write
    <3>2. AllRepresented(kept)'
      BY <2>2, <3>1 DEF RangesInv
    <3>3. AllRepresented(batch)'
      BY <3>1, RepresentedNothing DEF AllRepresented
    <3>4. QED
      BY <3>1, <3>2, <3>3 DEF RangesInv, StepsInv, AllRepresented
  <2>11. ASSUME UNCHANGED vars PROVE RangesInv' /\ StepsInv'
    BY <2>1, <2>11 DEF vars, write, StepsInv
  <2>12. QED
    BY <2>3, <2>4, <2>5, <2>6, <2>7, <2>8, <2>9, <2>10, <2>11 DEF Next
<1>3. IndInv /\ RangesInv /\ StepsInv => TypeOK
  BY TypeParts DEF IndInv
<1>4. QED
  BY <1>1, <1>2, <1>3, Invariance, PTL DEF Spec
=============================================================================
