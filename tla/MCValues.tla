------------------------------ MODULE MCValues ------------------------------
(* Small instances of Values for TLC. *)
EXTENDS Values, FiniteSets, TLC

\* 8, 16, 32 and 64 bits become 2, 3, 5 and 7; the mantissas of 24 and 53
\* bits, which lie between, become 4 and 6.
Widths ==
  [int8 |-> 2, int16 |-> 3, int32 |-> 5, int64 |-> 7, int |-> 7,
   uint8 |-> 2, uint16 |-> 3, uint32 |-> 5, uint64 |-> 7, uint |-> 7]

Precisions == [float32 |-> 4, float64 |-> 6]

\* float32 reaches far beyond uint64, float64 beyond float32.
Maxima == [float32 |-> 480, float64 |-> 2016]

\* The limits of every integer kind, zero, and their neighbours.
Limits  == {Lo(k) : k \in IntKinds} \cup {Hi(k) : k \in IntKinds}
Near(S) == UNION {{n - 1, n, n + 1} : n \in S}

GoInts == UNION {{Value(k, n) : n \in {m \in Near(Limits) : Fits(m, k)}}
                   : k \in IntKinds}

FloatsOf(k) ==
  {Value(k, h) : h \in {g \in UNION {{2 * n - 1, 2 * n, 2 * n + 1}
                                       : n \in Near(Limits)}
                          \cup {448, -448, 456, 960, -960} : IsFloatOf(g, k)}}

GoStrings == {Value("string", x) : x \in Strings}
Others    == {Nil, Value("map", 0), Value("bool", 0), Value("bool", 1)}

Scalar == GoInts \cup FloatsOf("float64") \cup FloatsOf("float32")
            \cup GoStrings \cup Others

\* Lists of one element of each kind, of two, and of none.
Elements ==
  {Value("float64", h) : h \in {-2, 2, 3, 6, 126, 960}}
    \cup {Value("bool", 1), Value("string", Text), Value("string", GUIDText),
          Value("uint64", 127), Nil, Value("map", 0)}

Lists ==
  {Slice(<<>>)} \cup {Slice(<<v>>) : v \in Elements}
    \cup {Slice(<<Value("float64", 2), v>>) : v \in Elements}

AllRequests == Scalar \cup Lists

NodeOf(t, rank, length, writable) ==
  [type |-> t, rank |-> rank, length |-> length, writable |-> writable]

AllNodes ==
  {NodeOf(t, -1, 0, TRUE) : t \in Builtin \cup {"Other", "Custom"}}
    \cup {NodeOf(t, 1, n, TRUE) : t \in Builtin, n \in {0, 2}}
    \cup {NodeOf(t, r, 0, TRUE) : t \in {"Byte", "Double"}, r \in {-3, -2, 0, 2}}
    \cup {NodeOf("Other", 1, 0, TRUE), NodeOf("Double", -1, 0, FALSE),
          NodeOf("Int32", 2, 2, TRUE)}

AllSamples ==
  {Nil, Value("float32", 3), Value("float32", NaN), Value("float64", Inf),
   Value("guid", GUIDText), Value("undecoded", Text), Value("struct", 0),
   Value("int64", Hi("int64")), Value("uint8", 1), Value("time", 2),
   Value("bytes", Base64Text),
   [kind |-> "array", of |-> "float32",
    elems |-> <<Value("float32", -Inf), Value("float32", 3)>>],
   [kind |-> "array", of |-> "struct",
    elems |-> <<Value("struct", 0), Value("undecoded", Text)>>]}
=============================================================================
