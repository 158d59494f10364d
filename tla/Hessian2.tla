------------------------------ MODULE Hessian2 ------------------------------
(***************************************************************************)
(* One Encoder writes a document of Hessian2 values, one Decoder reads it  *)
(* back (crate dubbo-serialization-hessian2).  A value is the sequence of  *)
(* calls its encode function makes, and its decode function makes the      *)
(* matching ones: the scalars, strings with and without references, lists, *)
(* a BigDecimal, objects of the TypeRegistry and Java exceptions with      *)
(* their stack trace and cause.  The stream is a sequence of bytes; the    *)
(* characters of a string, the data of a binary and the bits of a floating *)
(* number stand in it as one element, since no operation looks inside.     *)
(***************************************************************************)
EXTENDS HessianNumbers, SequencesExt

CONSTANTS
    Text,           \* strings and binary data, names of classes and fields
    TextValue,      \* those that are values of a document
    Chars,          \* the length of each
    Number,         \* the longs written, the ints among them
    Double,         \* the doubles written: integers, NegZero and others
    NegZero,
    Remnant,        \* a string cut by a head that counts too few characters
    Failure,        \* the result of a decode function that fails
    Single,         \* the doubles that a single-precision float can hold
    Class,          \* registered classes: a name, a sequence of field names
    Thrown,         \* the class of a Java exception, with its three fields
    Frame,          \* java.lang.StackTraceElement, with its four fields
    ScaleKey, ValueKey,     \* the keys of a BigDecimal
    MaxDocument     \* bound: values of a document

VARIABLES document,     \* the values written, in order
          wire,         \* the Encoder: out, tracked strings, class definitions
          reader,       \* the Decoder: rest, refs, class definitions
          back          \* the values read, in order
hessianVars == <<document, wire, reader, back>>

(* Of strings and classes the codec sees lengths, names and fields, and a  *)
(* number has 64 bits.                                                     *)
ASSUME HessianAssumption ==
    /\ TextValue \cup {ScaleKey, ValueKey} \subseteq Text
    /\ Chars \in [Text -> Nat]
    /\ \A n \in Number : n \in Int /\ IsWord(Upper(n))
    /\ Class \cup {Thrown, Frame} \subseteq [name : Text, fields : Seq(Text)]
Words == {n \in Number : IsWord(n)}

Call(op, arg) == [op |-> op, arg |-> arg]
Each(op, args) == [i \in DOMAIN args |-> Call(op, args[i])]

-----------------------------------------------------------------------------
(* The values: the calls their encode functions make.                      *)

Scalars ==
    {<<Call("null", {})>>}
    \cup {<<Call("bool", b)>> : b \in BOOLEAN}
    \cup {<<Call("int", n)>> : n \in Words}
    \cup {<<Call(op, n)>> : op \in {"long", "date"}, n \in Number}
    \cup {<<Call("double", x)>> : x \in Double}
    \cup {<<Call(op, t)>> : op \in {"string", "ref", "binary"}, t \in TextValue}

List(items) == <<Call("list", Len(items))>> \o Each("string", items)

BigDecimal(scale, value) ==
    <<Call("map", {}), Call("string", ScaleKey), Call("int", scale),
      Call("string", ValueKey), Call("string", value), Call("end", {})>>

(* encode_object: the definition unless it was written, then the fields.   *)
Registered(class, values) ==
    <<Call("define", class), Call("object", class)>> \o Each("string", values)

(* JavaException and StackTraceElement: decoded by looking for a definition.*)
TraceElement(t, line) ==
    <<Call("redefine", Frame), Call("own", Frame)>>
    \o Each("string", <<t, t, t>>) \o <<Call("int", line)>>
Exception(message, trace, cause) ==
    <<Call("redefine", Thrown), Call("own", Thrown), Call("string", message),
      Call("list", Len(trace))>>
    \o FlattenSeq(trace) \o cause
NoCause == <<Call("null", {})>>

Exceptions(t) ==
    LET nested == Exception(t, <<TraceElement(t, -1)>>, NoCause)
    IN  {Exception(t, trace, cause) :
            trace \in {<<>>, <<TraceElement(t, 7)>>}, cause \in {NoCause, nested}}

Values ==
    Scalars
    \cup {List(<<t, t>>) : t \in TextValue}
    \cup {BigDecimal(n, t) : n \in Words, t \in TextValue}
    \cup {Registered(c, [i \in DOMAIN c.fields |-> t]) : c \in Class, t \in TextValue}
    \cup UNION {Exceptions(t) : t \in TextValue}

-----------------------------------------------------------------------------
(* Encoder.                                                                *)

WriteBytes(e, bytes) == [e EXCEPT !.out = @ \o bytes]
WriteString(t) == WriteStringHead(Chars[t]) \o <<t>>
WriteBinary(t) == WriteBinaryHead(Chars[t]) \o <<t>>

WriteDouble(x) ==
    IF x \in {0, NegZero} THEN <<91>>
    ELSE IF x = 1 THEN <<92>>
    ELSE IF x \in Int /\ -128 <= x /\ x <= 127 THEN <<93, Low(x)>>
    ELSE IF x \in Int /\ -32768 <= x /\ x <= 32767
      THEN <<94, Low(Shift(x, 256)), Low(x)>>
    ELSE IF x \in Single THEN <<95, x>>
    ELSE <<68, x>>

IndexOf(names, name) ==
    CHOOSE i \in 0..Len(names) :
        IF name \in Range(names) THEN i > 0 /\ names[i] = name ELSE i = 0

(* write_class_def: one definition per class name, whatever its fields.    *)
WriteClassDef(e, class) ==
    IF class.name \in Range(e.defined)
    THEN [e EXCEPT !.index = IndexOf(e.defined, class.name) - 1]
    ELSE [WriteBytes(e, <<67>> \o WriteString(class.name) \o WriteInt(Len(class.fields))
                    \o FlattenSeq([i \in DOMAIN class.fields |->
                                     WriteString(class.fields[i])]))
            EXCEPT !.index = Len(e.defined), !.defined = Append(@, class.name)]

(* write_string_ref: only the strings written by it are remembered.        *)
WriteStringRef(e, t) ==
    IF t \in Range(e.tracked)
    THEN WriteBytes(e, <<82>> \o WriteInt(IndexOf(e.tracked, t) - 1))
    ELSE [WriteBytes(e, WriteString(t)) EXCEPT !.tracked = Append(@, t)]

Write(e, call) ==
    CASE call.op = "null" -> WriteBytes(e, <<78>>)
      [] call.op = "bool" -> WriteBytes(e, <<IF call.arg THEN 84 ELSE 70>>)
      [] call.op = "int" -> WriteBytes(e, WriteInt(call.arg))
      [] call.op = "long" -> WriteBytes(e, WriteLong(call.arg))
      [] call.op = "date" -> WriteBytes(e, WriteDate(call.arg))
      [] call.op = "double" -> WriteBytes(e, WriteDouble(call.arg))
      [] call.op = "string" -> WriteBytes(e, WriteString(call.arg))
      [] call.op = "ref" -> WriteStringRef(e, call.arg)
      [] call.op = "binary" -> WriteBytes(e, WriteBinary(call.arg))
      [] call.op = "list" -> WriteBytes(e, WriteListBegin(call.arg))
      [] call.op = "map" -> WriteBytes(e, <<72>>)
      [] call.op = "end" -> WriteBytes(e, <<90>>)
      [] call.op \in {"define", "redefine"} -> WriteClassDef(e, call.arg)
      [] call.op \in {"object", "own"} -> WriteBytes(e, <<79>> \o WriteInt(e.index))

WriteAll(e, calls) ==
    LET at[k \in 0..Len(calls)] == IF k = 0 THEN e ELSE Write(at[k - 1], calls[k])
    IN  at[Len(calls)]

-----------------------------------------------------------------------------
(* Decoder.  A decode function stops at its first error.                   *)

Failed(d) == [d EXCEPT !.failed = TRUE]
Past(d, n) == [d EXCEPT !.rest = SubSeq(@, n + 1, Len(@))]
Take(d, r) ==
    IF r = Mismatch THEN Failed(d)
    ELSE [Past(d, r.used) EXCEPT !.got = Append(@, r.value)]
Tag(d, tags) == d.rest # <<>> /\ d.rest[1] \in tags
Expect(d, tags) == IF Tag(d, tags) THEN Past(d, 1) ELSE Failed(d)

WithString(d, t) == [d EXCEPT !.got = Append(@, t), !.refs = Append(@, t)]
(* read_str: the characters counted by the head, and a place in refs; what *)
(* the head does not count is left in the stream.                          *)
ReadStr(d) ==
    LET h == ReadStringHead(d.rest)
        at == h.used + 1
        t == d.rest[at]
    IN  IF h = Mismatch \/ Len(d.rest) < at \/ t \notin Text THEN Failed(d)
        ELSE IF Chars[t] = h.value THEN WithString(Past(d, at), t)
        ELSE WithString(Past([d EXCEPT !.rest[at] = Remnant], h.used), Remnant)
(* What a read string is used for other than as a value of the document.   *)
Unkept(d, old) == [d EXCEPT !.got = old.got]

ReadBinary(d) ==
    LET h == ReadBinaryHead(d.rest) IN
    IF h = Mismatch \/ Len(d.rest) <= h.used THEN Failed(d)
    ELSE LET t == d.rest[h.used + 1]
         IN  IF t \in Text /\ Chars[t] = h.value
             THEN [Past(d, h.used + 1) EXCEPT !.got = Append(@, t)] ELSE Failed(d)

ReadDouble(d) ==
    LET s == d.rest IN
    CASE s[1] = 91 -> Take(d, Got(0, 1))
      [] s[1] = 92 -> Take(d, Got(1, 1))
      [] s[1] = 93 -> Take(d, Got(Signed(s[2]), 2))
      [] s[1] = 94 -> Take(d, Got(FromBytes2(s, 2), 3))
      [] s[1] \in {95, 68} -> Take(d, Got(s[2], 2))
      [] OTHER -> Failed(d)

ReadRef(d) ==
    LET n == ReadInt(Tail(d.rest)) IN
    IF n # Mismatch /\ n.value + 1 \in DOMAIN d.refs
    THEN [Past(d, n.used + 1) EXCEPT !.got = Append(@, d.refs[n.value + 1])]
    ELSE Failed(d)

ReadStrings(d, count) ==
    LET at[k \in 0..count] == IF k = 0 THEN d ELSE ReadStr(at[k - 1])
    IN  at[count]
ReadClassDef(d) ==
    LET named == ReadStr(Expect(d, {67}))
        n == ReadInt(named.rest)
        all == ReadStrings(Past(named, n.used), n.value)
        read == SubSeq(all.got, Len(d.got) + 1, Len(all.got))
    IN  IF ~Tag(d, {67}) THEN Failed(d)
        ELSE IF named.failed \/ n = Mismatch THEN Failed(d)
        ELSE [Unkept(all, d) EXCEPT
                !.defs = Append(@, [name |-> read[1], fields |-> Tail(read)]),
                !.index = Len(d.defs)]

ReadObjectBegin(d) ==
    LET n == ReadInt(Tail(d.rest)) IN
    IF Tag(d, 96..111)
    THEN IF d.rest[1] - 96 < Len(d.defs)
         THEN [Past(d, 1) EXCEPT !.index = d.rest[1] - 96] ELSE Failed(d)
    ELSE IF Tag(d, {79}) /\ n # Mismatch /\ n.value < Len(d.defs)
    THEN [Past(d, n.used + 1) EXCEPT !.index = n.value]
    ELSE Failed(d)

(* decode_object wants a definition and its object next to each other;     *)
(* the decode functions of dubbo_types.rs go by the fields they are told.  *)
ReadRegistered(d) ==
    LET o == ReadObjectBegin(d) IN IF o.index = d.index THEN o ELSE Failed(d)
ReadOwn(d, class) ==
    LET o == ReadObjectBegin(d) IN
    IF ~o.failed /\ o.defs[o.index + 1].fields = class.fields THEN o ELSE Failed(d)

Read(d, call) ==
    IF d.failed \/ d.rest = <<>> THEN Failed(d)
    ELSE CASE call.op = "null" -> Expect(d, {78})
           [] call.op = "bool" ->
                IF Tag(d, {84, 70}) THEN Take(d, Got(d.rest[1] = 84, 1)) ELSE Failed(d)
           [] call.op = "int" -> Take(d, ReadInt(d.rest))
           [] call.op = "long" -> Take(d, ReadLong(d.rest))
           [] call.op = "date" -> Take(d, ReadDate(d.rest))
           [] call.op = "double" -> ReadDouble(d)
           [] call.op = "string" -> ReadStr(d)
           [] call.op = "ref" -> IF Tag(d, {82}) THEN ReadRef(d) ELSE ReadStr(d)
           [] call.op = "binary" -> ReadBinary(d)
           [] call.op = "list" -> Take(d, ReadListBegin(d.rest))
           [] call.op = "map" -> Expect(d, {77, 72})
           [] call.op = "end" -> Expect(d, {90})
           [] call.op = "define" -> ReadClassDef(d)
           [] call.op = "redefine" -> IF Tag(d, {67}) THEN ReadClassDef(d) ELSE d
           [] call.op = "object" -> ReadRegistered(d)
           [] call.op = "own" -> ReadOwn(d, call.arg)

ReadAll(d, calls) ==
    LET at[k \in 0..Len(calls)] == IF k = 0 THEN d ELSE Read(at[k - 1], calls[k])
    IN  at[Len(calls)]

-----------------------------------------------------------------------------
HessianInit ==
    /\ document = <<>>
    /\ wire = [out |-> <<>>, tracked |-> <<>>, defined |-> <<>>, index |-> 0]
    /\ reader = [rest |-> <<>>, refs |-> <<>>, defs |-> <<>>, index |-> 0,
                 got |-> <<>>, failed |-> FALSE]
    /\ back = <<>>

WriteValue ==
    \E v \in Values :
        /\ back = <<>> /\ Len(document) < MaxDocument
        /\ document' = Append(document, v)
        /\ wire' = WriteAll(wire, v)
        /\ UNCHANGED <<reader, back>>

ReadValue ==
    LET n == Len(back)
        d == [reader EXCEPT !.rest = IF n = 0 THEN wire.out ELSE @, !.got = <<>>]
        r == ReadAll(d, document[n + 1])
    IN  /\ n < Len(document)
        /\ reader' = r
        /\ back' = Append(back, IF r.failed THEN Failure ELSE r.got)
        /\ UNCHANGED <<document, wire>>

HessianNext == WriteValue \/ ReadValue
HessianSpec == HessianInit /\ [][HessianNext]_hessianVars

-----------------------------------------------------------------------------
(* The values a reader is owed for one value: its arguments, a zero for    *)
(* either sign of zero.                                                    *)
Owes(call) ==
    IF call.op \in {"null", "map", "end", "define", "redefine", "object", "own"} THEN <<>>
    ELSE IF call.op = "double" /\ call.arg = NegZero THEN <<0>> ELSE <<call.arg>>
Owed(v) == FlattenSeq([i \in DOMAIN v |-> Owes(v[i])])

Written == FlattenSeq(document)
Uses(ops) == {i \in DOMAIN Written : Written[i].op \in ops}
IsCounted(t) == Chars[t] < 65536
Countable ==
    /\ \A i \in Uses({"string", "ref", "binary"}) : IsCounted(Written[i].arg)
    /\ \A i \in Uses({"define", "redefine"}) :
          LET class == Written[i].arg
          IN  IsCounted(class.name) /\ IsWord(Len(class.fields))
              /\ \A j \in DOMAIN class.fields : IsCounted(class.fields[j])
    /\ IsWord(Len(Written))

(* What the round trip needs of a document: no plain string, name or field *)
(* beside strings with references, each registered class encoded once, one *)
(* list of fields per class name, no string beyond sixteen bits of length, *)
(* and no count or index beyond an int.                                    *)
PlainDocument ==
    /\ Uses({"ref"}) # {} => Uses({"string", "define", "redefine"}) = {}
    /\ \A i, j \in Uses({"define", "redefine"}) :
          /\ Written[i].arg.name = Written[j].arg.name => Written[i].arg = Written[j].arg
          /\ Written[i].op = "define" /\ Written[i].arg = Written[j].arg => i = j
    /\ Countable

(* Every value comes back as it was written, whatever was written before   *)
(* it: a reader neither loses its place in the stream nor takes another    *)
(* class or another string for the one that was meant.                     *)
StreamRoundTrips ==
    PlainDocument => \A i \in DOMAIN back : back[i] = Owed(document[i])
=============================================================================
