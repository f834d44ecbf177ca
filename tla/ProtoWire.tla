------------------------------ MODULE ProtoWire ------------------------------
(***************************************************************************)
(* The protobuf wire format (wireformats/protobuf): a block binds a        *)
(* descriptor set to message formats; a format turns a VCL value into a    *)
(* message and a message into a VCL value, in native mode.                 *)
(*                                                                         *)
(* A VCL value and its reduction to Go are [t, v, items]: t the Go type, v *)
(* a number (strings and bytes are numbered), items the entries [key, val] *)
(* of a list (key 0) or object.  A protobuf value is [v, items], a message *)
(* with the one field fd is [has, pv].  Integers have the widths W32 and   *)
(* W64; a float is a whole number, "frac" one that is not.  In the JSON    *)
(* mode every conversion is the protojson library's.                       *)
(***************************************************************************)
EXTENDS Integers, Sequences, FiniteSets, SequencesExt

CONSTANTS DescriptorSets, \* sets of [full, short, wkt, entry], of message types
          Blocks,         \* [message, mode, readable]
          Cases,          \* [fd, native, wire]: a field, a value for it, a message of it
          EnumNumbers,    \* the enum: name -> number, aliases included
          W32, W64,       \* the bits of an integer
          Second          \* nanoseconds in a second

VARIABLES types, block, phase, arch, formats, case, msg, vcl, again
vars == <<types, block, phase, arch, formats, case, msg, vcl, again>>

NoMessage == [has |-> FALSE, pv |-> [v |-> 0, items |-> <<>>]]
NoValue == [t |-> "null", v |-> 0, items |-> <<>>]
NoCase == [fd |-> [kind |-> "bool", shape |-> "single", key |-> "bool", presence |-> FALSE, required |-> FALSE],
           native |-> NoValue, wire |-> NoMessage]

Init ==
  /\ types \in DescriptorSets /\ block \in Blocks /\ arch \in {"amd64", "arm64"}
  /\ phase = "read" /\ formats = <<>> /\ case = NoCase
  /\ msg = NoMessage /\ vcl = NoValue /\ again = NoMessage
-----------------------------------------------------------------------------
\* collectMessages: the map entries and the well-known types are left out.
CollectMessages == {t \in types : ~t.wkt /\ ~t.entry}

\* Broken form: only names that are aliases are counted.
UniqueAmongPackaged(m) == Cardinality({o \in CollectMessages : o.short = m.short /\ o.full # o.short}) = 1
\* uniqueShortNames
UniqueShortName(m) == Cardinality({o \in CollectMessages : o.short = m.short}) = 1

\* buildMessageObject: the full names, and the short ones no other message has.
\* Which of two messages with one key is kept is the map iteration's choice.
MessageObjects ==
  LET aliased == {m \in CollectMessages : m.short # m.full /\ UniqueShortName(m)}
      keys == {m.full : m \in CollectMessages} \union {m.short : m \in aliased}
      holders(k) == {m \in CollectMessages : m.full = k} \union {m \in aliased : m.short = k}
  IN  {o \in [keys -> CollectMessages] : \A k \in keys : o[k] \in holders(k)}

\* decodeMode
ModeKnown == block.mode \in {"", "native", "json"}

\* Process
Process ==
  /\ phase = "read"
  /\ IF ~ModeKnown \/ ~block.readable \/ CollectMessages = {}
        \/ (block.message # "" /\ ~\E m \in CollectMessages : m.full = block.message)
     THEN phase' = "refused" /\ UNCHANGED formats
     ELSE /\ phase' = "bound"
          /\ IF block.message # ""
             THEN formats' = [k \in {""} |-> CHOOSE m \in CollectMessages : m.full = block.message]
             ELSE formats' \in MessageObjects
  /\ UNCHANGED <<types, block, arch, case, msg, vcl, again>>
-----------------------------------------------------------------------------
Max32 == 2 ^ (W32 - 1) - 1
Max64 == 2 ^ (W64 - 1) - 1
Wrapped(n, w) == ((n + 2 ^ (w - 1)) % 2 ^ w) - 2 ^ (w - 1)
\* int64(f) and uint64(f) of a float out of range: the machine's choice.
FromFloat(n, low, high) == IF n \in low..high THEN n ELSE IF arch = "amd64" THEN low ELSE high

Ok(n) == [ok |-> TRUE, v |-> n]
Refused == [ok |-> FALSE, v |-> 0]

ToInt64(x) ==
  CASE x.t = "int" -> Ok(x.v)
    [] x.t = "uint" -> Ok(Wrapped(x.v, W64))
    [] x.t = "uint64" /\ x.v <= Max64 -> Ok(x.v)
    [] x.t = "float" -> Ok(FromFloat(x.v, -Max64 - 1, Max64))
    [] OTHER -> Refused

\* Broken form: a negative number is converted like any other.
ToUint64Unchecked(x) == IF x.t \in {"int", "uint", "uint64", "float"} THEN Ok(x.v % 2 ^ W64) ELSE Refused
ToUint64(x) ==
  CASE x.t = "int" /\ x.v >= 0 -> Ok(x.v)
    [] x.t \in {"uint", "uint64"} -> Ok(x.v)
    [] x.t = "float" /\ x.v >= 0 -> Ok(FromFloat(x.v, 0, 2 ^ W64 - 1))
    [] OTHER -> Refused

ToFloat64(x) == IF x.t \in {"int", "uint", "uint64", "float"} THEN Ok(x.v) ELSE Refused
ToBytes(x) == IF x.t \in {"bytes", "string"} THEN Ok(x.v) ELSE Refused

\* enumToProto: a number is cut to 32 bits.
EnumToProto(x) ==
  IF x.t = "string" THEN IF x.v \in DOMAIN EnumNumbers THEN Ok(EnumNumbers[x.v]) ELSE Refused
  ELSE LET n == ToInt64(x) IN IF n.ok THEN Ok(Wrapped(n.v, W32)) ELSE Refused

\* scalarToProto
ScalarToProto(kind, x) ==
  CASE kind = "bool" -> IF x.t = "bool" THEN Ok(x.v) ELSE Refused
    [] kind = "int32" -> IF ToInt64(x).ok /\ ToInt64(x).v \in -Max32-1..Max32 THEN ToInt64(x) ELSE Refused
    [] kind = "int64" -> ToInt64(x)
    [] kind = "uint32" -> IF ToUint64(x).ok /\ ToUint64(x).v < 2 ^ W32 THEN ToUint64(x) ELSE Refused
    [] kind = "uint64" -> ToUint64(x)
    [] kind = "double" -> ToFloat64(x)
    [] kind = "string" -> IF x.t = "string" THEN Ok(x.v) ELSE Refused
    [] kind = "bytes" -> ToBytes(x)
    [] kind = "enum" -> EnumToProto(x)
    [] OTHER -> Refused

\* mapKeyFromString: keys are parsed at 64 bits and cut to 32.  A key as written
\* is [word, n]: "true" and "false" are words, any number may stand for itself.
MapKeyFromString(kind, k) ==
  CASE kind = "string" -> Ok(k.n)
    [] kind = "bool" -> IF k.n \in 0..1 THEN Ok(k.n) ELSE Refused
    [] kind = "uint32" -> IF ~k.word /\ k.n \in 0..2 ^ W64 - 1 THEN Ok(k.n % 2 ^ W32) ELSE Refused
    [] kind = "uint64" -> IF ~k.word /\ k.n \in 0..2 ^ W64 - 1 THEN Ok(k.n) ELSE Refused
    [] kind = "int32" -> IF ~k.word /\ k.n \in -Max64-1..Max64 THEN Ok(Wrapped(k.n, W32)) ELSE Refused
    [] OTHER -> IF ~k.word /\ k.n \in -Max64-1..Max64 THEN Ok(k.n) ELSE Refused
-----------------------------------------------------------------------------
Num(n) == [v |-> n, items |-> <<>>]
Entry(k, p) == [key |-> k, val |-> p]
OkP(p) == [ok |-> TRUE, pv |-> p]
RefusedP == [ok |-> FALSE, pv |-> Num(0)]
Get(x, k) == LET s == SelectSeq(x.items, LAMBDA e : e.key.word /\ e.key.n = k) IN IF s = <<>> THEN NoValue ELSE s[1].val
Has(x, k) == \E i \in DOMAIN x.items : x.items[i].key.word /\ x.items[i].key.n = k
\* The names of fields and keys: the inner message's field, Any's own keys.
N == 1
AtType == 7
Value == 8

\* nativeToMessage of the inner message, which has one optional int32 field N.
InnerFrom(x) ==
  IF x.t # "object" \/ \E i \in DOMAIN x.items : x.items[i].key.n # N THEN RefusedP
  ELSE IF ~Has(x, N) \/ Get(x, N).t = "null" THEN OkP([v |-> 0, items |-> <<>>])
  ELSE LET n == ScalarToProto("int32", Get(x, N))
       IN  IF n.ok THEN OkP([v |-> 0, items |-> <<Entry(N, Num(n.v))>>]) ELSE RefusedP

\* Seconds and nanoseconds, rounded down (a time) or towards zero (a duration).
Split(s, n) == [v |-> 0, items |-> <<Entry(1, Num(s)), Entry(2, Num(n))>>]
TimeMessage(n) == Split(n \div Second, n % Second)
DurationMessage(n) == IF n >= 0 THEN TimeMessage(n) ELSE Split(-((-n) \div Second), -((-n) % Second))

\* toTime and toDuration; "timetext" is a text of RFC 3339, or a duration's.
ToTime(x) ==
  IF x.t \in {"time", "timetext"} THEN Ok(x.v)
  ELSE IF ToFloat64(x).ok THEN Ok(x.v * Second) ELSE Refused
ToDuration(x) ==
  IF x.t \in {"duration", "timetext"} THEN Ok(x.v)
  ELSE IF ToFloat64(x).ok THEN Ok(FromFloat(x.v * Second, -Max64 - 1, Max64)) ELSE Refused

\* anyFromNative: of the types 1 is the inner message, 2 a Timestamp, 3 unknown.
AnyFromNative(x) ==
  LET t == Get(x, AtType)
      rest == [x EXCEPT !.items = SelectSeq(@, LAMBDA e : ~(e.key.word /\ e.key.n = AtType))]
      packed == IF t.v = 1 THEN InnerFrom(rest)
                ELSE IF t.v = 2 THEN RefusedP    \* an object is no time
                ELSE IF Has(x, Value) /\ ToBytes(Get(x, Value)).ok THEN OkP(Num(Get(x, Value).v)) ELSE RefusedP
  IN  IF x.t # "object" \/ t.t # "string" \/ ~packed.ok THEN RefusedP
      ELSE OkP([v |-> t.v, items |-> <<Entry(0, packed.pv)>>])

\* fieldMaskFromNative: a text stands for its one path.
FieldMaskFromNative(x) ==
  CASE x.t = "string" -> OkP([v |-> 0, items |-> <<Entry(0, Num(x.v))>>])
    [] x.t = "list" /\ \A i \in DOMAIN x.items : x.items[i].val.t = "string" ->
         OkP([v |-> 0, items |-> [i \in DOMAIN x.items |-> Entry(0, Num(x.items[i].val.v))]])
    [] OTHER -> RefusedP

\* One element: wktFromNative, nativeToMessage or scalarToProto by its kind.
FromNative(kind, x) ==
  LET lifted(r, Build(_)) == IF r.ok THEN OkP(Build(r.v)) ELSE RefusedP
  IN  CASE kind = "message" -> InnerFrom(x)
        [] kind = "timestamp" -> lifted(ToTime(x), TimeMessage)
        [] kind = "duration" -> lifted(ToDuration(x), DurationMessage)
        [] kind = "empty" -> OkP(Num(0))
        [] kind = "mask" -> FieldMaskFromNative(x)
        [] kind = "any" -> AnyFromNative(x)
        [] kind = "wrapper" -> lifted(ScalarToProto("int32", x), Num)
        [] OTHER -> lifted(ScalarToProto(kind, x), Num)

\* The entries of a map by key.  Go ranges over them in any order, and of two
\* that are cut to the same key the last set stays: here the last listed.
MapItems(es) ==
  LET last == {i \in DOMAIN es : \A j \in DOMAIN es : es[j].key = es[i].key => j <= i}
      sorted == SetToSortSeq({es[i].key : i \in last}, LAMBDA a, b : a < b)
  IN  [k \in DOMAIN sorted |-> es[CHOOSE i \in last : es[i].key = sorted[k]]]

\* setField: the elements of a list, the entries of a map, or one value.
ListOf(elems) ==
  IF \A i \in DOMAIN elems : elems[i].ok
  THEN OkP([v |-> 0, items |-> [i \in DOMAIN elems |-> Entry(0, elems[i].pv)]]) ELSE RefusedP
MapOf(keys, elems) ==
  IF \A i \in DOMAIN elems : elems[i].ok /\ keys[i].ok
  THEN OkP([v |-> 0, items |-> MapItems([i \in DOMAIN elems |-> Entry(keys[i].v, elems[i].pv)])]) ELSE RefusedP
SetField(fd, x) ==
  CASE fd.shape = "single" -> FromNative(fd.kind, x)
    [] fd.shape = "list" /\ x.t = "list" ->
         ListOf([i \in DOMAIN x.items |-> FromNative(fd.kind, x.items[i].val)])
    [] fd.shape = "map" /\ x.t = "object" ->
         MapOf([i \in DOMAIN x.items |-> MapKeyFromString(fd.key, x.items[i].key)],
               [i \in DOMAIN x.items |-> FromNative(fd.kind, x.items[i].val)])
    [] OTHER -> RefusedP

\* nativeToMessage of a message with the one field fd; "null" leaves it unset.
\* A field without presence that holds its default is one that is not set.
Holding(fd, r) == [ok |-> r.ok, m |-> [has |-> r.ok /\ (fd.presence \/ r.pv # NoMessage.pv), pv |-> r.pv]]
Serialized(fd, x) ==
  IF x.t = "null" THEN [ok |-> ~fd.required, m |-> NoMessage] ELSE Holding(fd, SetField(fd, x))
-----------------------------------------------------------------------------
Cty(t, n) == [t |-> t, v |-> n, items |-> <<>>]
Word(n) == [word |-> TRUE, n |-> n]
\* Broken form: an unset field is read as its default.
InnerDefaults(p) ==
  [t |-> "object", v |-> 0, items |-> <<Entry(Word(N), Cty("number", IF p.items = <<>> THEN 0 ELSE p.items[1].val.v))>>]
InnerToCty(p) ==
  [t |-> "object", v |-> 0,
   items |-> <<Entry(Word(N), IF p.items = <<>> THEN NoValue ELSE Cty("number", p.items[1].val.v))>>]

\* readDuration multiplies at 64 bits; readTimestamp has seconds of its own.
ReadDuration(p) == Wrapped(p.items[1].val.v * Second + p.items[2].val.v, W64)
ReadTimestamp(p) == p.items[1].val.v * Second + p.items[2].val.v

AnyToCty(p) ==
  LET type == Entry(Word(AtType), Cty("string", p.v))
      inner == p.items[1].val
  IN  [t |-> "object", v |-> 0,
       items |-> CASE p.v = 1 -> Append(InnerToCty(inner).items, type)
                   [] p.v = 2 -> <<type, Entry(Word(Value), Cty("time", ReadTimestamp(inner)))>>
                   [] OTHER -> <<type, Entry(Word(Value), Cty("bytes", inner.v))>>]

\* singularToCty and wktToCty
SingularToCty(kind, p) ==
  CASE kind \in {"int32", "int64", "uint32", "uint64", "double", "wrapper"} -> Cty("number", p.v)
    [] kind \in {"bool", "string", "bytes"} -> Cty(kind, p.v)
    [] kind = "enum" -> LET names == {n \in DOMAIN EnumNumbers : EnumNumbers[n] = p.v}
                        IN  IF names = {} THEN Cty("number", p.v) ELSE Cty("string", CHOOSE n \in names : TRUE)
    [] kind = "message" -> InnerToCty(p)
    [] kind = "timestamp" -> Cty("time", ReadTimestamp(p))
    [] kind = "duration" -> Cty("duration", ReadDuration(p))
    [] kind = "empty" -> Cty("object", 0)
    [] kind = "mask" -> [t |-> "list", v |-> 0, items |-> [i \in DOMAIN p.items |-> Entry(Word(0), Cty("string", p.items[i].val.v))]]
    [] kind = "any" -> AnyToCty(p)

\* mapKeyString: a bool key is a word again.
MapKeyString(kind, n) == [word |-> kind \in {"bool", "string"}, n |-> n]

\* messageToCty and fieldToCty, listToCty, mapToCty
Deserialized(fd, m) ==
  LET elems(Key(_)) == [i \in DOMAIN m.pv.items |->
                          Entry(Key(m.pv.items[i].key), SingularToCty(fd.kind, m.pv.items[i].val))]
      keyOf(n) == MapKeyString(fd.key, n)
  IN  CASE fd.presence /\ ~m.has -> NoValue
        [] fd.shape = "list" -> [t |-> "list", v |-> 0, items |-> elems(Word)]
        [] fd.shape = "map" -> [t |-> "object", v |-> 0, items |-> elems(keyOf)]
        [] OTHER -> SingularToCty(fd.kind, m.pv)

\* go2cty2go.CtyToAny: a whole number that fits is an int64.
CtyToAnyLeaf(x) ==
  IF x.t = "number" THEN [x EXCEPT !.t = IF x.v \in -Max64-1..Max64 THEN "int" ELSE "float"] ELSE x
CtyToAny(x) ==
  LET y == CtyToAnyLeaf(x)
      inner(z) == [z EXCEPT !.items = [i \in DOMAIN @ |-> [@[i] EXCEPT !.val = CtyToAnyLeaf(@)]]]
  IN  [y EXCEPT !.items = [i \in DOMAIN @ |-> [@[i] EXCEPT !.val = inner(CtyToAnyLeaf(@))]]]
-----------------------------------------------------------------------------
\* A value is sent in a message of a bound type, or a message of it arrives.
Serialize(c) ==
  /\ phase = "bound" /\ case' = c
  /\ \E r \in {Serialized(c.fd, c.native)} :
       IF r.ok THEN phase' = "sent" /\ msg' = r.m ELSE phase' = "unsent" /\ UNCHANGED msg
  /\ UNCHANGED <<types, block, arch, formats, vcl, again>>
Arrive(c) ==
  /\ phase = "bound" /\ case' = c
  /\ c.fd.required => c.wire.has    \* proto.Unmarshal refuses it otherwise
  /\ phase' = "arrived" /\ msg' = c.wire
  /\ UNCHANGED <<types, block, arch, formats, vcl, again>>

Deserialize ==
  /\ phase \in {"sent", "arrived"}
  /\ vcl' = Deserialized(case.fd, msg)
  /\ phase' = IF phase = "sent" THEN "received" ELSE "read in"
  /\ UNCHANGED <<types, block, arch, formats, case, msg, again>>

\* What arrived is sent on as it was read.
Relay ==
  /\ phase = "read in"
  /\ \E r \in {Serialized(case.fd, CtyToAny(vcl))} :
       again' = r.m /\ phase' = IF r.ok THEN "relayed" ELSE "stuck"
  /\ UNCHANGED <<types, block, arch, formats, case, msg, vcl>>

Done == phase \in {"refused", "unsent", "received", "relayed", "stuck"} /\ UNCHANGED vars

Next == Process \/ (\E c \in Cases : Serialize(c) \/ Arrive(c)) \/ Deserialize \/ Relay \/ Done
Spec == Init /\ [][Next]_vars
-----------------------------------------------------------------------------
TypeOK ==
  /\ phase \in {"read", "refused", "bound", "sent", "unsent", "arrived", "received", "read in", "relayed", "stuck"}
  /\ msg.has \in BOOLEAN /\ vcl.v \in Int

\* "The full-name index is the guaranteed contract": whatever order the types
\* are taken in, a full name finds its own message, and a short name only a
\* message that alone has it (block.go:79-96, naming.go).
NamesResolve ==
  phase # "read" /\ phase # "refused" /\ block.message = "" =>
    \A m \in CollectMessages :
      /\ m.full \in DOMAIN formats /\ formats[m.full] = m
      /\ m.short \in DOMAIN formats /\ m.short # m.full => formats[m.short].short = m.short

\* The conversions that are not checked: a big uint or float to an integer, an
\* enum's number to 32 bits, a duration in seconds.
Exact(fd, x) ==
  /\ x.t = "uint" /\ fd.kind # "uint64" => x.v <= Max64
  /\ x.t = "float" => x.v \in -Max64-1..Max64
  /\ fd.kind = "enum" /\ x.t # "string" => x.v \in -Max32-1..Max32

\* The number, time or text a sender was allowed to send is the one that a
\* receiver reads: out of range is refused, never cut (native_encode.go:132-207
\* against native_decode.go:130-155).
NumbersKept ==
  phase = "received" /\ case.fd.shape = "single" /\ Exact(case.fd, case.native) =>
    CASE case.native.t \in {"int", "uint", "uint64", "float"} /\ case.fd.kind \notin {"timestamp", "duration", "empty", "enum"} ->
           vcl.t = "number" /\ vcl.v = case.native.v
      [] case.fd.kind \in {"timestamp", "duration"} /\ case.native.t \in {"time", "duration", "timetext"} ->
           vcl.v = case.native.v
      [] case.fd.kind = "enum" /\ case.native.t = "int" ->
           (vcl.t = "number" /\ vcl.v = case.native.v) \/ (vcl.t = "string" /\ EnumNumbers[vcl.v] = case.native.v)
      [] OTHER -> TRUE

\* The messages whose reading loses nothing: times in normal form that fit,
\* numbers that a VCL number carries to an int64, no Any around a well-known type.
Relayable(fd, m) ==
  LET within(p) ==
        CASE fd.kind = "timestamp" -> p.items[2].val.v \in 0..Second - 1
          [] fd.kind = "duration" -> LET d == p.items[1].val.v * Second + p.items[2].val.v
                                     IN  d \in -Max64..Max64 /\ p = DurationMessage(d)
          [] fd.kind = "any" -> p.v # 2
          [] fd.kind = "uint64" -> p.v <= Max64
          [] OTHER -> TRUE
      all == IF fd.shape = "single" THEN {m.pv} ELSE {m.pv.items[i].val : i \in DOMAIN m.pv.items}
  IN  (fd.presence /\ ~m.has) \/ \A p \in all : within(p)

\* A message read and sent on unchanged is the message that arrived: unset
\* fields stay unset, empty messages stay set, an enum's number without a name
\* and a map's keys survive (native_decode.go:40-50, 146-185).
RelayFaithful ==
  phase \in {"relayed", "stuck"} /\ Relayable(case.fd, case.wire) => phase = "relayed" /\ again = case.wire
=============================================================================
