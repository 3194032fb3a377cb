------------------------------ MODULE WireFormat ------------------------------
(***************************************************************************)
(* The messages as bytes: the protobuf runtime of the pages (the           *)
(* google-protobuf part of js/bundle.js) and the messages Model and        *)
(* MessageBody in each of their three copies: proto/Message_pb.js, the     *)
(* copy of it in js/bundle.js that the pages load, and MessageInfo.java.   *)
(* Nothing but hand-run scripts keeps the copies alike, so the tables of   *)
(* each are written down from its own code.                                *)
(*                                                                         *)
(* A string is the sequence of its UTF-16 code units, a byte string a      *)
(* sequence of bytes, and a message the array of its fields, by number.    *)
(***************************************************************************)
EXTENDS Integers, Sequences, SequencesExt

Byte == 0..255
Unit == 0..65535

-----------------------------------------------------------------------------
(* Numbers: seven bits to a byte, the lowest first, the top bit set on all *)
(* bytes but the last.                                                     *)

WriteVarint(n) ==
  LET from[v \in 0..n] ==
        IF v < 128 THEN <<v>> ELSE <<128 + (v % 128)>> \o from[v \div 128]
  IN  from[n]

(* The last byte of the number that begins at i.                           *)
VarintEnd(b, i) ==
  CHOOSE j \in i..Len(b) : b[j] < 128 /\ \A k \in i..(j-1) : b[k] >= 128

ReadVarint(b, i) ==
  FoldRight(LAMBDA byte, n : (byte % 128) + 128 * n, SubSeq(b, i, VarintEnd(b, i)), 0)

-----------------------------------------------------------------------------
(* Strings: UTF-8 of the code points that the units stand for.             *)

IsHigh(d) == d \in 55296..56319
IsLow(d) == d \in 56320..57343
Pair(d, e) == 65536 + 1024 * (d - 55296) + (e - 56320)

(* The i-th last byte of a code point, after the first byte.               *)
Rest(p, i) == 128 + ((p \div (64^(i-1))) % 64)

(* Mutant: the units of a pair are written one by one.                     *)
WriteStringByUnits(u) ==
  FlattenSeq([i \in DOMAIN u |->
    LET d == u[i] IN
    IF d < 128 THEN <<d>>
    ELSE IF d < 2048 THEN <<192 + d \div 64, Rest(d, 1)>>
    ELSE <<224 + d \div 4096, Rest(d, 2), Rest(d, 1)>>])

(* A high unit that is not the last is written with the next one, or not   *)
(* at all if that is no low one.                                           *)
WriteString(u) ==
  LET from[i \in 1..(Len(u) + 2)] ==
        IF i > Len(u) THEN <<>>
        ELSE LET d == u[i] IN
          IF d < 128 THEN <<d>> \o from[i + 1]
          ELSE IF d < 2048 THEN <<192 + d \div 64, Rest(d, 1)>> \o from[i + 1]
          ELSE IF ~ (IsHigh(d) /\ i < Len(u))
            THEN <<224 + d \div 4096, Rest(d, 2), Rest(d, 1)>> \o from[i + 1]
          ELSE IF ~ IsLow(u[i + 1]) THEN from[i + 1]
          ELSE LET p == Pair(d, u[i + 1]) IN
            <<240 + p \div 262144, Rest(p, 3), Rest(p, 2), Rest(p, 1)>> \o from[i + 2]
  IN  from[1]

(* The pair of units of a code point.  Mutant: its lower half.             *)
UnitsTruncated(p) == <<p % 65536>>
Units(p) == <<55296 + (((p - 65536) \div 1024) % 1024), 56320 + (p % 1024)>>

(* Bytes that begin no character are passed over.                          *)
ReadString(b) ==
  LET tail(i, k) == b[i + k] % 64
      from[i \in 1..(Len(b) + 4)] ==
        IF i > Len(b) THEN <<>>
        ELSE LET f == b[i] IN
          IF f < 128 THEN <<f>> \o from[i + 1]
          ELSE IF f < 192 \/ f > 247 THEN from[i + 1]
          ELSE IF f < 224 THEN <<(f % 32) * 64 + tail(i, 1)>> \o from[i + 2]
          ELSE IF f < 240
            THEN <<(f % 16) * 4096 + tail(i, 1) * 64 + tail(i, 2)>> \o from[i + 3]
          ELSE Units((f % 8) * 262144 + tail(i, 1) * 4096 + tail(i, 2) * 64 + tail(i, 3))
                 \o from[i + 4]
  IN  from[1]

(* What Java's encoder writes for a text without unpaired surrogates.      *)
WellFormed(u) ==
  \A i \in DOMAIN u :
    /\ IsHigh(u[i]) => i < Len(u) /\ IsLow(u[i + 1])
    /\ IsLow(u[i]) => i > 1 /\ IsHigh(u[i - 1])

Utf8(u) ==
  FlattenSeq([i \in DOMAIN u |->
    LET p == IF IsHigh(u[i]) THEN Pair(u[i], u[i + 1]) ELSE u[i]
        more == CHOOSE k \in 0..3 : p < <<128, 2048, 65536, 1114112>>[k + 1]
                                    /\ \A l \in 0..(k-1) : p >= <<128, 2048, 65536>>[l + 1]
        first == <<0, 192, 224, 240>>[more + 1] + p \div (64^more)
    IN  IF IsLow(u[i]) THEN <<>>
        ELSE <<first>> \o [k \in 1..more |-> Rest(p, more + 1 - k)]])

-----------------------------------------------------------------------------
(* Base64: a character is its number in the alphabet, and 64 the padding.  *)

EncodeByteArray(b) ==
  FlattenSeq([n \in 1..((Len(b) + 2) \div 3) |->
    LET byte(k) == IF 3 * n - 3 + k <= Len(b) THEN b[3 * n - 3 + k] ELSE 0
    IN  <<byte(1) \div 4, (byte(1) % 4) * 16 + byte(2) \div 16,
          IF 3 * n - 1 > Len(b) THEN 64 ELSE (byte(2) % 16) * 4 + byte(3) \div 64,
          IF 3 * n > Len(b) THEN 64 ELSE byte(3) % 64>>])

DecodeString(s) ==
  FlattenSeq([n \in 1..(Len(s) \div 4) |->
    LET e == s[4 * n - 3]  f == s[4 * n - 2]  g == s[4 * n - 1]  h == s[4 * n]
    IN  <<e * 4 + f \div 16>>
          \o (IF g = 64 THEN <<>> ELSE <<(f % 16) * 16 + g \div 4>>)
          \o (IF g = 64 \/ h = 64 THEN <<>> ELSE <<(g % 4) * 64 + h>>)])

-----------------------------------------------------------------------------
(* Fields: a header with the field's number and the kind of its value, and *)
(* the value; a string or byte string comes after its length in bytes.     *)

IsNumber(as) == as \in {"enum", "uint32"}
Default(as) == IF IsNumber(as) THEN 0 ELSE <<>>
Header(no, as) == WriteVarint(8 * no + (IF IsNumber(as) THEN 0 ELSE 2))

Payload(lang, as, v) ==
  IF as = "bytes" THEN v ELSE IF lang = "java" THEN Utf8(v) ELSE WriteString(v)

WriteField(lang, no, as, v) ==
  Header(no, as) \o (IF IsNumber(as) THEN WriteVarint(v)
                     ELSE WriteVarint(Len(Payload(lang, as, v))) \o Payload(lang, as, v))

(* The field that begins at i: its header, its number or bytes, and where  *)
(* the next one begins.                                                    *)
ReadField(b, i) ==
  LET header == ReadVarint(b, i)
      value  == VarintEnd(b, i) + 1
      number == ReadVarint(b, value)
      after  == VarintEnd(b, value) + 1
  IN  IF header % 8 = 0
      THEN [header |-> header, raw |-> number, next |-> after]
      ELSE [header |-> header, raw |-> SubSeq(b, after, after + number - 1),
            next |-> after + number]

Fields(b) ==
  LET from[i \in 1..(Len(b) + 1)] ==
        IF i > Len(b) THEN <<>>
        ELSE LET f == ReadField(b, i) IN <<f>> \o from[f.next]
  IN  from[1]

-----------------------------------------------------------------------------
(* Messages.  A class has the numbers its accessors use, the rows of its   *)
(* serializer in order, the cases of its parser, and the numbers its       *)
(* object form uses.  A field that is absent has the default of its kind,  *)
(* and setting that makes it absent, so the array holds the default then.  *)

F(no, as, name) == [no |-> no, as |-> as, name |-> name]

New(class) ==
  [n \in 1..5 |-> Default((CHOOSE r \in class.reads : class.fields[r.name] = n).as)]
Get(class, m, name) == m[class.fields[name]]
Set(class, m, name, v) == [m EXCEPT ![class.fields[name]] = v]

(* serializeBinaryToWriter, and writeTo: fields with defaults are left out. *)
Serialize(class, m) ==
  FlattenSeq([k \in DOMAIN class.writes |->
    LET r == class.writes[k]
        v == Get(class, m, r.name)
    IN  IF v = Default(r.as) THEN <<>> ELSE WriteField(class.lang, r.no, r.as, v)])

(* deserializeBinaryFromReader, which looks at the number of a field, and  *)
(* Java's parser, which looks at its whole header.  Others are skipped.    *)
Deserialize(class, b) ==
  LET take(m, f) ==
        LET on == IF class.lang = "java" THEN f.header ELSE f.header \div 8
            cases == {r \in class.reads : r.no = on}
        IN  IF cases = {} THEN m
            ELSE LET r == CHOOSE r \in cases : TRUE IN
                 Set(class, m, r.name,
                     IF r.as = "string" THEN ReadString(f.raw) ELSE f.raw)
  IN  FoldLeft(take, New(class), Fields(b))

(* toObject: byte strings in base64.                                       *)
ToObject(class, m) ==
  [name \in DOMAIN class.object |->
    IF name \in class.base64
    THEN EncodeByteArray(m[class.object[name]]) ELSE m[class.object[name]]]

=============================================================================
