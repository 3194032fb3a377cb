--------------------------- MODULE TransportProofs ---------------------------
(***************************************************************************)
(* Proofs about the way of a text: that ProtoCodec cuts the stream where   *)
(* it was put together, whatever pieces it arrives in, and that a text is  *)
(* in one place at a time on its way.                                      *)
(***************************************************************************)
EXTENDS Transport, SequenceTheorems, TLAPS

(* What the codecs do with a text is not proved here: it is given.         *)
AllComeThrough == NoticesComeThrough /\ \A t \in Texts : ComesThrough(t)

Body(m) == Serialize(JavaModel, m)
DataMessages == {Stored(t) : t \in Texts}
Message == DataMessages \cup {Hello}

-----------------------------------------------------------------------------
(* Sequences.                                                              *)

LEMMA Joined ==
  ASSUME NEW T, NEW s \in Seq(T), NEW t \in Seq(T)
  PROVE  /\ s \o t \in Seq(T) /\ Len(s \o t) = Len(s) + Len(t)
         /\ \A i \in 1..Len(s) : (s \o t)[i] = s[i]
         /\ \A j \in 1..Len(t) : (s \o t)[Len(s) + j] = t[j]
OBVIOUS

LEMMA Extended ==
  ASSUME NEW T, NEW s \in Seq(T), NEW e \in T
  PROVE  /\ Append(s, e) \in Seq(T) /\ Len(Append(s, e)) = Len(s) + 1
         /\ \A i \in 1..Len(s) : Append(s, e)[i] = s[i]
         /\ Append(s, e)[Len(s) + 1] = e
OBVIOUS

LEMMA Shortened ==
  ASSUME NEW T, NEW s \in Seq(T), s # <<>>
  PROVE  /\ Head(s) = s[1] /\ s[1] \in T /\ Len(s) >= 1
         /\ Tail(s) \in Seq(T) /\ Len(Tail(s)) = Len(s) - 1
         /\ \A i \in 1..(Len(s) - 1) : Tail(s)[i] = s[i + 1]
OBVIOUS

LEMMA Cut ==
  ASSUME NEW T, NEW s \in Seq(T), NEW k \in 0..Len(s)
  PROVE  /\ SubSeq(s, 1, k) \in Seq(T) /\ Len(SubSeq(s, 1, k)) = k
         /\ \A i \in 1..k : SubSeq(s, 1, k)[i] = s[i]
         /\ SubSeq(s, k + 1, Len(s)) \in Seq(T)
         /\ Len(SubSeq(s, k + 1, Len(s))) = Len(s) - k
         /\ \A i \in 1..(Len(s) - k) : SubSeq(s, k + 1, Len(s))[i] = s[k + i]
OBVIOUS

LEMMA Removed ==
  ASSUME NEW T, NEW s \in Seq(T), NEW i \in 1..Len(s)
  PROVE  /\ RemoveAt(s, i) \in Seq(T) /\ Len(RemoveAt(s, i)) = Len(s) - 1
         /\ \A k \in 1..(Len(s) - 1) :
              /\ k < i => RemoveAt(s, i)[k] = s[k]
              /\ k >= i => RemoveAt(s, i)[k] = s[k + 1]
<1> DEFINE front == SubSeq(s, 1, i - 1)
           back == SubSeq(s, i + 1, Len(s))
<1>1. /\ front \in Seq(T) /\ Len(front) = i - 1
      /\ \A k \in 1..(i - 1) : front[k] = s[k]
  BY Cut
<1>2. /\ back \in Seq(T) /\ Len(back) = Len(s) - i
      /\ \A k \in 1..(Len(s) - i) : back[k] = s[i + k]
  BY Cut
<1>3. RemoveAt(s, i) = front \o back
  BY DEF RemoveAt
<1> HIDE DEF front, back
<1>4. /\ front \o back \in Seq(T) /\ Len(front \o back) = Len(front) + Len(back)
      /\ \A k \in 1..Len(front) : (front \o back)[k] = front[k]
      /\ \A j \in 1..Len(back) : (front \o back)[Len(front) + j] = back[j]
  <2>1. front \in Seq(T) /\ back \in Seq(T)
    BY <1>1, <1>2
  <2> QED
    BY ONLY <2>1, Joined
<1>5. ASSUME NEW k \in 1..(Len(s) - 1), k >= i
      PROVE  (front \o back)[k] = s[k + 1]
  <2>1. k - (i - 1) \in 1..(Len(s) - i) /\ k = (i - 1) + (k - (i - 1))
    BY <1>5
  <2>2. (front \o back)[k] = back[k - (i - 1)]
    <3>1. k - (i - 1) \in 1..Len(back) /\ Len(front) = i - 1
      BY <1>1, <1>2, <2>1
    <3>2. (front \o back)[Len(front) + (k - (i - 1))] = back[k - (i - 1)]
      BY <1>4, <3>1
    <3> QED
      BY <2>1, <3>1, <3>2
  <2> QED
    BY <1>2, <2>1, <2>2
<1> QED
  BY <1>1, <1>2, <1>3, <1>4, <1>5

(* What is taken from one end and put to the other is still there.         *)
LEMMA MovedOver ==
  ASSUME NEW T, NEW s \in Seq(T), NEW t \in Seq(T), NEW k \in 0..Len(t)
  PROVE  (s \o SubSeq(t, 1, k)) \o SubSeq(t, k + 1, Len(t)) = s \o t
<1> DEFINE front == SubSeq(t, 1, k)
           back == SubSeq(t, k + 1, Len(t))
<1>1. front \in Seq(T) /\ back \in Seq(T)
  BY Cut
<1>2. front \o back = t
  <2>1. /\ Len(front) = k /\ \A i \in 1..k : front[i] = t[i]
        /\ Len(back) = Len(t) - k /\ \A i \in 1..(Len(t) - k) : back[i] = t[k + i]
    BY Cut
  <2> HIDE DEF front, back
  <2>2. /\ front \o back \in Seq(T) /\ Len(front \o back) = Len(front) + Len(back)
        /\ \A i \in 1..Len(front) : (front \o back)[i] = front[i]
        /\ \A j \in 1..Len(back) : (front \o back)[Len(front) + j] = back[j]
    BY ONLY <1>1, Joined
  <2>3. ASSUME NEW i \in 1..Len(t) PROVE (front \o back)[i] = t[i]
    <3>1. CASE i <= k
      BY <2>1, <2>2, <3>1
    <3>2. CASE ~ (i <= k)
      <4>1. /\ i - k \in 1..(Len(t) - k) /\ i - k \in 1..Len(back)
            /\ k + (i - k) = i /\ Len(front) = k
        BY <2>1, <3>2
      <4>2. (front \o back)[Len(front) + (i - k)] = back[i - k]
        BY <2>2, <4>1
      <4>3. back[i - k] = t[k + (i - k)]
        BY <2>1, <4>1
      <4> QED
        BY <4>1, <4>2, <4>3
    <3> QED
      BY <3>1, <3>2
  <2>4. Len(front \o back) = Len(t)
    BY <2>1, <2>2
  <2> QED
    BY <2>2, <2>3, <2>4, SeqEqual
<1> HIDE DEF front, back
<1>3. (s \o front) \o back = s \o (front \o back)
  <2>1. s \in Seq(T)
    OBVIOUS
  <2> QED
    BY ONLY SMTT(20), <1>1, <2>1, ConcatAssociative
<1> QED
  BY <1>2, <1>3 DEF front, back

LEMMA CutInFront ==
  ASSUME NEW T, NEW s \in Seq(T), NEW t \in Seq(T), NEW k \in 0..Len(s)
  PROVE  SubSeq(s, k + 1, Len(s)) \o t = SubSeq(s \o t, k + 1, Len(s \o t))
<1> DEFINE back == SubSeq(s, k + 1, Len(s))
           all == s \o t
           rest == SubSeq(all, k + 1, Len(all))
<1>1. /\ back \in Seq(T) /\ Len(back) = Len(s) - k
      /\ \A i \in 1..(Len(s) - k) : back[i] = s[k + i]
  BY Cut
<1>2. /\ all \in Seq(T) /\ Len(all) = Len(s) + Len(t)
      /\ \A i \in 1..Len(s) : all[i] = s[i]
      /\ \A j \in 1..Len(t) : all[Len(s) + j] = t[j]
  BY Joined
<1> HIDE DEF back, all
<1>3. /\ rest \in Seq(T) /\ Len(rest) = Len(all) - k
      /\ \A i \in 1..(Len(all) - k) : rest[i] = all[k + i]
  <2>1. k \in 0..Len(all)
    BY <1>2
  <2> QED
    BY <1>2, <2>1, Cut
<1>4. /\ back \o t \in Seq(T) /\ Len(back \o t) = Len(back) + Len(t)
      /\ \A i \in 1..Len(back) : (back \o t)[i] = back[i]
      /\ \A j \in 1..Len(t) : (back \o t)[Len(back) + j] = t[j]
  <2>1. back \in Seq(T) /\ t \in Seq(T)
    BY <1>1
  <2> QED
    BY ONLY <2>1, Joined
<1> HIDE DEF rest
<1>5. Len(back \o t) = Len(rest)
  BY <1>1, <1>2, <1>3, <1>4
<1>6. ASSUME NEW i \in 1..Len(rest) PROVE (back \o t)[i] = rest[i]
  <2>1. /\ rest[i] = all[k + i] /\ i \in 1..(Len(s) + Len(t) - k)
        /\ i \in Int /\ Len(s) - k \in Int
    BY <1>2, <1>3
  <2>2. CASE i <= Len(s) - k
    <3>1. i \in 1..Len(back) /\ i \in 1..(Len(s) - k) /\ k + i \in 1..Len(s)
      BY <1>1, <2>1, <2>2
    <3> QED
      BY ONLY <1>1, <1>2, <1>4, <2>1, <3>1
  <2>3. CASE ~ (i <= Len(s) - k)
    <3>1. /\ i - (Len(s) - k) \in 1..Len(t) /\ i = Len(back) + (i - (Len(s) - k))
          /\ k + i = Len(s) + (i - (Len(s) - k))
      BY <1>1, <2>1, <2>3
    <3>2. (back \o t)[Len(back) + (i - (Len(s) - k))] = t[i - (Len(s) - k)]
      BY <1>4, <3>1
    <3>3. all[Len(s) + (i - (Len(s) - k))] = t[i - (Len(s) - k)]
      BY <1>2, <3>1
    <3> QED
      BY <2>1, <3>1, <3>2, <3>3
  <2> QED
    BY <2>1, <2>2, <2>3
<1> QED
  BY <1>3, <1>4, <1>5, <1>6, SeqEqual DEF back, all, rest

(* What the rest of a sequence becomes when it grows, and when its first   *)
(* element is taken.                                                       *)
LEMMA RestGrown ==
  ASSUME NEW T, NEW s \in Seq(T), NEW r \in 0..Len(s), NEW e \in T
  PROVE  SubSeq(Append(s, e), r + 1, Len(Append(s, e)))
           = Append(SubSeq(s, r + 1, Len(s)), e)
<1> DEFINE s2 == Append(s, e)
           rest == SubSeq(s, r + 1, Len(s))
           rest2 == SubSeq(s2, r + 1, Len(s2))
<1>1. /\ s2 \in Seq(T) /\ Len(s) \in Nat /\ Len(s2) = Len(s) + 1
      /\ \A i \in 1..Len(s) : s2[i] = s[i]
      /\ s2[Len(s) + 1] = e
  BY Extended
<1> HIDE DEF s2
<1>2. /\ rest \in Seq(T) /\ Len(rest) = Len(s) - r
      /\ \A i \in 1..(Len(s) - r) : rest[i] = s[r + i]
  BY Cut
<1>3. r \in 0..Len(s2)
  BY <1>1
<1>4. /\ rest2 \in Seq(T) /\ Len(rest2) = Len(s2) - r
      /\ \A i \in 1..(Len(s2) - r) : rest2[i] = s2[r + i]
  BY <1>1, <1>3, Cut
<1> HIDE DEF rest, rest2
<1>5. /\ Append(rest, e) \in Seq(T) /\ Len(Append(rest, e)) = Len(rest) + 1
      /\ \A i \in 1..Len(rest) : Append(rest, e)[i] = rest[i]
      /\ Append(rest, e)[Len(rest) + 1] = e
  BY <1>2, Extended
<1>6. Len(rest2) = Len(Append(rest, e))
  BY <1>1, <1>2, <1>4, <1>5
<1>7. ASSUME NEW i \in 1..Len(rest2) PROVE rest2[i] = Append(rest, e)[i]
  <2>1. i \in 1..(Len(s2) - r) /\ rest2[i] = s2[r + i]
    BY <1>4
  <2>2. CASE i \in 1..Len(rest)
    <3>1. r + i \in 1..Len(s) /\ i \in 1..(Len(s) - r)
      BY <1>2, <2>2
    <3> QED
      BY <1>1, <1>2, <1>5, <2>1, <2>2, <3>1
  <2>3. CASE i = Len(rest) + 1
    <3>1. r + i = Len(s) + 1
      BY <1>1, <1>2, <2>3
    <3> QED
      BY <1>1, <1>5, <2>1, <2>3, <3>1
  <2>4. i \in 1..Len(rest) \/ i = Len(rest) + 1
    BY <1>1, <1>2, <1>4
  <2> QED
    BY <2>2, <2>3, <2>4
<1>8. rest2 = Append(rest, e)
  BY ONLY <1>4, <1>5, <1>6, <1>7, SeqEqual
<1> QED
  BY <1>8 DEF rest, rest2, s2

LEMMA RestShortened ==
  ASSUME NEW T, NEW s \in Seq(T), NEW r \in Nat, r < Len(s)
  PROVE  /\ SubSeq(s, r + 1, Len(s)) # <<>>
         /\ Head(SubSeq(s, r + 1, Len(s))) = s[r + 1]
         /\ SubSeq(s, (r + 1) + 1, Len(s)) = Tail(SubSeq(s, r + 1, Len(s)))
<1> DEFINE rest == SubSeq(s, r + 1, Len(s))
           next == SubSeq(s, (r + 1) + 1, Len(s))
<1>1. r \in 0..Len(s) /\ r + 1 \in 0..Len(s) /\ Len(s) \in Nat
  OBVIOUS
<1>2. /\ rest \in Seq(T) /\ Len(rest) = Len(s) - r
      /\ \A i \in 1..(Len(s) - r) : rest[i] = s[r + i]
  BY <1>1, Cut
<1>3. /\ next \in Seq(T) /\ Len(next) = Len(s) - (r + 1)
      /\ \A i \in 1..(Len(s) - (r + 1)) : next[i] = s[(r + 1) + i]
  BY <1>1, Cut
<1> HIDE DEF rest, next
<1>4. rest # <<>>
  <2>1. Len(rest) # 0
    BY <1>1, <1>2
  <2> QED
    BY <2>1
<1>5. /\ Head(rest) = rest[1] /\ Tail(rest) \in Seq(T) /\ Len(Tail(rest)) = Len(rest) - 1
      /\ \A i \in 1..(Len(rest) - 1) : Tail(rest)[i] = rest[i + 1]
  BY <1>2, <1>4, Shortened
<1>6. Head(rest) = s[r + 1]
  <2>1. 1 \in 1..(Len(s) - r)
    BY <1>1
  <2> QED
    BY <1>2, <1>5, <2>1
<1>7. Len(next) = Len(Tail(rest))
  BY <1>1, <1>2, <1>3, <1>5
<1>8. ASSUME NEW i \in 1..Len(next) PROVE next[i] = Tail(rest)[i]
  <2>1. /\ i \in 1..(Len(s) - (r + 1)) /\ i \in 1..(Len(rest) - 1)
        /\ i + 1 \in 1..(Len(s) - r) /\ (r + 1) + i = r + (i + 1)
    BY <1>1, <1>2, <1>3
  <2> QED
    BY <1>2, <1>3, <1>5, <2>1
<1>9. next = Tail(rest)
  BY ONLY <1>3, <1>5, <1>7, <1>8, SeqEqual
<1> QED
  BY <1>4, <1>6, <1>9 DEF rest, next

-----------------------------------------------------------------------------
(* The bytes of one message.                                               *)

LEMMA Bytes ==
  ASSUME NEW n \in Nat
  PROVE  /\ n \div 256 \in Nat /\ n % 256 \in Byte
         /\ n = (n \div 256) * 256 + (n % 256)
BY SMT DEF Byte

LEMMA HighBytes ==
  ASSUME NEW n \in Nat, n <= MaxInt
  PROVE  /\ n \div 65536 = (n \div 256) \div 256
         /\ n \div 16777216 = (n \div 65536) \div 256
         /\ n \div 16777216 \in Byte
BY SMT DEF MaxInt, Byte

(* The four bytes of a length stand for it.                                *)
LEMMA Int4Reads ==
  ASSUME NEW n \in Nat, n <= MaxInt
  PROVE  /\ Int4(n) \in Seq(Byte) /\ Len(Int4(n)) = 4
         /\ ((Int4(n)[1] * 256 + Int4(n)[2]) * 256 + Int4(n)[3]) * 256 + Int4(n)[4] = n
<1>1. PICK a \in Nat, b \in Nat, c \in Byte :
        /\ n = a * 256 + (n % 256) /\ n % 256 \in Byte
        /\ a = b * 256 + (a % 256) /\ a % 256 \in Byte
        /\ b = c * 256 + (b % 256) /\ b % 256 \in Byte
        /\ Int4(n) = <<c, b % 256, a % 256, n % 256>>
  <2>1. PICK a : a = n \div 256
    OBVIOUS
  <2>2. PICK b : b = n \div 65536
    BY SMT
  <2>3. PICK c : c = n \div 16777216
    BY SMT
  <2>4. b = a \div 256 /\ c = b \div 256 /\ c \in Byte
    BY SMT, HighBytes, <2>1, <2>2, <2>3
  <2>5. Int4(n) = <<c, b % 256, a % 256, n % 256>>
    BY SMT, <2>1, <2>2, <2>3 DEF Int4
  <2>6. a \in Nat /\ n = a * 256 + (n % 256) /\ n % 256 \in Byte
    BY <2>1, Bytes
  <2>7. b \in Nat /\ a = b * 256 + (a % 256) /\ a % 256 \in Byte
    BY <2>4, <2>6, Bytes
  <2>8. b = c * 256 + (b % 256) /\ b % 256 \in Byte
    BY <2>4, <2>7, Bytes
  <2> QED
    BY <2>4, <2>5, <2>6, <2>7, <2>8
<1>2. /\ Int4(n)[1] = c /\ Int4(n)[2] = b % 256
      /\ Int4(n)[3] = a % 256 /\ Int4(n)[4] = n % 256
  BY <1>1
<1>3. Int4(n) \in Seq(Byte) /\ Len(Int4(n)) = 4
  BY <1>1
<1>4. ((c * 256 + (b % 256)) * 256 + (a % 256)) * 256 + (n % 256) = n
  BY <1>1 DEF Byte
<1> QED
  BY <1>2, <1>3, <1>4

LEMMA MessageBodies ==
  ASSUME AllComeThrough, NEW m \in Message
  PROVE  IsMessage(Body(m)) /\ Deserialize(JavaModel, Body(m)) = m
BY DEF AllComeThrough, NoticesComeThrough, ComesThrough, Message, DataMessages, Body, Downward

(* A message on the stream begins with the magic byte and the length of    *)
(* its body, which follows.                                                *)
LEMMA EncodeShape ==
  ASSUME AllComeThrough, NEW m \in Message
  PROVE  /\ Body(m) \in Seq(Byte) /\ Encode(m) \in Seq(Byte)
         /\ Len(Encode(m)) = 5 + Len(Body(m))
         /\ Encode(m)[1] = Magic /\ Length(Encode(m)) = Len(Body(m))
         /\ \A j \in 1..Len(Body(m)) : Encode(m)[5 + j] = Body(m)[j]
<1> DEFINE body == Body(m)
           first == <<Magic>>
           size == Int4(Len(body))
<1> HIDE DEF size
<1>1. body \in Seq(Byte) /\ Len(body) \in Nat /\ Len(body) <= MaxInt
  <2>1. IsMessage(body)
    BY MessageBodies
  <2> HIDE DEF body
  <2> QED
    BY <2>1 DEF IsMessage
<1>2. /\ size \in Seq(Byte) /\ Len(size) = 4
      /\ ((size[1] * 256 + size[2]) * 256 + size[3]) * 256 + size[4] = Len(body)
  BY <1>1, Int4Reads DEF size
<1>3. Encode(m) = first \o size \o body
  BY DEF Encode, Body, size
<1>4. first \in Seq(Byte) /\ Len(first) = 1 /\ first[1] = Magic
  BY DEF Magic, Byte
<1> HIDE DEF body, first, size
<1>5. /\ first \o size \in Seq(Byte) /\ Len(first \o size) = 5
      /\ (first \o size)[1] = Magic
      /\ (first \o size)[2] = size[1] /\ (first \o size)[3] = size[2]
      /\ (first \o size)[4] = size[3] /\ (first \o size)[5] = size[4]
  <2>1. first \in Seq(Byte) /\ size \in Seq(Byte)
    BY <1>2, <1>4
  <2>2. /\ first \o size \in Seq(Byte) /\ Len(first \o size) = Len(first) + Len(size)
        /\ \A i \in 1..Len(first) : (first \o size)[i] = first[i]
        /\ \A j \in 1..Len(size) : (first \o size)[Len(first) + j] = size[j]
    BY ONLY <2>1, Joined
  <2> QED
    BY <1>2, <1>4, <2>2
<1>6. /\ Encode(m) \in Seq(Byte) /\ Len(Encode(m)) = 5 + Len(body)
      /\ \A i \in 1..5 : Encode(m)[i] = (first \o size)[i]
      /\ \A j \in 1..Len(body) : Encode(m)[5 + j] = body[j]
  <2>1. first \o size \in Seq(Byte) /\ body \in Seq(Byte)
    BY <1>1, <1>5
  <2> DEFINE head == first \o size
  <2> HIDE DEF head
  <2>2. /\ head \o body \in Seq(Byte) /\ Len(head \o body) = Len(head) + Len(body)
        /\ \A i \in 1..Len(head) : (head \o body)[i] = head[i]
        /\ \A j \in 1..Len(body) : (head \o body)[Len(head) + j] = body[j]
    BY <2>1, Joined DEF head
  <2>3. Len(head) = 5 /\ Encode(m) = head \o body
    BY <1>3, <1>5 DEF head
  <2> QED
    BY <2>2, <2>3 DEF head
<1>7. Encode(m)[1] = Magic
  BY <1>5, <1>6
<1>8. /\ Encode(m)[2] = size[1] /\ Encode(m)[3] = size[2]
      /\ Encode(m)[4] = size[3] /\ Encode(m)[5] = size[4]
  <2>1. Encode(m)[2] = size[1]
    BY <1>5, <1>6
  <2>2. Encode(m)[3] = size[2]
    BY <1>5, <1>6
  <2>3. Encode(m)[4] = size[3]
    BY <1>5, <1>6
  <2>4. Encode(m)[5] = size[4]
    BY <1>5, <1>6
  <2> QED
    BY <2>1, <2>2, <2>3, <2>4
<1>9. Length(Encode(m)) = Len(body)
  BY <1>2, <1>8 DEF Length
<1> QED
  BY <1>1, <1>6, <1>7, <1>9 DEF body

-----------------------------------------------------------------------------
(* The bytes of the messages after the first r of s: cut[i] of them belong *)
(* to the messages up to the i-th.                                         *)
Cuts(cut, r, b, s) ==
  /\ cut \in [r..Len(s) -> Nat] /\ cut[r] = 0 /\ cut[Len(s)] = Len(b)
  /\ \A i, j \in r..Len(s) : i <= j => cut[i] <= cut[j]
  /\ \A i \in (r + 1)..Len(s) :
       /\ cut[i] = cut[i - 1] + Len(Encode(s[i]))
       /\ \A j \in 1..Len(Encode(s[i])) : b[cut[i - 1] + j] = Encode(s[i])[j]

(* One more message is written behind the others.                          *)
LEMMA CutsExtended ==
  ASSUME AllComeThrough, NEW b \in Seq(Byte), NEW s \in Seq(Message),
         NEW r \in 0..Len(s), NEW cut, Cuts(cut, r, b, s), NEW m \in Message
  PROVE  \E next : Cuts(next, r, b \o Encode(m), Append(s, m))
<1> DEFINE n == Len(s)
           code == Encode(m)
           s2 == Append(s, m)
           b2 == b \o code
           next == [i \in r..(n + 1) |-> IF i <= n THEN cut[i] ELSE Len(b) + Len(code)]
<1>1. code \in Seq(Byte) /\ Len(code) \in Nat
  BY EncodeShape
<1>2. /\ n \in Nat /\ Len(s2) = n + 1 /\ s2[n + 1] = m
      /\ \A i \in 1..n : s2[i] = s[i]
  BY Extended
<1> HIDE DEF code, s2
<1>3. /\ Len(b2) = Len(b) + Len(code) /\ Len(b) \in Nat
      /\ \A i \in 1..Len(b) : b2[i] = b[i]
      /\ \A j \in 1..Len(code) : b2[Len(b) + j] = code[j]
  BY <1>1, Joined
<1> HIDE DEF n, b2
<1>4. /\ r \in 0..n /\ cut \in [r..n -> Nat] /\ cut[r] = 0 /\ cut[n] = Len(b)
      /\ \A i, j \in r..n : i <= j => cut[i] <= cut[j]
      /\ \A i \in (r + 1)..n :
           /\ cut[i] = cut[i - 1] + Len(Encode(s[i]))
           /\ \A j \in 1..Len(Encode(s[i])) : b[cut[i - 1] + j] = Encode(s[i])[j]
  BY DEF Cuts, n
<1>5. \A i \in r..n : cut[i] \in Nat /\ cut[i] <= Len(b)
  BY <1>2, <1>4
<1>6. /\ next \in [r..(n + 1) -> Nat] /\ next[r] = 0 /\ next[n + 1] = Len(b2)
      /\ \A i \in r..n : next[i] = cut[i]
  BY <1>1, <1>2, <1>3, <1>4, <1>5
<1> HIDE DEF next
<1>7. ASSUME NEW i \in r..(n + 1), NEW j \in r..(n + 1), i <= j
      PROVE  next[i] <= next[j]
  <2>1. CASE j <= n
    <3>1. i \in r..n /\ j \in r..n
      BY <1>2, <1>4, <1>7, <2>1
    <3> QED
      BY <1>4, <1>6, <1>7, <3>1
  <2>2. CASE j > n /\ i <= n
    <3>1. i \in r..n /\ j = n + 1
      BY <1>2, <1>4, <1>7, <2>2
    <3> QED
      BY SMTT(20), <1>1, <1>3, <1>5, <1>6, <3>1
  <2>3. CASE i > n
    <3>1. i = n + 1 /\ j = n + 1
      BY <1>2, <1>4, <1>7, <2>3
    <3> QED
      BY <1>1, <1>3, <1>6, <3>1
  <2> QED
    BY <1>2, <1>4, <2>1, <2>2, <2>3
<1>8. ASSUME NEW i \in (r + 1)..n
      PROVE  /\ next[i] = next[i - 1] + Len(Encode(s2[i]))
             /\ \A j \in 1..Len(Encode(s2[i])) : b2[next[i - 1] + j] = Encode(s2[i])[j]
  <2>1. i \in r..n /\ i - 1 \in r..n /\ i \in 1..n
    BY <1>2, <1>4
  <2>2. s2[i] = s[i] /\ next[i] = cut[i] /\ next[i - 1] = cut[i - 1]
    BY <1>2, <1>6, <2>1
  <2>3. s[i] \in Message
    <3>1. i \in 1..Len(s) /\ s \in Seq(Message)
      BY <2>1 DEF n
    <3> QED
      BY ONLY <3>1, ElementOfSeq
  <2>4. Encode(s[i]) \in Seq(Byte) /\ Len(Encode(s[i])) \in Nat
    <3>1. Encode(s[i]) \in Seq(Byte)
      BY ONLY <2>3, AllComeThrough, EncodeShape
    <3> QED
      BY ONLY <3>1, LenProperties
  <2>5. /\ cut[i] = cut[i - 1] + Len(Encode(s[i]))
        /\ \A j \in 1..Len(Encode(s[i])) : b[cut[i - 1] + j] = Encode(s[i])[j]
    BY <1>4
  <2>6. \A j \in 1..Len(Encode(s[i])) : cut[i - 1] + j \in 1..Len(b)
    <3>1. cut[i - 1] \in Nat /\ cut[i] <= Len(b)
      BY <1>5, <2>1
    <3> QED
      BY SMTT(20), <1>3, <2>4, <2>5, <3>1
  <2> QED
    BY <1>3, <2>2, <2>5, <2>6
<1>9. /\ next[n + 1] = next[n] + Len(Encode(s2[n + 1]))
      /\ \A j \in 1..Len(Encode(s2[n + 1])) : b2[next[n] + j] = Encode(s2[n + 1])[j]
  <2>1. n \in r..n /\ next[n] = Len(b)
    BY <1>2, <1>4, <1>6
  <2>2. Encode(s2[n + 1]) = code
    BY <1>2 DEF code
  <2> QED
    BY <1>3, <1>6, <2>1, <2>2
<1>10. \A i \in (r + 1)..(n + 1) :
         /\ next[i] = next[i - 1] + Len(Encode(s2[i]))
         /\ \A j \in 1..Len(Encode(s2[i])) : b2[next[i - 1] + j] = Encode(s2[i])[j]
  <2> SUFFICES ASSUME NEW i \in (r + 1)..(n + 1)
               PROVE  /\ next[i] = next[i - 1] + Len(Encode(s2[i]))
                      /\ \A j \in 1..Len(Encode(s2[i])) :
                           b2[next[i - 1] + j] = Encode(s2[i])[j]
    OBVIOUS
  <2>1. i \in (r + 1)..n \/ (i = n + 1 /\ i - 1 = n)
    BY <1>2, <1>4
  <2> QED
    BY <1>8, <1>9, <2>1
<1>11. Cuts(next, r, b2, s2)
  BY <1>2, <1>6, <1>7, <1>10 DEF Cuts
<1> QED
  BY <1>11 DEF b2, s2, code

LEMMA WithinRest ==
  ASSUME NEW a \in Nat, NEW c \in Nat, NEW size \in Nat, NEW l \in Nat, NEW e \in Nat,
         c = a + size, e <= a, c <= l, NEW j \in 1..size
  PROVE  (a - e) + j \in 1..(l - e) /\ e + ((a - e) + j) = a + j
OBVIOUS

(* The first message is taken off.                                         *)
LEMMA CutsShortened ==
  ASSUME AllComeThrough, NEW b \in Seq(Byte), NEW s \in Seq(Message),
         NEW r \in 0..Len(s), r < Len(s), NEW cut, Cuts(cut, r, b, s),
         NEW e, e = Len(Encode(s[r + 1]))
  PROVE  /\ e \in 0..Len(b) /\ \A j \in 1..e : b[j] = Encode(s[r + 1])[j]
         /\ \E next : Cuts(next, r + 1, SubSeq(b, e + 1, Len(b)), s)
<1> DEFINE n == Len(s)
           b2 == SubSeq(b, e + 1, Len(b))
           next == [i \in (r + 1)..n |-> cut[i] - e]
<1>1. n \in Nat /\ Len(b) \in Nat
  OBVIOUS
<1>2. s[r + 1] \in Message
  BY <1>1
<1>3. e \in Nat
  BY <1>2, EncodeShape
<1> HIDE DEF n
<1>4. /\ r \in 0..n /\ r < n
      /\ cut \in [r..n -> Nat] /\ cut[r] = 0 /\ cut[n] = Len(b)
      /\ \A i, j \in r..n : i <= j => cut[i] <= cut[j]
      /\ \A i \in (r + 1)..n :
           /\ cut[i] = cut[i - 1] + Len(Encode(s[i]))
           /\ \A j \in 1..Len(Encode(s[i])) : b[cut[i - 1] + j] = Encode(s[i])[j]
  BY DEF Cuts, n
<1>5. r + 1 \in (r + 1)..n /\ r + 1 \in r..n /\ n \in r..n /\ (r + 1) - 1 = r
  BY <1>1, <1>4
<1>6. cut[r + 1] = e /\ \A j \in 1..e : b[j] = Encode(s[r + 1])[j]
  <2>1. /\ cut[r + 1] = cut[r] + e
        /\ \A j \in 1..e : b[cut[r] + j] = Encode(s[r + 1])[j]
    <3>1. /\ cut[r + 1] = cut[(r + 1) - 1] + Len(Encode(s[r + 1]))
          /\ \A j \in 1..Len(Encode(s[r + 1])) :
               b[cut[(r + 1) - 1] + j] = Encode(s[r + 1])[j]
      BY <1>4, <1>5
    <3> QED
      BY <1>5, <3>1
  <2> QED
    BY <1>3, <1>4, <2>1
<1>7. e \in 0..Len(b)
  BY <1>1, <1>3, <1>4, <1>5, <1>6
<1>8. /\ Len(b2) = Len(b) - e
      /\ \A i \in 1..(Len(b) - e) : b2[i] = b[e + i]
  BY <1>7, Cut
<1> HIDE DEF b2
<1>9. \A i \in (r + 1)..n : i \in r..n /\ cut[i] \in Nat /\ e <= cut[i] /\ cut[i] <= Len(b)
  BY <1>1, <1>4, <1>5, <1>6
<1>10. /\ next \in [(r + 1)..n -> Nat] /\ next[r + 1] = 0 /\ next[n] = Len(b2)
       /\ \A i \in (r + 1)..n : next[i] = cut[i] - e
  <2>1. \A i \in (r + 1)..n : cut[i] - e \in Nat
    BY <1>3, <1>9
  <2>2. next \in [(r + 1)..n -> Nat] /\ \A i \in (r + 1)..n : next[i] = cut[i] - e
    BY <2>1
  <2>3. n \in (r + 1)..n
    BY <1>1, <1>4
  <2> HIDE DEF next
  <2>4. next[r + 1] = e - e /\ next[n] = Len(b) - e
    <3>1. next[r + 1] = cut[r + 1] - e /\ next[n] = cut[n] - e
      BY <1>5, <2>2, <2>3
    <3> QED
      BY <1>4, <1>6, <3>1
  <2> QED
    BY <1>1, <1>3, <1>8, <2>2, <2>4
<1> HIDE DEF next
<1>11. \A i, j \in (r + 1)..n : i <= j => next[i] <= next[j]
  BY <1>3, <1>4, <1>9, <1>10
<1>12. ASSUME NEW i \in (r + 2)..n
       PROVE  /\ next[i] = next[i - 1] + Len(Encode(s[i]))
              /\ \A j \in 1..Len(Encode(s[i])) : b2[next[i - 1] + j] = Encode(s[i])[j]
  <2>1. i \in (r + 1)..n /\ i - 1 \in (r + 1)..n /\ i \in 1..n
    BY <1>1, <1>4
  <2>2. s[i] \in Message
    <3>1. i \in 1..Len(s) /\ s \in Seq(Message)
      BY <2>1 DEF n
    <3> QED
      BY ONLY <3>1, ElementOfSeq
  <2>3. Len(Encode(s[i])) \in Nat
    BY <2>2, EncodeShape
  <2>4. /\ cut[i] = cut[i - 1] + Len(Encode(s[i]))
        /\ \A j \in 1..Len(Encode(s[i])) : b[cut[i - 1] + j] = Encode(s[i])[j]
    BY <1>4, <2>1
  <2>5. next[i] = cut[i] - e /\ next[i - 1] = cut[i - 1] - e
    BY <1>10, <2>1
  <2>6. ASSUME NEW j \in 1..Len(Encode(s[i]))
        PROVE  b2[next[i - 1] + j] = Encode(s[i])[j]
    <3>1. next[i - 1] + j \in 1..(Len(b) - e) /\ e + (next[i - 1] + j) = cut[i - 1] + j
      <4>1. /\ cut[i] \in Nat /\ cut[i - 1] \in Nat /\ e <= cut[i - 1] /\ cut[i] <= Len(b)
            /\ next[i - 1] = cut[i - 1] - e
        BY <1>9, <2>1, <2>5
      <4>2. cut[i] = cut[i - 1] + Len(Encode(s[i]))
        BY <2>4
      <4>3. Len(b) \in Nat /\ e \in Nat /\ Len(Encode(s[i])) \in Nat
        BY <1>1, <1>3, <2>3
      <4>4. (cut[i - 1] - e) + j \in 1..(Len(b) - e) /\ e + ((cut[i - 1] - e) + j) = cut[i - 1] + j
        <5>1. PICK a \in Nat : a = cut[i - 1]
          BY <4>1
        <5>2. PICK c \in Nat : c = cut[i]
          BY <4>1
        <5>3. PICK size \in Nat : size = Len(Encode(s[i]))
          BY <4>3
        <5>4. PICK l \in Nat : l = Len(b)
          BY <4>3
        <5>5. c = a + size /\ e <= a /\ c <= l /\ e \in Nat /\ j \in 1..size
          BY <4>1, <4>2, <4>3, <5>1, <5>2, <5>3, <5>4
        <5>6. (a - e) + j \in 1..(l - e) /\ e + ((a - e) + j) = a + j
          BY ONLY <5>5, WithinRest
        <5> QED
          BY <5>1, <5>4, <5>6
      <4> QED
        BY <4>1, <4>4
    <3> QED
      BY <1>8, <2>4, <3>1
  <2> QED
    BY <1>3, <1>9, <2>1, <2>3, <2>4, <2>5, <2>6
<1>13. Cuts(next, r + 1, b2, s)
  <2>1. (r + 1) + 1 = r + 2
    BY <1>4
  <2> QED
    BY <1>10, <1>11, <1>12, <2>1 DEF Cuts, n
<1> QED
  BY <1>6, <1>7, <1>13 DEF b2

(* Where bytes are left, a message is.                                     *)
LEMMA CutsEmpty ==
  ASSUME NEW b \in Seq(Byte), NEW s \in Seq(Message), NEW r \in 0..Len(s),
         NEW cut, Cuts(cut, r, b, s), b # <<>>
  PROVE  r < Len(s)
<1>1. Len(b) \in Nat /\ Len(b) # 0
  OBVIOUS
<1>2. cut[r] = 0 /\ cut[Len(s)] = Len(b)
  BY DEF Cuts
<1>3. r # Len(s)
  BY <1>1, <1>2
<1> QED
  BY <1>3

-----------------------------------------------------------------------------
(* The state.                                                              *)
UpFrames == {Upward(t) : t \in Texts}
DownFrames == {Downward(t) : t \in Texts} \cup {Serialize(JavaModel, ConnectResponse)}

Shape ==
  /\ threads \in 1..MaxThreads
  /\ typed \in Seq(Texts) /\ Len(typed) <= MaxTexts
  /\ up \in Seq(UpFrames)
  /\ tasks \in [{"n1", "n2"} -> Seq(DataMessages)]
  /\ stream \in Seq(Byte) /\ buffer \in Seq(Byte)
  /\ pieces \in 0..MaxPieces
  /\ handler \in {"dispatcher", "codec"}
  /\ sent \in Seq(Message) /\ received \in Seq(Message)
  /\ down \in Seq(DownFrames) /\ Len(down) <= HighWater
  /\ shown \in Seq(Seq(Unit))
  /\ dropped \in Nat

(* What is decoded is the beginning of what was written; the bytes of the  *)
(* rest are in the buffer and on the stream.                               *)
Framed ==
  /\ Len(received) <= Len(sent)
  /\ \A i \in 1..Len(received) : received[i] = sent[i]
  /\ \E cut : Cuts(cut, Len(received), buffer \o stream, sent)

(* As many bytes of the next message as have arrived are those it was      *)
(* written with.                                                           *)
LEMMA NextMessage ==
  ASSUME AllComeThrough, Shape, Framed, Len(received) < Len(sent),
         NEW m, m = sent[Len(received) + 1]
  PROVE  /\ m \in Message /\ Len(Encode(m)) <= Len(buffer) + Len(stream)
         /\ \A j \in 1..Len(buffer) : j <= Len(Encode(m)) => buffer[j] = Encode(m)[j]
         /\ \E cut : Cuts(cut, Len(received) + 1,
                          SubSeq(buffer \o stream, Len(Encode(m)) + 1,
                                 Len(buffer \o stream)), sent)
<1> DEFINE b == buffer \o stream
           r == Len(received)
           e == Len(Encode(m))
<1>1. /\ b \in Seq(Byte) /\ Len(b) = Len(buffer) + Len(stream)
      /\ \A i \in 1..Len(buffer) : b[i] = buffer[i]
  <2>1. buffer \in Seq(Byte) /\ stream \in Seq(Byte)
    BY DEF Shape
  <2> QED
    BY ONLY <2>1, Joined
<1>2. sent \in Seq(Message) /\ received \in Seq(Message) /\ buffer \in Seq(Byte)
  BY DEF Shape
<1>3. r \in 0..Len(sent)
  BY <1>2 DEF Framed
<1>4. PICK cut : Cuts(cut, r, b, sent)
  BY DEF Framed
<1>5. m \in Message
  BY <1>2, <1>3
<1> HIDE DEF b, r, e
<1>6. r < Len(sent) /\ e = Len(Encode(sent[r + 1])) /\ m = sent[r + 1]
  BY DEF r, e
<1>7. /\ e \in 0..Len(b) /\ \A j \in 1..e : b[j] = Encode(sent[r + 1])[j]
      /\ \E next : Cuts(next, r + 1, SubSeq(b, e + 1, Len(b)), sent)
  BY ONLY AllComeThrough, <1>1, <1>2, <1>3, <1>4, <1>6, CutsShortened
<1>8. \A j \in 1..Len(buffer) : j <= e => buffer[j] = Encode(m)[j]
  <2> SUFFICES ASSUME NEW j \in 1..Len(buffer), j <= e
               PROVE  buffer[j] = Encode(m)[j]
    OBVIOUS
  <2>1. j \in 1..e
    BY <1>2, <1>7
  <2> QED
    BY <1>1, <1>6, <1>7, <2>1
<1>9. e <= Len(buffer) + Len(stream)
  BY <1>1, <1>2, <1>7
<1> QED
  BY <1>5, <1>7, <1>8, <1>9 DEF b, r, e

(* Where there are bytes, they are a message's.                            *)
LEMMA BytesLeft ==
  ASSUME AllComeThrough, Shape, Framed, buffer # <<>>
  PROVE  Len(received) < Len(sent)
<1> DEFINE b == buffer \o stream
<1>1. /\ buffer \in Seq(Byte) /\ stream \in Seq(Byte)
      /\ sent \in Seq(Message) /\ received \in Seq(Message)
  BY DEF Shape
<1>2. b \in Seq(Byte) /\ Len(b) = Len(buffer) + Len(stream)
  BY ONLY <1>1, Joined
<1>3. PICK cut : Cuts(cut, Len(received), b, sent)
  BY DEF Framed
<1>4. Len(received) \in 0..Len(sent)
  BY <1>1 DEF Framed
<1> HIDE DEF b
<1>5. b # <<>>
  BY <1>1, <1>2
<1> QED
  BY <1>1, <1>2, <1>3, <1>4, <1>5, CutsEmpty

(* Once the length of the next message is there, the buffer shows it.      *)
LEMMA NextLength ==
  ASSUME AllComeThrough, Shape, Framed, Len(received) < Len(sent),
         NEW m, m = sent[Len(received) + 1], Len(buffer) >= 5
  PROVE  buffer[1] = Magic /\ Length(buffer) = Len(Body(m))
<1>1. m \in Message /\ \A j \in 1..Len(buffer) : j <= Len(Encode(m)) => buffer[j] = Encode(m)[j]
  BY NextMessage
<1>2. /\ Body(m) \in Seq(Byte) /\ Len(Encode(m)) = 5 + Len(Body(m))
      /\ Encode(m)[1] = Magic /\ Length(Encode(m)) = Len(Body(m))
  BY <1>1, EncodeShape
<1>3. buffer \in Seq(Byte) /\ Len(Body(m)) \in Nat
  BY <1>2 DEF Shape
<1>4. /\ buffer[1] = Encode(m)[1] /\ buffer[2] = Encode(m)[2]
      /\ buffer[3] = Encode(m)[3] /\ buffer[4] = Encode(m)[4]
      /\ buffer[5] = Encode(m)[5]
  <2>1. \A j \in {1, 2, 3, 4, 5} : j \in 1..Len(buffer) /\ j <= Len(Encode(m))
    BY <1>2, <1>3
  <2>2. \A j \in {1, 2, 3, 4, 5} : buffer[j] = Encode(m)[j]
    BY <1>1, <2>1
  <2> QED
    BY <2>2
<1> QED
  BY <1>2, <1>4 DEF Length

(* What is complete is the next message, and is taken whole.               *)
LEMMA CompleteIsNext ==
  ASSUME AllComeThrough, Shape, Framed, Complete(buffer),
         NEW m, m = sent[Len(received) + 1]
  PROVE  /\ Len(received) < Len(sent) /\ m \in Message
         /\ 5 + Length(buffer) = Len(Encode(m)) /\ 5 + Length(buffer) \in 0..Len(buffer)
         /\ Deserialize(JavaModel, SubSeq(buffer, 6, 5 + Length(buffer))) = m
<1>1. buffer \in Seq(Byte) /\ Len(buffer) >= 5 /\ Length(buffer) <= Len(buffer) - 5
  BY DEF Shape, Complete
<1>2. Len(received) < Len(sent)
  BY <1>1, BytesLeft
<1>3. m \in Message /\ \A j \in 1..Len(buffer) : j <= Len(Encode(m)) => buffer[j] = Encode(m)[j]
  BY <1>2, NextMessage
<1>4. /\ Body(m) \in Seq(Byte) /\ Len(Encode(m)) = 5 + Len(Body(m))
      /\ \A j \in 1..Len(Body(m)) : Encode(m)[5 + j] = Body(m)[j]
  BY <1>3, EncodeShape
<1>5. Length(buffer) = Len(Body(m))
  BY <1>1, <1>2, NextLength
<1> DEFINE n == Len(Body(m))
           part == SubSeq(buffer, 6, 5 + n)
<1>6. n \in Nat /\ 5 + n \in 0..Len(buffer)
  BY <1>1, <1>4, <1>5
<1>7. /\ part \in Seq(Byte) /\ Len(part) = n
      /\ \A j \in 1..n : part[j] = buffer[5 + j]
  BY <1>1, <1>6
<1> HIDE DEF n, part
<1>8. \A j \in 1..n : part[j] = Body(m)[j]
  <2> SUFFICES ASSUME NEW j \in 1..n PROVE part[j] = Body(m)[j]
    OBVIOUS
  <2>1. 5 + j \in 1..Len(buffer) /\ 5 + j <= Len(Encode(m))
    BY <1>1, <1>4, <1>6 DEF n
  <2>2. buffer[5 + j] = Encode(m)[5 + j]
    BY <1>3, <2>1
  <2> QED
    BY <1>4, <1>7, <2>2 DEF n
<1>9. part = Body(m)
  BY <1>4, <1>7, <1>8, SeqEqual DEF n
<1>10. Deserialize(JavaModel, part) = m
  BY <1>3, <1>9, MessageBodies
<1> QED
  BY <1>2, <1>3, <1>4, <1>5, <1>6, <1>10 DEF n, part

-----------------------------------------------------------------------------
(* What the steps do.                                                      *)

LEMMA TextFacts ==
  ASSUME AllComeThrough, NEW t \in Texts
  PROVE  /\ Upward(t) \in Seq(Byte) /\ Downward(t) \in Seq(Byte)
         /\ Get(JavaModel, Stored(t), "Cmd") = JavaCmdType.DATA
         /\ Get(JavaModel, Stored(t), "To") = User222
         /\ ContentOf(Downward(t)) = Kept(t) /\ Kept(t) \in Seq(Unit)
BY DEF AllComeThrough, ComesThrough, IsMessage

LEMMA GreetingTyped == Greeting \in Seq(Unit)
BY SMTT(20) DEF Greeting, Unit

LEMMA HelloIsNoData == Get(JavaModel, Hello, "Cmd") # JavaCmdType.DATA
<1>1. PICK content :
        Hello = Set(JavaModel, Set(JavaModel, New(JavaModel), "Content", content),
                    "Cmd", JavaCmdType.NOTIFICATION)
  BY DEF Hello
<1>2. JavaModel.fields["Cmd"] = 1 /\ JavaModel.fields["Content"] = 5
  BY DEF JavaModel, JavaModelFields
<1>3. DOMAIN New(JavaModel) = 1..5
  BY DEF New
<1>4. Hello = [[New(JavaModel) EXCEPT ![5] = content] EXCEPT ![1] = JavaCmdType.NOTIFICATION]
  BY <1>1, <1>2 DEF Set
<1>5. Hello[1] = JavaCmdType.NOTIFICATION
  BY <1>3, <1>4
<1> QED
  BY <1>2, <1>5 DEF Get, JavaCmdType

(* A task is submitted for a text and for nothing else.                    *)
LEMMA DataTasks ==
  ASSUME AllComeThrough, NEW n \in {"n1", "n2"}
  PROVE  /\ \A m \in DataMessages : WithTask(n, m) = [tasks EXCEPT ![n] = Append(@, m)]
         /\ WithTask(n, Hello) = tasks
         /\ Hello \notin DataMessages
<1>1. \A m \in DataMessages : Get(JavaModel, m, "Cmd") = JavaCmdType.DATA
  BY TextFacts DEF DataMessages
<1> QED
  BY <1>1, HelloIsNoData DEF WithTask

LEMMA TypeStep ==
  ASSUME Shape, NEW t \in Texts, Type(t)
  PROVE  /\ typed' = Append(typed, t) /\ Len(typed) < MaxTexts
         /\ t \notin ToSet(typed)
         /\ up' = Append(up, Upward(t)) /\ Upward(t) \in UpFrames
BY DEF Type, Upward, UpFrames

LEMMA ReadFrameStep ==
  ASSUME AllComeThrough, Shape, ReadFrame
  PROVE  /\ up # <<>> /\ up' = Tail(up)
         /\ Deserialize(JavaModel, Head(up)) \in DataMessages
         /\ tasks' = [tasks EXCEPT !["n1"] = Append(@, Deserialize(JavaModel, Head(up)))]
<1>1. up # <<>> /\ up' = Tail(up) /\ tasks' = WithTask("n1", Deserialize(JavaModel, Head(up)))
  BY DEF ReadFrame
<1>2. Head(up) \in UpFrames
  BY <1>1, Shortened DEF Shape
<1>3. Deserialize(JavaModel, Head(up)) \in DataMessages
  BY <1>2 DEF UpFrames, DataMessages, Stored
<1> QED
  BY <1>1, <1>3, DataTasks

LEMMA ForwardStep ==
  ASSUME AllComeThrough, Shape, NEW i \in 1..MaxTexts, Forward(i)
  PROVE  /\ i \in 1..Len(tasks["n1"]) /\ i <= threads
         /\ tasks["n1"][i] \in DataMessages
         /\ tasks' = [tasks EXCEPT !["n1"] = RemoveAt(@, i)]
         /\ stream' = stream \o Encode(tasks["n1"][i])
         /\ sent' = Append(sent, tasks["n1"][i])
<1>1. tasks["n1"] \in Seq(DataMessages)
  BY DEF Shape
<1>2. i \in 1..Len(tasks["n1"]) /\ i <= threads
  BY <1>1 DEF Forward, InHand
<1>3. tasks["n1"][i] \in DataMessages
  BY <1>1, <1>2
<1>4. Get(JavaModel, tasks["n1"][i], "To") = User222
  BY <1>3, TextFacts DEF DataMessages
<1> QED
  BY <1>2, <1>3, <1>4 DEF Forward

LEMMA ArriveStep ==
  ASSUME Shape, Arrives
  PROVE  \E k \in 1..Len(stream) :
           /\ buffer' = buffer \o SubSeq(stream, 1, k)
           /\ stream' = SubSeq(stream, k + 1, Len(stream))
           /\ pieces' \in 0..MaxPieces
<1>1. PICK k : Arrive(k)
  BY DEF Arrives
<1>2. pieces' \in 0..MaxPieces
  <2>1. (pieces < MaxPieces /\ pieces' = pieces + 1) \/ pieces' = pieces
    BY <1>1 DEF Arrive
  <2>2. pieces \in 0..MaxPieces /\ MaxPieces \in Nat
    BY TransportAssumption DEF Shape
  <2> QED
    BY <2>1, <2>2
<1> QED
  BY <1>1, <1>2 DEF Arrive

LEMMA DecodeStep ==
  ASSUME AllComeThrough, Shape, Framed, Decode,
         NEW m, m = sent[Len(received) + 1], NEW e, e = Len(Encode(m))
  PROVE  /\ Len(received) < Len(sent) /\ m \in Message
         /\ received' = Append(received, m)
         /\ e \in 0..Len(buffer) /\ buffer' = SubSeq(buffer, e + 1, Len(buffer))
         /\ m = Hello => tasks' = tasks
         /\ m # Hello => m \in DataMessages /\ tasks' = [tasks EXCEPT !["n2"] = Append(@, m)]
<1>1. Complete(buffer)
  BY DEF Decode
<1>2. /\ Len(received) < Len(sent) /\ m \in Message
      /\ 5 + Length(buffer) = e /\ 5 + Length(buffer) \in 0..Len(buffer)
      /\ Deserialize(JavaModel, SubSeq(buffer, 6, 5 + Length(buffer))) = m
  BY <1>1, CompleteIsNext
<1>3. /\ received' = Append(received, m) /\ tasks' = WithTask("n2", m)
      /\ buffer' = SubSeq(buffer, e + 1, Len(buffer))
  BY <1>2 DEF Decode
<1> QED
  BY <1>2, <1>3, DataTasks DEF Message

LEMMA DeliverStep ==
  ASSUME Shape, NEW i \in 1..MaxTexts, Deliver(i)
  PROVE  /\ i \in 1..Len(tasks["n2"]) /\ i <= threads
         /\ tasks["n2"][i] \in DataMessages
         /\ Serialize(JavaModel, tasks["n2"][i]) \in DownFrames
         /\ tasks' = [tasks EXCEPT !["n2"] = RemoveAt(@, i)]
         /\ \/ /\ Len(down) < HighWater /\ dropped' = dropped
               /\ down' = Append(down, Serialize(JavaModel, tasks["n2"][i]))
            \/ dropped' = dropped + 1 /\ down' = down
<1>1. tasks["n2"] \in Seq(DataMessages)
  BY DEF Shape
<1>2. i \in 1..Len(tasks["n2"]) /\ i <= threads
  BY <1>1 DEF Deliver, InHand
<1>3. tasks["n2"][i] \in DataMessages
  BY <1>1, <1>2
<1>4. Serialize(JavaModel, tasks["n2"][i]) \in DownFrames
  BY <1>3 DEF DataMessages, DownFrames, Downward
<1> QED
  BY <1>2, <1>3, <1>4 DEF Deliver

LEMMA ShowStep ==
  ASSUME AllComeThrough, Shape, Show
  PROVE  /\ down # <<>> /\ down' = Tail(down)
         /\ shown' = Append(shown, ContentOf(Head(down)))
         /\ ContentOf(Head(down)) \in Seq(Unit)
<1>1. down # <<>> /\ down' = Tail(down) /\ shown' = Append(shown, ContentOf(Head(down)))
  BY DEF Show
<1>2. Head(down) \in DownFrames
  BY <1>1, Shortened DEF Shape
<1>3. \A frame \in DownFrames : ContentOf(frame) \in Seq(Unit)
  <2>1. ContentOf(Serialize(JavaModel, ConnectResponse)) = Greeting
    BY DEF AllComeThrough, NoticesComeThrough
  <2> QED
    BY <2>1, TextFacts, GreetingTyped DEF DownFrames
<1> QED
  BY <1>1, <1>2, <1>3

-----------------------------------------------------------------------------
(* Types and framing are kept.                                             *)

(* One of the queues of tasks changes.                                     *)
LEMMA TasksTyped ==
  ASSUME Shape, NEW n \in {"n1", "n2"}, NEW q \in Seq(DataMessages),
         tasks' = [tasks EXCEPT ![n] = q]
  PROVE  tasks' \in [{"n1", "n2"} -> Seq(DataMessages)]
BY DEF Shape

LEMMA ShapeNext ==
  ASSUME AllComeThrough, Shape, Framed, Next
  PROVE  Shape'
<1>0. /\ typed \in Seq(Texts) /\ Len(typed) <= MaxTexts
      /\ up \in Seq(UpFrames)
      /\ tasks["n1"] \in Seq(DataMessages) /\ tasks["n2"] \in Seq(DataMessages)
      /\ stream \in Seq(Byte) /\ buffer \in Seq(Byte)
      /\ sent \in Seq(Message) /\ received \in Seq(Message)
      /\ down \in Seq(DownFrames) /\ Len(down) <= HighWater
      /\ shown \in Seq(Seq(Unit)) /\ dropped \in Nat
  BY DEF Shape
<1>1. ASSUME NEW t \in Texts, Type(t) PROVE Shape'
  <2>1. /\ typed' = Append(typed, t) /\ Len(typed) < MaxTexts
        /\ up' = Append(up, Upward(t)) /\ Upward(t) \in UpFrames
    BY <1>1, TypeStep
  <2>2. typed' \in Seq(Texts) /\ Len(typed') = Len(typed) + 1 /\ up' \in Seq(UpFrames)
    BY <1>0, <2>1, Extended
  <2>3. MaxTexts \in Nat /\ Len(typed) \in Nat
    BY <1>0, TransportAssumption
  <2>4. Len(typed') <= MaxTexts
    BY <2>1, <2>2, <2>3
  <2> QED
    BY <1>1, <2>2, <2>4 DEF Type, Shape
<1>2. CASE ReadFrame
  <2>1. /\ up # <<>> /\ up' = Tail(up)
        /\ Deserialize(JavaModel, Head(up)) \in DataMessages
        /\ tasks' = [tasks EXCEPT !["n1"] = Append(@, Deserialize(JavaModel, Head(up)))]
    BY <1>2, ReadFrameStep
  <2>2. up' \in Seq(UpFrames)
    BY <1>0, <2>1, Shortened
  <2>3. Append(tasks["n1"], Deserialize(JavaModel, Head(up))) \in Seq(DataMessages)
    BY <1>0, <2>1
  <2>4. tasks' \in [{"n1", "n2"} -> Seq(DataMessages)]
    BY <2>1, <2>3, TasksTyped
  <2> QED
    BY <1>2, <2>2, <2>4 DEF ReadFrame, Shape
<1>3. ASSUME NEW i \in 1..MaxTexts, Forward(i) PROVE Shape'
  <2>1. /\ i \in 1..Len(tasks["n1"]) /\ tasks["n1"][i] \in DataMessages
        /\ tasks' = [tasks EXCEPT !["n1"] = RemoveAt(@, i)]
        /\ stream' = stream \o Encode(tasks["n1"][i])
        /\ sent' = Append(sent, tasks["n1"][i])
    BY <1>3, ForwardStep
  <2>2. tasks["n1"] \in Seq(DataMessages)
    BY <1>0
  <2>3. RemoveAt(tasks["n1"], i) \in Seq(DataMessages)
    BY <2>1, <2>2, Removed
  <2>4. tasks' \in [{"n1", "n2"} -> Seq(DataMessages)]
    BY <2>1, <2>3, TasksTyped
  <2>5. tasks["n1"][i] \in Message
    BY <2>1 DEF Message
  <2>6. Encode(tasks["n1"][i]) \in Seq(Byte)
    BY <2>5, EncodeShape
  <2>7. stream' \in Seq(Byte) /\ sent' \in Seq(Message)
    BY <1>0, <2>1, <2>5, <2>6, Joined, Extended
  <2> QED
    BY <1>3, <2>4, <2>7 DEF Forward, Shape
<1>4. CASE Arrives
  <2>1. PICK k \in 1..Len(stream) :
           /\ buffer' = buffer \o SubSeq(stream, 1, k)
           /\ stream' = SubSeq(stream, k + 1, Len(stream))
           /\ pieces' \in 0..MaxPieces
    BY <1>4, ArriveStep
  <2>2. k \in 0..Len(stream)
    BY <1>0
  <2>3. SubSeq(stream, 1, k) \in Seq(Byte) /\ SubSeq(stream, k + 1, Len(stream)) \in Seq(Byte)
    BY <1>0, <2>2, Cut
  <2>4. buffer' \in Seq(Byte) /\ stream' \in Seq(Byte)
    BY <1>0, <2>1, <2>3, Joined
  <2> QED
    BY <1>4, <2>1, <2>4 DEF Arrives, Arrive, Shape
<1>5. CASE Dispatches
  <2>1. PICK stale \in {<<0, 0>>, <<69, 84>>} : Dispatch(stale)
    BY <1>5 DEF Dispatches
  <2>2. buffer # <<>>
    BY <2>1 DEF Dispatch
  <2>3. Len(received) < Len(sent)
    BY <2>2, BytesLeft
  <2>4. PICK m : m = sent[Len(received) + 1]
    OBVIOUS
  <2>5. /\ m \in Message
        /\ \A j \in 1..Len(buffer) : j <= Len(Encode(m)) => buffer[j] = Encode(m)[j]
    BY <2>3, <2>4, NextMessage
  <2>6. Encode(m)[1] = Magic /\ Len(Encode(m)) >= 1
    BY <2>5, EncodeShape
  <2>7. buffer[1] = Magic
    <3>1. 1 \in 1..Len(buffer)
      BY <1>0, <2>2
    <3> QED
      BY <2>5, <2>6, <3>1
  <2>8. SubSeq(buffer \o stale, 1, 3) # GET
    <3>1. stale \in Seq(Byte) /\ Len(stale) = 2
      <4>1. 0 \in Byte /\ 69 \in Byte /\ 84 \in Byte
        BY DEF Byte
      <4>2. <<0, 0>> \in Seq(Byte) /\ Len(<<0, 0>>) = 2
        BY ONLY <4>1
      <4>3. <<69, 84>> \in Seq(Byte) /\ Len(<<69, 84>>) = 2
        BY ONLY <4>1
      <4>4. stale = <<0, 0>> \/ stale = <<69, 84>>
        OBVIOUS
      <4> QED
        BY ONLY <4>2, <4>3, <4>4
    <3>2. /\ buffer \o stale \in Seq(Byte) /\ Len(buffer \o stale) >= 3
          /\ (buffer \o stale)[1] = buffer[1]
      <4>1. /\ buffer \o stale \in Seq(Byte)
            /\ Len(buffer \o stale) = Len(buffer) + Len(stale)
            /\ \A j \in 1..Len(buffer) : (buffer \o stale)[j] = buffer[j]
        <5>1. buffer \in Seq(Byte) /\ stale \in Seq(Byte)
          BY <1>0, <3>1
        <5> QED
          BY ONLY <5>1, Joined
      <4>2. Len(buffer) \in Nat /\ Len(buffer) >= 1
        BY <1>0, <2>2
      <4> QED
        BY <3>1, <4>1, <4>2
    <3>3. SubSeq(buffer \o stale, 1, 3)[1] = Magic
      BY <2>7, <3>2
    <3>4. GET[1] # Magic
      BY DEF GET, Magic
    <3> QED
      BY <3>3, <3>4
  <2>9. handler' = "codec"
    BY <2>1, <2>8 DEF Dispatch
  <2> QED
    BY <2>1, <2>9 DEF Dispatch, Shape
<1>6. CASE Decode
  <2>1. PICK m, e : m = sent[Len(received) + 1] /\ e = Len(Encode(m))
    OBVIOUS
  <2>2. /\ m \in Message /\ received' = Append(received, m)
        /\ e \in 0..Len(buffer) /\ buffer' = SubSeq(buffer, e + 1, Len(buffer))
        /\ m = Hello => tasks' = tasks
        /\ m # Hello => m \in DataMessages /\ tasks' = [tasks EXCEPT !["n2"] = Append(@, m)]
    BY <1>6, <2>1, DecodeStep
  <2>3. tasks' \in [{"n1", "n2"} -> Seq(DataMessages)]
    <3>1. m \in DataMessages => Append(tasks["n2"], m) \in Seq(DataMessages)
      BY <1>0
    <3>2. CASE m = Hello
      BY <2>2, <3>2 DEF Shape
    <3>3. CASE m # Hello
      BY <2>2, <3>1, <3>3, TasksTyped
    <3> QED
      BY <3>2, <3>3
  <2>4. received' \in Seq(Message)
    BY <1>0, <2>2, Extended
  <2>5. buffer' \in Seq(Byte)
    BY <1>0, <2>2, Cut
  <2> QED
    BY <1>6, <2>3, <2>4, <2>5 DEF Decode, Shape
<1>7. ASSUME NEW i \in 1..MaxTexts, Deliver(i) PROVE Shape'
  <2>1. /\ i \in 1..Len(tasks["n2"])
        /\ Serialize(JavaModel, tasks["n2"][i]) \in DownFrames
        /\ tasks' = [tasks EXCEPT !["n2"] = RemoveAt(@, i)]
        /\ \/ /\ Len(down) < HighWater /\ dropped' = dropped
              /\ down' = Append(down, Serialize(JavaModel, tasks["n2"][i]))
           \/ dropped' = dropped + 1 /\ down' = down
    BY <1>7, DeliverStep
  <2>2. tasks["n2"] \in Seq(DataMessages)
    BY <1>0
  <2>3. RemoveAt(tasks["n2"], i) \in Seq(DataMessages)
    BY <2>1, <2>2, Removed
  <2>4. tasks' \in [{"n1", "n2"} -> Seq(DataMessages)]
    BY <2>1, <2>3, TasksTyped
  <2>5. down' \in Seq(DownFrames) /\ Len(down') <= HighWater /\ dropped' \in Nat
    <3>1. HighWater \in Nat /\ Len(down) \in Nat
      BY <1>0, TransportAssumption
    <3>2. CASE down' = down /\ dropped' = dropped + 1
      BY <1>0, <3>2
    <3>3. CASE /\ Len(down) < HighWater /\ dropped' = dropped
               /\ down' = Append(down, Serialize(JavaModel, tasks["n2"][i]))
      <4>1. down' \in Seq(DownFrames) /\ Len(down') = Len(down) + 1
        BY <1>0, <2>1, <3>3, Extended
      <4> QED
        BY <1>0, <3>1, <3>3, <4>1
    <3> QED
      BY <2>1, <3>2, <3>3
  <2> QED
    BY <1>7, <2>4, <2>5 DEF Deliver, Shape
<1>8. CASE Show
  <2>1. /\ down # <<>> /\ down' = Tail(down)
        /\ shown' = Append(shown, ContentOf(Head(down)))
        /\ ContentOf(Head(down)) \in Seq(Unit)
    BY <1>8, ShowStep
  <2>2. down' \in Seq(DownFrames) /\ Len(down') = Len(down) - 1
    BY <1>0, <2>1, Shortened
  <2>3. shown' \in Seq(Seq(Unit))
    BY <1>0, <2>1, Extended
  <2>4. Len(down') <= HighWater
    <3>1. Len(down) \in Nat /\ HighWater \in Nat
      BY <1>0, TransportAssumption
    <3> QED
      BY <1>0, <2>2, <3>1
  <2> QED
    BY <1>8, <2>2, <2>3, <2>4 DEF Show, Shape
<1> QED
  BY <1>1, <1>2, <1>3, <1>4, <1>5, <1>6, <1>7, <1>8 DEF Next, Forwards, Delivers

LEMMA FramedNext ==
  ASSUME AllComeThrough, Shape, Framed, Next
  PROVE  Framed'
<1>1. CASE UNCHANGED <<received, sent, buffer, stream>>
  BY <1>1 DEF Framed
<1>2. ASSUME NEW i \in 1..MaxTexts, Forward(i) PROVE Framed'
  <2>1. PICK m \in Message :
          stream' = stream \o Encode(m) /\ sent' = Append(sent, m)
    BY <1>2, ForwardStep DEF Message
  <2>2. UNCHANGED <<received, buffer>>
    BY <1>2 DEF Forward
  <2>3. /\ buffer \in Seq(Byte) /\ stream \in Seq(Byte) /\ Encode(m) \in Seq(Byte)
        /\ sent \in Seq(Message) /\ received \in Seq(Message)
    BY EncodeShape DEF Shape
  <2>4. Len(received) \in 0..Len(sent)
    BY <2>3 DEF Framed
  <2>5. PICK cut : Cuts(cut, Len(received), buffer \o stream, sent)
    BY DEF Framed
  <2>6. buffer \o stream \in Seq(Byte)
    BY ONLY <2>3, Joined
  <2>7. \E next : Cuts(next, Len(received), (buffer \o stream) \o Encode(m), Append(sent, m))
    BY <2>3, <2>4, <2>5, <2>6, CutsExtended
  <2>8. (buffer \o stream) \o Encode(m) = buffer \o stream'
    <3>1. buffer \in Seq(Byte) /\ stream \in Seq(Byte) /\ Encode(m) \in Seq(Byte)
      BY <2>3
    <3>2. (buffer \o stream) \o Encode(m) = buffer \o (stream \o Encode(m))
      BY ONLY <3>1, ConcatAssociative
    <3> QED
      BY <2>1, <3>2
  <2>9. \E next : Cuts(next, Len(received'), buffer' \o stream', sent')
    BY <2>1, <2>2, <2>7, <2>8
  <2>10. /\ Len(sent') = Len(sent) + 1 /\ \A j \in 1..Len(sent) : sent'[j] = sent[j]
    BY <2>1, <2>3, Extended
  <2>11. Len(received') <= Len(sent') /\ \A j \in 1..Len(received') : received'[j] = sent'[j]
    BY <2>2, <2>3, <2>4, <2>10 DEF Framed
  <2> QED
    BY <2>9, <2>11 DEF Framed
<1>3. CASE Arrives
  <2>1. PICK k \in 1..Len(stream) :
           /\ buffer' = buffer \o SubSeq(stream, 1, k)
           /\ stream' = SubSeq(stream, k + 1, Len(stream))
    BY <1>3, ArriveStep
  <2>2. buffer \in Seq(Byte) /\ stream \in Seq(Byte) /\ k \in 0..Len(stream)
    BY DEF Shape
  <2>3. buffer' \o stream' = buffer \o stream
    BY <2>1, <2>2, MovedOver
  <2>4. UNCHANGED <<received, sent>>
    BY <1>3 DEF Arrives, Arrive
  <2> QED
    BY <2>3, <2>4 DEF Framed
<1>4. CASE Decode
  <2>1. PICK m, e : m = sent[Len(received) + 1] /\ e = Len(Encode(m))
    OBVIOUS
  <2>2. /\ Len(received) < Len(sent) /\ m \in Message /\ received' = Append(received, m)
        /\ e \in 0..Len(buffer) /\ buffer' = SubSeq(buffer, e + 1, Len(buffer))
    BY <1>4, <2>1, DecodeStep
  <2>3. UNCHANGED <<stream, sent>>
    BY <1>4 DEF Decode
  <2>4. /\ buffer \in Seq(Byte) /\ stream \in Seq(Byte)
        /\ sent \in Seq(Message) /\ received \in Seq(Message)
    BY DEF Shape
  <2>5. \E next : Cuts(next, Len(received) + 1,
                       SubSeq(buffer \o stream, e + 1, Len(buffer \o stream)), sent)
    BY <2>1, <2>2, NextMessage
  <2>6. buffer' \o stream' = SubSeq(buffer \o stream, e + 1, Len(buffer \o stream))
    BY <2>2, <2>3, <2>4, CutInFront
  <2>7. /\ Len(received') = Len(received) + 1 /\ received'[Len(received) + 1] = m
        /\ \A j \in 1..Len(received) : received'[j] = received[j]
    BY <2>2, <2>4, Extended
  <2>8. \E next : Cuts(next, Len(received'), buffer' \o stream', sent')
    BY <2>3, <2>5, <2>6, <2>7
  <2>9. Len(received') <= Len(sent')
    BY <2>2, <2>3, <2>4, <2>7
  <2>10. \A j \in 1..Len(received') : received'[j] = sent'[j]
    <3> SUFFICES ASSUME NEW j \in 1..Len(received') PROVE received'[j] = sent[j]
      BY <2>3
    <3>1. j \in 1..Len(received) \/ j = Len(received) + 1
      BY <2>4, <2>7
    <3> QED
      BY <2>1, <2>7, <3>1 DEF Framed
  <2> QED
    BY <2>8, <2>9, <2>10 DEF Framed
<1>5. UNCHANGED <<received, sent, buffer, stream>> \/ Forwards \/ Arrives \/ Decode
  BY DEF Next, Type, ReadFrame, Dispatches, Dispatch, Delivers, Deliver, Show
<1> QED
  BY <1>1, <1>2, <1>3, <1>4, <1>5 DEF Forwards

-----------------------------------------------------------------------------
(* Numbers of things in a row.                                             *)

(* n[o + k] is the number of the k-th thing in q, which f makes of it.     *)
Stage(q, n, o, f) == \A k \in 1..Len(q) : q[k] = f[n[o + k]]

Distinct(n, size) == \A j, k \in 1..size : n[j] = n[k] => j = k
Ordered(n, size) == \A j, k \in 1..size : j < k => n[j] < n[k]

LEMMA StageExtended ==
  ASSUME NEW T, NEW q \in Seq(T), NEW n, NEW o \in Nat, NEW f, Stage(q, n, o, f),
         NEW e \in T, e = f[n[o + (Len(q) + 1)]]
  PROVE  Stage(Append(q, e), n, o, f)
<1> SUFFICES ASSUME NEW k \in 1..Len(Append(q, e))
             PROVE  Append(q, e)[k] = f[n[o + k]]
  BY DEF Stage
<1>1. /\ Len(q) \in Nat /\ Len(Append(q, e)) = Len(q) + 1
      /\ \A i \in 1..Len(q) : Append(q, e)[i] = q[i]
      /\ Append(q, e)[Len(q) + 1] = e
  BY Extended
<1>2. CASE k \in 1..Len(q)
  BY <1>1, <1>2 DEF Stage
<1>3. CASE k = Len(q) + 1
  BY <1>1, <1>3
<1> QED
  BY <1>1, <1>2, <1>3

LEMMA StageShortened ==
  ASSUME NEW T, NEW q \in Seq(T), NEW n, NEW o \in Nat, NEW f, Stage(q, n, o, f), q # <<>>
  PROVE  Stage(Tail(q), n, o + 1, f) /\ Head(q) = f[n[o + 1]]
<1>1. /\ Head(q) = q[1] /\ Len(q) \in Nat /\ Len(q) >= 1
      /\ Len(Tail(q)) = Len(q) - 1
      /\ \A i \in 1..(Len(q) - 1) : Tail(q)[i] = q[i + 1]
  BY Shortened
<1>2. Head(q) = f[n[o + 1]]
  BY <1>1 DEF Stage
<1>3. ASSUME NEW k \in 1..Len(Tail(q)) PROVE Tail(q)[k] = f[n[(o + 1) + k]]
  <2>1. k + 1 \in 1..Len(q) /\ o + (k + 1) = (o + 1) + k /\ Tail(q)[k] = q[k + 1]
    BY <1>1
  <2>2. q[k + 1] = f[n[o + (k + 1)]]
    BY <2>1 DEF Stage
  <2> QED
    BY <2>1, <2>2
<1> QED
  BY <1>2, <1>3 DEF Stage

(* g is f as far as l.                                                     *)
Continues(g, f, l) == \A j \in -1..l : g[j] = f[j]
Begins(m, n, size) == \A k \in 1..size : m[k] = n[k]

LEMMA StageGrown ==
  ASSUME NEW T, NEW q \in Seq(T), NEW o \in Nat, NEW size \in Nat, o + Len(q) <= size,
         NEW l \in Nat, NEW n \in [1..size -> -1..l], NEW m, Begins(m, n, size),
         NEW f, NEW g, Continues(g, f, l), Stage(q, n, o, f)
  PROVE  Stage(q, m, o, g)
<1> SUFFICES ASSUME NEW k \in 1..Len(q) PROVE q[k] = g[m[o + k]]
  BY DEF Stage
<1>1. Len(q) \in Nat
  OBVIOUS
<1>2. o + k \in 1..size
  BY <1>1
<1>3. m[o + k] = n[o + k] /\ n[o + k] \in -1..l
  BY <1>2 DEF Begins
<1>4. q[k] = f[n[o + k]]
  BY DEF Stage
<1> QED
  BY <1>3, <1>4 DEF Continues

(* Of the numbers behind o all but the i-th are behind p.                  *)
Without(m, p, n, o, i, size) ==
  /\ \A k \in 1..(i - 1) : m[p + k] = n[o + k]
  /\ \A k \in i..(size - 1) : m[p + k] = n[o + (k + 1)]

LEMMA StageRemoved ==
  ASSUME NEW T, NEW q \in Seq(T), NEW n, NEW o \in Nat, NEW f, Stage(q, n, o, f),
         NEW i \in 1..Len(q), NEW m, NEW p \in Nat, Without(m, p, n, o, i, Len(q))
  PROVE  Stage(RemoveAt(q, i), m, p, f)
<1> SUFFICES ASSUME NEW k \in 1..Len(RemoveAt(q, i))
             PROVE  RemoveAt(q, i)[k] = f[m[p + k]]
  BY DEF Stage
<1>0. /\ \A j \in 1..(i - 1) : m[p + j] = n[o + j]
      /\ \A j \in i..(Len(q) - 1) : m[p + j] = n[o + (j + 1)]
  BY DEF Without
<1>1. /\ Len(q) \in Nat /\ Len(RemoveAt(q, i)) = Len(q) - 1
      /\ \A j \in 1..(Len(q) - 1) :
           /\ j < i => RemoveAt(q, i)[j] = q[j]
           /\ j >= i => RemoveAt(q, i)[j] = q[j + 1]
  BY Removed
<1>2. CASE k < i
  <2>1. k \in 1..Len(q) /\ k \in 1..(i - 1) /\ RemoveAt(q, i)[k] = q[k]
    BY <1>1, <1>2
  <2>2. q[k] = f[n[o + k]]
    BY <2>1 DEF Stage
  <2> QED
    BY <1>0, <2>1, <2>2
<1>3. CASE ~ (k < i)
  <2>1. k + 1 \in 1..Len(q) /\ k \in i..(Len(q) - 1) /\ RemoveAt(q, i)[k] = q[k + 1]
    BY <1>1, <1>3
  <2>2. q[k + 1] = f[n[o + (k + 1)]]
    BY <2>1 DEF Stage
  <2> QED
    BY <1>0, <2>1, <2>2
<1> QED
  BY <1>2, <1>3

(* One number is moved forward, from place p to place q.                   *)
Moved(m, n, p, q, size) ==
  /\ m[q] = n[p]
  /\ \A k \in 1..(q - 1) : m[k] = n[k]
  /\ \A k \in (q + 1)..p : m[k] = n[k - 1]
  /\ \A k \in (p + 1)..size : m[k] = n[k]
  /\ Distinct(n, size) => Distinct(m, size)
  /\ Ordered(n, size) /\ p = q => Ordered(m, size)

LEMMA MovedForward ==
  ASSUME NEW size \in Nat, NEW Z \in SUBSET Int, NEW n \in [1..size -> Z],
         NEW p \in 1..size, NEW q \in 1..p
  PROVE  \E m \in [1..size -> Z] : Moved(m, n, p, q, size)
<1> DEFINE old(k) == IF k = q THEN p ELSE IF q < k /\ k <= p THEN k - 1 ELSE k
           m == [k \in 1..size |-> n[old(k)]]
<1>1. \A k \in 1..size : old(k) \in 1..size
  OBVIOUS
<1>2. m \in [1..size -> Z] /\ \A k \in 1..size : m[k] = n[old(k)]
  BY <1>1
<1>3. /\ old(q) = p /\ \A k \in 1..(q - 1) : old(k) = k
      /\ \A k \in (q + 1)..p : old(k) = k - 1
      /\ \A k \in (p + 1)..size : old(k) = k
  OBVIOUS
<1>4. \A j, k \in 1..size : old(j) = old(k) => j = k
  OBVIOUS
<1>5. p = q => \A k \in 1..size : old(k) = k
  OBVIOUS
<1> HIDE DEF old, m
<1>6. Distinct(n, size) => Distinct(m, size)
  BY <1>1, <1>2, <1>4 DEF Distinct
<1>7. Ordered(n, size) /\ p = q => Ordered(m, size)
  BY <1>2, <1>5 DEF Ordered
<1>8. /\ m[q] = n[p]
      /\ \A k \in 1..(q - 1) : m[k] = n[k]
      /\ \A k \in (q + 1)..p : m[k] = n[k - 1]
      /\ \A k \in (p + 1)..size : m[k] = n[k]
  <2>1. q \in 1..size /\ m[q] = n[p]
    BY <1>2, <1>3
  <2>2. ASSUME NEW k \in 1..(q - 1) PROVE m[k] = n[k]
    <3>1. k \in 1..size /\ old(k) = k
      BY <1>3
    <3> QED
      BY <1>2, <3>1
  <2>3. ASSUME NEW k \in (q + 1)..p PROVE m[k] = n[k - 1]
    <3>1. k \in 1..size /\ old(k) = k - 1
      BY <1>3
    <3> QED
      BY <1>2, <3>1
  <2>4. ASSUME NEW k \in (p + 1)..size PROVE m[k] = n[k]
    <3>1. k \in 1..size /\ old(k) = k
      BY <1>3
    <3> QED
      BY <1>2, <3>1
  <2> QED
    BY <2>1, <2>2, <2>3, <2>4
<1> QED
  BY <1>2, <1>6, <1>7, <1>8 DEF Moved

(* One number is taken out, and the place p closed.                        *)
Closed(m, n, p, size) ==
  /\ \A k \in 1..(p - 1) : m[k] = n[k]
  /\ \A k \in p..(size - 1) : m[k] = n[k + 1]
  /\ Distinct(n, size) => Distinct(m, size - 1)
  /\ Ordered(n, size) => Ordered(m, size - 1)

LEMMA TakenOut ==
  ASSUME NEW size \in Nat, NEW Z \in SUBSET Int, NEW n \in [1..size -> Z], NEW p \in 1..size
  PROVE  \E m \in [1..(size - 1) -> Z] : Closed(m, n, p, size)
<1> DEFINE old(k) == IF k < p THEN k ELSE k + 1
           m == [k \in 1..(size - 1) |-> n[old(k)]]
<1>1. \A k \in 1..(size - 1) : old(k) \in 1..size
  OBVIOUS
<1>2. m \in [1..(size - 1) -> Z] /\ \A k \in 1..(size - 1) : m[k] = n[old(k)]
  BY <1>1
<1>3. /\ \A k \in 1..(p - 1) : old(k) = k
      /\ \A k \in p..(size - 1) : old(k) = k + 1
  OBVIOUS
<1>4. \A j, k \in 1..(size - 1) : (old(j) = old(k) => j = k) /\ (j < k => old(j) < old(k))
  OBVIOUS
<1> HIDE DEF old, m
<1>5. Distinct(n, size) => Distinct(m, size - 1)
  BY <1>1, <1>2, <1>4 DEF Distinct
<1>6. Ordered(n, size) => Ordered(m, size - 1)
  BY <1>1, <1>2, <1>4 DEF Ordered
<1>7. /\ \A k \in 1..(p - 1) : m[k] = n[k]
      /\ \A k \in p..(size - 1) : m[k] = n[k + 1]
  BY <1>2, <1>3
<1> QED
  BY <1>2, <1>5, <1>6, <1>7 DEF Closed

(* A new number is put behind the others.                                  *)
Longer(m, n, l, size) ==
  /\ Begins(m, n, size) /\ m[size + 1] = l + 1
  /\ Distinct(n, size) => Distinct(m, size + 1)
  /\ Ordered(n, size) => Ordered(m, size + 1)

LEMMA PutBehind ==
  ASSUME NEW size \in Nat, NEW l \in Nat, NEW n \in [1..size -> -1..l]
  PROVE  \E m \in [1..(size + 1) -> -1..(l + 1)] : Longer(m, n, l, size)
<1> DEFINE m == [k \in 1..(size + 1) |-> IF k <= size THEN n[k] ELSE l + 1]
<1>1. /\ m \in [1..(size + 1) -> -1..(l + 1)]
      /\ \A k \in 1..size : m[k] = n[k]
      /\ m[size + 1] = l + 1
  OBVIOUS
<1> HIDE DEF m
<1>2. \A k \in 1..size : m[k] \in Int /\ m[k] < l + 1
  BY <1>1
<1>3. \A k \in 1..(size + 1) : k \in 1..size \/ k = size + 1
  OBVIOUS
<1>4. Distinct(n, size) => Distinct(m, size + 1)
  BY <1>1, <1>2, <1>3 DEF Distinct
<1>5. Ordered(n, size) => Ordered(m, size + 1)
  BY <1>1, <1>2, <1>3 DEF Ordered
<1> QED
  BY <1>1, <1>4, <1>5 DEF Longer, Begins

-----------------------------------------------------------------------------
(* Where the texts are.                                                    *)

(* After the first message between the nodes come texts.                   *)
SentTexts ==
  /\ Len(sent) >= 1 /\ sent[1] = Hello
  /\ \A i \in 2..Len(sent) : sent[i] \in DataMessages

Undecoded == SubSeq(sent, Len(received) + 1, Len(sent))

(* The places on the way, from its end: what is shown, the frames for the  *)
(* page, the tasks on n2, the messages on the connection, the tasks on n1, *)
(* and the frames from the page.  A row begins behind the place before it. *)
AtDown == Len(shown)
AtTasks2 == AtDown + Len(down)
AtWire == AtTasks2 + Len(tasks["n2"])
AtTasks1 == AtWire + Len(Undecoded)
AtUp == AtTasks1 + Len(tasks["n1"])
Places == AtUp + Len(up)

(* What a text is in them; the notices have numbers below 1.               *)
OnPage(ty) == [l \in -1..Len(ty) |-> IF l < 1 THEN Greeting ELSE Kept(ty[l])]
ToPage(ty) ==
  [l \in -1..Len(ty) |->
    IF l < 1 THEN Serialize(JavaModel, ConnectResponse) ELSE Downward(ty[l])]
InNode(ty) == [l \in -1..Len(ty) |-> IF l < 1 THEN Hello ELSE Stored(ty[l])]
FromPage(ty) == [l \in -1..Len(ty) |-> IF l < 1 THEN <<>> ELSE Upward(ty[l])]

(* n[k] is the number of the text in place k; that of the greeting is -1,  *)
(* and 0 that of the first message between the nodes.                      *)
Stages(n) ==
  /\ Stage(shown, n, 0, OnPage(typed))
  /\ Stage(down, n, AtDown, ToPage(typed))
  /\ Stage(tasks["n2"], n, AtTasks2, InNode(typed))
  /\ Stage(Undecoded, n, AtWire, InNode(typed))
  /\ Stage(tasks["n1"], n, AtTasks1, InNode(typed))
  /\ Stage(up, n, AtUp, FromPage(typed))

Numbering(n) ==
  /\ AtTasks2 >= 1 /\ n[1] = -1
  /\ \A k \in 2..Places :
       n[k] >= 0 /\ (n[k] = 0 => received = <<>> /\ k = AtWire + 1)

(* A text is in one place, and a single thread lets none overtake another. *)
Row(n) ==
  /\ n \in [1..Places -> -1..Len(typed)]
  /\ Distinct(n, Places) /\ (threads = 1 => Ordered(n, Places))

Traced == \E n : Row(n) /\ Stages(n) /\ Numbering(n)

-----------------------------------------------------------------------------

LEMMA SentTextsNext ==
  ASSUME AllComeThrough, Shape, SentTexts, Next
  PROVE  SentTexts'
<1>1. CASE UNCHANGED sent
  BY <1>1 DEF SentTexts
<1>2. ASSUME NEW i \in 1..MaxTexts, Forward(i) PROVE SentTexts'
  <2>1. PICK m \in DataMessages : sent' = Append(sent, m)
    BY <1>2, ForwardStep
  <2>2. sent \in Seq(Message) /\ m \in Message
    BY DEF Shape, Message
  <2>3. /\ Len(sent) \in Nat /\ Len(sent') = Len(sent) + 1 /\ sent'[Len(sent) + 1] = m
        /\ \A j \in 1..Len(sent) : sent'[j] = sent[j]
    BY <2>1, <2>2, Extended
  <2>4. \A j \in 2..Len(sent') : j \in 2..Len(sent) \/ j = Len(sent) + 1
    BY <2>3
  <2>5. \A j \in 2..Len(sent) : j \in 1..Len(sent)
    OBVIOUS
  <2>6. sent'[1] = Hello /\ Len(sent') >= 1
    BY <2>3 DEF SentTexts
  <2> QED
    BY <2>3, <2>4, <2>5, <2>6 DEF SentTexts
<1>3. UNCHANGED sent \/ Forwards
  BY DEF Next, Type, ReadFrame, Arrives, Arrive, Dispatches, Dispatch, Decode,
         Delivers, Deliver, Show
<1> QED
  BY <1>1, <1>2, <1>3 DEF Forwards

LEMMA Lengths ==
  ASSUME Shape, Framed
  PROVE  /\ Len(shown) \in Nat /\ Len(down) \in Nat /\ Len(tasks["n2"]) \in Nat
         /\ Len(tasks["n1"]) \in Nat /\ Len(up) \in Nat /\ Len(typed) \in Nat
         /\ Undecoded \in Seq(Message) /\ Len(Undecoded) \in Nat
         /\ Len(Undecoded) = Len(sent) - Len(received)
         /\ AtDown \in Nat /\ AtTasks2 \in Nat /\ AtWire \in Nat
         /\ AtTasks1 \in Nat /\ AtUp \in Nat /\ Places \in Nat
<1>1. /\ sent \in Seq(Message) /\ Len(received) \in 0..Len(sent)
  BY DEF Shape, Framed
<1>2. /\ Undecoded \in Seq(Message) /\ Len(Undecoded) = Len(sent) - Len(received)
  BY <1>1, Cut DEF Undecoded
<1>3. Len(Undecoded) \in Nat
  BY <1>1, <1>2
<1>4. /\ tasks["n1"] \in Seq(DataMessages) /\ tasks["n2"] \in Seq(DataMessages)
  BY DEF Shape
<1>5. /\ Len(shown) \in Nat /\ Len(down) \in Nat /\ Len(tasks["n2"]) \in Nat
      /\ Len(tasks["n1"]) \in Nat /\ Len(up) \in Nat /\ Len(typed) \in Nat
  BY <1>4 DEF Shape
<1>6. AtDown \in Nat /\ AtTasks2 \in Nat
  BY <1>5 DEF AtDown, AtTasks2
<1>7. AtWire \in Nat
  BY <1>5, <1>6 DEF AtWire
<1>8. AtTasks1 \in Nat
  BY <1>3, <1>7 DEF AtTasks1
<1>9. AtUp \in Nat
  BY <1>5, <1>8 DEF AtUp
<1>10. Places \in Nat
  BY <1>5, <1>9 DEF Places
<1> QED
  BY <1>2, <1>3, <1>5, <1>6, <1>7, <1>8, <1>9, <1>10

(* The places begin behind each other.                                     *)
Offsets(d, t2, w, t1, u, p) ==
  /\ AtDown = d /\ AtTasks2 = t2 /\ AtWire = w
  /\ AtTasks1 = t1 /\ AtUp = u /\ Places = p
  /\ d <= t2 /\ t2 <= w /\ w <= t1 /\ t1 <= u /\ u <= p
  /\ Len(shown) = d /\ Len(down) = t2 - d
  /\ Len(tasks["n2"]) = w - t2 /\ Len(Undecoded) = t1 - w
  /\ Len(tasks["n1"]) = u - t1 /\ Len(up) = p - u

LEMMA Behind ==
  ASSUME Shape, Framed
  PROVE  \E d, t2, w, t1, u, p \in Nat : Offsets(d, t2, w, t1, u, p)
<1>1. /\ Len(shown) \in Nat /\ Len(down) \in Nat /\ Len(tasks["n2"]) \in Nat
      /\ Len(tasks["n1"]) \in Nat /\ Len(up) \in Nat /\ Len(Undecoded) \in Nat
  BY Lengths
<1>2. PICK a \in Nat, b \in Nat, c \in Nat, e \in Nat, f \in Nat, g \in Nat :
        /\ a = Len(shown) /\ b = Len(down) /\ c = Len(tasks["n2"])
        /\ e = Len(Undecoded) /\ f = Len(tasks["n1"]) /\ g = Len(up)
  BY <1>1
<1>3. PICK t2 \in Nat, w \in Nat, t1 \in Nat, u \in Nat, p \in Nat :
        t2 = a + b /\ w = t2 + c /\ t1 = w + e /\ u = t1 + f /\ p = u + g
  OBVIOUS
<1>4. /\ AtDown = a /\ AtTasks2 = t2 /\ AtWire = w
      /\ AtTasks1 = t1 /\ AtUp = u /\ Places = p
  BY <1>2, <1>3 DEF AtDown, AtTasks2, AtWire, AtTasks1, AtUp, Places
<1>5. /\ a <= t2 /\ t2 <= w /\ w <= t1 /\ t1 <= u /\ u <= p
      /\ b = t2 - a /\ c = w - t2 /\ e = t1 - w /\ f = u - t1 /\ g = p - u
  BY ONLY <1>3
<1>6. Offsets(a, t2, w, t1, u, p)
  BY <1>2, <1>4, <1>5 DEF Offsets
<1> QED
  BY <1>6

(* A place holds a text but for the two notices.                           *)
LEMMA IsText ==
  ASSUME Shape, Framed, SentTexts, NEW n, Row(n), Numbering(n),
         NEW k \in 2..Places, k <= AtWire \/ AtTasks1 < k
  PROVE  n[k] \in 1..Len(typed)
<1>1. k \in 1..Places /\ Places \in Nat /\ Len(typed) \in Nat
  BY Lengths
<1>2. n[k] \in -1..Len(typed)
  BY <1>1 DEF Row
<1>3. n[k] >= 0 /\ (n[k] = 0 => received = <<>> /\ k = AtWire + 1)
  BY DEF Numbering
<1>4. ~ (received = <<>> /\ k = AtWire + 1)
  <2> SUFFICES ASSUME received = <<>>, k = AtWire + 1 PROVE FALSE
    OBVIOUS
  <2>1. PICK d, t2, w, t1, u, p \in Nat : Offsets(d, t2, w, t1, u, p)
    BY Behind
  <2>2. AtWire = w /\ AtTasks1 = t1 /\ Len(Undecoded) = t1 - w
    BY <2>1 DEF Offsets
  <2>3. Len(Undecoded) >= 1
    <3>1. Len(received) = 0 /\ Len(Undecoded) = Len(sent) - Len(received)
      BY Lengths
    <3>2. Len(sent) >= 1 /\ Len(sent) \in Nat
      BY DEF SentTexts, Shape
    <3> QED
      BY <3>1, <3>2
  <2> QED
    BY <2>2, <2>3
<1> QED
  BY <1>1, <1>2, <1>3, <1>4

(* What a text becomes from one place to the next.                         *)
LEMMA Becomes ==
  ASSUME AllComeThrough, Shape
  PROVE  /\ \A l \in 1..Len(typed) :
              /\ Deserialize(JavaModel, FromPage(typed)[l]) = InNode(typed)[l]
              /\ InNode(typed)[l] \in DataMessages
              /\ Serialize(JavaModel, InNode(typed)[l]) = ToPage(typed)[l]
         /\ \A l \in -1..Len(typed) :
              /\ l < 1 => InNode(typed)[l] = Hello
              /\ ContentOf(ToPage(typed)[l]) = OnPage(typed)[l]
<1>0. typed \in Seq(Texts) /\ Len(typed) \in Nat
  BY DEF Shape
<1>1. ASSUME NEW l \in 1..Len(typed)
      PROVE  /\ Deserialize(JavaModel, FromPage(typed)[l]) = InNode(typed)[l]
             /\ InNode(typed)[l] \in DataMessages
             /\ Serialize(JavaModel, InNode(typed)[l]) = ToPage(typed)[l]
  <2>1. l \in -1..Len(typed) /\ ~ (l < 1) /\ typed[l] \in Texts
    BY <1>0
  <2>2. /\ FromPage(typed)[l] = Upward(typed[l]) /\ InNode(typed)[l] = Stored(typed[l])
        /\ ToPage(typed)[l] = Downward(typed[l])
    BY <2>1 DEF FromPage, InNode, ToPage
  <2> QED
    BY <2>1, <2>2 DEF Stored, Downward, DataMessages
<1>2. ASSUME NEW l \in -1..Len(typed), l < 1
      PROVE  InNode(typed)[l] = Hello /\ ContentOf(ToPage(typed)[l]) = OnPage(typed)[l]
  <2>1. /\ InNode(typed)[l] = Hello /\ OnPage(typed)[l] = Greeting
        /\ ToPage(typed)[l] = Serialize(JavaModel, ConnectResponse)
    BY <1>2 DEF InNode, OnPage, ToPage
  <2> QED
    BY <2>1 DEF AllComeThrough, NoticesComeThrough
<1>3. ASSUME NEW l \in -1..Len(typed), ~ (l < 1)
      PROVE  ContentOf(ToPage(typed)[l]) = OnPage(typed)[l]
  <2>1. l \in 1..Len(typed) /\ typed[l] \in Texts
    BY <1>0, <1>3
  <2>2. ToPage(typed)[l] = Downward(typed[l]) /\ OnPage(typed)[l] = Kept(typed[l])
    BY <1>3 DEF ToPage, OnPage
  <2> QED
    BY <2>1, <2>2, TextFacts
<1> QED
  BY <1>1, <1>2, <1>3

(* One more text changes nothing for the others.                           *)
LEMMA Grown ==
  ASSUME NEW ty \in Seq(Texts), NEW t \in Texts
  PROVE  /\ \A l \in -1..Len(ty) :
              /\ OnPage(Append(ty, t))[l] = OnPage(ty)[l]
              /\ ToPage(Append(ty, t))[l] = ToPage(ty)[l]
              /\ InNode(Append(ty, t))[l] = InNode(ty)[l]
              /\ FromPage(Append(ty, t))[l] = FromPage(ty)[l]
         /\ FromPage(Append(ty, t))[Len(ty) + 1] = Upward(t)
<1> DEFINE ty2 == Append(ty, t)
<1>1. /\ Len(ty) \in Nat /\ Len(ty2) = Len(ty) + 1
      /\ \A l \in 1..Len(ty) : ty2[l] = ty[l]
      /\ ty2[Len(ty) + 1] = t
  BY Extended
<1> HIDE DEF ty2
<1>2. ASSUME NEW l \in -1..Len(ty)
      PROVE  /\ OnPage(ty2)[l] = OnPage(ty)[l] /\ ToPage(ty2)[l] = ToPage(ty)[l]
             /\ InNode(ty2)[l] = InNode(ty)[l] /\ FromPage(ty2)[l] = FromPage(ty)[l]
  <2>1. l \in -1..Len(ty2)
    BY <1>1
  <2>2. CASE l < 1
    BY <2>1, <2>2 DEF OnPage, ToPage, InNode, FromPage
  <2>3. CASE ~ (l < 1)
    <3>1. ty2[l] = ty[l]
      BY <1>1, <2>3
    <3> QED
      BY <2>1, <2>3, <3>1 DEF OnPage, ToPage, InNode, FromPage
  <2> QED
    BY <2>2, <2>3
<1>3. FromPage(ty2)[Len(ty) + 1] = Upward(t)
  <2>1. Len(ty) + 1 \in -1..Len(ty2) /\ ~ (Len(ty) + 1 < 1)
    BY <1>1
  <2> QED
    BY <1>1, <2>1 DEF FromPage
<1> QED
  BY <1>2, <1>3 DEF ty2

LEMMA TracedReadFrame ==
  ASSUME AllComeThrough, Shape, Framed, SentTexts, Traced, ReadFrame
  PROVE  Traced'
<1>1. PICK x : x = Deserialize(JavaModel, Head(up))
  OBVIOUS
<1>2. /\ up # <<>> /\ up' = Tail(up) /\ x \in DataMessages
      /\ tasks' = [tasks EXCEPT !["n1"] = Append(@, x)]
      /\ UNCHANGED <<threads, typed, sent, received, down, shown>>
  BY <1>1, ReadFrameStep DEF ReadFrame
<1>3. /\ tasks["n1"] \in Seq(DataMessages) /\ up \in Seq(UpFrames)
      /\ tasks'["n1"] = Append(tasks["n1"], x) /\ tasks'["n2"] = tasks["n2"]
  BY <1>2 DEF Shape
<1>4. PICK d, t2, w, t1, u, p \in Nat : Offsets(d, t2, w, t1, u, p)
  BY Behind
<1>5. /\ Len(tasks'["n1"]) = (u - t1) + 1 /\ Len(tasks["n1"]) = u - t1
      /\ Len(up') = (p - u) - 1 /\ p - u >= 1
  <2>1. Len(tasks["n1"]) = u - t1 /\ Len(up) = p - u
    BY <1>4 DEF Offsets
  <2>2. Len(Append(tasks["n1"], x)) = Len(tasks["n1"]) + 1
    BY ONLY <1>2, <1>3, Extended
  <2>3. Len(Tail(up)) = Len(up) - 1 /\ Len(up) >= 1
    BY ONLY <1>2, <1>3, Shortened
  <2> QED
    BY <1>2, <1>3, <2>1, <2>2, <2>3
<1>6. /\ Undecoded' = Undecoded /\ AtDown' = AtDown /\ AtTasks2' = AtTasks2
      /\ AtWire' = AtWire /\ AtTasks1' = t1
  BY <1>2, <1>3, <1>4 DEF Offsets, Undecoded, AtDown, AtTasks2, AtWire, AtTasks1
<1>7. AtUp' = u + 1 /\ Places' = Places
  <2>1. AtUp' = t1 + Len(tasks'["n1"]) /\ Places' = AtUp' + Len(up')
    BY <1>6 DEF AtUp, Places
  <2>2. t1 + ((u - t1) + 1) = u + 1 /\ (u + 1) + ((p - u) - 1) = p
    OBVIOUS
  <2> QED
    BY <1>4, <1>5, <2>1, <2>2 DEF Offsets
<1>8. PICK n : Row(n) /\ Stages(n) /\ Numbering(n)
  BY DEF Traced
<1>9. u + 1 \in 2..Places /\ AtTasks1 < u + 1 /\ u + 1 = t1 + (Len(tasks["n1"]) + 1)
  <2>1. t2 >= 1 /\ t2 <= w /\ w <= t1 /\ t1 <= u /\ AtTasks1 = t1 /\ Places = p
    BY <1>4, <1>8 DEF Offsets, Numbering
  <2> QED
    BY <1>5, <2>1
<1>10. n[u + 1] \in 1..Len(typed)
  BY <1>8, <1>9, IsText
<1>11. /\ Stage(up, n, u, FromPage(typed)) /\ Stage(tasks["n1"], n, t1, InNode(typed))
  BY <1>4, <1>8 DEF Stages, Offsets
<1>12. Stage(Tail(up), n, u + 1, FromPage(typed)) /\ Head(up) = FromPage(typed)[n[u + 1]]
  BY ONLY <1>2, <1>3, <1>11, StageShortened
<1>13. x = InNode(typed)[n[t1 + (Len(tasks["n1"]) + 1)]]
  BY <1>1, <1>9, <1>10, <1>12, Becomes
<1>14. Stage(tasks'["n1"], n, t1, InNode(typed))
  BY <1>2, <1>3, <1>11, <1>13, StageExtended
<1>15. Stages(n)'
  BY <1>2, <1>3, <1>6, <1>7, <1>8, <1>12, <1>14 DEF Stages
<1>16. Row(n)' /\ Numbering(n)'
  BY <1>2, <1>6, <1>7, <1>8 DEF Row, Numbering
<1> QED
  BY <1>15, <1>16 DEF Traced

LEMMA TracedShow ==
  ASSUME AllComeThrough, Shape, Framed, SentTexts, Traced, Show
  PROVE  Traced'
<1>1. PICK x : x = ContentOf(Head(down))
  OBVIOUS
<1>2. /\ down # <<>> /\ down' = Tail(down)
      /\ shown' = Append(shown, x) /\ x \in Seq(Unit)
      /\ UNCHANGED <<threads, typed, tasks, up, sent, received>>
  BY <1>1, ShowStep DEF Show
<1>3. down \in Seq(DownFrames) /\ shown \in Seq(Seq(Unit))
  BY DEF Shape
<1>4. PICK d, t2, w, t1, u, p \in Nat : Offsets(d, t2, w, t1, u, p)
  BY Behind
<1>5. /\ Len(shown') = d + 1 /\ Len(down') = (t2 - d) - 1 /\ t2 - d >= 1
  <2>1. Len(shown) = d /\ Len(down) = t2 - d
    BY <1>4 DEF Offsets
  <2>2. Len(Append(shown, x)) = Len(shown) + 1
    BY ONLY <1>2, <1>3, Extended
  <2>3. Len(Tail(down)) = Len(down) - 1 /\ Len(down) >= 1
    BY ONLY <1>2, <1>3, Shortened
  <2> QED
    BY <1>2, <2>1, <2>2, <2>3
<1>6. AtDown' = d + 1 /\ AtTasks2' = AtTasks2
  <2>1. AtDown' = Len(shown') /\ AtTasks2' = AtDown' + Len(down')
    BY DEF AtDown, AtTasks2
  <2>2. (d + 1) + ((t2 - d) - 1) = t2
    OBVIOUS
  <2> QED
    BY <1>4, <1>5, <2>1, <2>2 DEF Offsets
<1>7. /\ Undecoded' = Undecoded /\ AtWire' = AtWire /\ AtTasks1' = AtTasks1
      /\ AtUp' = AtUp /\ Places' = Places
  BY <1>2, <1>6 DEF Undecoded, AtWire, AtTasks1, AtUp, Places
<1>8. PICK n : Row(n) /\ Stages(n) /\ Numbering(n)
  BY DEF Traced
<1>9. d + 1 \in 1..Places /\ 0 + (Len(shown) + 1) = d + 1
  <2>1. t2 <= w /\ w <= t1 /\ t1 <= u /\ u <= p /\ Places = p /\ Len(shown) = d
    BY <1>4 DEF Offsets
  <2> QED
    BY <1>5, <2>1
<1>10. n[d + 1] \in -1..Len(typed)
  BY <1>8, <1>9 DEF Row
<1>11. Stage(down, n, d, ToPage(typed)) /\ Stage(shown, n, 0, OnPage(typed))
  BY <1>4, <1>8 DEF Stages, Offsets
<1>12. Stage(Tail(down), n, d + 1, ToPage(typed)) /\ Head(down) = ToPage(typed)[n[d + 1]]
  BY ONLY <1>2, <1>3, <1>11, StageShortened
<1>13. x = OnPage(typed)[n[0 + (Len(shown) + 1)]]
  BY <1>1, <1>9, <1>10, <1>12, Becomes
<1>14. Stage(shown', n, 0, OnPage(typed))
  BY <1>2, <1>3, <1>11, <1>13, StageExtended
<1>15. Stages(n)'
  BY <1>2, <1>6, <1>7, <1>8, <1>12, <1>14 DEF Stages
<1>16. Row(n)' /\ Numbering(n)'
  BY <1>2, <1>6, <1>7, <1>8 DEF Row, Numbering
<1> QED
  BY <1>15, <1>16 DEF Traced

LEMMA TracedType ==
  ASSUME AllComeThrough, Shape, Framed, Traced, NEW t \in Texts, Type(t)
  PROVE  Traced'
<1> DEFINE ty == Append(typed, t)
           l == Len(typed)
<1>1. /\ typed' = ty /\ up' = Append(up, Upward(t)) /\ Upward(t) \in UpFrames
      /\ UNCHANGED <<threads, tasks, sent, received, down, shown>>
  BY TypeStep DEF Type
<1>2. /\ typed \in Seq(Texts) /\ up \in Seq(UpFrames) /\ l \in Nat
      /\ shown \in Seq(Seq(Unit)) /\ down \in Seq(DownFrames)
      /\ tasks["n1"] \in Seq(DataMessages) /\ tasks["n2"] \in Seq(DataMessages)
  BY DEF Shape
<1>3. PICK d, t2, w, t1, u, p \in Nat : Offsets(d, t2, w, t1, u, p)
  BY Behind
<1>4. Len(typed') = l + 1 /\ Len(up') = (p - u) + 1 /\ Len(up) = p - u
  <2>1. Len(up) = p - u
    BY <1>3 DEF Offsets
  <2>2. Len(ty) = l + 1 /\ Len(Append(up, Upward(t))) = Len(up) + 1
    BY <1>1, <1>2, Extended
  <2> QED
    BY <1>1, <2>1, <2>2
<1>5. /\ Undecoded' = Undecoded /\ AtDown' = d /\ AtTasks2' = t2
      /\ AtWire' = w /\ AtTasks1' = t1 /\ AtUp' = u
  BY <1>1, <1>3 DEF Offsets, Undecoded, AtDown, AtTasks2, AtWire, AtTasks1, AtUp
<1>6. Places' = p + 1
  <2>1. Places' = u + Len(up') /\ u + ((p - u) + 1) = p + 1
    BY <1>5 DEF Places
  <2> QED
    BY <1>4, <2>1
<1>7. PICK n : Row(n) /\ Stages(n) /\ Numbering(n)
  BY DEF Traced
<1>8. /\ n \in [1..p -> -1..l] /\ Distinct(n, p) /\ (threads = 1 => Ordered(n, p))
  BY <1>3, <1>7 DEF Row, Offsets
<1>9. PICK m \in [1..(p + 1) -> -1..(l + 1)] : Longer(m, n, l, p)
  <2>1. p \in Nat
    OBVIOUS
  <2> QED
    BY ONLY <1>2, <1>8, <2>1, PutBehind
<1>10. Row(m)'
  BY <1>1, <1>4, <1>6, <1>8, <1>9 DEF Row, Longer
<1>11. /\ \A j \in -1..l :
            /\ OnPage(ty)[j] = OnPage(typed)[j] /\ ToPage(ty)[j] = ToPage(typed)[j]
            /\ InNode(ty)[j] = InNode(typed)[j] /\ FromPage(ty)[j] = FromPage(typed)[j]
       /\ FromPage(ty)[l + 1] = Upward(t)
  BY <1>2, Grown
<1>12. /\ Stage(shown, n, 0, OnPage(typed)) /\ Stage(down, n, d, ToPage(typed))
       /\ Stage(tasks["n2"], n, t2, InNode(typed)) /\ Stage(Undecoded, n, w, InNode(typed))
       /\ Stage(tasks["n1"], n, t1, InNode(typed)) /\ Stage(up, n, u, FromPage(typed))
  BY <1>3, <1>7 DEF Stages, Offsets
<1>13. /\ 0 + Len(shown) <= p /\ d + Len(down) <= p /\ t2 + Len(tasks["n2"]) <= p
       /\ w + Len(Undecoded) <= p /\ t1 + Len(tasks["n1"]) <= p /\ u + Len(up) <= p
  <2>1. /\ d <= t2 /\ t2 <= w /\ w <= t1 /\ t1 <= u /\ u <= p
        /\ Len(shown) = d /\ Len(down) = t2 - d
        /\ Len(tasks["n2"]) = w - t2 /\ Len(Undecoded) = t1 - w
        /\ Len(tasks["n1"]) = u - t1 /\ Len(up) = p - u
    BY <1>3 DEF Offsets
  <2>2. /\ 0 + d <= p /\ d + (t2 - d) <= p /\ t2 + (w - t2) <= p
        /\ w + (t1 - w) <= p /\ t1 + (u - t1) <= p /\ u + (p - u) <= p
    <3>1. d <= t2 /\ t2 <= w /\ w <= t1 /\ t1 <= u /\ u <= p
      BY <2>1
    <3> QED
      BY <3>1
  <2> QED
    BY <2>1, <2>2
<1>14. Undecoded \in Seq(Message)
  BY Lengths
<1> HIDE DEF ty, l
<1>15. /\ Continues(OnPage(ty), OnPage(typed), l) /\ Continues(ToPage(ty), ToPage(typed), l)
       /\ Continues(InNode(ty), InNode(typed), l) /\ Continues(FromPage(ty), FromPage(typed), l)
       /\ Begins(m, n, p)
  BY <1>9, <1>11 DEF Continues, Longer
<1>16. Stage(shown, m, 0, OnPage(ty)) /\ Stage(down, m, d, ToPage(ty))
  <2>1. d \in Nat /\ 0 \in Nat /\ p \in Nat
    OBVIOUS
  <2>2. Stage(shown, m, 0, OnPage(ty))
    BY ONLY <1>2, <1>8, <1>12, <1>13, <1>15, <2>1, StageGrown
  <2>3. Stage(down, m, d, ToPage(ty))
    BY ONLY <1>2, <1>8, <1>12, <1>13, <1>15, <2>1, StageGrown
  <2> QED
    BY <2>2, <2>3
<1>17. Stage(tasks["n2"], m, t2, InNode(ty)) /\ Stage(tasks["n1"], m, t1, InNode(ty))
  <2>1. t2 \in Nat /\ t1 \in Nat /\ p \in Nat
    OBVIOUS
  <2>2. Stage(tasks["n2"], m, t2, InNode(ty))
    BY ONLY <1>2, <1>8, <1>12, <1>13, <1>15, <2>1, StageGrown
  <2>3. Stage(tasks["n1"], m, t1, InNode(ty))
    BY ONLY <1>2, <1>8, <1>12, <1>13, <1>15, <2>1, StageGrown
  <2> QED
    BY <2>2, <2>3
<1>18. Stage(Undecoded, m, w, InNode(ty))
  <2>1. w \in Nat /\ p \in Nat
    OBVIOUS
  <2> QED
    BY ONLY <1>2, <1>8, <1>12, <1>13, <1>14, <1>15, <2>1, StageGrown
<1>19. Stage(up, m, u, FromPage(ty))
  <2>1. u \in Nat /\ p \in Nat
    OBVIOUS
  <2> QED
    BY ONLY <1>2, <1>8, <1>12, <1>13, <1>15, <2>1, StageGrown
<1>20. Stage(Append(up, Upward(t)), m, u, FromPage(ty))
  <2>1. u + (Len(up) + 1) = p + 1
    BY <1>4
  <2>2. Upward(t) = FromPage(ty)[m[u + (Len(up) + 1)]]
    BY <1>9, <1>11, <2>1 DEF Longer
  <2> QED
    BY <1>1, <1>2, <1>19, <2>2, StageExtended
<1>21. Stages(m)'
  BY <1>1, <1>5, <1>16, <1>17, <1>18, <1>20 DEF Stages
<1>22. Numbering(m)'
  <2>1. /\ t2 >= 1 /\ n[1] = -1 /\ t2 <= p /\ AtTasks2 = t2 /\ AtWire = w
        /\ \A k \in 2..p : n[k] >= 0 /\ (n[k] = 0 => received = <<>> /\ k = w + 1)
    <3>1. t2 <= p
      <4>1. t2 <= w /\ w <= t1 /\ t1 <= u /\ u <= p
        BY <1>3 DEF Offsets
      <4> QED
        BY <4>1
    <3> QED
      BY <1>3, <1>7, <3>1 DEF Numbering, Offsets
  <2>2. m[1] = -1
    <3>1. 1 \in 1..p
      BY <2>1
    <3> QED
      BY <1>9, <2>1, <3>1 DEF Longer, Begins
  <2>3. ASSUME NEW k \in 2..(p + 1)
        PROVE  m[k] >= 0 /\ (m[k] = 0 => received = <<>> /\ k = w + 1)
    <3>1. CASE k = p + 1
      <4>1. m[k] = l + 1 /\ l \in Nat
        BY <1>2, <1>9, <3>1 DEF Longer, l
      <4> QED
        BY <4>1
    <3>2. CASE k \in 2..p
      <4>1. k \in 1..p
        BY <3>2
      <4> QED
        BY <1>9, <2>1, <3>2, <4>1 DEF Longer, Begins
    <3> QED
      BY <3>1, <3>2
  <2> QED
    BY <1>1, <1>5, <1>6, <2>1, <2>2, <2>3 DEF Numbering
<1> QED
  BY <1>10, <1>21, <1>22 DEF Traced

LEMMA TracedForward ==
  ASSUME AllComeThrough, Shape, Framed, SentTexts, Traced,
         NEW i \in 1..MaxTexts, Forward(i)
  PROVE  Traced'
<1>1. PICK x : x = tasks["n1"][i]
  OBVIOUS
<1>2. /\ i \in 1..Len(tasks["n1"]) /\ i <= threads /\ x \in DataMessages
      /\ tasks' = [tasks EXCEPT !["n1"] = RemoveAt(@, i)] /\ sent' = Append(sent, x)
      /\ UNCHANGED <<threads, typed, up, received, down, shown>>
  BY <1>1, ForwardStep DEF Forward
<1>3. /\ tasks["n1"] \in Seq(DataMessages) /\ tasks["n2"] \in Seq(DataMessages)
      /\ tasks'["n1"] = RemoveAt(tasks["n1"], i) /\ tasks'["n2"] = tasks["n2"]
      /\ sent \in Seq(Message) /\ x \in Message
      /\ up \in Seq(UpFrames) /\ Undecoded \in Seq(Message) /\ Len(received) \in 0..Len(sent)
  BY <1>2, Lengths DEF Shape, Message, Framed
<1>4. PICK d, t2, w, t1, u, p \in Nat : Offsets(d, t2, w, t1, u, p)
  BY Behind
<1>5. Undecoded' = Append(Undecoded, x)
  <2>1. Undecoded' = SubSeq(sent', Len(received) + 1, Len(sent'))
    BY <1>2 DEF Undecoded
  <2>2. SubSeq(Append(sent, x), Len(received) + 1, Len(Append(sent, x)))
          = Append(SubSeq(sent, Len(received) + 1, Len(sent)), x)
    BY ONLY <1>3, RestGrown
  <2> QED
    BY <1>2, <2>1, <2>2 DEF Undecoded
<1>6. /\ d <= t2 /\ t2 <= w /\ w <= t1 /\ t1 <= u /\ u <= p
      /\ Len(tasks["n1"]) = u - t1 /\ Len(Undecoded) = t1 - w /\ Len(up) = p - u
      /\ Len(shown) = d /\ Len(down) = t2 - d /\ Len(tasks["n2"]) = w - t2
      /\ AtDown = d /\ AtTasks2 = t2 /\ AtWire = w
      /\ AtTasks1 = t1 /\ AtUp = u /\ Places = p
  BY <1>4 DEF Offsets
<1>7. /\ AtDown' = d /\ AtTasks2' = t2 /\ AtWire' = w
  BY <1>2, <1>3, <1>6 DEF AtDown, AtTasks2, AtWire
<1>8. /\ AtTasks1' = t1 + 1 /\ AtUp' = u /\ Places' = p
  <2>1. Len(Append(Undecoded, x)) = Len(Undecoded) + 1
    BY ONLY <1>3, Extended
  <2>2. Len(RemoveAt(tasks["n1"], i)) = Len(tasks["n1"]) - 1
    BY ONLY <1>2, <1>3, Removed
  <2>3. AtTasks1' = w + ((t1 - w) + 1)
    BY <1>5, <1>6, <1>7, <2>1 DEF AtTasks1
  <2>4. AtTasks1' = t1 + 1
    BY <2>3
  <2>5. AtUp' = (t1 + 1) + ((u - t1) - 1)
    BY <1>3, <1>6, <2>2, <2>4 DEF AtUp
  <2>6. AtUp' = u
    BY <2>5
  <2>7. Places' = u + (p - u)
    BY <1>2, <1>6, <2>6 DEF Places
  <2> QED
    BY <2>4, <2>6, <2>7
<1>9. PICK n : Row(n) /\ Stages(n) /\ Numbering(n)
  BY DEF Traced
<1> DEFINE Z == -1..Len(typed)
           at == t1 + i
           to == t1 + 1
<1>10. /\ n \in [1..p -> Z] /\ Distinct(n, p) /\ (threads = 1 => Ordered(n, p))
  BY <1>6, <1>9 DEF Row
<1>11. /\ at \in 1..p /\ to \in 1..at /\ at <= u /\ to \in Nat /\ (threads = 1 => at = to)
  <2>1. i \in 1..(u - t1) /\ u <= p
    BY <1>2, <1>6
  <2>2. threads = 1 => i = 1
    BY <1>2
  <2> QED
    BY <2>1, <2>2
<1> HIDE DEF Z
<1>12. PICK m \in [1..p -> Z] : Moved(m, n, at, to, p)
  <2>1. Z \in SUBSET Int /\ p \in Nat
    BY DEF Z
  <2>2. at \in 1..p /\ to \in 1..at
    BY <1>11
  <2> HIDE DEF at, to
  <2> QED
    BY ONLY <1>10, <2>1, <2>2, MovedForward
<1>13. /\ m[to] = n[at]
       /\ \A k \in 1..(to - 1) : m[k] = n[k]
       /\ \A k \in (to + 1)..at : m[k] = n[k - 1]
       /\ \A k \in (at + 1)..p : m[k] = n[k]
       /\ Distinct(n, p) => Distinct(m, p)
       /\ Ordered(n, p) /\ at = to => Ordered(m, p)
  <2> HIDE DEF at, to
  <2> QED
    BY <1>12 DEF Moved
<1>14. Row(m)'
  <2>1. Distinct(m, p) /\ (threads = 1 => Ordered(m, p))
    BY <1>10, <1>11, <1>13
  <2> QED
    BY <1>2, <1>8, <1>12, <2>1 DEF Row, Z
<1>15. /\ Stage(shown, n, 0, OnPage(typed)) /\ Stage(down, n, d, ToPage(typed))
       /\ Stage(tasks["n2"], n, t2, InNode(typed)) /\ Stage(Undecoded, n, w, InNode(typed))
       /\ Stage(tasks["n1"], n, t1, InNode(typed)) /\ Stage(up, n, u, FromPage(typed))
  BY <1>6, <1>9 DEF Stages
<1>16. \A k \in 1..t1 : m[k] = n[k]
  BY <1>13
<1>17. Stage(shown, m, 0, OnPage(typed))
  <2>1. \A k \in 1..Len(shown) : 0 + k \in 1..t1
    BY <1>6
  <2> QED
    BY <1>15, <1>16, <2>1 DEF Stage
<1>18. Stage(down, m, d, ToPage(typed))
  <2>1. \A k \in 1..Len(down) : d + k \in 1..t1
    BY <1>6
  <2> QED
    BY <1>15, <1>16, <2>1 DEF Stage
<1>19. Stage(tasks["n2"], m, t2, InNode(typed))
  <2>1. \A k \in 1..Len(tasks["n2"]) : t2 + k \in 1..t1
    BY <1>6
  <2> QED
    BY <1>15, <1>16, <2>1 DEF Stage
<1>20. Stage(Append(Undecoded, x), m, w, InNode(typed))
  <2>1. Stage(Undecoded, m, w, InNode(typed))
    <3>1. \A k \in 1..Len(Undecoded) : w + k \in 1..t1
      BY <1>6
    <3> QED
      BY <1>15, <1>16, <3>1 DEF Stage
  <2>2. w + (Len(Undecoded) + 1) = to
    BY <1>6
  <2>3. x = InNode(typed)[n[at]]
    BY <1>1, <1>2, <1>15 DEF Stage
  <2>4. x = InNode(typed)[m[w + (Len(Undecoded) + 1)]]
    BY <1>13, <2>2, <2>3
  <2>5. w \in Nat
    OBVIOUS
  <2> QED
    BY ONLY <1>3, <2>1, <2>4, <2>5, StageExtended
<1>21. Stage(RemoveAt(tasks["n1"], i), m, to, InNode(typed))
  <2>1. ASSUME NEW k \in 1..(i - 1) PROVE m[to + k] = n[t1 + k]
    <3>1. to + k \in (to + 1)..at /\ (to + k) - 1 = t1 + k
      OBVIOUS
    <3>2. m[to + k] = n[(to + k) - 1]
      BY <1>13, <3>1
    <3> QED
      BY <3>1, <3>2
  <2>2. ASSUME NEW k \in i..(Len(tasks["n1"]) - 1) PROVE m[to + k] = n[t1 + (k + 1)]
    <3>1. to + k \in (at + 1)..p /\ to + k = t1 + (k + 1)
      BY <1>6
    <3>2. m[to + k] = n[to + k]
      BY <1>13, <3>1
    <3> QED
      BY <3>1, <3>2
  <2>3. t1 \in Nat
    OBVIOUS
  <2>4. Without(m, to, n, t1, i, Len(tasks["n1"])) /\ to \in Nat
    BY <1>11, <2>1, <2>2 DEF Without
  <2> HIDE DEF to
  <2> QED
    BY ONLY <1>2, <1>3, <1>15, <2>3, <2>4, StageRemoved
<1>22. Stage(up, m, u, FromPage(typed))
  <2>1. \A k \in 1..Len(up) : u + k \in (at + 1)..p
    BY <1>6, <1>11
  <2> QED
    BY <1>13, <1>15, <2>1 DEF Stage
<1>23. Stages(m)'
  BY <1>2, <1>3, <1>5, <1>7, <1>8, <1>17, <1>18, <1>19, <1>20, <1>21, <1>22 DEF Stages
<1>24. Numbering(m)'
  <2>1. /\ t2 >= 1 /\ n[1] = -1
        /\ \A k \in 2..p : n[k] >= 0 /\ (n[k] = 0 => received = <<>> /\ k = w + 1)
    BY <1>6, <1>9 DEF Numbering
  <2>2. m[1] = -1
    <3>1. 1 \in 1..t1
      BY <1>6, <2>1
    <3> QED
      BY <1>16, <2>1, <3>1
  <2>3. ASSUME NEW k \in 2..p, t1 < k PROVE n[k] \in 1..Len(typed)
    BY <1>6, <1>9, <2>3, IsText
  <2>4. ASSUME NEW k \in 2..p
        PROVE  m[k] >= 0 /\ (m[k] = 0 => received = <<>> /\ k = w + 1)
    <3>1. CASE k <= t1
      <4>1. k \in 1..t1
        BY <3>1
      <4> QED
        BY <1>16, <2>1, <4>1
    <3>2. CASE t1 < k
      <4>1. \E j \in 2..p : t1 < j /\ m[k] = n[j]
        <5>1. CASE k = to
          <6>1. at \in 2..p /\ t1 < at
            BY <1>6, <1>11, <2>1
          <6> QED
            BY <1>13, <5>1, <6>1
        <5>2. CASE k \in (to + 1)..at
          <6>1. k - 1 \in 2..p /\ t1 < k - 1
            BY <1>6, <1>11, <2>1, <5>2
          <6> QED
            BY <1>13, <5>2, <6>1
        <5>3. CASE k \in (at + 1)..p
          BY <1>13, <3>2, <5>3
        <5>4. k = to \/ k \in (to + 1)..at \/ k \in (at + 1)..p
          BY <1>11, <3>2
        <5> QED
          BY <5>1, <5>2, <5>3, <5>4
      <4>2. m[k] \in 1..Len(typed)
        BY <2>3, <4>1
      <4> QED
        BY <4>2
    <3> QED
      BY <3>1, <3>2
  <2> QED
    BY <1>2, <1>7, <1>8, <2>1, <2>2, <2>4 DEF Numbering
<1> QED
  BY <1>14, <1>23, <1>24 DEF Traced

LEMMA TracedDecode ==
  ASSUME AllComeThrough, Shape, Framed, SentTexts, Traced, Decode
  PROVE  Traced'
<1>1. PICK x, e : x = sent[Len(received) + 1] /\ e = Len(Encode(x))
  OBVIOUS
<1>2. /\ Len(received) < Len(sent) /\ received' = Append(received, x)
      /\ x = Hello => tasks' = tasks
      /\ x # Hello => x \in DataMessages /\ tasks' = [tasks EXCEPT !["n2"] = Append(@, x)]
      /\ UNCHANGED <<threads, typed, up, sent, down, shown>>
  BY <1>1, DecodeStep DEF Decode
<1>3. /\ tasks["n1"] \in Seq(DataMessages) /\ tasks["n2"] \in Seq(DataMessages)
      /\ sent \in Seq(Message) /\ received \in Seq(Message) /\ x \in Message
      /\ up \in Seq(UpFrames) /\ Undecoded \in Seq(Message)
  BY <1>1, <1>2, DecodeStep, Lengths DEF Shape
<1>4. PICK d, t2, w, t1, u, p \in Nat : Offsets(d, t2, w, t1, u, p)
  BY Behind
<1>5. /\ d <= t2 /\ t2 <= w /\ w <= t1 /\ t1 <= u /\ u <= p
      /\ Len(tasks["n1"]) = u - t1 /\ Len(Undecoded) = t1 - w /\ Len(up) = p - u
      /\ Len(shown) = d /\ Len(down) = t2 - d /\ Len(tasks["n2"]) = w - t2
      /\ AtDown = d /\ AtTasks2 = t2 /\ AtWire = w
      /\ AtTasks1 = t1 /\ AtUp = u /\ Places = p
  BY <1>4 DEF Offsets
<1>6. Undecoded # <<>> /\ Head(Undecoded) = x /\ Undecoded' = Tail(Undecoded)
  <2>1. Len(received) \in Nat /\ Len(received') = Len(received) + 1
    BY <1>2, <1>3, Extended
  <2>2. /\ SubSeq(sent, Len(received) + 1, Len(sent)) # <<>>
        /\ Head(SubSeq(sent, Len(received) + 1, Len(sent))) = sent[Len(received) + 1]
        /\ SubSeq(sent, (Len(received) + 1) + 1, Len(sent))
             = Tail(SubSeq(sent, Len(received) + 1, Len(sent)))
    BY ONLY <1>2, <1>3, <2>1, RestShortened
  <2>3. Undecoded' = SubSeq(sent, (Len(received) + 1) + 1, Len(sent))
    BY <1>2, <2>1 DEF Undecoded
  <2> QED
    BY <1>1, <2>2, <2>3 DEF Undecoded
<1>7. Len(Tail(Undecoded)) = (t1 - w) - 1 /\ w < t1
  <2>1. Len(Undecoded) >= 1 /\ Len(Tail(Undecoded)) = Len(Undecoded) - 1
    BY ONLY <1>3, <1>6, Shortened
  <2> QED
    BY <1>5, <2>1
<1>8. received' # <<>> /\ AtDown' = d /\ AtTasks2' = t2
  <2>1. received' # <<>>
    <3>1. Len(Append(received, x)) = Len(received) + 1 /\ Len(received) \in Nat
      BY ONLY <1>3, Extended, LenProperties
    <3> QED
      BY <1>2, <3>1
  <2> QED
    BY <1>2, <1>5, <2>1 DEF AtDown, AtTasks2
<1>9. PICK n : Row(n) /\ Stages(n) /\ Numbering(n)
  BY DEF Traced
<1>10. /\ n \in [1..p -> -1..Len(typed)] /\ Distinct(n, p)
       /\ (threads = 1 => Ordered(n, p))
  BY <1>5, <1>9 DEF Row
<1>11. /\ Stage(shown, n, 0, OnPage(typed)) /\ Stage(down, n, d, ToPage(typed))
       /\ Stage(tasks["n2"], n, t2, InNode(typed)) /\ Stage(Undecoded, n, w, InNode(typed))
       /\ Stage(tasks["n1"], n, t1, InNode(typed)) /\ Stage(up, n, u, FromPage(typed))
  BY <1>5, <1>9 DEF Stages
<1>12. /\ t2 >= 1 /\ n[1] = -1
       /\ \A k \in 2..p : n[k] >= 0 /\ (n[k] = 0 => received = <<>> /\ k = w + 1)
  BY <1>5, <1>9 DEF Numbering
<1>13. Stage(Tail(Undecoded), n, w + 1, InNode(typed)) /\ x = InNode(typed)[n[w + 1]]
  <2>1. w \in Nat
    OBVIOUS
  <2> QED
    BY ONLY <1>3, <1>6, <1>11, <2>1, StageShortened
<1>14. w + 1 \in 2..p /\ w + 1 \in 1..p /\ n[w + 1] \in 0..Len(typed)
  <2>1. w + 1 \in 2..p /\ w + 1 \in 1..p
    BY <1>5, <1>7, <1>12
  <2>2. n[w + 1] \in -1..Len(typed) /\ n[w + 1] >= 0 /\ Len(typed) \in Nat
    BY <1>10, <1>12, <2>1, Lengths
  <2> QED
    BY <2>1, <2>2
<1>15. n[w + 1] = 0 <=> x = Hello
  <2>1. CASE n[w + 1] = 0
    <3>1. 0 \in -1..Len(typed) /\ 0 < 1
      BY Lengths
    <3> QED
      BY <1>13, <2>1, <3>1, Becomes
  <2>2. CASE ~ (n[w + 1] = 0)
    <3>1. n[w + 1] \in 1..Len(typed)
      BY <1>14, <2>2
    <3>2. x \in DataMessages
      BY <1>13, <3>1, Becomes
    <3> QED
      BY <2>2, <3>2, DataTasks
  <2> QED
    BY <2>1, <2>2
<1>16. CASE ~ (x = Hello)
  <2>1. /\ x \in DataMessages /\ tasks'["n2"] = Append(tasks["n2"], x)
        /\ tasks'["n1"] = tasks["n1"]
    BY <1>2, <1>16 DEF Shape
  <2>2. AtWire' = w + 1
    <3>1. Len(Append(tasks["n2"], x)) = Len(tasks["n2"]) + 1
      BY ONLY <1>3, <2>1, Extended
    <3>2. AtWire' = t2 + ((w - t2) + 1)
      BY <1>5, <1>8, <2>1, <3>1 DEF AtWire
    <3> QED
      BY <3>2
  <2>3. AtTasks1' = t1
    <3>1. AtTasks1' = (w + 1) + ((t1 - w) - 1)
      BY <1>6, <1>7, <2>2 DEF AtTasks1
    <3> QED
      BY <3>1
  <2>4. AtUp' = u /\ Places' = p
    BY <1>2, <1>5, <2>1, <2>3 DEF AtUp, Places
  <2>5. Stage(Append(tasks["n2"], x), n, t2, InNode(typed))
    <3>1. t2 + (Len(tasks["n2"]) + 1) = w + 1 /\ t2 \in Nat
      BY <1>5
    <3>2. x = InNode(typed)[n[t2 + (Len(tasks["n2"]) + 1)]]
      BY <1>13, <3>1
    <3> QED
      BY ONLY <1>3, <1>11, <2>1, <3>1, <3>2, StageExtended
  <2>6. Stages(n)'
    BY <1>2, <1>6, <1>8, <1>11, <1>13, <2>1, <2>2, <2>3, <2>4, <2>5 DEF Stages
  <2>7. Row(n)'
    BY <1>2, <1>10, <2>4 DEF Row
  <2>8. \A k \in 2..p : n[k] >= 0 /\ n[k] # 0
    BY <1>12, <1>15, <1>16
  <2>9. Numbering(n)'
    BY <1>8, <1>12, <2>4, <2>8 DEF Numbering
  <2> QED
    BY <2>6, <2>7, <2>9 DEF Traced
<1>17. CASE x = Hello
  <2>1. tasks' = tasks
    BY <1>2, <1>17
  <2>2. AtWire' = w
    BY <1>5, <1>8, <2>1 DEF AtWire
  <2>3. AtTasks1' = t1 - 1
    <3>1. AtTasks1' = w + ((t1 - w) - 1)
      BY <1>6, <1>7, <2>2 DEF AtTasks1
    <3> QED
      BY <3>1
  <2>4. AtUp' = u - 1
    <3>1. AtUp' = (t1 - 1) + (u - t1)
      BY <1>5, <2>1, <2>3 DEF AtUp
    <3> QED
      BY <3>1
  <2>5. Places' = p - 1
    <3>1. Places' = (u - 1) + (p - u)
      BY <1>2, <1>5, <2>4 DEF Places
    <3> QED
      BY <3>1
  <2> DEFINE Z == -1..Len(typed)
             at == w + 1
  <2>6. /\ n \in [1..p -> Z] /\ at \in 1..p /\ Z \in SUBSET Int /\ p \in Nat
    BY <1>10, <1>14
  <2>7. PICK m \in [1..(p - 1) -> Z] : Closed(m, n, at, p)
    <3> HIDE DEF Z, at
    <3> QED
      BY ONLY <2>6, TakenOut
  <2>8. /\ \A k \in 1..w : m[k] = n[k]
        /\ \A k \in at..(p - 1) : m[k] = n[k + 1]
    <3>1. \A k \in 1..w : k \in 1..(at - 1)
      OBVIOUS
    <3> QED
      BY <2>7, <3>1 DEF Closed
  <2>9. Row(m)'
    <3>1. Distinct(m, p - 1) /\ (threads = 1 => Ordered(m, p - 1))
      BY <1>10, <2>7 DEF Closed
    <3> QED
      BY <1>2, <2>5, <2>7, <3>1 DEF Row
  <2>10. Stage(shown, m, 0, OnPage(typed))
    <3>1. \A k \in 1..Len(shown) : 0 + k \in 1..w
      BY <1>5
    <3> QED
      BY <1>11, <2>8, <3>1 DEF Stage
  <2>11. Stage(down, m, d, ToPage(typed))
    <3>1. \A k \in 1..Len(down) : d + k \in 1..w
      BY <1>5
    <3> QED
      BY <1>11, <2>8, <3>1 DEF Stage
  <2>12. Stage(tasks["n2"], m, t2, InNode(typed))
    <3>1. \A k \in 1..Len(tasks["n2"]) : t2 + k \in 1..w
      BY <1>5
    <3> QED
      BY <1>11, <2>8, <3>1 DEF Stage
  <2>13. Stage(Tail(Undecoded), m, w, InNode(typed))
    <3>1. \A k \in 1..Len(Tail(Undecoded)) : w + k \in at..(p - 1) /\ (w + k) + 1 = (w + 1) + k
      BY <1>5, <1>7
    <3>2. \A k \in 1..Len(Tail(Undecoded)) : m[w + k] = n[(w + 1) + k]
      BY <2>8, <3>1
    <3> QED
      BY <1>13, <3>2 DEF Stage
  <2>14. Stage(tasks["n1"], m, t1 - 1, InNode(typed))
    <3>1. \A k \in 1..Len(tasks["n1"]) :
            (t1 - 1) + k \in at..(p - 1) /\ ((t1 - 1) + k) + 1 = t1 + k
      BY <1>5, <1>7
    <3>2. \A k \in 1..Len(tasks["n1"]) : m[(t1 - 1) + k] = n[t1 + k]
      BY <2>8, <3>1
    <3> QED
      BY <1>11, <3>2 DEF Stage
  <2>15. Stage(up, m, u - 1, FromPage(typed))
    <3>1. \A k \in 1..Len(up) : (u - 1) + k \in at..(p - 1) /\ ((u - 1) + k) + 1 = u + k
      BY <1>5, <1>7
    <3>2. \A k \in 1..Len(up) : m[(u - 1) + k] = n[u + k]
      BY <2>8, <3>1
    <3> QED
      BY <1>11, <3>2 DEF Stage
  <2>16. Stages(m)'
    BY <1>2, <1>6, <1>8, <2>1, <2>2, <2>3, <2>4,
       <2>10, <2>11, <2>12, <2>13, <2>14, <2>15 DEF Stages
  <2>17. Numbering(m)'
    <3>1. m[1] = -1
      <4>1. 1 \in 1..w
        BY <1>5, <1>12
      <4> QED
        BY <1>12, <2>8, <4>1
    <3>2. ASSUME NEW k \in 2..(p - 1) PROVE m[k] >= 0 /\ m[k] # 0
      <4>1. \E j \in 2..p : j # w + 1 /\ m[k] = n[j]
        <5>1. CASE k <= w
          <6>1. k \in 1..w /\ k \in 2..p /\ k # w + 1
            BY <5>1
          <6> QED
            BY <2>8, <6>1
        <5>2. CASE ~ (k <= w)
          <6>1. k \in at..(p - 1) /\ k + 1 \in 2..p /\ k + 1 # w + 1
            BY <5>2
          <6> QED
            BY <2>8, <6>1
        <5> QED
          BY <5>1, <5>2
      <4> QED
        BY <1>12, <4>1
    <3> QED
      BY <1>8, <1>12, <2>5, <3>1, <3>2 DEF Numbering
  <2> QED
    BY <2>9, <2>16, <2>17 DEF Traced
<1> QED
  BY <1>16, <1>17

LEMMA TracedDeliver ==
  ASSUME AllComeThrough, Shape, Framed, SentTexts, Traced,
         NEW i \in 1..MaxTexts, Deliver(i)
  PROVE  Traced'
<1>1. PICK x : x = Serialize(JavaModel, tasks["n2"][i])
  OBVIOUS
<1>2. /\ i \in 1..Len(tasks["n2"]) /\ i <= threads /\ x \in DownFrames
      /\ tasks' = [tasks EXCEPT !["n2"] = RemoveAt(@, i)]
      /\ down' = Append(down, x) \/ down' = down
      /\ UNCHANGED <<threads, typed, up, sent, received, shown>>
  BY <1>1, DeliverStep DEF Deliver
<1>3. /\ tasks["n1"] \in Seq(DataMessages) /\ tasks["n2"] \in Seq(DataMessages)
      /\ tasks'["n2"] = RemoveAt(tasks["n2"], i) /\ tasks'["n1"] = tasks["n1"]
      /\ down \in Seq(DownFrames) /\ up \in Seq(UpFrames) /\ Undecoded \in Seq(Message)
  BY <1>2, Lengths DEF Shape
<1>4. PICK d, t2, w, t1, u, p \in Nat : Offsets(d, t2, w, t1, u, p)
  BY Behind
<1>5. /\ d <= t2 /\ t2 <= w /\ w <= t1 /\ t1 <= u /\ u <= p
      /\ Len(tasks["n1"]) = u - t1 /\ Len(Undecoded) = t1 - w /\ Len(up) = p - u
      /\ Len(shown) = d /\ Len(down) = t2 - d /\ Len(tasks["n2"]) = w - t2
      /\ AtDown = d /\ AtTasks2 = t2 /\ AtWire = w
      /\ AtTasks1 = t1 /\ AtUp = u /\ Places = p
  BY <1>4 DEF Offsets
<1>6. /\ Undecoded' = Undecoded /\ AtDown' = d
      /\ Len(tasks'["n2"]) = (w - t2) - 1
  <2>1. Len(RemoveAt(tasks["n2"], i)) = Len(tasks["n2"]) - 1
    BY ONLY <1>2, <1>3, Removed
  <2> QED
    BY <1>2, <1>3, <1>5, <2>1 DEF Undecoded, AtDown
<1>7. PICK n : Row(n) /\ Stages(n) /\ Numbering(n)
  BY DEF Traced
<1>8. /\ n \in [1..p -> -1..Len(typed)] /\ Distinct(n, p)
      /\ (threads = 1 => Ordered(n, p))
  BY <1>5, <1>7 DEF Row
<1>9. /\ Stage(shown, n, 0, OnPage(typed)) /\ Stage(down, n, d, ToPage(typed))
      /\ Stage(tasks["n2"], n, t2, InNode(typed)) /\ Stage(Undecoded, n, w, InNode(typed))
      /\ Stage(tasks["n1"], n, t1, InNode(typed)) /\ Stage(up, n, u, FromPage(typed))
  BY <1>5, <1>7 DEF Stages
<1>10. /\ t2 >= 1 /\ n[1] = -1
       /\ \A k \in 2..p : n[k] >= 0 /\ (n[k] = 0 => received = <<>> /\ k = w + 1)
  BY <1>5, <1>7 DEF Numbering
<1> DEFINE Z == -1..Len(typed)
           at == t2 + i
           to == t2 + 1
<1>11. /\ at \in 2..p /\ at \in 1..p /\ to \in 1..at /\ at <= w /\ to \in Nat
       /\ (threads = 1 => at = to)
  <2>1. i \in 1..(w - t2)
    BY <1>2, <1>5
  <2>2. threads = 1 => i = 1
    BY <1>2
  <2> QED
    BY <1>5, <1>10, <2>1, <2>2
<1>12. n \in [1..p -> Z] /\ Z \in SUBSET Int /\ p \in Nat
  BY <1>8
<1>13. x = ToPage(typed)[n[at]]
  <2>1. n[at] \in 1..Len(typed)
    BY <1>5, <1>7, <1>11, IsText
  <2>2. tasks["n2"][i] = InNode(typed)[n[at]]
    BY <1>2, <1>9 DEF Stage
  <2> QED
    BY <1>1, <2>1, <2>2, Becomes
<1>14. CASE down' = Append(down, x)
  <2>1. AtTasks2' = t2 + 1
    <3>1. Len(Append(down, x)) = Len(down) + 1
      BY ONLY <1>2, <1>3, Extended
    <3>2. AtTasks2' = d + ((t2 - d) + 1)
      BY <1>5, <1>6, <1>14, <3>1 DEF AtTasks2
    <3> QED
      BY <3>2
  <2>2. AtWire' = w
    <3>1. AtWire' = (t2 + 1) + ((w - t2) - 1)
      BY <1>6, <2>1 DEF AtWire
    <3> QED
      BY <3>1
  <2>3. AtTasks1' = t1 /\ AtUp' = u /\ Places' = p
    BY <1>2, <1>3, <1>5, <1>6, <2>2 DEF AtTasks1, AtUp, Places
  <2>4. PICK m \in [1..p -> Z] : Moved(m, n, at, to, p)
    <3> HIDE DEF Z, at, to
    <3> QED
      BY ONLY <1>11, <1>12, MovedForward
  <2>5. /\ m[to] = n[at] /\ \A k \in 1..t2 : m[k] = n[k]
        /\ \A k \in (to + 1)..at : m[k] = n[k - 1]
        /\ \A k \in (at + 1)..p : m[k] = n[k]
    <3>1. \A k \in 1..t2 : k \in 1..(to - 1)
      OBVIOUS
    <3> HIDE DEF at, to
    <3> QED
      BY <2>4, <3>1 DEF Moved
  <2>6. Row(m)'
    <3>1. Distinct(m, p) /\ (threads = 1 => Ordered(m, p))
      <4> HIDE DEF at, to
      <4> QED
        BY <1>8, <1>11, <2>4 DEF Moved
    <3> QED
      BY <1>2, <2>3, <2>4, <3>1 DEF Row
  <2>7. Stage(shown, m, 0, OnPage(typed))
    <3>1. \A k \in 1..Len(shown) : 0 + k \in 1..t2
      BY <1>5
    <3> QED
      BY <1>9, <2>5, <3>1 DEF Stage
  <2>8. Stage(Append(down, x), m, d, ToPage(typed))
    <3>1. Stage(down, m, d, ToPage(typed))
      <4>1. \A k \in 1..Len(down) : d + k \in 1..t2
        BY <1>5
      <4> QED
        BY <1>9, <2>5, <4>1 DEF Stage
    <3>2. d + (Len(down) + 1) = to /\ d \in Nat
      BY <1>5
    <3>3. x = ToPage(typed)[m[d + (Len(down) + 1)]]
      BY <1>13, <2>5, <3>2
    <3> QED
      BY ONLY <1>2, <1>3, <3>1, <3>2, <3>3, StageExtended
  <2>9. Stage(RemoveAt(tasks["n2"], i), m, to, InNode(typed))
    <3>1. ASSUME NEW k \in 1..(i - 1) PROVE m[to + k] = n[t2 + k]
      <4>1. to + k \in (to + 1)..at /\ (to + k) - 1 = t2 + k
        OBVIOUS
      <4>2. m[to + k] = n[(to + k) - 1]
        BY <2>5, <4>1
      <4> QED
        BY <4>1, <4>2
    <3>2. ASSUME NEW k \in i..(Len(tasks["n2"]) - 1) PROVE m[to + k] = n[t2 + (k + 1)]
      <4>1. to + k \in (at + 1)..p /\ to + k = t2 + (k + 1)
        BY <1>5
      <4>2. m[to + k] = n[to + k]
        BY <2>5, <4>1
      <4> QED
        BY <4>1, <4>2
    <3>3. Without(m, to, n, t2, i, Len(tasks["n2"])) /\ to \in Nat /\ t2 \in Nat
      BY <1>11, <3>1, <3>2 DEF Without
    <3> HIDE DEF to
    <3> QED
      BY ONLY <1>2, <1>3, <1>9, <3>3, StageRemoved
  <2>10. \A k \in (w + 1)..p : m[k] = n[k]
    <3>1. \A k \in (w + 1)..p : k \in (at + 1)..p
      BY <1>11
    <3> QED
      BY <2>5, <3>1
  <2>11. Stage(Undecoded, m, w, InNode(typed))
    <3>1. \A k \in 1..Len(Undecoded) : w + k \in (w + 1)..p
      BY <1>5
    <3> QED
      BY <1>9, <2>10, <3>1 DEF Stage
  <2>12. Stage(tasks["n1"], m, t1, InNode(typed))
    <3>1. \A k \in 1..Len(tasks["n1"]) : t1 + k \in (w + 1)..p
      BY <1>5
    <3> QED
      BY <1>9, <2>10, <3>1 DEF Stage
  <2>13. Stage(up, m, u, FromPage(typed))
    <3>1. \A k \in 1..Len(up) : u + k \in (w + 1)..p
      BY <1>5
    <3> QED
      BY <1>9, <2>10, <3>1 DEF Stage
  <2>14. Stages(m)'
    BY <1>2, <1>3, <1>6, <1>14, <2>1, <2>2, <2>3,
       <2>7, <2>8, <2>9, <2>11, <2>12, <2>13 DEF Stages
  <2>15. Numbering(m)'
    <3>1. m[1] = -1
      <4>1. 1 \in 1..t2
        BY <1>10
      <4> QED
        BY <1>10, <2>5, <4>1
    <3>2. ASSUME NEW k \in 2..p
          PROVE  m[k] >= 0 /\ (m[k] = 0 => received = <<>> /\ k = w + 1)
      <4>1. CASE k <= t2 \/ at < k
        <5>1. k \in 1..t2 \/ k \in (at + 1)..p
          BY <4>1
        <5> QED
          BY <1>10, <2>5, <5>1
      <4>2. CASE ~ (k <= t2 \/ at < k)
        <5>1. \E j \in 2..p : j <= w /\ m[k] = n[j]
          <6>1. CASE k = to
            BY <1>11, <2>5, <6>1
          <6>2. CASE ~ (k = to)
            <7>1. k \in (to + 1)..at /\ k - 1 \in 2..p /\ k - 1 <= w
              BY <1>10, <1>11, <4>2, <6>2
            <7> QED
              BY <2>5, <7>1
          <6> QED
            BY <6>1, <6>2
        <5>2. PICK j \in 2..p : j <= w /\ m[k] = n[j]
          BY <5>1
        <5>3. j # w + 1
          BY <5>2
        <5> QED
          BY <1>10, <5>2, <5>3
      <4> QED
        BY <4>1, <4>2
    <3>3. t2 + 1 >= 1
      OBVIOUS
    <3> QED
      BY <1>2, <2>1, <2>2, <2>3, <3>1, <3>2, <3>3 DEF Numbering
  <2> QED
    BY <2>6, <2>14, <2>15 DEF Traced
<1>15. CASE down' = down
  <2>1. AtTasks2' = t2
    BY <1>5, <1>6, <1>15 DEF AtTasks2
  <2>2. AtWire' = w - 1
    <3>1. AtWire' = t2 + ((w - t2) - 1)
      BY <1>6, <2>1 DEF AtWire
    <3> QED
      BY <3>1
  <2>3. AtTasks1' = t1 - 1
    <3>1. AtTasks1' = (w - 1) + (t1 - w)
      BY <1>5, <1>6, <2>2 DEF AtTasks1
    <3> QED
      BY <3>1
  <2>4. AtUp' = u - 1
    <3>1. AtUp' = (t1 - 1) + (u - t1)
      BY <1>3, <1>5, <2>3 DEF AtUp
    <3> QED
      BY <3>1
  <2>5. Places' = p - 1
    <3>1. Places' = (u - 1) + (p - u)
      BY <1>2, <1>5, <2>4 DEF Places
    <3> QED
      BY <3>1
  <2>6. PICK m \in [1..(p - 1) -> Z] : Closed(m, n, at, p)
    <3> HIDE DEF Z, at
    <3> QED
      BY ONLY <1>11, <1>12, TakenOut
  <2>7. /\ \A k \in 1..(at - 1) : m[k] = n[k]
        /\ \A k \in at..(p - 1) : m[k] = n[k + 1]
    <3> HIDE DEF at
    <3> QED
      BY <2>6 DEF Closed
  <2>8. Row(m)'
    <3>1. Distinct(m, p - 1) /\ (threads = 1 => Ordered(m, p - 1))
      <4> HIDE DEF at
      <4> QED
        BY <1>8, <2>6 DEF Closed
    <3> QED
      BY <1>2, <2>5, <2>6, <3>1 DEF Row
  <2>9. Stage(shown, m, 0, OnPage(typed))
    <3>1. \A k \in 1..Len(shown) : 0 + k \in 1..(at - 1)
      BY <1>5
    <3> QED
      BY <1>9, <2>7, <3>1 DEF Stage
  <2>10. Stage(down, m, d, ToPage(typed))
    <3>1. \A k \in 1..Len(down) : d + k \in 1..(at - 1)
      BY <1>5
    <3> QED
      BY <1>9, <2>7, <3>1 DEF Stage
  <2>11. Stage(RemoveAt(tasks["n2"], i), m, t2, InNode(typed))
    <3>1. ASSUME NEW k \in 1..(i - 1) PROVE m[t2 + k] = n[t2 + k]
      <4>1. t2 + k \in 1..(at - 1)
        OBVIOUS
      <4> QED
        BY <2>7, <4>1
    <3>2. ASSUME NEW k \in i..(Len(tasks["n2"]) - 1) PROVE m[t2 + k] = n[t2 + (k + 1)]
      <4>1. t2 + k \in at..(p - 1) /\ (t2 + k) + 1 = t2 + (k + 1)
        BY <1>5
      <4>2. m[t2 + k] = n[(t2 + k) + 1]
        BY <2>7, <4>1
      <4> QED
        BY <4>1, <4>2
    <3>3. Without(m, t2, n, t2, i, Len(tasks["n2"])) /\ t2 \in Nat
      BY <3>1, <3>2 DEF Without
    <3> QED
      BY ONLY <1>2, <1>3, <1>9, <3>3, StageRemoved
  <2>12. Stage(Undecoded, m, w - 1, InNode(typed))
    <3>1. \A k \in 1..Len(Undecoded) : (w - 1) + k \in at..(p - 1) /\ ((w - 1) + k) + 1 = w + k
      BY <1>5, <1>11
    <3>2. \A k \in 1..Len(Undecoded) : m[(w - 1) + k] = n[w + k]
      BY <2>7, <3>1
    <3> QED
      BY <1>9, <3>2 DEF Stage
  <2>13. Stage(tasks["n1"], m, t1 - 1, InNode(typed))
    <3>1. \A k \in 1..Len(tasks["n1"]) :
            (t1 - 1) + k \in at..(p - 1) /\ ((t1 - 1) + k) + 1 = t1 + k
      BY <1>5, <1>11
    <3>2. \A k \in 1..Len(tasks["n1"]) : m[(t1 - 1) + k] = n[t1 + k]
      BY <2>7, <3>1
    <3> QED
      BY <1>9, <3>2 DEF Stage
  <2>14. Stage(up, m, u - 1, FromPage(typed))
    <3>1. \A k \in 1..Len(up) : (u - 1) + k \in at..(p - 1) /\ ((u - 1) + k) + 1 = u + k
      BY <1>5, <1>11
    <3>2. \A k \in 1..Len(up) : m[(u - 1) + k] = n[u + k]
      BY <2>7, <3>1
    <3> QED
      BY <1>9, <3>2 DEF Stage
  <2>15. Stages(m)'
    BY <1>2, <1>3, <1>6, <1>15, <2>1, <2>2, <2>3, <2>4,
       <2>9, <2>10, <2>11, <2>12, <2>13, <2>14 DEF Stages
  <2>16. Numbering(m)'
    <3>1. m[1] = -1
      <4>1. 1 \in 1..(at - 1)
        BY <1>10
      <4> QED
        BY <1>10, <2>7, <4>1
    <3>2. ASSUME NEW k \in 2..(p - 1)
          PROVE  m[k] >= 0 /\ (m[k] = 0 => received = <<>> /\ k = (w - 1) + 1)
      <4>1. CASE k < at
        <5>1. k \in 1..(at - 1) /\ k \in 2..p /\ k # w + 1
          BY <1>11, <4>1
        <5> QED
          BY <1>10, <2>7, <5>1
      <4>2. CASE ~ (k < at)
        <5>1. k \in at..(p - 1) /\ k + 1 \in 2..p
          BY <1>11, <4>2
        <5>2. m[k] = n[k + 1]
          BY <2>7, <5>1
        <5>3. k + 1 = w + 1 => k = (w - 1) + 1
          OBVIOUS
        <5> QED
          BY <1>10, <5>1, <5>2, <5>3
      <4> QED
        BY <4>1, <4>2
    <3> QED
      BY <1>2, <1>10, <2>1, <2>2, <2>5, <3>1, <3>2 DEF Numbering
  <2> QED
    BY <2>8, <2>15, <2>16 DEF Traced
<1> QED
  BY <1>2, <1>14, <1>15

(* Arriving, dispatching and idle steps leave everything in its place.     *)
LEMMA TracedKept ==
  ASSUME Traced, UNCHANGED <<threads, typed, up, tasks, sent, received, down, shown>>
  PROVE  Traced'
<1>1. PICK n : Row(n) /\ Stages(n) /\ Numbering(n)
  BY DEF Traced
<1>2. /\ Undecoded' = Undecoded /\ AtDown' = AtDown /\ AtTasks2' = AtTasks2
      /\ AtWire' = AtWire /\ AtTasks1' = AtTasks1 /\ AtUp' = AtUp /\ Places' = Places
  BY DEF Undecoded, AtDown, AtTasks2, AtWire, AtTasks1, AtUp, Places
<1>3. Row(n)' /\ Numbering(n)'
  BY <1>1, <1>2 DEF Row, Numbering
<1>4. Stages(n)'
  BY <1>1, <1>2 DEF Stages
<1> QED
  BY <1>3, <1>4 DEF Traced

LEMMA TracedNext ==
  ASSUME AllComeThrough, Shape, Framed, SentTexts, Traced, Next
  PROVE  Traced'
<1>1. CASE Arrives \/ Dispatches
  BY <1>1, TracedKept DEF Arrives, Arrive, Dispatches, Dispatch
<1>2. CASE \E t \in Texts : Type(t)
  BY <1>2, TracedType
<1>3. CASE Forwards
  BY <1>3, TracedForward DEF Forwards
<1>4. CASE Delivers
  BY <1>4, TracedDeliver DEF Delivers
<1> QED
  BY <1>1, <1>2, <1>3, <1>4, TracedReadFrame, TracedDecode, TracedShow DEF Next

(* No text is lost or doubled before it is written to the connection, and  *)
(* none after it is decoded but those that are counted as dropped: there   *)
(* is the greeting and what was received without the first message.        *)
Counted ==
  /\ Len(up) + Len(tasks["n1"]) + Len(sent) = Len(typed) + 1
  /\ Len(tasks["n2"]) + Len(down) + Len(shown) + dropped
       = IF received = <<>> THEN 1 ELSE Len(received)

LEMMA Sizes ==
  ASSUME Shape
  PROVE  /\ Len(up) \in Nat /\ Len(tasks["n1"]) \in Nat /\ Len(sent) \in Nat
         /\ Len(typed) \in Nat /\ Len(tasks["n2"]) \in Nat /\ Len(down) \in Nat
         /\ Len(shown) \in Nat /\ dropped \in Nat /\ Len(received) \in Nat
<1>1. tasks["n1"] \in Seq(DataMessages) /\ tasks["n2"] \in Seq(DataMessages)
  BY DEF Shape
<1> QED
  BY <1>1 DEF Shape

LEMMA CountedNext ==
  ASSUME AllComeThrough, Shape, Framed, SentTexts, Counted, Next
  PROVE  Counted'
<1>0. /\ typed \in Seq(Texts) /\ up \in Seq(UpFrames)
      /\ tasks["n1"] \in Seq(DataMessages) /\ tasks["n2"] \in Seq(DataMessages)
      /\ sent \in Seq(Message) /\ received \in Seq(Message)
      /\ down \in Seq(DownFrames) /\ shown \in Seq(Seq(Unit))
      /\ tasks \in [{"n1", "n2"} -> Seq(DataMessages)]
  BY DEF Shape
<1>1. PICK a \in Nat, b \in Nat, c \in Nat, d \in Nat, e \in Nat,
           f \in Nat, g \in Nat, h \in Nat, r \in Nat :
        /\ a = Len(up) /\ b = Len(tasks["n1"]) /\ c = Len(sent) /\ d = Len(typed)
        /\ e = Len(tasks["n2"]) /\ f = Len(down) /\ g = Len(shown) /\ h = dropped
        /\ r = Len(received)
  BY Sizes
<1>2. /\ a + b + c = d + 1
      /\ e + f + g + h = IF received = <<>> THEN 1 ELSE r
  BY <1>1 DEF Counted
<1> DEFINE Before(a2, b2, c2, d2) ==
             /\ Len(up') = a2 /\ Len(tasks'["n1"]) = b2
             /\ Len(sent') = c2 /\ Len(typed') = d2
           After(e2, f2, g2, h2) ==
             /\ Len(tasks'["n2"]) = e2 /\ Len(down') = f2
             /\ Len(shown') = g2 /\ dropped' = h2
<1>3. CASE UNCHANGED <<typed, up, tasks, sent, received, down, shown, dropped>>
  BY <1>3 DEF Counted
<1>4. ASSUME NEW t \in Texts, Type(t) PROVE Counted'
  <2>1. /\ typed' = Append(typed, t) /\ up' = Append(up, Upward(t)) /\ Upward(t) \in UpFrames
        /\ UNCHANGED <<tasks, sent, received, down, shown, dropped>>
    BY <1>4, TypeStep DEF Type
  <2>2. Len(Append(typed, t)) = Len(typed) + 1 /\ Len(Append(up, Upward(t))) = Len(up) + 1
    BY <1>0, <2>1, Extended
  <2>3. Before(a + 1, b, c, d + 1) /\ After(e, f, g, h)
    BY <1>1, <2>1, <2>2
  <2>4. (a + 1) + b + c = (d + 1) + 1
    BY <1>2
  <2> QED
    BY <1>1, <1>2, <2>1, <2>3, <2>4 DEF Counted
<1>5. CASE ReadFrame
  <2>1. PICK x \in DataMessages :
          /\ up # <<>> /\ up' = Tail(up) /\ tasks' = [tasks EXCEPT !["n1"] = Append(@, x)]
          /\ UNCHANGED <<typed, sent, received, down, shown, dropped>>
    BY <1>5, ReadFrameStep DEF ReadFrame
  <2>2. tasks'["n1"] = Append(tasks["n1"], x) /\ tasks'["n2"] = tasks["n2"]
    BY <1>0, <2>1
  <2>3. /\ Len(Tail(up)) = Len(up) - 1
        /\ Len(Append(tasks["n1"], x)) = Len(tasks["n1"]) + 1
    BY <1>0, <2>1, Extended, Shortened
  <2>4. Before(a - 1, b + 1, c, d) /\ After(e, f, g, h)
    BY <1>1, <2>1, <2>2, <2>3
  <2>5. (a - 1) + (b + 1) + c = d + 1
    BY <1>2
  <2> QED
    BY <1>1, <1>2, <2>1, <2>4, <2>5 DEF Counted
<1>6. ASSUME NEW i \in 1..MaxTexts, Forward(i) PROVE Counted'
  <2>1. PICK x \in DataMessages :
          /\ i \in 1..Len(tasks["n1"]) /\ tasks' = [tasks EXCEPT !["n1"] = RemoveAt(@, i)]
          /\ sent' = Append(sent, x)
          /\ UNCHANGED <<typed, up, received, down, shown, dropped>>
    BY <1>6, ForwardStep DEF Forward
  <2>2. tasks'["n1"] = RemoveAt(tasks["n1"], i) /\ tasks'["n2"] = tasks["n2"]
    BY <1>0, <2>1
  <2>3. Len(RemoveAt(tasks["n1"], i)) = Len(tasks["n1"]) - 1
    BY <1>0, <2>1, Removed
  <2>4. Len(Append(sent, x)) = Len(sent) + 1
    <3>1. x \in Message
      BY DEF Message
    <3> QED
      BY ONLY <1>0, <3>1, Extended
  <2>5. Before(a, b - 1, c + 1, d) /\ After(e, f, g, h)
    BY <1>1, <2>1, <2>2, <2>3, <2>4
  <2>6. a + (b - 1) + (c + 1) = d + 1
    BY <1>2
  <2> QED
    BY <1>1, <1>2, <2>1, <2>5, <2>6 DEF Counted
<1>7. CASE Decode
  <2>1. PICK x, k : x = sent[Len(received) + 1] /\ k = Len(Encode(x))
    OBVIOUS
  <2>2. /\ Len(received) < Len(sent) /\ x \in Message /\ received' = Append(received, x)
        /\ x = Hello => tasks' = tasks
        /\ x # Hello => x \in DataMessages /\ tasks' = [tasks EXCEPT !["n2"] = Append(@, x)]
        /\ UNCHANGED <<typed, up, sent, down, shown, dropped>>
    BY <1>7, <2>1, DecodeStep DEF Decode
  <2>3. received' # <<>> /\ Len(received') = r + 1
    <3>1. Append(received, x) # <<>> /\ Len(Append(received, x)) = Len(received) + 1
      BY ONLY <1>0, <2>2, Extended
    <3> QED
      BY <1>1, <2>2, <3>1
  <2>4. CASE received = <<>>
    <3>1. Len(received) = 0
      BY <2>4
    <3>2. x = Hello
      BY <2>1, <3>1 DEF SentTexts
    <3>3. Before(a, b, c, d) /\ After(e, f, g, h)
      BY <1>1, <2>2, <3>2
    <3>4. r = 0 /\ e + f + g + h = 1
      BY <1>1, <1>2, <2>4, <3>1
    <3> QED
      BY <1>2, <2>3, <3>3, <3>4 DEF Counted
  <2>5. CASE received # <<>>
    <3>1. Len(received) + 1 \in 2..Len(sent)
      <4>1. Len(received) # 0 /\ Len(received) \in Nat /\ Len(sent) \in Nat
        BY <1>0, <2>5
      <4> QED
        BY <2>2, <4>1
    <3>2. x \in DataMessages /\ x # Hello
      BY <2>1, <3>1, DataTasks DEF SentTexts
    <3>3. tasks'["n2"] = Append(tasks["n2"], x) /\ tasks'["n1"] = tasks["n1"]
      BY <1>0, <2>2, <3>2
    <3>4. Len(Append(tasks["n2"], x)) = Len(tasks["n2"]) + 1
      BY ONLY <1>0, <3>2, Extended
    <3>5. Before(a, b, c, d) /\ After(e + 1, f, g, h)
      BY <1>1, <2>2, <3>3, <3>4
    <3>6. (e + 1) + f + g + h = r + 1
      BY <1>2, <2>5
    <3> QED
      BY <1>2, <2>3, <3>5, <3>6 DEF Counted
  <2> QED
    BY <2>4, <2>5
<1>8. ASSUME NEW i \in 1..MaxTexts, Deliver(i) PROVE Counted'
  <2>1. PICK x \in DownFrames :
          /\ i \in 1..Len(tasks["n2"]) /\ tasks' = [tasks EXCEPT !["n2"] = RemoveAt(@, i)]
          /\ \/ dropped' = dropped /\ down' = Append(down, x)
             \/ dropped' = dropped + 1 /\ down' = down
          /\ UNCHANGED <<typed, up, sent, received, shown>>
    BY <1>8, DeliverStep DEF Deliver
  <2>2. tasks'["n2"] = RemoveAt(tasks["n2"], i) /\ tasks'["n1"] = tasks["n1"]
    BY <1>0, <2>1
  <2>3. /\ Len(RemoveAt(tasks["n2"], i)) = Len(tasks["n2"]) - 1
        /\ Len(Append(down, x)) = Len(down) + 1
    BY <1>0, <2>1, Removed, Extended
  <2>4. /\ Before(a, b, c, d)
        /\ After(e - 1, f + 1, g, h) \/ After(e - 1, f, g, h + 1)
    BY <1>1, <2>1, <2>2, <2>3
  <2>5. /\ (e - 1) + (f + 1) + g + h = e + f + g + h
        /\ (e - 1) + f + g + (h + 1) = e + f + g + h
    OBVIOUS
  <2> QED
    BY <1>1, <1>2, <2>1, <2>4, <2>5 DEF Counted
<1>9. CASE Show
  <2>1. PICK x \in Seq(Unit) :
          /\ down # <<>> /\ down' = Tail(down) /\ shown' = Append(shown, x)
          /\ UNCHANGED <<typed, up, tasks, sent, received, dropped>>
    BY <1>9, ShowStep DEF Show
  <2>2. Len(Tail(down)) = Len(down) - 1 /\ Len(Append(shown, x)) = Len(shown) + 1
    BY <1>0, <2>1, Extended, Shortened
  <2>3. Before(a, b, c, d) /\ After(e, f - 1, g + 1, h)
    BY <1>1, <2>1, <2>2
  <2>4. e + (f - 1) + (g + 1) + h = e + f + g + h
    OBVIOUS
  <2> QED
    BY <1>1, <1>2, <2>1, <2>3, <2>4 DEF Counted
<1>10. CASE Arrives \/ Dispatches
  BY <1>3, <1>10 DEF Arrives, Arrive, Dispatches, Dispatch
<1> QED
  BY <1>4, <1>5, <1>6, <1>7, <1>8, <1>9, <1>10 DEF Next, Forwards, Delivers

-----------------------------------------------------------------------------
(* From the beginning on.                                                  *)
LEMMA InitShape ==
  ASSUME AllComeThrough, Init
  PROVE  Shape
<1>1. Hello \in Message /\ Encode(Hello) \in Seq(Byte)
  <2>1. Hello \in Message
    BY DEF Message
  <2> QED
    BY <2>1, EncodeShape
<1>2. Serialize(JavaModel, ConnectResponse) \in DownFrames
  BY DEF DownFrames
<1>3. /\ tasks \in [{"n1", "n2"} -> Seq(DataMessages)]
      /\ sent \in Seq(Message) /\ received \in Seq(Message)
      /\ stream \in Seq(Byte) /\ buffer \in Seq(Byte)
  BY <1>1 DEF Init
<1>4. down \in Seq(DownFrames) /\ Len(down) <= HighWater
  <2>1. Len(down) = 1 /\ down \in Seq(DownFrames)
    BY <1>2 DEF Init
  <2> QED
    BY <2>1, TransportAssumption
<1>5. /\ typed \in Seq(Texts) /\ Len(typed) <= MaxTexts
      /\ up \in Seq(UpFrames) /\ shown \in Seq(Seq(Unit))
      /\ dropped \in Nat /\ pieces \in 0..MaxPieces
  BY TransportAssumption DEF Init
<1> QED
  BY <1>3, <1>4, <1>5 DEF Init, Shape

LEMMA InitFramed ==
  ASSUME AllComeThrough, Init
  PROVE  Framed /\ SentTexts /\ Counted
<1>1. /\ sent = <<Hello>> /\ received = <<>> /\ buffer = <<>> /\ stream = Encode(Hello)
      /\ typed = <<>> /\ up = <<>> /\ shown = <<>> /\ dropped = 0 /\ Len(down) = 1
      /\ tasks["n1"] = <<>> /\ tasks["n2"] = <<>>
  BY DEF Init
<1>2. Hello \in Message
  BY DEF Message
<1>3. Encode(Hello) \in Seq(Byte)
  BY <1>2, EncodeShape
<1> DEFINE none == [i \in 0..0 |-> 0]
<1>4. Cuts(none, 0, <<>>, <<>>)
  <2>1. 0..0 = {0} /\ (0 + 1)..0 = {}
    OBVIOUS
  <2> QED
    BY <2>1 DEF Cuts
<1>5. \E next : Cuts(next, 0, <<>> \o Encode(Hello), Append(<<>>, Hello))
  <2>1. <<>> \in Seq(Byte) /\ <<>> \in Seq(Message) /\ 0 \in 0..Len(<<>>)
    OBVIOUS
  <2> HIDE DEF none
  <2> QED
    BY ONLY <1>2, <1>4, <2>1, AllComeThrough, CutsExtended
<1>6. Append(<<>>, Hello) = sent /\ Len(received) = 0
  BY <1>1
<1>7. \E cut : Cuts(cut, Len(received), buffer \o stream, sent)
  BY <1>1, <1>5, <1>6
<1>8. Framed
  BY <1>1, <1>7 DEF Framed
<1>9. SentTexts /\ Counted
  BY <1>1 DEF SentTexts, Counted
<1> QED
  BY <1>8, <1>9

LEMMA InitTraced ==
  ASSUME AllComeThrough, Init
  PROVE  Traced
<1> DEFINE greeting == Serialize(JavaModel, ConnectResponse)
           n == [k \in 1..2 |-> k - 2]
<1>1. /\ sent = <<Hello>> /\ received = <<>> /\ down = <<greeting>>
      /\ typed = <<>> /\ up = <<>> /\ shown = <<>>
      /\ tasks["n1"] = <<>> /\ tasks["n2"] = <<>>
  BY DEF Init
<1>2. Undecoded = <<Hello>>
  <2>1. Undecoded = SubSeq(<<Hello>>, 1, 1)
    BY <1>1 DEF Undecoded
  <2>2. <<Hello>> \in Seq(Message) /\ 1 \in 0..Len(<<Hello>>)
    BY DEF Message
  <2>3. /\ SubSeq(<<Hello>>, 1, 1) \in Seq(Message) /\ Len(SubSeq(<<Hello>>, 1, 1)) = 1
        /\ \A k \in 1..1 : SubSeq(<<Hello>>, 1, 1)[k] = <<Hello>>[k]
    BY ONLY <2>2, Cut
  <2>4. Len(<<Hello>>) = 1
    OBVIOUS
  <2>5. SubSeq(<<Hello>>, 1, 1) = <<Hello>>
    BY ONLY <2>2, <2>3, <2>4, SeqEqual
  <2> QED
    BY <2>1, <2>5
<1> HIDE DEF greeting
<1>3. /\ AtDown = 0 /\ AtTasks2 = 1 /\ AtWire = 1 /\ AtTasks1 = 2 /\ AtUp = 2 /\ Places = 2
  BY <1>1, <1>2 DEF AtDown, AtTasks2, AtWire, AtTasks1, AtUp, Places
<1>4. n \in [1..2 -> -1..0] /\ n[1] = -1 /\ n[2] = 0
  OBVIOUS
<1>5. Distinct(n, 2) /\ Ordered(n, 2)
  BY DEF Distinct, Ordered
<1> HIDE DEF n
<1>6. Row(n)
  BY <1>1, <1>3, <1>4, <1>5 DEF Row
<1>7. ToPage(typed)[-1] = greeting /\ InNode(typed)[0] = Hello
  BY <1>1 DEF ToPage, InNode, greeting
<1>8. Stages(n)
  <2>1. Stage(down, n, 0, ToPage(typed))
    <3>1. Len(down) = 1 /\ down[1] = greeting
      BY <1>1
    <3> QED
      BY <1>4, <1>7, <3>1 DEF Stage
  <2>2. Stage(Undecoded, n, 1, InNode(typed))
    <3>1. Len(Undecoded) = 1 /\ Undecoded[1] = Hello
      BY <1>2
    <3> QED
      BY <1>4, <1>7, <3>1 DEF Stage
  <2>3. /\ Stage(shown, n, 0, OnPage(typed)) /\ Stage(tasks["n2"], n, 1, InNode(typed))
        /\ Stage(tasks["n1"], n, 2, InNode(typed)) /\ Stage(up, n, 2, FromPage(typed))
    BY <1>1 DEF Stage
  <2> QED
    BY <1>3, <2>1, <2>2, <2>3 DEF Stages
<1>9. Numbering(n)
  BY <1>1, <1>3, <1>4 DEF Numbering
<1> QED
  BY <1>6, <1>8, <1>9 DEF Traced

(* The inductive invariant.                                                *)
OnTheWay == Shape /\ Framed /\ SentTexts /\ Traced /\ Counted

LEMMA OnTheWayInvariant ==
  ASSUME AllComeThrough
  PROVE  Spec => []OnTheWay
<1>1. Init => OnTheWay
  BY InitShape, InitFramed, InitTraced DEF OnTheWay
<1>2. OnTheWay /\ [Next]_vars => OnTheWay'
  <2> SUFFICES ASSUME OnTheWay, [Next]_vars PROVE OnTheWay'
    OBVIOUS
  <2>1. Shape /\ Framed /\ SentTexts /\ Traced /\ Counted
    BY DEF OnTheWay
  <2>2. CASE Next
    BY <2>1, <2>2, ShapeNext, FramedNext, SentTextsNext, TracedNext, CountedNext DEF OnTheWay
  <2>3. CASE UNCHANGED vars
    <3>1. UNCHANGED <<threads, typed, up, tasks, stream, pieces, handler, buffer, sent,
                      received, down, shown, dropped>>
      BY <2>3 DEF vars
    <3>2. Shape' /\ Framed' /\ SentTexts' /\ Counted'
      BY <2>1, <3>1 DEF Shape, Framed, SentTexts, Counted
    <3>3. Traced'
      BY <2>1, <3>1, TracedKept
    <3> QED
      BY <3>2, <3>3 DEF OnTheWay
  <2> QED
    BY <2>2, <2>3
<1> QED
  BY <1>1, <1>2, PTL DEF Spec

-----------------------------------------------------------------------------
(* What follows.                                                           *)

(* When no bytes are to come and no message is complete, all that was      *)
(* written has been decoded: a part of a message is never the end of it.   *)
LEMMA NothingLeft ==
  ASSUME AllComeThrough, Shape, Framed, stream = <<>>, ~ Complete(buffer) \/ buffer = <<>>
  PROVE  Len(received) = Len(sent)
<1>1. /\ sent \in Seq(Message) /\ received \in Seq(Message) /\ buffer \in Seq(Byte)
      /\ Len(received) <= Len(sent)
  BY DEF Shape, Framed
<1> SUFFICES ASSUME Len(received) < Len(sent) PROVE FALSE
  BY <1>1
<1>2. PICK m : m = sent[Len(received) + 1]
  OBVIOUS
<1>3. m \in Message /\ Len(Encode(m)) <= Len(buffer)
  <2>1. m \in Message /\ Len(Encode(m)) <= Len(buffer) + Len(stream)
    BY <1>2, NextMessage
  <2>2. Len(stream) = 0 /\ Len(buffer) \in Nat
    BY <1>1
  <2> QED
    BY <2>1, <2>2
<1>4. Len(Encode(m)) = 5 + Len(Body(m)) /\ Body(m) \in Seq(Byte)
  BY <1>3, EncodeShape
<1>5. Len(buffer) >= 5 /\ Len(buffer) \in Nat /\ Len(Body(m)) \in Nat
  BY <1>1, <1>3, <1>4
<1>6. buffer[1] = Magic /\ Length(buffer) = Len(Body(m))
  BY <1>2, <1>5, NextLength
<1>7. Complete(buffer)
  <2>1. Len(Body(m)) <= Len(buffer) - 5
    BY <1>3, <1>4, <1>5
  <2> QED
    BY <1>5, <1>6, <2>1 DEF Complete
<1>8. buffer # <<>>
  BY <1>5
<1> QED
  BY <1>7, <1>8

LEMMA DecodedInOrder ==
  ASSUME AllComeThrough, Shape, Framed
  PROVE  StreamKeepsMessages
<1>1. /\ sent \in Seq(Message) /\ received \in Seq(Message)
      /\ Len(received) <= Len(sent) /\ \A i \in 1..Len(received) : received[i] = sent[i]
  BY DEF Shape, Framed
<1>2. IsPrefix(received, sent)
  <2> DEFINE r == Len(received)
             a == SubSeq(received, 1, r)
             b == SubSeq(sent, 1, r)
  <2>1. r \in 0..Len(received) /\ r \in 0..Len(sent)
    BY <1>1
  <2>2. a \in Seq(Message) /\ Len(a) = r /\ \A i \in 1..r : a[i] = received[i]
    BY ONLY <1>1, <2>1, Cut
  <2>3. b \in Seq(Message) /\ Len(b) = r /\ \A i \in 1..r : b[i] = sent[i]
    BY ONLY <1>1, <2>1, Cut
  <2>4. \A i \in 1..r : received[i] = sent[i]
    BY <1>1
  <2> HIDE DEF r, a, b
  <2>5. Len(a) = Len(b) /\ \A i \in 1..Len(a) : a[i] = b[i]
    BY <2>2, <2>3, <2>4
  <2>6. a = b
    BY ONLY <2>2, <2>3, <2>5, SeqEqual
  <2> QED
    BY <1>1, <2>6 DEF IsPrefix, a, b, r
<1>3. ASSUME stream = <<>>, buffer = <<>> PROVE received = sent
  <2>1. Len(received) = Len(sent)
    BY <1>3, NothingLeft
  <2>2. \A i \in 1..Len(received) : received[i] = sent[i]
    BY <1>1
  <2> QED
    BY ONLY <1>1, <2>1, <2>2, SeqEqual
<1> QED
  BY <1>2, <1>3 DEF StreamKeepsMessages

(* The numbers of what is shown after the greeting.                        *)
LEMMA ShownNumbers ==
  ASSUME AllComeThrough, Shape, Framed, SentTexts, Traced, shown # <<>>
  PROVE  /\ Head(shown) = Greeting
         /\ \E n \in Numbers :
              /\ Shows(n) /\ IsInjective(n)
              /\ threads = 1 => \A i, j \in DOMAIN n : i < j => n[i] < n[j]
<1>1. PICK m : Row(m) /\ Stages(m) /\ Numbering(m)
  BY DEF Traced
<1>2. PICK d, t2, w, t1, u, p \in Nat : Offsets(d, t2, w, t1, u, p)
  BY Behind
<1>3. /\ Len(shown) = d /\ d <= p /\ d <= w /\ AtWire = w /\ Places = p
  <2>1. /\ d <= t2 /\ t2 <= w /\ w <= t1 /\ t1 <= u /\ u <= p
        /\ Len(shown) = d /\ AtWire = w /\ Places = p
    BY <1>2 DEF Offsets
  <2>2. d <= w /\ d <= p
    BY <2>1
  <2> QED
    BY <2>1, <2>2
<1>4. /\ shown \in Seq(Seq(Unit)) /\ typed \in Seq(Texts)
      /\ Head(shown) = shown[1] /\ d >= 1
      /\ Tail(shown) \in Seq(Seq(Unit)) /\ Len(Tail(shown)) = d - 1
      /\ \A i \in 1..(d - 1) : Tail(shown)[i] = shown[i + 1]
  <2>1. shown \in Seq(Seq(Unit)) /\ typed \in Seq(Texts)
    BY DEF Shape
  <2> QED
    BY <1>3, <2>1, Shortened
<1>5. /\ m \in [1..p -> -1..Len(typed)] /\ Distinct(m, p) /\ (threads = 1 => Ordered(m, p))
      /\ m[1] = -1
  BY <1>1, <1>3 DEF Row, Numbering
<1>6. \A k \in 1..d : shown[k] = OnPage(typed)[m[k]]
  BY <1>1, <1>3 DEF Stages, Stage
<1>7. Head(shown) = Greeting
  <2>1. -1 \in -1..Len(typed) /\ 1 \in 1..d
    BY <1>4
  <2>2. OnPage(typed)[-1] = Greeting
    BY <2>1 DEF OnPage
  <2> QED
    BY <1>4, <1>5, <1>6, <2>1, <2>2
<1> DEFINE n == [k \in 1..(d - 1) |-> m[k + 1]]
<1>8. ASSUME NEW k \in 1..(d - 1) PROVE k + 1 \in 2..p /\ m[k + 1] \in 1..Len(typed)
  <2>1. k + 1 \in 2..Places /\ k + 1 <= AtWire
    BY <1>3
  <2> QED
    BY <1>1, <1>3, <2>1, IsText
<1>9. n \in [1..(d - 1) -> 1..Len(typed)] /\ \A k \in 1..(d - 1) : n[k] = m[k + 1]
  BY <1>8
<1> HIDE DEF n
<1>10. DOMAIN Tail(shown) = 1..(d - 1) /\ DOMAIN typed = 1..Len(typed) /\ DOMAIN n = 1..(d - 1)
  BY <1>4, <1>9
<1>11. n \in Numbers
  BY <1>9, <1>10 DEF Numbers
<1>12. Shows(n)
  <2> SUFFICES ASSUME NEW k \in 1..(d - 1) PROVE Tail(shown)[k] = Kept(typed[n[k]])
    BY <1>10 DEF Shows
  <2>1. k + 1 \in 1..d
    OBVIOUS
  <2>2. Tail(shown)[k] = OnPage(typed)[m[k + 1]]
    BY <1>4, <1>6, <2>1
  <2>3. m[k + 1] \in -1..Len(typed) /\ ~ (m[k + 1] < 1)
    BY <1>8
  <2>4. OnPage(typed)[m[k + 1]] = Kept(typed[m[k + 1]])
    BY <2>3 DEF OnPage
  <2> QED
    BY <1>9, <2>2, <2>4
<1>13. IsInjective(n)
  <2> SUFFICES ASSUME NEW i \in 1..(d - 1), NEW j \in 1..(d - 1), n[i] = n[j] PROVE i = j
    BY <1>10 DEF IsInjective
  <2>1. i + 1 \in 1..p /\ j + 1 \in 1..p /\ m[i + 1] = m[j + 1]
    BY <1>8, <1>9
  <2>2. i + 1 = j + 1
    BY <1>5, <2>1 DEF Distinct
  <2> QED
    BY <2>2
<1>14. ASSUME threads = 1, NEW i \in 1..(d - 1), NEW j \in 1..(d - 1), i < j PROVE n[i] < n[j]
  <2>1. i + 1 \in 1..p /\ j + 1 \in 1..p /\ i + 1 < j + 1
    BY <1>8, <1>14
  <2>2. m[i + 1] < m[j + 1]
    BY <1>5, <1>14, <2>1 DEF Ordered
  <2> QED
    BY <1>9, <2>2
<1> QED
  BY <1>7, <1>10, <1>11, <1>12, <1>13, <1>14

LEMMA Bounded ==
  ASSUME Shape, Framed, SentTexts, Traced, Counted
  PROVE  /\ Len(tasks["n1"]) <= MaxTexts /\ Len(tasks["n2"]) <= MaxTexts
         /\ Len(sent) <= MaxTexts + 1 /\ dropped <= MaxTexts
<1>1. PICK a \in Nat, b \in Nat, c \in Nat, d \in Nat, e \in Nat,
           f \in Nat, g \in Nat, h \in Nat, r \in Nat :
        /\ a = Len(up) /\ b = Len(tasks["n1"]) /\ c = Len(sent) /\ d = Len(typed)
        /\ e = Len(tasks["n2"]) /\ f = Len(down) /\ g = Len(shown) /\ h = dropped
        /\ r = Len(received)
  BY Sizes
<1>2. a + b + c = d + 1 /\ e + f + g + h = IF received = <<>> THEN 1 ELSE r
  BY <1>1 DEF Counted
<1>3. c >= 1 /\ r <= c /\ d <= MaxTexts /\ MaxTexts \in Nat
  BY <1>1, TransportAssumption DEF SentTexts, Framed, Shape
<1>4. g + f >= 1
  <2>1. Len(shown) + Len(down) >= 1
    BY DEF Traced, Numbering, AtTasks2, AtDown
  <2> QED
    BY <1>1, <2>1
<1>5. b <= MaxTexts /\ c <= MaxTexts + 1
  BY <1>2, <1>3
<1>6. e <= MaxTexts /\ h <= MaxTexts
  BY <1>2, <1>3, <1>4, <1>5
<1> QED
  BY <1>1, <1>5, <1>6

-----------------------------------------------------------------------------

(* What n2 decodes is what n1 wrote, in that order; when no bytes are left *)
(* it is all of it, whatever pieces the stream arrived in.                 *)
THEOREM StreamKept ==
  ASSUME AllComeThrough
  PROVE  Spec => []StreamKeepsMessages
<1>1. OnTheWay => StreamKeepsMessages
  BY DecodedInOrder DEF OnTheWay
<1> QED
  BY <1>1, OnTheWayInvariant, PTL

(* The page shows the greeting and then whole texts that were typed, none  *)
(* of them twice.                                                          *)
THEOREM ShownCorrect ==
  ASSUME AllComeThrough
  PROVE  Spec => []ShownIsTyped
<1>1. OnTheWay => ShownIsTyped
  BY ShownNumbers DEF OnTheWay, ShownIsTyped
<1> QED
  BY <1>1, OnTheWayInvariant, PTL

(* With one thread in the pools they are shown in the order in which they  *)
(* were typed.                                                             *)
THEOREM OrderKept ==
  ASSUME AllComeThrough
  PROVE  Spec => []OneThreadKeepsOrder
<1>1. OnTheWay => OneThreadKeepsOrder
  BY ShownNumbers DEF OnTheWay, OneThreadKeepsOrder
<1> QED
  BY <1>1, OnTheWayInvariant, PTL

(* When nothing is left to do, every text was shown or is counted as       *)
(* dropped: no message waits for bytes that do not come.                   *)
THEOREM NothingStuck ==
  ASSUME AllComeThrough
  PROVE  Spec => []NothingIsStuck
<1>1. OnTheWay => NothingIsStuck
  <2> SUFFICES ASSUME OnTheWay, Quiet PROVE Len(shown) + dropped = Len(typed) + 1
    BY DEF NothingIsStuck
  <2>1. Shape /\ Framed /\ SentTexts /\ Counted
    BY DEF OnTheWay
  <2>2. /\ Len(up) = 0 /\ Len(down) = 0 /\ stream = <<>>
        /\ Len(tasks["n1"]) = 0 /\ Len(tasks["n2"]) = 0
        /\ ~ Complete(buffer) \/ buffer = <<>>
    BY <2>1 DEF Quiet, Shape
  <2>3. Len(received) = Len(sent)
    BY <2>1, <2>2, NothingLeft
  <2>4. received # <<>>
    <3>1. Len(received) # 0
      BY <2>1, <2>3 DEF SentTexts
    <3> QED
      BY <3>1
  <2>5. Len(sent) = Len(typed) + 1
    BY <2>1, <2>2, Sizes DEF Counted
  <2>6. Len(shown) + dropped = Len(received)
    BY <2>1, <2>2, <2>4, Sizes DEF Counted
  <2> QED
    BY <2>3, <2>5, <2>6
<1> QED
  BY <1>1, OnTheWayInvariant, PTL

(* The types and bounds of everything on the way.                          *)
THEOREM TransportTyped ==
  ASSUME AllComeThrough
  PROVE  Spec => []TypeOK
<1>1. OnTheWay => TypeOK
  <2> SUFFICES ASSUME OnTheWay PROVE TypeOK
    OBVIOUS
  <2>1. Shape /\ Framed /\ SentTexts /\ Traced /\ Counted
    BY DEF OnTheWay
  <2>2. typed \in BoundedSeq(Texts, MaxTexts)
    <3>1. Len(typed) \in 0..MaxTexts /\ typed \in [1..Len(typed) -> Texts]
      BY <2>1, TransportAssumption DEF Shape
    <3> QED
      BY <3>1 DEF BoundedSeq, SeqOf
  <2>3. \A n \in {"n1", "n2"} : Len(tasks[n]) <= MaxTexts
    BY <2>1, Bounded
  <2>4. /\ Len(sent) <= MaxTexts + 1 /\ dropped \in 0..MaxTexts
    BY <2>1, Bounded, TransportAssumption DEF Shape
  <2>5. \A frame \in ToSet(up) \cup ToSet(down) \cup {stream, buffer} : frame \in Seq(Byte)
    <3>1. \A frame \in UpFrames \cup DownFrames : frame \in Seq(Byte)
      BY TextFacts DEF UpFrames, DownFrames, AllComeThrough, NoticesComeThrough, IsMessage
    <3>2. ToSet(up) \subseteq UpFrames /\ ToSet(down) \subseteq DownFrames
      BY <2>1 DEF Shape, ToSet
    <3> QED
      BY <2>1, <3>1, <3>2 DEF Shape
  <2>6. \A frame \in ToSet(up) \cup ToSet(down) \cup {stream, buffer} :
          \A i \in DOMAIN frame : frame[i] \in Byte
    BY <2>5
  <2>7. \A i \in DOMAIN shown : \A j \in DOMAIN shown[i] : shown[i][j] \in Unit
    <3>1. shown \in Seq(Seq(Unit))
      BY <2>1 DEF Shape
    <3>2. \A i \in DOMAIN shown : shown[i] \in Seq(Unit)
      BY <3>1
    <3> QED
      BY <3>2
  <2> QED
    BY <2>1, <2>2, <2>3, <2>4, <2>6, <2>7 DEF TypeOK, Shape, Framed
<1> QED
  BY <1>1, OnTheWayInvariant, PTL

=============================================================================
