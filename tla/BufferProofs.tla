---------------------------- MODULE BufferProofs -----------------------------
(* Theorems about Buffer, for all sizes, bytes and lengths of a call.       *)
EXTENDS Buffer, SequenceTheorems, TLAPS

------------------------------------------------------------------------------
(* What the methods do to a valid buffer.                                   *)

(* The contents are the bytes between the indices.                          *)
LEMMA ContentType ==
    ASSUME NEW b, Valid(b)
    PROVE  /\ Content(b) \in Seq(Byte)
           /\ Len(Content(b)) = b.writer - b.reader
           /\ ReadableBytes(b) = b.writer - b.reader /\ ReadableBytes(b) \in Nat
           /\ \A i \in 1..(b.writer - b.reader) : Content(b)[i] = b.mem[b.reader + i]
<1>1. ReadableBytes(b) = b.writer - b.reader /\ ReadableBytes(b) \in Nat
  BY DEF Valid, ReadableBytes
<1>2. \A i \in 1..ReadableBytes(b) : b.reader + i \in 1..Len(b.mem)
  BY DEF Valid, ReadableBytes
<1>3. Content(b) \in [1..ReadableBytes(b) -> Byte]
  BY <1>2 DEF Content, Valid
<1>4. QED  BY <1>1, <1>3 DEF Content

(* std::copy within the vector writes data and nothing else.                *)
LEMMA CopyToType ==
    ASSUME NEW mem \in Seq(Byte), NEW data \in Seq(Byte), NEW at \in Nat,
           at + Len(data) <= Len(mem)
    PROVE  /\ CopyTo(mem, at, data) \in Seq(Byte)
           /\ Len(CopyTo(mem, at, data)) = Len(mem)
           /\ \A i \in 1..Len(mem) : CopyTo(mem, at, data)[i] =
                 IF at < i /\ i <= at + Len(data) THEN data[i - at] ELSE mem[i]
<1>1. \A i \in 1..Len(mem) : at < i /\ i <= at + Len(data) => i - at \in 1..Len(data)
  OBVIOUS
<1>2. CopyTo(mem, at, data) \in [1..Len(mem) -> Byte]
  BY <1>1 DEF CopyTo
<1>3. QED  BY <1>2 DEF CopyTo

LEMMA ResizeType ==
    ASSUME NEW mem \in Seq(Byte), NEW n \in Nat
    PROVE  /\ Resize(mem, n) \in Seq(Byte)
           /\ Len(Resize(mem, n)) = n
           /\ \A i \in 1..n : i <= Len(mem) => Resize(mem, n)[i] = mem[i]
<1>1. Resize(mem, n) \in [1..n -> Byte]
  BY BufferAssumption DEF Resize
<1>2. QED  BY <1>1 DEF Resize

(* ensureWritableBytes and makeSpace: room, the same contents, and the      *)
(* header's room if it was there.                                           *)
LEMMA EnsureWritable ==
    ASSUME NEW b, Valid(b), NEW len \in Nat, NEW e, e = EnsureWritableBytes(b, len)
    PROVE  /\ Valid(e)
           /\ WritableBytes(e) >= len
           /\ Content(e) = Content(b)
           /\ b.reader >= CheapPrepend => e.reader >= CheapPrepend
<1>1. CASE WritableBytes(b) >= len
  <2>1. e = b  BY <1>1 DEF EnsureWritableBytes, WritableBytes, Valid
  <2>2. QED  BY <2>1, <1>1
<1>2. CASE WritableBytes(b) < len /\ ~Fits(b, len)
  <2>1. e = [b EXCEPT !.mem = Resize(b.mem, b.writer + len)]
    BY <1>2 DEF EnsureWritableBytes, MakeSpace
  <2>2. b.writer + len \in Nat /\ b.writer + len >= Len(b.mem)
    BY <1>2 DEF Valid, WritableBytes
  <2>3. /\ e.mem = Resize(b.mem, b.writer + len)
        /\ e.reader = b.reader /\ e.writer = b.writer
        /\ e \in [mem : Seq(Byte), reader : Nat, writer : Nat]
        /\ Len(e.mem) = b.writer + len
        /\ \A i \in 1..(b.writer + len) : i <= Len(b.mem) => e.mem[i] = b.mem[i]
    <3>1. b.mem \in Seq(Byte)  BY DEF Valid
    <3>2. /\ Resize(b.mem, b.writer + len) \in Seq(Byte)
          /\ Len(Resize(b.mem, b.writer + len)) = b.writer + len
          /\ \A i \in 1..(b.writer + len) :
                i <= Len(b.mem) => Resize(b.mem, b.writer + len)[i] = b.mem[i]
      BY <2>2, <3>1, ResizeType
    <3>3. QED  BY <2>1, <3>2 DEF Valid
  <2>4. Valid(e)  BY <2>2, <2>3, BufferAssumption DEF Valid
  <2>5. \A i \in 1..(b.writer - b.reader) : e.mem[e.reader + i] = b.mem[b.reader + i]
    BY <2>2, <2>3, SMTT(30) DEF Valid
  <2>6. Content(e) = Content(b)
    BY <2>3, <2>5 DEF Content, ReadableBytes
  <2>7. WritableBytes(e) >= len  BY <2>3 DEF WritableBytes, Valid
  <2>8. QED  BY <2>3, <2>4, <2>6, <2>7
<1>3. CASE WritableBytes(b) < len /\ Fits(b, len)
  <2>1. e = MoveToFront(b)
    BY <1>3 DEF EnsureWritableBytes, MakeSpace
  <2>2. CheapPrepend \in Nat /\ CheapPrepend < b.reader
    BY <1>3, BufferAssumption DEF Valid, Fits, WritableBytes, PrependableBytes
  <2>3. Content(b) \in Seq(Byte) /\ Len(Content(b)) = b.writer - b.reader
    BY ContentType
  <2>4. CheapPrepend + Len(Content(b)) <= Len(b.mem)
    BY <2>2, <2>3 DEF Valid
  <2>5. b.mem \in Seq(Byte)  BY DEF Valid
  <2>6. /\ CopyTo(b.mem, CheapPrepend, Content(b)) \in Seq(Byte)
        /\ Len(CopyTo(b.mem, CheapPrepend, Content(b))) = Len(b.mem)
        /\ \A i \in 1..Len(b.mem) : CopyTo(b.mem, CheapPrepend, Content(b))[i] =
              IF CheapPrepend < i /\ i <= CheapPrepend + Len(Content(b))
              THEN Content(b)[i - CheapPrepend] ELSE b.mem[i]
    BY <2>2, <2>3, <2>4, <2>5, CopyToType
  <2>7. /\ e.mem = CopyTo(b.mem, CheapPrepend, Content(b))
        /\ e.reader = CheapPrepend
        /\ e.writer = CheapPrepend + (b.writer - b.reader)
    BY <2>1 DEF MoveToFront, ReadableBytes
  <2>8. e \in [mem : Seq(Byte), reader : Nat, writer : Nat]
    BY <2>1, <2>2, <2>6 DEF MoveToFront, ReadableBytes, Valid
  <2>9. Valid(e)  BY <2>2, <2>6, <2>7, <2>8 DEF Valid
  <2>10. \A i \in 1..(b.writer - b.reader) : e.mem[e.reader + i] = Content(b)[i]
    <3>1. TAKE i \in 1..(b.writer - b.reader)
    <3>2. e.reader + i \in 1..Len(b.mem) /\ (e.reader + i) - CheapPrepend = i
      BY <2>2, <2>7 DEF Valid
    <3>3. CheapPrepend < e.reader + i /\ e.reader + i <= CheapPrepend + Len(Content(b))
      BY <2>2, <2>3, <2>7 DEF Valid
    <3>4. QED  BY <2>6, <2>7, <3>2, <3>3
  <2>11. ReadableBytes(e) = b.writer - b.reader
    BY <2>2, <2>7 DEF ReadableBytes, Valid
  <2>12. Content(e) = [i \in 1..(b.writer - b.reader) |-> Content(b)[i]]
    BY <2>10, <2>11 DEF Content
  <2>13. Content(e) = Content(b)
    BY <2>12, ContentType DEF Content, ReadableBytes
  <2>14. WritableBytes(e) >= len
    BY <1>3, <2>2, <2>6, <2>7 DEF WritableBytes, Fits, PrependableBytes, Valid
  <2>15. QED  BY <2>2, <2>7, <2>9, <2>13, <2>14
<1>4. QED  BY <1>1, <1>2, <1>3 DEF WritableBytes, Valid

(* How a sequence is shown to be a concatenation.                           *)
LEMMA IsConcatenation ==
    ASSUME NEW s \in Seq(Byte), NEW t \in Seq(Byte), NEW u \in Seq(Byte),
           Len(u) = Len(s) + Len(t),
           \A i \in 1..Len(s) : u[i] = s[i],
           \A i \in 1..Len(t) : u[Len(s) + i] = t[i]
    PROVE  u = s \o t
<1>1. /\ s \o t \in Seq(Byte)
      /\ Len(s \o t) = Len(s) + Len(t)
      /\ \A i \in 1..Len(s) + Len(t) : (s \o t)[i] = IF i <= Len(s) THEN s[i] ELSE t[i - Len(s)]
  BY ConcatProperties
<1>2. \A i \in 1..Len(u) : u[i] = (s \o t)[i]
  <2>1. TAKE i \in 1..Len(u)
  <2>2. CASE i <= Len(s)
    BY <1>1, <2>2
  <2>3. CASE i > Len(s)
    <3>1. i - Len(s) \in 1..Len(t) /\ Len(s) + (i - Len(s)) = i  BY <2>3
    <3>2. u[i] = t[i - Len(s)]  BY <3>1
    <3>3. QED  BY <1>1, <2>3, <3>2
  <2>4. QED  BY <2>2, <2>3
<1>3. QED  BY <1>1, <1>2, SeqEqual

(* Bytes written behind the contents lengthen them.                         *)
LEMMA WrittenAppends ==
    ASSUME NEW b, Valid(b), NEW data \in Seq(Byte), Len(data) <= WritableBytes(b),
           NEW w, w = Written(b, data)
    PROVE  Valid(w) /\ Content(w) = Content(b) \o data /\ w.reader = b.reader
           /\ Len(w.mem) = Len(b.mem) /\ w.writer = b.writer + Len(data)
<1>1. /\ b.mem \in Seq(Byte) /\ b.writer \in Nat /\ b.reader \in Nat /\ Len(data) \in Nat
      /\ b.reader <= b.writer /\ b.writer + Len(data) <= Len(b.mem)
  BY DEF Valid, WritableBytes
<1>2. /\ CopyTo(b.mem, b.writer, data) \in Seq(Byte)
      /\ Len(CopyTo(b.mem, b.writer, data)) = Len(b.mem)
      /\ \A i \in 1..Len(b.mem) : CopyTo(b.mem, b.writer, data)[i] =
            IF b.writer < i /\ i <= b.writer + Len(data) THEN data[i - b.writer] ELSE b.mem[i]
  BY <1>1, CopyToType
<1>3. /\ w.mem = CopyTo(b.mem, b.writer, data)
      /\ w.reader = b.reader /\ w.writer = b.writer + Len(data)
      /\ w \in [mem : Seq(Byte), reader : Nat, writer : Nat]
  BY <1>1, <1>2 DEF Written
<1>4. Valid(w)  BY <1>1, <1>2, <1>3 DEF Valid
<1>5. /\ Content(b) \in Seq(Byte) /\ Len(Content(b)) = b.writer - b.reader
      /\ \A i \in 1..(b.writer - b.reader) : Content(b)[i] = b.mem[b.reader + i]
  BY ContentType
<1>6. /\ Content(w) \in Seq(Byte) /\ Len(Content(w)) = w.writer - w.reader
      /\ \A i \in 1..(w.writer - w.reader) : Content(w)[i] = w.mem[w.reader + i]
  BY <1>4, ContentType
<1>7. Len(Content(w)) = Len(Content(b)) + Len(data)
  BY <1>1, <1>3, <1>5, <1>6
<1>8. \A i \in 1..Len(Content(b)) : Content(w)[i] = Content(b)[i]
  <2>1. TAKE i \in 1..Len(Content(b))
  <2>2. i \in 1..(w.writer - w.reader) /\ i \in 1..(b.writer - b.reader)
    BY <1>1, <1>3, <1>5
  <2>3. b.reader + i \in 1..Len(b.mem) /\ ~(b.writer < b.reader + i)
    <3>1. i \in Nat /\ i >= 1 /\ i <= b.writer - b.reader /\ Len(b.mem) \in Nat
      BY <1>1, <2>2
    <3>2. QED  BY <1>1, <3>1
  <2>4. w.mem[b.reader + i] = b.mem[b.reader + i]
    BY <1>2, <1>3, <2>3
  <2>5. QED  BY <1>3, <1>5, <1>6, <2>2, <2>4
<1>9. \A i \in 1..Len(data) : Content(w)[Len(Content(b)) + i] = data[i]
  <2>1. TAKE i \in 1..Len(data)
  <2>2. /\ Len(Content(b)) + i \in 1..(w.writer - w.reader)
        /\ w.reader + (Len(Content(b)) + i) = b.writer + i
    <3>1. i \in Nat /\ i >= 1 /\ i <= Len(data)  BY <1>1
    <3>2. Len(Content(b)) = b.writer - b.reader  BY <1>5
    <3>3. w.reader = b.reader /\ w.writer = b.writer + Len(data)  BY <1>3
    <3>4. QED  BY <1>1, <3>1, <3>2, <3>3, SMTT(30)
  <2>3. /\ b.writer + i \in 1..Len(b.mem) /\ b.writer < b.writer + i
        /\ b.writer + i <= b.writer + Len(data) /\ (b.writer + i) - b.writer = i
    BY <1>1
  <2>4. w.mem[b.writer + i] = data[i]
    BY <1>2, <1>3, <2>3
  <2>5. QED  BY <1>6, <2>2, <2>4
<1>10. Content(w) = Content(b) \o data
  BY <1>5, <1>6, <1>7, <1>8, <1>9, IsConcatenation
<1>11. QED  BY <1>2, <1>3, <1>4, <1>10

(* append.                                                                  *)
LEMMA AppendedAppends ==
    ASSUME NEW b, Valid(b), NEW data \in Seq(Byte), NEW a, a = Appended(b, data)
    PROVE  /\ Valid(a)
           /\ Content(a) = Content(b) \o data
           /\ b.reader >= CheapPrepend => a.reader >= CheapPrepend
<1>1. Len(data) \in Nat  OBVIOUS
<1>2. PICK e : e = EnsureWritableBytes(b, Len(data))  OBVIOUS
<1>3. /\ Valid(e) /\ WritableBytes(e) >= Len(data) /\ Content(e) = Content(b)
      /\ b.reader >= CheapPrepend => e.reader >= CheapPrepend
  BY <1>1, <1>2, EnsureWritable
<1>4. a = Written(e, data)  BY <1>2 DEF Appended
<1>5. Len(data) <= WritableBytes(e)  BY <1>1, <1>3 DEF WritableBytes, Valid
<1>6. Valid(a) /\ Content(a) = Content(e) \o data /\ a.reader = e.reader
  <2>1. Valid(e)  BY <1>3
  <2>2. QED  BY ONLY <1>4, <1>5, <2>1, WrittenAppends, data \in Seq(Byte)
<1>7. QED  BY <1>3, <1>6

(* A sequence cut in two.                                                   *)
LEMMA Cut ==
    ASSUME NEW s \in Seq(Byte), NEW n \in 0..Len(s)
    PROVE  /\ SubSeq(s, 1, n) \in Seq(Byte) /\ Len(SubSeq(s, 1, n)) = n
           /\ SubSeq(s, n + 1, Len(s)) \in Seq(Byte)
           /\ Len(SubSeq(s, n + 1, Len(s))) = Len(s) - n
           /\ \A i \in 1..n : SubSeq(s, 1, n)[i] = s[i]
           /\ \A i \in 1..(Len(s) - n) : SubSeq(s, n + 1, Len(s))[i] = s[n + i]
           /\ s = SubSeq(s, 1, n) \o SubSeq(s, n + 1, Len(s))
<1>1. n \in Nat /\ n <= Len(s) /\ Len(s) \in Nat /\ \A i \in 1..Len(s) : s[i] \in Byte
  BY ElementOfSeq
<1>2. /\ SubSeq(s, 1, n) \in Seq(Byte)
      /\ Len(SubSeq(s, 1, n)) = (IF 1 <= n THEN n - 1 + 1 ELSE 0)
      /\ \A i \in 1..n - 1 + 1 : SubSeq(s, 1, n)[i] = s[1 + i - 1]
  BY <1>1, SubSeqProperties
<1>3. /\ SubSeq(s, n + 1, Len(s)) \in Seq(Byte)
      /\ Len(SubSeq(s, n + 1, Len(s))) = (IF n + 1 <= Len(s) THEN Len(s) - (n + 1) + 1 ELSE 0)
      /\ \A i \in 1..Len(s) - (n + 1) + 1 : SubSeq(s, n + 1, Len(s))[i] = s[(n + 1) + i - 1]
  BY <1>1, SubSeqProperties
<1>4. Len(SubSeq(s, 1, n)) = n /\ Len(SubSeq(s, n + 1, Len(s))) = Len(s) - n
  BY <1>1, <1>2, <1>3
<1>5. \A i \in 1..n : SubSeq(s, 1, n)[i] = s[i]
  <2>1. TAKE i \in 1..n
  <2>2. i \in 1..n - 1 + 1 /\ 1 + i - 1 = i  BY <1>1
  <2>3. QED  BY <1>2, <2>2
<1>6. \A i \in 1..(Len(s) - n) : SubSeq(s, n + 1, Len(s))[i] = s[n + i]
  <2>1. TAKE i \in 1..(Len(s) - n)
  <2>2. i \in 1..Len(s) - (n + 1) + 1 /\ (n + 1) + i - 1 = n + i  BY <1>1
  <2>3. QED  BY <1>3, <2>2
<1>7. s = SubSeq(s, 1, n) \o SubSeq(s, n + 1, Len(s))
  <2>1. PICK t, u : t = SubSeq(s, 1, n) /\ u = SubSeq(s, n + 1, Len(s))  OBVIOUS
  <2>2. t \in Seq(Byte) /\ u \in Seq(Byte) /\ Len(t) = n /\ Len(s) = Len(t) + Len(u)
    <3>1. t \in Seq(Byte) /\ u \in Seq(Byte)  BY <1>2, <1>3, <2>1
    <3>2. Len(t) = n /\ Len(u) = Len(s) - n  BY <1>4, <2>1
    <3>3. QED  BY <1>1, <3>1, <3>2
  <2>3. (\A i \in 1..Len(t) : s[i] = t[i]) /\ (\A i \in 1..Len(u) : s[Len(t) + i] = u[i])
    BY <1>4, <1>5, <1>6, <2>1
  <2>4. s = t \o u
    BY ONLY <2>2, <2>3, s \in Seq(Byte), IsConcatenation
  <2>5. QED  BY <2>1, <2>4
<1>8. QED  BY <1>2, <1>3, <1>4, <1>5, <1>6, <1>7

(* readFd: a read into two vectors is an append of what was read.           *)
LEMMA ReadIntoAppends ==
    ASSUME NEW b, Valid(b), NEW data \in Seq(Byte), NEW a, a = ReadInto(b, data)
    PROVE  /\ Valid(a)
           /\ Content(a) = Content(b) \o data
           /\ b.reader >= CheapPrepend => a.reader >= CheapPrepend
<1>1. WritableBytes(b) \in Nat /\ Len(data) \in Nat
  BY DEF WritableBytes, Valid
<1>2. CASE Len(data) <= WritableBytes(b)
  <2>1. a = Written(b, data)  BY <1>2 DEF ReadInto
  <2>2. Valid(a) /\ Content(a) = Content(b) \o data /\ a.reader = b.reader
    BY ONLY <1>2, <2>1, Valid(b), data \in Seq(Byte), WrittenAppends
  <2>3. QED  BY <2>2
<1>3. CASE Len(data) > WritableBytes(b)
  <2>1. PICK room : room = WritableBytes(b)  OBVIOUS
  <2>2. PICK first, rest :
           first = SubSeq(data, 1, room) /\ rest = SubSeq(data, room + 1, Len(data))
    OBVIOUS
  <2>3. room \in 0..Len(data)  BY <1>1, <1>3, <2>1
  <2>4. /\ first \in Seq(Byte) /\ Len(first) = room
        /\ rest \in Seq(Byte) /\ data = first \o rest
    BY <2>2, <2>3, Cut
  <2>5. PICK w : w = Written(b, first)  OBVIOUS
  <2>6. Len(first) <= WritableBytes(b)  BY <1>1, <2>1, <2>4
  <2>7. Valid(w) /\ Content(w) = Content(b) \o first /\ w.reader = b.reader
    BY ONLY <2>4, <2>5, <2>6, Valid(b), WrittenAppends
  <2>8. a = Appended(w, rest)  BY <1>1, <1>3, <2>1, <2>2, <2>5 DEF ReadInto
  <2>9. /\ Valid(a) /\ Content(a) = Content(w) \o rest
        /\ w.reader >= CheapPrepend => a.reader >= CheapPrepend
    BY ONLY <2>4, <2>7, <2>8, AppendedAppends
  <2>10. Content(b) \in Seq(Byte)  BY ContentType
  <2>11. (Content(b) \o first) \o rest = Content(b) \o data
    BY <2>4, <2>10, ConcatAssociative
  <2>12. QED  BY <2>7, <2>9, <2>11
<1>4. QED  BY <1>1, <1>2, <1>3

(* retrieve: what was at the front is gone, the rest is what is left.       *)
LEMMA RetrieveTakes ==
    ASSUME NEW b, Valid(b), NEW len \in 0..ReadableBytes(b), NEW r, r = Retrieve(b, len)
    PROVE  /\ Valid(r)
           /\ Content(b) = SubSeq(Content(b), 1, len) \o Content(r)
           /\ b.reader >= CheapPrepend \/ len = ReadableBytes(b) => r.reader >= CheapPrepend
<1>1. /\ b.reader \in Nat /\ b.writer \in Nat /\ len \in Nat /\ CheapPrepend \in Nat
      /\ b.reader <= b.writer /\ len <= b.writer - b.reader
  BY BufferAssumption DEF Valid, ReadableBytes
<1>2. /\ Content(b) \in Seq(Byte) /\ Len(Content(b)) = b.writer - b.reader
      /\ ReadableBytes(b) = b.writer - b.reader
      /\ \A i \in 1..(b.writer - b.reader) : Content(b)[i] = b.mem[b.reader + i]
  BY ContentType
<1>3. len \in 0..Len(Content(b))  BY <1>1, <1>2
<1>4. CASE len < ReadableBytes(b)
  <2>1. r = [b EXCEPT !.reader = @ + len]  BY <1>4 DEF Retrieve
  <2>2. r.mem = b.mem /\ r.reader = b.reader + len /\ r.writer = b.writer /\ Valid(r)
    <3>1. r.mem = b.mem /\ r.reader = b.reader + len /\ r.writer = b.writer
      BY <2>1 DEF Valid
    <3>2. r \in [mem : Seq(Byte), reader : Nat, writer : Nat]
      <4>1. b \in [mem : Seq(Byte), reader : Nat, writer : Nat]  BY DEF Valid
      <4>2. b.reader + len \in Nat  BY <1>1
      <4>3. r = [b EXCEPT !.reader = b.reader + len]  BY <2>1
      <4>4. QED  BY <4>1, <4>2, <4>3
    <3>3. r.reader <= r.writer  BY <1>1, <3>1
    <3>4. QED  BY <3>1, <3>2, <3>3 DEF Valid
  <2>3. /\ Content(r) \in Seq(Byte) /\ Len(Content(r)) = r.writer - r.reader
        /\ \A i \in 1..(r.writer - r.reader) : Content(r)[i] = r.mem[r.reader + i]
    BY <2>2, ContentType
  <2>4. \A i \in 1..(Len(Content(b)) - len) : Content(b)[len + i] = Content(r)[i]
    <3>1. TAKE i \in 1..(Len(Content(b)) - len)
    <3>2. /\ i \in 1..(r.writer - r.reader) /\ len + i \in 1..(b.writer - b.reader)
          /\ r.reader + i = b.reader + (len + i)
      BY <1>1, <1>2, <2>2, SMTT(30)
    <3>3. QED  BY <1>2, <2>2, <2>3, <3>2
  <2>5. /\ SubSeq(Content(b), 1, len) \in Seq(Byte) /\ Len(SubSeq(Content(b), 1, len)) = len
        /\ \A i \in 1..len : SubSeq(Content(b), 1, len)[i] = Content(b)[i]
    BY <1>2, <1>3, Cut
  <2>6. Len(Content(r)) = Len(Content(b)) - len
        /\ Len(Content(b)) = Len(SubSeq(Content(b), 1, len)) + Len(Content(r))
    BY <1>1, <1>2, <2>2, <2>3, <2>5
  <2>7. Content(b) = SubSeq(Content(b), 1, len) \o Content(r)
    <3>1. PICK s, t, u : s = SubSeq(Content(b), 1, len) /\ t = Content(r) /\ u = Content(b)
      OBVIOUS
    <3>2. /\ s \in Seq(Byte) /\ t \in Seq(Byte) /\ u \in Seq(Byte)
          /\ Len(u) = Len(s) + Len(t) /\ Len(s) = len
      BY <1>2, <2>3, <2>5, <2>6, <3>1
    <3>3. \A i \in 1..Len(s) : u[i] = s[i]
      BY <2>5, <3>1, <3>2
    <3>4. \A i \in 1..Len(t) : u[Len(s) + i] = t[i]
      BY <2>4, <2>6, <3>1, <3>2
    <3>5. u = s \o t
      BY ONLY <3>2, <3>3, <3>4, IsConcatenation
    <3>6. QED  BY <3>1, <3>5
  <2>8. QED  BY <1>1, <1>4, <2>2, <2>7
<1>5. CASE ~(len < ReadableBytes(b))
  <2>1. len = Len(Content(b)) /\ Len(Content(b)) \in Nat  BY <1>1, <1>2, <1>5
  <2>2. r = [b EXCEPT !.reader = CheapPrepend, !.writer = CheapPrepend]
    BY <1>5 DEF Retrieve, RetrieveAll
  <2>3. r.reader = CheapPrepend /\ r.writer = CheapPrepend /\ r.mem = b.mem
    BY <2>2 DEF Valid
  <2>4. Valid(r)
    <3>1. r \in [mem : Seq(Byte), reader : Nat, writer : Nat]
      BY <1>1, <2>2 DEF Valid
    <3>2. QED  BY <1>1, <2>3, <3>1 DEF Valid
  <2>5. Content(r) \in Seq(Byte) /\ Len(Content(r)) = 0
    BY <1>1, <2>3, <2>4, ContentType
  <2>6. /\ SubSeq(Content(b), 1, len) \in Seq(Byte) /\ Len(SubSeq(Content(b), 1, len)) = len
        /\ \A i \in 1..len : SubSeq(Content(b), 1, len)[i] = Content(b)[i]
    BY <1>2, <1>3, Cut
  <2>7. Content(b) = SubSeq(Content(b), 1, len) \o Content(r)
    <3>1. \A i \in 1..Len(Content(r)) : Content(b)[Len(SubSeq(Content(b), 1, len)) + i] = Content(r)[i]
      BY <2>5
    <3>2. Len(Content(b)) = Len(SubSeq(Content(b), 1, len)) + Len(Content(r))
      BY <2>1, <2>5, <2>6
    <3>3. QED  BY <1>2, <2>1, <2>5, <2>6, <3>1, <3>2, IsConcatenation
  <2>8. QED  BY <1>1, <2>3, <2>4, <2>7
<1>6. QED  BY <1>4, <1>5

(* unwrite: the same at the other end.                                      *)
LEMMA UnwrittenDrops ==
    ASSUME NEW b, Valid(b), NEW len \in 0..ReadableBytes(b), NEW u, u = Unwritten(b, len)
    PROVE  /\ Valid(u)
           /\ Content(b) = Content(u) \o SubSeq(Content(b), ReadableBytes(b) - len + 1,
                                                            ReadableBytes(b))
           /\ u.reader = b.reader
<1>1. /\ b.reader \in Nat /\ b.writer \in Nat /\ len \in Nat /\ b.reader <= b.writer
      /\ len <= b.writer - b.reader /\ b.writer - len \in Nat /\ b.writer <= Len(b.mem)
      /\ Len(b.mem) \in Nat
  BY DEF Valid, ReadableBytes
<1>2. u.mem = b.mem /\ u.reader = b.reader /\ u.writer = b.writer - len
  BY DEF Unwritten, Valid
<1>3. u \in [mem : Seq(Byte), reader : Nat, writer : Nat]
  <2>1. b \in [mem : Seq(Byte), reader : Nat, writer : Nat]  BY DEF Valid
  <2>2. u = [b EXCEPT !.writer = b.writer - len]  BY DEF Unwritten
  <2>3. QED  BY <1>1, <2>1, <2>2
<1>4. Valid(u)
  <2>1. u.reader <= u.writer /\ u.writer <= Len(u.mem)  BY <1>1, <1>2
  <2>2. CheapPrepend <= Len(u.mem)  BY <1>2 DEF Valid
  <2>3. QED  BY <1>3, <2>1, <2>2 DEF Valid
<1>5. /\ Content(b) \in Seq(Byte) /\ Len(Content(b)) = b.writer - b.reader
      /\ ReadableBytes(b) = b.writer - b.reader
      /\ \A i \in 1..(b.writer - b.reader) : Content(b)[i] = b.mem[b.reader + i]
  BY ContentType
<1>6. /\ Content(u) \in Seq(Byte) /\ Len(Content(u)) = u.writer - u.reader
      /\ \A i \in 1..(u.writer - u.reader) : Content(u)[i] = u.mem[u.reader + i]
  BY <1>4, ContentType
<1>7. PICK n : n = ReadableBytes(b) - len  OBVIOUS
<1>8. n \in 0..Len(Content(b)) /\ n = Len(Content(u))
  BY <1>1, <1>2, <1>5, <1>6, <1>7, SMTT(30)
<1>9. PICK c, t : c = Content(b) /\ t = SubSeq(c, n + 1, Len(c))  OBVIOUS
<1>10. c \in Seq(Byte) /\ n \in 0..Len(c)  BY <1>5, <1>8, <1>9
<1>11. /\ t \in Seq(Byte) /\ Len(t) = Len(c) - n
       /\ \A i \in 1..(Len(c) - n) : t[i] = c[n + i]
  BY <1>9, <1>10, Cut
<1>12. Len(c) = Len(Content(u)) + Len(t)  BY <1>8, <1>10, <1>11
<1>13. \A i \in 1..Len(Content(u)) : c[i] = Content(u)[i]
  <2>1. TAKE i \in 1..Len(Content(u))
  <2>2. i \in 1..(u.writer - u.reader) /\ i \in 1..(b.writer - b.reader)
    BY <1>1, <1>2, <1>6
  <2>3. QED  BY <1>2, <1>5, <1>6, <1>9, <2>2
<1>14. \A i \in 1..Len(t) : c[Len(Content(u)) + i] = t[i]
  BY <1>8, <1>11
<1>15. c = Content(u) \o t
  BY ONLY <1>6, <1>10, <1>11, <1>12, <1>13, <1>14, IsConcatenation
<1>16. t = SubSeq(Content(b), ReadableBytes(b) - len + 1, ReadableBytes(b))
  <2>1. Len(c) = ReadableBytes(b)  BY <1>5, <1>9
  <2>2. QED  BY <1>7, <1>9, <2>1
<1>17. QED  BY <1>2, <1>4, <1>9, <1>15, <1>16

(* prepend.                                                                 *)
LEMMA PrependedPrepends ==
    ASSUME NEW b, Valid(b), NEW data \in Seq(Byte), Len(data) <= PrependableBytes(b),
           NEW p, p = Prepended(b, data)
    PROVE  Valid(p) /\ Content(p) = data \o Content(b)
<1>1. /\ b.mem \in Seq(Byte) /\ b.writer \in Nat /\ b.reader \in Nat /\ Len(data) \in Nat
      /\ b.reader <= b.writer /\ b.writer <= Len(b.mem) /\ Len(b.mem) \in Nat
      /\ Len(data) <= b.reader
  BY DEF Valid, PrependableBytes
<1>2. PICK at : at = b.reader - Len(data)  OBVIOUS
<1>3. at \in Nat /\ at + Len(data) = b.reader /\ at + Len(data) <= Len(b.mem)
  BY <1>1, <1>2
<1>4. /\ CopyTo(b.mem, at, data) \in Seq(Byte)
      /\ Len(CopyTo(b.mem, at, data)) = Len(b.mem)
      /\ \A i \in 1..Len(b.mem) : CopyTo(b.mem, at, data)[i] =
            IF at < i /\ i <= at + Len(data) THEN data[i - at] ELSE b.mem[i]
  BY <1>1, <1>3, CopyToType
<1>5. p.mem = CopyTo(b.mem, at, data) /\ p.reader = at /\ p.writer = b.writer
      /\ p \in [mem : Seq(Byte), reader : Nat, writer : Nat]
  BY <1>1, <1>2, <1>3, <1>4 DEF Prepended
<1>6. Valid(p)
  <2>1. p.reader <= p.writer /\ p.writer <= Len(p.mem)  BY <1>1, <1>3, <1>4, <1>5
  <2>2. CheapPrepend <= Len(p.mem)  BY <1>4, <1>5 DEF Valid
  <2>3. QED  BY <1>5, <2>1, <2>2 DEF Valid
<1>7. /\ Content(b) \in Seq(Byte) /\ Len(Content(b)) = b.writer - b.reader
      /\ \A i \in 1..(b.writer - b.reader) : Content(b)[i] = b.mem[b.reader + i]
  BY ContentType
<1>8. /\ Content(p) \in Seq(Byte) /\ Len(Content(p)) = p.writer - p.reader
      /\ \A i \in 1..(p.writer - p.reader) : Content(p)[i] = p.mem[p.reader + i]
  BY <1>6, ContentType
<1>9. Len(Content(p)) = Len(data) + Len(Content(b))
  BY <1>1, <1>3, <1>5, <1>7, <1>8
<1>10. \A i \in 1..Len(data) : Content(p)[i] = data[i]
  <2>1. TAKE i \in 1..Len(data)
  <2>2. i \in Nat /\ i >= 1 /\ i <= Len(data)  BY <1>1
  <2>3. /\ at + i \in 1..Len(b.mem) /\ at < at + i /\ at + i <= at + Len(data)
        /\ (at + i) - at = i /\ i \in 1..(p.writer - p.reader)
    BY <1>1, <1>3, <1>5, <2>2
  <2>4. p.mem[at + i] = data[i]  BY <1>4, <1>5, <2>3
  <2>5. QED  BY <1>5, <1>8, <2>3, <2>4
<1>11. \A i \in 1..Len(Content(b)) : Content(p)[Len(data) + i] = Content(b)[i]
  <2>1. TAKE i \in 1..Len(Content(b))
  <2>2. i \in Nat /\ i >= 1 /\ i <= b.writer - b.reader /\ i \in 1..(b.writer - b.reader)
    BY <1>1, <1>7
  <2>3. /\ b.reader + i \in 1..Len(b.mem) /\ ~(b.reader + i <= at + Len(data))
        /\ at + (Len(data) + i) = b.reader + i /\ Len(data) + i \in 1..(p.writer - p.reader)
    <3>1. p.reader = at /\ p.writer = b.writer  BY <1>5
    <3>2. i \in Nat /\ i >= 1 /\ i <= b.writer - b.reader  BY <2>2
    <3>3. b.reader + i \in 1..Len(b.mem) /\ ~(b.reader + i <= at + Len(data))
      BY <1>1, <1>3, <3>2, SMTT(30)
    <3>4. at + (Len(data) + i) = b.reader + i
      BY <1>1, <1>3, <3>2
    <3>5. Len(data) + i <= p.writer - p.reader
      BY <1>1, <1>3, <3>1, <3>2
    <3>6. Len(data) + i \in 1..(p.writer - p.reader)
      BY <1>1, <1>3, <3>1, <3>2, <3>5
    <3>7. QED  BY <3>3, <3>4, <3>6
  <2>4. p.mem[b.reader + i] = b.mem[b.reader + i]  BY <1>4, <1>5, <2>3
  <2>5. QED  BY <1>5, <1>7, <1>8, <2>2, <2>3, <2>4
<1>12. Content(p) = data \o Content(b)
  BY ONLY <1>7, <1>8, <1>9, <1>10, <1>11, data \in Seq(Byte), IsConcatenation
<1>13. QED  BY <1>6, <1>12

------------------------------------------------------------------------------
(* The invariant: the order of the indices, and room for a header.          *)

IInv == TypeOK /\ HeaderFits

LEMMA PiecesAreSequences == \A data \in Pieces : data \in Seq(Byte) /\ Len(data) \in Nat
  BY BufferAssumption DEF Pieces

LEMMA NewIsValid == Valid(New) /\ Content(New) = <<>> /\ New.reader >= CheapPrepend
<1>1. Zeros(CheapPrepend + InitialSize) \in [1..(CheapPrepend + InitialSize) -> Byte]
  BY BufferAssumption DEF Zeros
<1>2. CheapPrepend + InitialSize \in Nat  BY BufferAssumption
<1>3. /\ Zeros(CheapPrepend + InitialSize) \in Seq(Byte)
      /\ Len(Zeros(CheapPrepend + InitialSize)) = CheapPrepend + InitialSize
  BY <1>1, <1>2
<1>4. /\ New \in [mem : Seq(Byte), reader : Nat, writer : Nat]
      /\ New.mem = Zeros(CheapPrepend + InitialSize)
      /\ New.reader = CheapPrepend /\ New.writer = CheapPrepend
  BY <1>3, BufferAssumption DEF New
<1>5. Valid(New)  BY <1>3, <1>4, BufferAssumption DEF Valid
<1>6. Content(New) \in Seq(Byte) /\ Len(Content(New)) = 0
  BY <1>4, <1>5, BufferAssumption, ContentType
<1>7. Content(New) = <<>>  BY <1>6, EmptySeq
<1>8. QED  BY <1>4, <1>5, <1>7, BufferAssumption

THEOREM IInvInit == Init => IInv
<1>1. <<>> \in Seq(Byte)  BY EmptySeq
<1> SUFFICES ASSUME Init PROVE IInv  OBVIOUS
<1>2. Valid(buffer) /\ buffer.reader >= CheapPrepend  BY NewIsValid DEF Init
<1>3. io = [op |-> "new", data |-> <<>>] /\ header = FALSE  BY DEF Init
<1>4. TypeOK  BY <1>1, <1>2, <1>3 DEF TypeOK
<1>5. HeaderFits  BY <1>2 DEF HeaderFits, PrependableBytes
<1>6. QED  BY <1>4, <1>5 DEF IInv

(* Each call preserves the invariant and is one of the queue's.             *)
THEOREM IInvNext == IInv /\ [Next]_vars => IInv' /\ [Bytes!Next]_(Bytes!vars)
<1> SUFFICES ASSUME IInv, [Next]_vars PROVE IInv' /\ [Bytes!Next]_(Bytes!vars)
  OBVIOUS
<1>0. /\ Valid(buffer) /\ header \in BOOLEAN
      /\ io \in [op : {"new", "put", "take", "unwrite", "prepend"}, data : Seq(Byte)]
      /\ ~header => buffer.reader >= CheapPrepend
      /\ buffer.reader \in Nat /\ CheapPrepend \in Nat
  BY BufferAssumption DEF IInv, TypeOK, HeaderFits, PrependableBytes, Valid
<1> DEFINE Ops == {"new", "put", "take", "unwrite", "prepend"}
<1>1. CASE DoAppend
  <2>1. PICK data \in Pieces :
           buffer' = Appended(buffer, data) /\ Call("put", data) /\ header' = header
    BY <1>1 DEF DoAppend
  <2>2. data \in Seq(Byte)  BY PiecesAreSequences
  <2>3. /\ Valid(buffer') /\ Content(buffer') = Content(buffer) \o data
        /\ buffer.reader >= CheapPrepend => buffer'.reader >= CheapPrepend
    BY <1>0, <2>1, <2>2, AppendedAppends
  <2>4. io' = [op |-> "put", data |-> data]  BY <2>1 DEF Call
  <2>5. IInv'
    BY <1>0, <2>1, <2>2, <2>3, <2>4 DEF IInv, TypeOK, HeaderFits, PrependableBytes
  <2>6. Bytes!Put  BY <2>3, <2>4 DEF Bytes!Put
  <2>7. QED  BY <2>5, <2>6 DEF Bytes!Next
<1>2. CASE DoReadFd
  <2>1. PICK data \in Pieces :
           buffer' = ReadInto(buffer, data) /\ Call("put", data) /\ header' = header
    BY <1>2 DEF DoReadFd
  <2>2. data \in Seq(Byte)  BY PiecesAreSequences
  <2>3. /\ Valid(buffer') /\ Content(buffer') = Content(buffer) \o data
        /\ buffer.reader >= CheapPrepend => buffer'.reader >= CheapPrepend
    BY <1>0, <2>1, <2>2, ReadIntoAppends
  <2>4. io' = [op |-> "put", data |-> data]  BY <2>1 DEF Call
  <2>5. IInv'
    BY <1>0, <2>1, <2>2, <2>3, <2>4 DEF IInv, TypeOK, HeaderFits, PrependableBytes
  <2>6. Bytes!Put  BY <2>3, <2>4 DEF Bytes!Put
  <2>7. QED  BY <2>5, <2>6 DEF Bytes!Next
<1>3. CASE DoRetrieve
  <2>1. PICK len \in 0..ReadableBytes(buffer) :
           /\ buffer' = Retrieve(buffer, len)
           /\ Call("take", SubSeq(Content(buffer), 1, len))
           /\ header' = (header /\ len < ReadableBytes(buffer))
    BY <1>3 DEF DoRetrieve
  <2>2. /\ Valid(buffer')
        /\ Content(buffer) = SubSeq(Content(buffer), 1, len) \o Content(buffer')
        /\ buffer.reader >= CheapPrepend \/ len = ReadableBytes(buffer)
              => buffer'.reader >= CheapPrepend
    BY <1>0, <2>1, RetrieveTakes
  <2>3. io' = [op |-> "take", data |-> SubSeq(Content(buffer), 1, len)]
    BY <2>1 DEF Call
  <2>4. /\ Content(buffer) \in Seq(Byte) /\ ReadableBytes(buffer) \in Nat
        /\ Len(Content(buffer)) = ReadableBytes(buffer)
    BY <1>0, ContentType
  <2>5. SubSeq(Content(buffer), 1, len) \in Seq(Byte)
    BY <2>4, Cut
  <2>6. ~header' => ~header \/ len = ReadableBytes(buffer)
    <3>1. len < ReadableBytes(buffer) \/ len = ReadableBytes(buffer)  BY <2>4
    <3>2. QED  BY <2>1, <3>1
  <2>7. HeaderFits'  BY <1>0, <2>2, <2>6 DEF HeaderFits, PrependableBytes
  <2>8. header' \in BOOLEAN  BY <2>1
  <2>9. IInv'  BY <2>2, <2>3, <2>5, <2>7, <2>8 DEF IInv, TypeOK
  <2>10. Bytes!Take  BY <2>2, <2>3 DEF Bytes!Take
  <2>11. QED  BY <2>9, <2>10 DEF Bytes!Next
<1>4. CASE DoUnwrite
  <2>1. PICK len \in 0..ReadableBytes(buffer) :
           /\ buffer' = Unwritten(buffer, len)
           /\ Call("unwrite", SubSeq(Content(buffer), ReadableBytes(buffer) - len + 1,
                                                      ReadableBytes(buffer)))
           /\ header' = header
    BY <1>4 DEF DoUnwrite
  <2>2. PICK data : data = SubSeq(Content(buffer), ReadableBytes(buffer) - len + 1,
                                                   ReadableBytes(buffer))
    OBVIOUS
  <2>3. Valid(buffer') /\ Content(buffer) = Content(buffer') \o data
        /\ buffer'.reader = buffer.reader
    BY <1>0, <2>1, <2>2, UnwrittenDrops
  <2>4. io' = [op |-> "unwrite", data |-> data]  BY <2>1, <2>2 DEF Call
  <2>5. /\ Content(buffer) \in Seq(Byte) /\ ReadableBytes(buffer) \in Nat
        /\ Len(Content(buffer)) = ReadableBytes(buffer)
    BY <1>0, ContentType
  <2>6. data \in Seq(Byte)
    <3>1. ReadableBytes(buffer) - len \in 0..Len(Content(buffer))  BY <2>5
    <3>2. QED  BY <2>2, <2>5, <3>1, Cut
  <2>7. IInv'
    BY <1>0, <2>1, <2>3, <2>4, <2>6 DEF IInv, TypeOK, HeaderFits, PrependableBytes
  <2>8. Bytes!Unwrite  BY <2>3, <2>4 DEF Bytes!Unwrite
  <2>9. QED  BY <2>7, <2>8 DEF Bytes!Next
<1>5. CASE DoPrepend
  <2>1. PICK data \in Pieces :
           /\ Len(data) <= PrependableBytes(buffer)
           /\ buffer' = Prepended(buffer, data) /\ Call("prepend", data) /\ header' = TRUE
    BY <1>5 DEF DoPrepend
  <2>2. data \in Seq(Byte)  BY PiecesAreSequences
  <2>3. Valid(buffer') /\ Content(buffer') = data \o Content(buffer)
    BY <1>0, <2>1, <2>2, PrependedPrepends
  <2>4. io' = [op |-> "prepend", data |-> data]  BY <2>1 DEF Call
  <2>5. IInv'
    BY <2>1, <2>2, <2>3, <2>4 DEF IInv, TypeOK, HeaderFits, PrependableBytes
  <2>6. Bytes!Prepend  BY <2>3, <2>4 DEF Bytes!Prepend
  <2>7. QED  BY <2>5, <2>6 DEF Bytes!Next
<1>6. CASE UNCHANGED vars
  BY <1>6 DEF vars, IInv, TypeOK, HeaderFits, PrependableBytes, Content, ReadableBytes,
              Valid, Bytes!vars
<1>7. QED  BY <1>1, <1>2, <1>3, <1>4, <1>5, <1>6 DEF Next

(* Buffer.h:18-24: the order of the indices.                                *)
THEOREM TypeCorrect == Spec => []TypeOK
<1>1. IInv => TypeOK  BY DEF IInv
<1>2. QED  BY IInvInit, IInvNext, <1>1, PTL DEF Spec

(* Room for a header unless there is one (Buffer.h:27, 70-73, 253-263).     *)
THEOREM HeaderAlwaysFits == Spec => []HeaderFits
<1>1. IInv => HeaderFits  BY DEF IInv
<1>2. QED  BY IInvInit, IInvNext, <1>1, PTL DEF Spec

(* The assertions of ensureWritableBytes and makeSpace (Buffer.h:98-103,    *)
(* 252-266).                                                                *)
THEOREM SpaceIsAlwaysMade == Spec => []SpaceIsMade
<1>1. IInv => SpaceIsMade
  <2> SUFFICES ASSUME IInv, NEW len \in 0..MaxPiece
               PROVE  LET b == EnsureWritableBytes(buffer, len) IN
                      /\ WritableBytes(b) >= len
                      /\ Content(b) = Content(buffer)
                      /\ WritableBytes(buffer) < len /\ Fits(buffer, len)
                            => CheapPrepend < buffer.reader
    BY DEF SpaceIsMade
  <2>1. Valid(buffer) /\ len \in Nat  BY BufferAssumption DEF IInv, TypeOK
  <2>2. /\ WritableBytes(EnsureWritableBytes(buffer, len)) >= len
        /\ Content(EnsureWritableBytes(buffer, len)) = Content(buffer)
    BY <2>1, EnsureWritable
  <2>3. WritableBytes(buffer) < len /\ Fits(buffer, len) => CheapPrepend < buffer.reader
    BY <2>1, BufferAssumption DEF Valid, Fits, WritableBytes, PrependableBytes
  <2>4. QED  BY <2>2, <2>3
<1>2. QED  BY IInvInit, IInvNext, <1>1, PTL DEF Spec

(* The buffer is a byte queue (Buffer.h:53-118, 232-266, Buffer.cc:14-55).  *)
THEOREM Implements == Spec => ImplementsByteQueue
<1>1. Init => Bytes!Init  BY NewIsValid DEF Init, Bytes!Init
<1>2. QED  BY IInvInit, IInvNext, <1>1, PTL DEF Spec, ImplementsByteQueue, Bytes!Spec
==============================================================================
