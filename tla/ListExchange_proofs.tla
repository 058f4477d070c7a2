-------------------------- MODULE ListExchange_proofs --------------------------
(***************************************************************************)
(* Proofs about the codec and about an exchange of lists, for bytes of any *)
(* number of values, any messages and lists of any length.                 *)
(***************************************************************************)
EXTENDS ListExchange, SequenceTheorems, TLAPS

-----------------------------------------------------------------------------
\* Numbers and their bytes.

LEMMA DivMod ==
    ASSUME NEW n \in Nat, NEW d \in Nat, d > 0
    PROVE  /\ n \div d \in Nat /\ n % d \in 0..(d - 1)
           /\ (n \div d) * d + (n % d) = n
OBVIOUS

LEMMA DivBound ==
    ASSUME NEW a \in Nat, NEW d \in Nat, d > 0, NEW n \in 0..(a * d - 1)
    PROVE  n \div d \in 0..(a - 1)
<1> DEFINE q == n \div d
<1>1. q \in Nat /\ n >= q * d
  BY DivMod
<1>2. q * d < a * d
  BY <1>1
<1> HIDE DEF q
<1>3. q < a
  BY <1>1, <1>2
<1> QED BY <1>1, <1>3 DEF q

LEMMA SquareFacts ==
    /\ Radix \in Nat /\ Radix >= 5 /\ Square \in Nat /\ Square >= 25 /\ Square = Radix * Radix
    /\ Square * Square \in Nat /\ Square * Square >= 25 * 25
<1>1. Radix \in Nat /\ Radix >= 5
  BY RadixAssumption
<1>2. \A a, d \in Nat : \A k \in Nat : a >= k /\ d >= k => a * d \in Nat /\ a * d >= k * k
  OBVIOUS
<1>3. Square \in Nat /\ Square >= 25
  BY <1>1, <1>2 DEF Square
<1>4. Square * Square \in Nat /\ Square * Square >= 25 * 25
  BY <1>2, <1>3
<1> QED BY <1>1, <1>3, <1>4 DEF Square

\* The bytes s are in the buffer b from offset p on.
Written(b, p, s) == p + Len(s) <= Len(b) /\ \A i \in 1..Len(s) : b[p + i] = s[i]

LEMMA WrittenParts ==
    ASSUME NEW b \in Bytes, NEW p \in Nat, NEW s \in Bytes, NEW t \in Bytes,
           Written(b, p, s \o t)
    PROVE  Written(b, p, s) /\ Written(b, p + Len(s), t)
<1>1. /\ s \o t \in Bytes /\ Len(s \o t) = Len(s) + Len(t)
      /\ \A i \in 1..Len(s) : (s \o t)[i] = s[i]
      /\ \A i \in 1..Len(t) : (s \o t)[Len(s) + i] = t[i]
  BY DEF Bytes
<1>2. Len(s) \in Nat /\ Len(t) \in Nat /\ Len(b) \in Nat
  BY DEF Bytes
<1>3. Written(b, p, s)
  BY <1>1, <1>2 DEF Written
<1>4. \A i \in 1..Len(t) : b[p + Len(s) + i] = t[i]
  <2> SUFFICES ASSUME NEW i \in 1..Len(t) PROVE b[p + Len(s) + i] = t[i]
    OBVIOUS
  <2>1. b[p + (Len(s) + i)] = t[i]
    BY <1>1, <1>2 DEF Written
  <2>2. p + (Len(s) + i) = p + Len(s) + i
    BY <1>2
  <2> QED BY <2>1, <2>2
<1> QED BY <1>1, <1>2, <1>3, <1>4 DEF Written

LEMMA ConcatBytes ==
    ASSUME NEW s \in Bytes, NEW t \in Bytes
    PROVE  s \o t \in Bytes /\ Len(s \o t) = Len(s) + Len(t)
BY DEF Bytes

LEMMA OneByte ==
    ASSUME NEW v \in OcaUint8
    PROVE  /\ <<v>> \in Bytes /\ Len(<<v>>) = 1
           /\ \A b \in Bytes, p \in Nat : Written(b, p, <<v>>) => Uint8FromBuffer(b, p) = v
BY DEF Bytes, Written, Uint8FromBuffer

LEMMA TwoBytes ==
    ASSUME NEW v \in OcaUint16
    PROVE  /\ Uint16Bytes(v) \in Bytes /\ Len(Uint16Bytes(v)) = 2
           /\ \A b \in Bytes, p \in Nat :
                  Written(b, p, Uint16Bytes(v)) => Uint16FromBuffer(b, p) = v
<1>1. /\ v \div Radix \in OcaUint8 /\ v % Radix \in OcaUint8
      /\ (v \div Radix) * Radix + (v % Radix) = v
  BY DivMod, DivBound, SquareFacts DEF OcaUint16, OcaUint8
<1>2. Uint16Bytes(v) \in Bytes /\ Len(Uint16Bytes(v)) = 2
  BY <1>1 DEF Uint16Bytes, Bytes
<1>3. ASSUME NEW b \in Bytes, NEW p \in Nat, Written(b, p, Uint16Bytes(v))
      PROVE  Uint16FromBuffer(b, p) = v
  <2>1. b[p + 1] = v \div Radix /\ b[p + 2] = v % Radix
    BY <1>2, <1>3 DEF Written, Uint16Bytes
  <2> QED BY <1>1, <2>1 DEF Uint16FromBuffer
<1> QED BY <1>2, <1>3

LEMMA FourBytes ==
    ASSUME NEW v \in OcaUint32
    PROVE  /\ Uint32Bytes(v) \in Bytes /\ Len(Uint32Bytes(v)) = 4
           /\ \A b \in Bytes, p \in Nat :
                  Written(b, p, Uint32Bytes(v)) => Uint32FromBuffer(b, p) = v
<1> DEFINE high == v \div Square
<1> DEFINE low == v % Square
<1> DEFINE s == Uint16Bytes(high)
<1> DEFINE t == Uint16Bytes(low)
<1>1. v \in 0..(Square * Square - 1) /\ Square \in Nat /\ Square > 0
  BY SquareFacts DEF OcaUint32
<1>2. high \in OcaUint16
  BY <1>1, DivBound DEF OcaUint16
<1>3. low \in OcaUint16 /\ high * Square + low = v
  BY <1>1, DivMod DEF OcaUint16
<1> HIDE DEF high, low
<1>4. /\ s \in Bytes /\ Len(s) = 2
      /\ \A b \in Bytes, p \in Nat : Written(b, p, s) => Uint16FromBuffer(b, p) = high
  BY <1>2, TwoBytes
<1>5. /\ t \in Bytes /\ Len(t) = 2
      /\ \A b \in Bytes, p \in Nat : Written(b, p, t) => Uint16FromBuffer(b, p) = low
  BY <1>3, TwoBytes
<1>6. Uint32Bytes(v) = s \o t
  BY DEF Uint32Bytes, high, low
<1> HIDE DEF s, t
<1>7. Uint32Bytes(v) \in Bytes /\ Len(Uint32Bytes(v)) = 4
  <2>1. s \o t \in Bytes /\ Len(s \o t) = Len(s) + Len(t)
    BY <1>4, <1>5, ConcatBytes
  <2>2. Len(s \o t) = 4
    BY <1>4, <1>5, <2>1
  <2> QED BY <1>6, <2>1, <2>2
<1>8. ASSUME NEW b \in Bytes, NEW p \in Nat, Written(b, p, Uint32Bytes(v))
      PROVE  Uint32FromBuffer(b, p) = v
  <2>1. Written(b, p, s) /\ Written(b, p + 2, t)
    <3>1. Written(b, p, s \o t)
      BY <1>6, <1>8
    <3>2. Written(b, p, s) /\ Written(b, p + Len(s), t)
      BY <1>4, <1>5, <3>1, WrittenParts
    <3> QED BY <1>4, <3>2
  <2>2. Uint16FromBuffer(b, p) = high /\ Uint16FromBuffer(b, p + 2) = low
    BY <1>4, <1>5, <2>1
  <2> QED BY <1>3, <2>2 DEF Uint32FromBuffer
<1> QED BY <1>7, <1>8

LEMMA VectorBytes ==
    ASSUME NEW s \in Bytes, NEW b \in Bytes, NEW p \in Nat, Written(b, p, s)
    PROVE  BufferToUint8Vector(b, p, Len(s)) = s
<1> DEFINE t == SubSeq(b, p + 1, p + Len(s))
<1>1. Len(s) \in Nat /\ Len(b) \in Nat /\ p + Len(s) <= Len(b)
  BY DEF Bytes, Written
<1>2. \A i \in (p + 1)..(p + Len(s)) : b[i] \in OcaUint8
  BY <1>1 DEF Bytes
<1>3. /\ t \in Bytes
      /\ Len(t) = IF p + 1 <= p + Len(s) THEN p + Len(s) - (p + 1) + 1 ELSE 0
      /\ \A i \in 1..(p + Len(s) - (p + 1) + 1) : t[i] = b[p + 1 + i - 1]
  BY <1>1, <1>2, SubSeqProperties DEF Bytes
<1> HIDE DEF t
<1>4. Len(t) = Len(s)
  BY <1>1, <1>3
<1>5. \A i \in 1..Len(s) : t[i] = s[i]
  BY <1>1, <1>3 DEF Written
<1>6. t = s
  BY <1>3, <1>4, <1>5, SeqEqual DEF Bytes
<1> QED BY <1>6 DEF t, BufferToUint8Vector

-----------------------------------------------------------------------------
\* What was written one after the other is read one after the other.

LEMMA TwoParts ==
    ASSUME NEW s \in Bytes, NEW t \in Bytes
    PROVE  /\ s \o t \in Bytes /\ Len(s \o t) = Len(s) + Len(t)
           /\ \A b \in Bytes, p \in Nat : Written(b, p, s \o t) =>
                  Written(b, p, s) /\ Written(b, p + Len(s), t)
BY ConcatBytes, WrittenParts

LEMMA ThreeParts ==
    ASSUME NEW s \in Bytes, NEW t \in Bytes, NEW u \in Bytes
    PROVE  /\ s \o t \o u \in Bytes /\ Len(s \o t \o u) = Len(s) + Len(t) + Len(u)
           /\ \A b \in Bytes, p \in Nat : Written(b, p, s \o t \o u) =>
                  /\ Written(b, p, s)
                  /\ Written(b, p + Len(s), t)
                  /\ Written(b, p + Len(s) + Len(t), u)
<1> DEFINE r == s \o t
<1>1. /\ r \in Bytes /\ Len(r) = Len(s) + Len(t)
      /\ \A b \in Bytes, p \in Nat : Written(b, p, r) =>
             Written(b, p, s) /\ Written(b, p + Len(s), t)
  BY TwoParts
<1>2. Len(s) \in Nat /\ Len(t) \in Nat
  BY DEF Bytes
<1> HIDE DEF r
<1>3. /\ r \o u \in Bytes /\ Len(r \o u) = Len(r) + Len(u)
      /\ \A b \in Bytes, p \in Nat : Written(b, p, r \o u) =>
             Written(b, p, r) /\ Written(b, p + Len(r), u)
  BY <1>1, TwoParts
<1>4. \A p \in Nat : p + Len(r) = p + Len(s) + Len(t)
  BY <1>1, <1>2
<1>5. /\ r \o u \in Bytes /\ Len(r \o u) = Len(s) + Len(t) + Len(u)
      /\ \A b \in Bytes, p \in Nat : Written(b, p, r \o u) =>
             /\ Written(b, p, s)
             /\ Written(b, p + Len(s), t)
             /\ Written(b, p + Len(s) + Len(t), u)
  BY <1>1, <1>3, <1>4
<1> QED BY <1>5 DEF r

LEMMA FourParts ==
    ASSUME NEW s \in Bytes, NEW t \in Bytes, NEW u \in Bytes, NEW v \in Bytes
    PROVE  /\ s \o t \o u \o v \in Bytes
           /\ Len(s \o t \o u \o v) = Len(s) + Len(t) + Len(u) + Len(v)
           /\ \A b \in Bytes, p \in Nat : Written(b, p, s \o t \o u \o v) =>
                  /\ Written(b, p, s)
                  /\ Written(b, p + Len(s), t)
                  /\ Written(b, p + Len(s) + Len(t), u)
                  /\ Written(b, p + Len(s) + Len(t) + Len(u), v)
<1> DEFINE r == s \o t \o u
<1>1. /\ r \in Bytes /\ Len(r) = Len(s) + Len(t) + Len(u)
      /\ \A b \in Bytes, p \in Nat : Written(b, p, r) =>
             /\ Written(b, p, s)
             /\ Written(b, p + Len(s), t)
             /\ Written(b, p + Len(s) + Len(t), u)
  BY ThreeParts
<1>2. Len(s) \in Nat /\ Len(t) \in Nat /\ Len(u) \in Nat
  BY DEF Bytes
<1> HIDE DEF r
<1>3. /\ r \o v \in Bytes /\ Len(r \o v) = Len(r) + Len(v)
      /\ \A b \in Bytes, p \in Nat : Written(b, p, r \o v) =>
             Written(b, p, r) /\ Written(b, p + Len(r), v)
  BY <1>1, TwoParts
<1>4. \A p \in Nat : p + Len(r) = p + Len(s) + Len(t) + Len(u)
  BY <1>1, <1>2
<1>5. /\ r \o v \in Bytes /\ Len(r \o v) = Len(s) + Len(t) + Len(u) + Len(v)
      /\ \A b \in Bytes, p \in Nat : Written(b, p, r \o v) =>
             /\ Written(b, p, s)
             /\ Written(b, p + Len(s), t)
             /\ Written(b, p + Len(s) + Len(t), u)
             /\ Written(b, p + Len(s) + Len(t) + Len(u), v)
  BY <1>1, <1>3, <1>4
<1> QED BY <1>5 DEF r

LEMMA FiveParts ==
    ASSUME NEW s \in Bytes, NEW t \in Bytes, NEW u \in Bytes, NEW v \in Bytes, NEW w \in Bytes
    PROVE  /\ s \o t \o u \o v \o w \in Bytes
           /\ Len(s \o t \o u \o v \o w) = Len(s) + Len(t) + Len(u) + Len(v) + Len(w)
           /\ \A b \in Bytes, p \in Nat : Written(b, p, s \o t \o u \o v \o w) =>
                  /\ Written(b, p, s)
                  /\ Written(b, p + Len(s), t)
                  /\ Written(b, p + Len(s) + Len(t), u)
                  /\ Written(b, p + Len(s) + Len(t) + Len(u), v)
                  /\ Written(b, p + Len(s) + Len(t) + Len(u) + Len(v), w)
<1> DEFINE r == s \o t \o u \o v
<1>1. /\ r \in Bytes /\ Len(r) = Len(s) + Len(t) + Len(u) + Len(v)
      /\ \A b \in Bytes, p \in Nat : Written(b, p, r) =>
             /\ Written(b, p, s)
             /\ Written(b, p + Len(s), t)
             /\ Written(b, p + Len(s) + Len(t), u)
             /\ Written(b, p + Len(s) + Len(t) + Len(u), v)
  BY FourParts
<1>2. Len(s) \in Nat /\ Len(t) \in Nat /\ Len(u) \in Nat /\ Len(v) \in Nat
  BY DEF Bytes
<1> HIDE DEF r
<1>3. /\ r \o w \in Bytes /\ Len(r \o w) = Len(r) + Len(w)
      /\ \A b \in Bytes, p \in Nat : Written(b, p, r \o w) =>
             Written(b, p, r) /\ Written(b, p + Len(r), w)
  BY <1>1, TwoParts
<1>4. \A p \in Nat : p + Len(r) = p + Len(s) + Len(t) + Len(u) + Len(v)
  BY <1>1, <1>2
<1>5. /\ r \o w \in Bytes /\ Len(r \o w) = Len(s) + Len(t) + Len(u) + Len(v) + Len(w)
      /\ \A b \in Bytes, p \in Nat : Written(b, p, r \o w) =>
             /\ Written(b, p, s)
             /\ Written(b, p + Len(s), t)
             /\ Written(b, p + Len(s) + Len(t), u)
             /\ Written(b, p + Len(s) + Len(t) + Len(u), v)
             /\ Written(b, p + Len(s) + Len(t) + Len(u) + Len(v), w)
  BY <1>1, <1>3, <1>4
<1> QED BY <1>5 DEF r

-----------------------------------------------------------------------------
\* The parts of messages.

LEMMA HeaderWritten ==
    ASSUME NEW h \in Header
    PROVE  /\ HeaderBytes(h) \in Bytes /\ Len(HeaderBytes(h)) = OCP1_HEADER_SIZE
           /\ \A b \in Bytes, p \in Nat :
                  Written(b, p, HeaderBytes(h)) => HeaderFromBuffer(b, p) = h
<1> DEFINE s == Uint16Bytes(h.protocolVersion)
<1> DEFINE t == Uint32Bytes(h.messageSize)
<1> DEFINE u == <<h.messageType>>
<1> DEFINE v == Uint16Bytes(h.messageCount)
<1>0. /\ h.protocolVersion \in OcaUint16 /\ h.messageSize \in OcaUint32
      /\ h.messageType \in OcaUint8 /\ h.messageCount \in OcaUint16
  BY SquareFacts DEF Header, OcaMessageType, OcaUint8
<1>1. /\ s \in Bytes /\ Len(s) = 2
      /\ \A b \in Bytes, p \in Nat : Written(b, p, s) => Uint16FromBuffer(b, p) = h.protocolVersion
  BY <1>0, TwoBytes
<1>2. /\ t \in Bytes /\ Len(t) = 4
      /\ \A b \in Bytes, p \in Nat : Written(b, p, t) => Uint32FromBuffer(b, p) = h.messageSize
  BY <1>0, FourBytes
<1>3. /\ u \in Bytes /\ Len(u) = 1
      /\ \A b \in Bytes, p \in Nat : Written(b, p, u) => Uint8FromBuffer(b, p) = h.messageType
  BY <1>0, OneByte
<1>4. /\ v \in Bytes /\ Len(v) = 2
      /\ \A b \in Bytes, p \in Nat : Written(b, p, v) => Uint16FromBuffer(b, p) = h.messageCount
  BY <1>0, TwoBytes
<1>5. HeaderBytes(h) = s \o t \o u \o v
  BY DEF HeaderBytes
<1> HIDE DEF s, t, u, v
<1>6. /\ s \o t \o u \o v \in Bytes /\ Len(s \o t \o u \o v) = 2 + 4 + 1 + 2
      /\ \A b \in Bytes, p \in Nat : Written(b, p, s \o t \o u \o v) =>
             /\ Written(b, p, s) /\ Written(b, p + 2, t)
             /\ Written(b, p + 2 + 4, u) /\ Written(b, p + 2 + 4 + 1, v)
  <2>1. /\ s \o t \o u \o v \in Bytes
        /\ Len(s \o t \o u \o v) = Len(s) + Len(t) + Len(u) + Len(v)
        /\ \A b \in Bytes, p \in Nat : Written(b, p, s \o t \o u \o v) =>
               /\ Written(b, p, s)
               /\ Written(b, p + Len(s), t)
               /\ Written(b, p + Len(s) + Len(t), u)
               /\ Written(b, p + Len(s) + Len(t) + Len(u), v)
    BY <1>1, <1>2, <1>3, <1>4, FourParts
  <2> QED BY <1>1, <1>2, <1>3, <1>4, <2>1
<1>7. ASSUME NEW b \in Bytes, NEW p \in Nat, Written(b, p, HeaderBytes(h))
      PROVE  HeaderFromBuffer(b, p) = h
  <2>1. /\ Written(b, p, s) /\ Written(b, p + 2, t)
        /\ Written(b, p + 6, u) /\ Written(b, p + 7, v)
    BY <1>5, <1>6, <1>7
  <2>2. /\ Uint16FromBuffer(b, p) = h.protocolVersion
        /\ Uint32FromBuffer(b, p + 2) = h.messageSize
        /\ Uint8FromBuffer(b, p + 6) = h.messageType
        /\ Uint16FromBuffer(b, p + 7) = h.messageCount
    BY <1>1, <1>2, <1>3, <1>4, <2>1
  <2> QED BY <2>2 DEF HeaderFromBuffer, Header
<1> QED BY <1>5, <1>6, <1>7 DEF OCP1_HEADER_SIZE

LEMMA MethodIdWritten ==
    ASSUME NEW id \in OcaMethodId
    PROVE  /\ MethodIdBytes(id) \in Bytes /\ Len(MethodIdBytes(id)) = 4
           /\ \A b \in Bytes, p \in Nat :
                  Written(b, p, MethodIdBytes(id)) => MethodIdFromBuffer(b, p) = id
<1> DEFINE s == Uint16Bytes(id.treeLevel)
<1> DEFINE t == Uint16Bytes(id.methodIndex)
<1>1. id.treeLevel \in OcaUint16 /\ id.methodIndex \in OcaUint16
  BY DEF OcaMethodId
<1>2. /\ s \in Bytes /\ Len(s) = 2 /\ t \in Bytes /\ Len(t) = 2
      /\ \A b \in Bytes, p \in Nat : Written(b, p, s) => Uint16FromBuffer(b, p) = id.treeLevel
      /\ \A b \in Bytes, p \in Nat : Written(b, p, t) => Uint16FromBuffer(b, p) = id.methodIndex
  BY <1>1, TwoBytes
<1>3. MethodIdBytes(id) = s \o t
  BY DEF MethodIdBytes
<1> HIDE DEF s, t
<1>4. /\ s \o t \in Bytes /\ Len(s \o t) = 2 + 2
      /\ \A b \in Bytes, p \in Nat :
             Written(b, p, s \o t) => Written(b, p, s) /\ Written(b, p + 2, t)
  BY <1>2, TwoParts
<1>5. ASSUME NEW b \in Bytes, NEW p \in Nat, Written(b, p, MethodIdBytes(id))
      PROVE  MethodIdFromBuffer(b, p) = id
  BY <1>2, <1>3, <1>4, <1>5 DEF MethodIdFromBuffer, OcaMethodId
<1> QED BY <1>3, <1>4, <1>5

LEMMA EventIdWritten ==
    ASSUME NEW id \in OcaEventId
    PROVE  /\ EventIdBytes(id) \in Bytes /\ Len(EventIdBytes(id)) = 4
           /\ \A b \in Bytes, p \in Nat :
                  Written(b, p, EventIdBytes(id)) => EventIdFromBuffer(b, p) = id
<1> DEFINE s == Uint16Bytes(id.treeLevel)
<1> DEFINE t == Uint16Bytes(id.eventIndex)
<1>1. id.treeLevel \in OcaUint16 /\ id.eventIndex \in OcaUint16
  BY DEF OcaEventId
<1>2. /\ s \in Bytes /\ Len(s) = 2 /\ t \in Bytes /\ Len(t) = 2
      /\ \A b \in Bytes, p \in Nat : Written(b, p, s) => Uint16FromBuffer(b, p) = id.treeLevel
      /\ \A b \in Bytes, p \in Nat : Written(b, p, t) => Uint16FromBuffer(b, p) = id.eventIndex
  BY <1>1, TwoBytes
<1>3. EventIdBytes(id) = s \o t
  BY DEF EventIdBytes
<1> HIDE DEF s, t
<1>4. /\ s \o t \in Bytes /\ Len(s \o t) = 2 + 2
      /\ \A b \in Bytes, p \in Nat :
             Written(b, p, s \o t) => Written(b, p, s) /\ Written(b, p + 2, t)
  BY <1>2, TwoParts
<1>5. ASSUME NEW b \in Bytes, NEW p \in Nat, Written(b, p, EventIdBytes(id))
      PROVE  EventIdFromBuffer(b, p) = id
  BY <1>2, <1>3, <1>4, <1>5 DEF EventIdFromBuffer, OcaEventId
<1> QED BY <1>3, <1>4, <1>5

LEMMA EventWritten ==
    ASSUME NEW e \in OcaEvent
    PROVE  /\ EventBytes(e) \in Bytes /\ Len(EventBytes(e)) = 8
           /\ \A b \in Bytes, p \in Nat :
                  Written(b, p, EventBytes(e)) => EventFromBuffer(b, p) = e
<1> DEFINE s == Uint32Bytes(e.emitterONo)
<1> DEFINE t == EventIdBytes(e.eventId)
<1>1. e.emitterONo \in OcaUint32 /\ e.eventId \in OcaEventId
  BY DEF OcaEvent
<1>2. /\ s \in Bytes /\ Len(s) = 4
      /\ \A b \in Bytes, p \in Nat : Written(b, p, s) => Uint32FromBuffer(b, p) = e.emitterONo
  BY <1>1, FourBytes
<1>3. /\ t \in Bytes /\ Len(t) = 4
      /\ \A b \in Bytes, p \in Nat : Written(b, p, t) => EventIdFromBuffer(b, p) = e.eventId
  BY <1>1, EventIdWritten
<1>4. EventBytes(e) = s \o t
  BY DEF EventBytes
<1> HIDE DEF s, t
<1>5. /\ s \o t \in Bytes /\ Len(s \o t) = 4 + 4
      /\ \A b \in Bytes, p \in Nat :
             Written(b, p, s \o t) => Written(b, p, s) /\ Written(b, p + 4, t)
  BY <1>2, <1>3, TwoParts
<1>6. ASSUME NEW b \in Bytes, NEW p \in Nat, Written(b, p, EventBytes(e))
      PROVE  EventFromBuffer(b, p) = e
  BY <1>2, <1>3, <1>4, <1>5, <1>6 DEF EventFromBuffer, OcaEvent
<1> QED BY <1>4, <1>5, <1>6

LEMMA ParametersWritten ==
    ASSUME NEW ps \in Parameters
    PROVE  /\ ps.parameters \in Bytes
           /\ ParametersBytes(ps) \in Bytes
           /\ Len(ParametersBytes(ps)) = 1 + Len(ps.parameters)
           /\ \A b \in Bytes, p \in Nat : Written(b, p, ParametersBytes(ps)) =>
                  /\ p + 1 + Len(ps.parameters) <= Len(b)
                  /\ ParametersFromBuffer(b, p, Len(ps.parameters)) = ps
<1> DEFINE s == <<ps.parameterCount>>
<1> DEFINE t == ps.parameters
<1>1. /\ s \in Bytes /\ Len(s) = 1
      /\ \A b \in Bytes, p \in Nat : Written(b, p, s) => Uint8FromBuffer(b, p) = ps.parameterCount
  BY OneByte DEF Parameters
<1>2. t \in Bytes /\ Len(t) \in Nat
  BY DEF Parameters, Bytes
<1>3. ParametersBytes(ps) = s \o t
  BY DEF ParametersBytes
<1>4. ps = [parameterCount |-> ps.parameterCount, parameters |-> t]
  BY DEF Parameters
<1> HIDE DEF s, t
<1>5. /\ s \o t \in Bytes /\ Len(s \o t) = 1 + Len(t)
      /\ \A b \in Bytes, p \in Nat :
             Written(b, p, s \o t) => Written(b, p, s) /\ Written(b, p + 1, t)
  BY <1>1, <1>2, TwoParts
<1>6. ASSUME NEW b \in Bytes, NEW p \in Nat, Written(b, p, ParametersBytes(ps))
      PROVE  p + 1 + Len(t) <= Len(b) /\ ParametersFromBuffer(b, p, Len(t)) = ps
  <2>1. Written(b, p, s) /\ Written(b, p + 1, t)
    BY <1>3, <1>5, <1>6
  <2>2. p + 1 + Len(t) <= Len(b)
    BY <2>1 DEF Written
  <2>3. Uint8FromBuffer(b, p) = ps.parameterCount /\ BufferToUint8Vector(b, p + 1, Len(t)) = t
    BY <1>1, <1>2, <2>1, VectorBytes
  <2> QED BY <1>4, <2>2, <2>3 DEF ParametersFromBuffer
<1> QED BY <1>2, <1>3, <1>5, <1>6 DEF t

\* What a receiver makes of m when all of m is in the buffer.
Read(k, m, b, p) ==
    /\ Uint32FromBuffer(b, p) = m.size
    /\ m.size = Size(k, m) =>
           /\ StaysInside(k, b, p) /\ ~Throws(k, b, p)
           /\ MessageFromBuffer(k, b, p) = m

LEMMA CommandWritten ==
    ASSUME NEW c \in Command
    PROVE  /\ CommandBytes(c) \in Bytes /\ Len(CommandBytes(c)) = ComputeCommandDataSize(c)
           /\ \A b \in Bytes, p \in Nat :
                  Written(b, p, CommandBytes(c)) => Read("command", c, b, p)
<1> DEFINE s == Uint32Bytes(c.size)
<1> DEFINE t == Uint32Bytes(c.handle)
<1> DEFINE u == Uint32Bytes(c.targetONo)
<1> DEFINE v == MethodIdBytes(c.methodId)
<1> DEFINE w == ParametersBytes(c.parameters)
<1> DEFINE n == Len(c.parameters.parameters)
<1>0. /\ c.size \in OcaUint32 /\ c.handle \in OcaUint32 /\ c.targetONo \in OcaUint32
      /\ c.methodId \in OcaMethodId /\ c.parameters \in Parameters
  BY DEF Command
<1>1. /\ s \in Bytes /\ Len(s) = 4
      /\ \A b \in Bytes, p \in Nat : Written(b, p, s) => Uint32FromBuffer(b, p) = c.size
  BY <1>0, FourBytes
<1>2. /\ t \in Bytes /\ Len(t) = 4
      /\ \A b \in Bytes, p \in Nat : Written(b, p, t) => Uint32FromBuffer(b, p) = c.handle
  BY <1>0, FourBytes
<1>3. /\ u \in Bytes /\ Len(u) = 4
      /\ \A b \in Bytes, p \in Nat : Written(b, p, u) => Uint32FromBuffer(b, p) = c.targetONo
  BY <1>0, FourBytes
<1>4. /\ v \in Bytes /\ Len(v) = 4
      /\ \A b \in Bytes, p \in Nat : Written(b, p, v) => MethodIdFromBuffer(b, p) = c.methodId
  BY <1>0, MethodIdWritten
<1>5. /\ w \in Bytes /\ Len(w) = 1 + n
      /\ \A b \in Bytes, p \in Nat : Written(b, p, w) =>
             p + 1 + n <= Len(b) /\ ParametersFromBuffer(b, p, n) = c.parameters
  BY <1>0, ParametersWritten
<1>6. n \in Nat
  BY <1>0, ParametersWritten DEF Bytes
<1>7. CommandBytes(c) = s \o t \o u \o v \o w /\ ComputeCommandDataSize(c) = n + 17
  BY <1>6 DEF CommandBytes, ComputeCommandDataSize
<1>8. c = [size |-> c.size, handle |-> c.handle, targetONo |-> c.targetONo,
           methodId |-> c.methodId, parameters |-> c.parameters]
  BY DEF Command
<1>9. c.size = Size("command", c) => c.size = n + 17
  BY <1>7 DEF Size
<1> HIDE DEF s, t, u, v, w, n
<1>10. /\ s \o t \o u \o v \o w \in Bytes
       /\ Len(s \o t \o u \o v \o w) = Len(s) + Len(t) + Len(u) + Len(v) + Len(w)
       /\ \A b \in Bytes, p \in Nat : Written(b, p, s \o t \o u \o v \o w) =>
              /\ Written(b, p, s)
              /\ Written(b, p + Len(s), t)
              /\ Written(b, p + Len(s) + Len(t), u)
              /\ Written(b, p + Len(s) + Len(t) + Len(u), v)
              /\ Written(b, p + Len(s) + Len(t) + Len(u) + Len(v), w)
  <2>1. s \in Bytes /\ t \in Bytes /\ u \in Bytes /\ v \in Bytes /\ w \in Bytes
    BY <1>1, <1>2, <1>3, <1>4, <1>5
  <2> QED BY <2>1, FiveParts, SMTT(60)
<1>11. Len(s \o t \o u \o v \o w) = n + 17
  BY <1>1, <1>2, <1>3, <1>4, <1>5, <1>6, <1>10
<1>12. ASSUME NEW b \in Bytes, NEW p \in Nat, Written(b, p, CommandBytes(c))
       PROVE  Read("command", c, b, p)
  <2>1. Written(b, p, s \o t \o u \o v \o w)
    BY <1>7, <1>12
  <2>2. /\ Written(b, p, s) /\ Written(b, p + 4, t) /\ Written(b, p + 8, u)
        /\ Written(b, p + 12, v) /\ Written(b, p + 16, w)
    BY <1>1, <1>2, <1>3, <1>4, <1>10, <2>1
  <2>3. /\ Uint32FromBuffer(b, p) = c.size
        /\ Uint32FromBuffer(b, p + 4) = c.handle
        /\ Uint32FromBuffer(b, p + 8) = c.targetONo
        /\ MethodIdFromBuffer(b, p + 12) = c.methodId
        /\ p + 17 + n <= Len(b) /\ ParametersFromBuffer(b, p + 16, n) = c.parameters
    BY <1>1, <1>2, <1>3, <1>4, <1>5, <1>6, <2>2
  <2>4. ASSUME c.size = Size("command", c)
        PROVE  /\ StaysInside("command", b, p) /\ ~Throws("command", b, p)
               /\ MessageFromBuffer("command", b, p) = c
    <3>1. HeadSize("command", b, p) = 17 /\ FixedSize("command") = 17
      BY DEF HeadSize, FixedSize
    <3>2. VectorSize("command", b, p) = n
      BY <1>6, <1>9, <2>3, <2>4, <3>1 DEF VectorSize
    <3>3. StaysInside("command", b, p) /\ ~Throws("command", b, p)
      BY <1>6, <1>9, <2>3, <2>4, <3>1, <3>2 DEF StaysInside, Throws, Bytes
    <3>4. CommandFromBuffer(b, p) = c
      BY <1>8, <2>3, <3>2 DEF CommandFromBuffer
    <3> QED BY <3>3, <3>4 DEF MessageFromBuffer
  <2> QED BY <2>3, <2>4 DEF Read
<1> QED BY <1>7, <1>10, <1>11, <1>12

LEMMA ResponseWritten ==
    ASSUME NEW r \in Response
    PROVE  /\ ResponseBytes(r) \in Bytes /\ Len(ResponseBytes(r)) = ComputeResponseDataSize(r)
           /\ \A b \in Bytes, p \in Nat :
                  Written(b, p, ResponseBytes(r)) => Read("response", r, b, p)
<1> DEFINE s == Uint32Bytes(r.size)
<1> DEFINE t == Uint32Bytes(r.handle)
<1> DEFINE u == <<r.statusCode>>
<1> DEFINE v == ParametersBytes(r.parameters)
<1> DEFINE n == Len(r.parameters.parameters)
<1>0. /\ r.size \in OcaUint32 /\ r.handle \in OcaUint32
      /\ r.statusCode \in OcaUint8 /\ r.parameters \in Parameters
  BY DEF Response
<1>1. /\ s \in Bytes /\ Len(s) = 4
      /\ \A b \in Bytes, p \in Nat : Written(b, p, s) => Uint32FromBuffer(b, p) = r.size
  BY <1>0, FourBytes
<1>2. /\ t \in Bytes /\ Len(t) = 4
      /\ \A b \in Bytes, p \in Nat : Written(b, p, t) => Uint32FromBuffer(b, p) = r.handle
  BY <1>0, FourBytes
<1>3. /\ u \in Bytes /\ Len(u) = 1
      /\ \A b \in Bytes, p \in Nat : Written(b, p, u) => Uint8FromBuffer(b, p) = r.statusCode
  BY <1>0, OneByte
<1>4. /\ v \in Bytes /\ Len(v) = 1 + n
      /\ \A b \in Bytes, p \in Nat : Written(b, p, v) =>
             p + 1 + n <= Len(b) /\ ParametersFromBuffer(b, p, n) = r.parameters
  BY <1>0, ParametersWritten
<1>5. n \in Nat
  BY <1>0, ParametersWritten DEF Bytes
<1>6. ResponseBytes(r) = s \o t \o u \o v /\ ComputeResponseDataSize(r) = n + 10
  BY <1>5 DEF ResponseBytes, ComputeResponseDataSize
<1>7. r = [size |-> r.size, handle |-> r.handle, statusCode |-> r.statusCode,
           parameters |-> r.parameters]
  BY DEF Response
<1>8. r.size = Size("response", r) => r.size = n + 10
  BY <1>6 DEF Size
<1> HIDE DEF s, t, u, v, n
<1>9. /\ s \o t \o u \o v \in Bytes
      /\ Len(s \o t \o u \o v) = Len(s) + Len(t) + Len(u) + Len(v)
      /\ \A b \in Bytes, p \in Nat : Written(b, p, s \o t \o u \o v) =>
             /\ Written(b, p, s)
             /\ Written(b, p + Len(s), t)
             /\ Written(b, p + Len(s) + Len(t), u)
             /\ Written(b, p + Len(s) + Len(t) + Len(u), v)
  <2>1. s \in Bytes /\ t \in Bytes /\ u \in Bytes /\ v \in Bytes
    BY <1>1, <1>2, <1>3, <1>4
  <2> QED BY <2>1, FourParts, SMT
<1>10. Len(s \o t \o u \o v) = n + 10
  BY <1>1, <1>2, <1>3, <1>4, <1>5, <1>9
<1>11. ASSUME NEW b \in Bytes, NEW p \in Nat, Written(b, p, ResponseBytes(r))
       PROVE  Read("response", r, b, p)
  <2>1. Written(b, p, s \o t \o u \o v)
    BY <1>6, <1>11
  <2>2. /\ Written(b, p, s) /\ Written(b, p + 4, t) /\ Written(b, p + 8, u)
        /\ Written(b, p + 9, v)
    BY <1>1, <1>2, <1>3, <1>9, <2>1
  <2>3. /\ Uint32FromBuffer(b, p) = r.size
        /\ Uint32FromBuffer(b, p + 4) = r.handle
        /\ Uint8FromBuffer(b, p + 8) = r.statusCode
        /\ p + 10 + n <= Len(b) /\ ParametersFromBuffer(b, p + 9, n) = r.parameters
    BY <1>1, <1>2, <1>3, <1>4, <1>5, <2>2
  <2>4. ASSUME r.size = Size("response", r)
        PROVE  /\ StaysInside("response", b, p) /\ ~Throws("response", b, p)
               /\ MessageFromBuffer("response", b, p) = r
    <3>1. HeadSize("response", b, p) = 10 /\ FixedSize("response") = 10
      BY DEF HeadSize, FixedSize
    <3>2. VectorSize("response", b, p) = n
      BY <1>5, <1>8, <2>3, <2>4, <3>1 DEF VectorSize
    <3>3. StaysInside("response", b, p) /\ ~Throws("response", b, p)
      BY <1>5, <1>8, <2>3, <2>4, <3>1, <3>2 DEF StaysInside, Throws, Bytes
    <3>4. ResponseFromBuffer(b, p) = r
      BY <1>7, <2>3, <3>2 DEF ResponseFromBuffer
    <3> QED BY <3>3, <3>4 DEF MessageFromBuffer
  <2> QED BY <2>3, <2>4 DEF Read
<1> QED BY <1>6, <1>9, <1>10, <1>11

\* A blob that fits its size field.
LEMMA BlobWritten ==
    ASSUME NEW blob \in Bytes, BlobFits(blob)
    PROVE  /\ BlobBytes(blob) \in Bytes /\ Len(BlobBytes(blob)) = 2 + Len(blob)
           /\ \A b \in Bytes, p \in Nat : Written(b, p, BlobBytes(blob)) =>
                  /\ Uint16FromBuffer(b, p) = Len(blob)
                  /\ BlobFromBuffer(b, p) = blob
<1> DEFINE s == Uint16Bytes(Len(blob))
<1>1. Len(blob) \in Nat /\ Len(blob) \in OcaUint16 /\ Len(blob) % Square = Len(blob)
  BY SquareFacts DEF BlobFits, Bytes, OcaUint16
<1>2. /\ s \in Bytes /\ Len(s) = 2
      /\ \A b \in Bytes, p \in Nat : Written(b, p, s) => Uint16FromBuffer(b, p) = Len(blob)
  BY <1>1, TwoBytes
<1>3. BlobBytes(blob) = s \o blob
  BY <1>1 DEF BlobBytes
<1> HIDE DEF s
<1>4. /\ s \o blob \in Bytes /\ Len(s \o blob) = 2 + Len(blob)
      /\ \A b \in Bytes, p \in Nat :
             Written(b, p, s \o blob) => Written(b, p, s) /\ Written(b, p + 2, blob)
  BY <1>2, TwoParts
<1>5. ASSUME NEW b \in Bytes, NEW p \in Nat, Written(b, p, BlobBytes(blob))
      PROVE  Uint16FromBuffer(b, p) = Len(blob) /\ BlobFromBuffer(b, p) = blob
  <2>1. Written(b, p, s) /\ Written(b, p + 2, blob)
    BY <1>3, <1>4, <1>5
  <2>2. Uint16FromBuffer(b, p) = Len(blob) /\ BufferToUint8Vector(b, p + 2, Len(blob)) = blob
    BY <1>2, <2>1, VectorBytes
  <2> QED BY <2>2 DEF BlobFromBuffer
<1> QED BY <1>3, <1>4, <1>5

LEMMA EventDataWritten ==
    ASSUME NEW d \in EventData
    PROVE  /\ EventDataBytes(d) \in Bytes
           /\ Len(EventDataBytes(d)) = 8 + Len(d.eventParameters)
           /\ Len(d.eventParameters) \in Nat
           /\ \A b \in Bytes, p \in Nat : Written(b, p, EventDataBytes(d)) =>
                  /\ p + 8 + Len(d.eventParameters) <= Len(b)
                  /\ EventDataFromBuffer(b, p, Len(d.eventParameters)) = d
<1> DEFINE s == EventBytes(d.event)
<1> DEFINE t == d.eventParameters
<1>1. /\ s \in Bytes /\ Len(s) = 8
      /\ \A b \in Bytes, p \in Nat : Written(b, p, s) => EventFromBuffer(b, p) = d.event
  BY EventWritten DEF EventData
<1>2. t \in Bytes /\ Len(t) \in Nat
  BY DEF EventData, Bytes
<1>3. EventDataBytes(d) = s \o t
  BY DEF EventDataBytes
<1>4. d = [event |-> d.event, eventParameters |-> t]
  BY DEF EventData
<1> HIDE DEF s, t
<1>5. /\ s \o t \in Bytes /\ Len(s \o t) = 8 + Len(t)
      /\ \A b \in Bytes, p \in Nat :
             Written(b, p, s \o t) => Written(b, p, s) /\ Written(b, p + 8, t)
  BY <1>1, <1>2, TwoParts
<1>6. ASSUME NEW b \in Bytes, NEW p \in Nat, Written(b, p, EventDataBytes(d))
      PROVE  p + 8 + Len(t) <= Len(b) /\ EventDataFromBuffer(b, p, Len(t)) = d
  <2>1. Written(b, p, s) /\ Written(b, p + 8, t)
    BY <1>3, <1>5, <1>6
  <2>2. p + 8 + Len(t) <= Len(b)
    BY <2>1 DEF Written
  <2>3. EventFromBuffer(b, p) = d.event /\ BufferToUint8Vector(b, p + 8, Len(t)) = t
    BY <1>1, <1>2, <2>1, VectorBytes
  <2> QED BY <1>4, <2>2, <2>3 DEF EventDataFromBuffer
<1> QED BY <1>2, <1>3, <1>5, <1>6 DEF t

LEMMA NtfParamsWritten ==
    ASSUME NEW ps \in NtfParams, BlobFits(ps.context)
    PROVE  LET c == Len(ps.context)
               n == Len(ps.eventData.eventParameters)
           IN  /\ c \in Nat /\ n \in Nat
               /\ NtfParamsBytes(ps) \in Bytes /\ Len(NtfParamsBytes(ps)) = 1 + 2 + c + 8 + n
               /\ \A b \in Bytes, p \in Nat : Written(b, p, NtfParamsBytes(ps)) =>
                      /\ p + 1 + 2 + c + 8 + n <= Len(b)
                      /\ Uint16FromBuffer(b, p + 1) = c
                      /\ NtfParamsFromBuffer(b, p, n) = ps
<1> DEFINE c == Len(ps.context)
<1> DEFINE n == Len(ps.eventData.eventParameters)
<1> DEFINE s == <<ps.parameterCount>>
<1> DEFINE t == BlobBytes(ps.context)
<1> DEFINE u == EventDataBytes(ps.eventData)
<1>0. /\ ps.parameterCount \in OcaUint8 /\ ps.context \in Bytes /\ ps.eventData \in EventData
      /\ c \in Nat
  BY DEF NtfParams, Bytes
<1>1. /\ s \in Bytes /\ Len(s) = 1
      /\ \A b \in Bytes, p \in Nat : Written(b, p, s) => Uint8FromBuffer(b, p) = ps.parameterCount
  BY <1>0, OneByte
<1>2. /\ t \in Bytes /\ Len(t) = 2 + c
      /\ \A b \in Bytes, p \in Nat : Written(b, p, t) =>
             Uint16FromBuffer(b, p) = c /\ BlobFromBuffer(b, p) = ps.context
  BY <1>0, BlobWritten
<1>3. /\ u \in Bytes /\ Len(u) = 8 + n /\ n \in Nat
      /\ \A b \in Bytes, p \in Nat : Written(b, p, u) =>
             p + 8 + n <= Len(b) /\ EventDataFromBuffer(b, p, n) = ps.eventData
  BY <1>0, EventDataWritten
<1>4. NtfParamsBytes(ps) = s \o t \o u
  BY DEF NtfParamsBytes
<1>5. ps = [parameterCount |-> ps.parameterCount, context |-> ps.context,
            eventData |-> ps.eventData]
  BY DEF NtfParams
<1> HIDE DEF c, n, s, t, u
<1>6. /\ s \o t \o u \in Bytes /\ Len(s \o t \o u) = Len(s) + Len(t) + Len(u)
      /\ \A b \in Bytes, p \in Nat : Written(b, p, s \o t \o u) =>
             /\ Written(b, p, s)
             /\ Written(b, p + Len(s), t)
             /\ Written(b, p + Len(s) + Len(t), u)
  <2>1. s \in Bytes /\ t \in Bytes /\ u \in Bytes
    BY <1>1, <1>2, <1>3
  <2> QED BY <2>1, ThreeParts, SMT
<1>7. Len(s \o t \o u) = 1 + 2 + c + 8 + n
  BY <1>0, <1>1, <1>2, <1>3, <1>6
<1>8. ASSUME NEW b \in Bytes, NEW p \in Nat, Written(b, p, NtfParamsBytes(ps))
      PROVE  /\ p + 1 + 2 + c + 8 + n <= Len(b)
             /\ Uint16FromBuffer(b, p + 1) = c
             /\ NtfParamsFromBuffer(b, p, n) = ps
  <2>1. Written(b, p, s \o t \o u)
    BY <1>4, <1>8
  <2>2. Written(b, p, s) /\ Written(b, p + 1, t) /\ Written(b, p + 3 + c, u)
    BY <1>0, <1>1, <1>2, <1>6, <2>1
  <2>3. /\ Uint8FromBuffer(b, p) = ps.parameterCount
        /\ Uint16FromBuffer(b, p + 1) = c /\ BlobFromBuffer(b, p + 1) = ps.context
        /\ p + 3 + c + 8 + n <= Len(b) /\ EventDataFromBuffer(b, p + 3 + c, n) = ps.eventData
    BY <1>0, <1>1, <1>2, <1>3, <2>2
  <2>4. NtfParamsFromBuffer(b, p, n) = ps
    BY <1>5, <2>3 DEF NtfParamsFromBuffer
  <2> QED BY <1>0, <1>3, <2>3, <2>4
<1> QED BY <1>0, <1>3, <1>4, <1>6, <1>7, <1>8 DEF c, n

LEMMA NotificationWritten ==
    ASSUME NEW m \in Notification, BlobFits(m.parameters.context)
    PROVE  /\ NotificationBytes(m) \in Bytes
           /\ Len(NotificationBytes(m)) = ComputeNotificationDataSize(m)
           /\ \A b \in Bytes, p \in Nat :
                  Written(b, p, NotificationBytes(m)) => Read("notification", m, b, p)
<1> DEFINE c == Len(m.parameters.context)
<1> DEFINE n == Len(m.parameters.eventData.eventParameters)
<1> DEFINE s == Uint32Bytes(m.size)
<1> DEFINE t == Uint32Bytes(m.targetONo)
<1> DEFINE u == MethodIdBytes(m.methodId)
<1> DEFINE v == NtfParamsBytes(m.parameters)
<1>0. /\ m.size \in OcaUint32 /\ m.targetONo \in OcaUint32
      /\ m.methodId \in OcaMethodId /\ m.parameters \in NtfParams
  BY DEF Notification
<1>1. /\ s \in Bytes /\ Len(s) = 4
      /\ \A b \in Bytes, p \in Nat : Written(b, p, s) => Uint32FromBuffer(b, p) = m.size
  BY <1>0, FourBytes
<1>2. /\ t \in Bytes /\ Len(t) = 4
      /\ \A b \in Bytes, p \in Nat : Written(b, p, t) => Uint32FromBuffer(b, p) = m.targetONo
  BY <1>0, FourBytes
<1>3. /\ u \in Bytes /\ Len(u) = 4
      /\ \A b \in Bytes, p \in Nat : Written(b, p, u) => MethodIdFromBuffer(b, p) = m.methodId
  BY <1>0, MethodIdWritten
<1>4. /\ c \in Nat /\ n \in Nat
      /\ v \in Bytes /\ Len(v) = 1 + 2 + c + 8 + n
      /\ \A b \in Bytes, p \in Nat : Written(b, p, v) =>
             /\ p + 1 + 2 + c + 8 + n <= Len(b)
             /\ Uint16FromBuffer(b, p + 1) = c
             /\ NtfParamsFromBuffer(b, p, n) = m.parameters
  BY <1>0, NtfParamsWritten
<1>5. NotificationBytes(m) = s \o t \o u \o v /\ ComputeNotificationDataSize(m) = n + c + 23
  <2>1. NotificationBytes(m) = s \o t \o u \o v
    BY DEF NotificationBytes
  <2>2. ComputeNotificationDataSize(m) = n + 8 + c + 2 + 1 + 12
    BY DEF ComputeNotificationDataSize
  <2> HIDE DEF c, n, s, t, u, v
  <2> QED BY <1>4, <2>1, <2>2
<1>6. m = [size |-> m.size, targetONo |-> m.targetONo, methodId |-> m.methodId,
           parameters |-> m.parameters]
  BY DEF Notification
<1>7. m.size = Size("notification", m) => m.size = n + c + 23
  BY <1>5 DEF Size
<1> HIDE DEF c, n, s, t, u, v
<1>8. /\ s \o t \o u \o v \in Bytes
      /\ Len(s \o t \o u \o v) = Len(s) + Len(t) + Len(u) + Len(v)
      /\ \A b \in Bytes, p \in Nat : Written(b, p, s \o t \o u \o v) =>
             /\ Written(b, p, s)
             /\ Written(b, p + Len(s), t)
             /\ Written(b, p + Len(s) + Len(t), u)
             /\ Written(b, p + Len(s) + Len(t) + Len(u), v)
  <2>1. s \in Bytes /\ t \in Bytes /\ u \in Bytes /\ v \in Bytes
    BY <1>1, <1>2, <1>3, <1>4
  <2> QED BY <2>1, FourParts, SMT
<1>9. Len(s \o t \o u \o v) = n + c + 23
  BY <1>1, <1>2, <1>3, <1>4, <1>8
<1>10. ASSUME NEW b \in Bytes, NEW p \in Nat, Written(b, p, NotificationBytes(m))
       PROVE  Read("notification", m, b, p)
  <2>1. Written(b, p, s \o t \o u \o v)
    BY <1>5, <1>10
  <2>2. /\ Written(b, p, s) /\ Written(b, p + 4, t) /\ Written(b, p + 8, u)
        /\ Written(b, p + 12, v)
    BY <1>1, <1>2, <1>3, <1>8, <2>1
  <2>3. /\ Uint32FromBuffer(b, p) = m.size
        /\ Uint32FromBuffer(b, p + 4) = m.targetONo
        /\ MethodIdFromBuffer(b, p + 8) = m.methodId
    BY <1>1, <1>2, <1>3, <2>2
  <2>4. /\ p + 23 + c + n <= Len(b)
        /\ Uint16FromBuffer(b, p + 13) = c
        /\ NtfParamsFromBuffer(b, p + 12, n) = m.parameters
    <3>1. p + 12 \in Nat /\ p + 12 + 1 = p + 13
      OBVIOUS
    <3>2. /\ p + 12 + 1 + 2 + c + 8 + n <= Len(b)
          /\ Uint16FromBuffer(b, p + 12 + 1) = c
          /\ NtfParamsFromBuffer(b, p + 12, n) = m.parameters
      BY <1>4, <2>2, <3>1
    <3> QED BY <1>4, <3>1, <3>2
  <2>5. ASSUME m.size = Size("notification", m)
        PROVE  /\ StaysInside("notification", b, p) /\ ~Throws("notification", b, p)
               /\ MessageFromBuffer("notification", b, p) = m
    <3>1. HeadSize("notification", b, p) = 23 + c /\ FixedSize("notification") = 15
      BY <1>4, <2>4 DEF HeadSize, ContextSize, FixedSize
    <3>2. VectorSize("notification", b, p) = n
      BY <1>4, <1>7, <2>3, <2>5, <3>1 DEF VectorSize
    <3>3. StaysInside("notification", b, p) /\ ~Throws("notification", b, p)
      BY <1>4, <1>7, <2>3, <2>4, <2>5, <3>1, <3>2 DEF StaysInside, Throws, Bytes
    <3>4. NotificationFromBuffer(b, p) = m
      BY <1>6, <2>3, <2>4, <3>2 DEF NotificationFromBuffer
    <3> QED BY <3>3, <3>4 DEF MessageFromBuffer
  <2> QED BY <2>3, <2>5 DEF Read
<1> QED BY <1>5, <1>8, <1>9, <1>10

-----------------------------------------------------------------------------
\* What the writer accepts.
Writable(k, m) == k = "notification" => BlobFits(m.parameters.context)

\* Any message, written anywhere into a buffer of any size, takes as many bytes as its
\* size was computed to be, and with that size is read as it was.
LEMMA MessageWritten ==
    ASSUME NEW k \in Kind, NEW m \in Message(k), Writable(k, m)
    PROVE  /\ MessageBytes(k, m) \in Bytes /\ Len(MessageBytes(k, m)) = Size(k, m)
           /\ \A b \in Bytes, p \in Nat :
                  Written(b, p, MessageBytes(k, m)) => Read(k, m, b, p)
BY CommandWritten, ResponseWritten, NotificationWritten
DEF Kind, Message, MessageBytes, Size, Writable

-----------------------------------------------------------------------------
\* What is read from a buffer of bytes has its type, whatever the bytes.

LEMMA Digits ==
    ASSUME NEW d \in Nat, NEW high \in 0..(d - 1), NEW low \in 0..(d - 1)
    PROVE  high * d + low \in 0..(d * d - 1)
<1>1. \A a, b, c \in Nat : a <= b => a * c <= b * c
  OBVIOUS
<1>2. high \in Nat /\ d - 1 \in Nat /\ high <= d - 1
  OBVIOUS
<1>3. high * d <= (d - 1) * d
  BY <1>1, <1>2
<1>4. (d - 1) * d = d * d - d
  OBVIOUS
<1>5. high * d \in Nat /\ d * d \in Nat
  OBVIOUS
<1> QED BY <1>3, <1>4, <1>5

LEMMA NumbersTyped ==
    ASSUME NEW b \in Bytes, NEW p \in Nat
    PROVE  /\ p + 1 <= Len(b) => Uint8FromBuffer(b, p) \in OcaUint8
           /\ p + 2 <= Len(b) => Uint16FromBuffer(b, p) \in OcaUint16
           /\ p + 4 <= Len(b) => Uint32FromBuffer(b, p) \in OcaUint32
<1>1. Len(b) \in Nat /\ \A i \in 1..Len(b) : b[i] \in OcaUint8
  BY DEF Bytes
<1>2. p + 1 <= Len(b) => Uint8FromBuffer(b, p) \in OcaUint8
  BY <1>1 DEF Uint8FromBuffer
<1>3. ASSUME NEW q \in Nat, q + 2 <= Len(b) PROVE Uint16FromBuffer(b, q) \in OcaUint16
  <2>1. b[q + 1] \in OcaUint8 /\ b[q + 2] \in OcaUint8
    BY <1>1, <1>3
  <2> QED BY <2>1, Digits, SquareFacts DEF Uint16FromBuffer, OcaUint8, OcaUint16
<1>4. ASSUME p + 4 <= Len(b) PROVE Uint32FromBuffer(b, p) \in OcaUint32
  <2>1. Uint16FromBuffer(b, p) \in OcaUint16 /\ Uint16FromBuffer(b, p + 2) \in OcaUint16
    BY <1>1, <1>3, <1>4
  <2> QED BY <2>1, Digits, SquareFacts DEF Uint32FromBuffer, OcaUint16, OcaUint32
<1> QED BY <1>2, <1>3, <1>4

LEMMA VectorTyped ==
    ASSUME NEW b \in Bytes, NEW p \in Nat, NEW n \in Nat, p + n <= Len(b)
    PROVE  BufferToUint8Vector(b, p, n) \in Bytes
<1>1. Len(b) \in Nat
  BY DEF Bytes
<1>2. \A i \in (p + 1)..(p + n) : b[i] \in OcaUint8
  BY <1>1 DEF Bytes
<1> QED BY <1>1, <1>2, SubSeqProperties DEF Bytes, BufferToUint8Vector

\* A message that is read lies in the buffer, and its size is at least FixedSize.
LEMMA MessageTyped ==
    ASSUME NEW k \in Kind, NEW b \in Bytes, NEW p \in Nat,
           StaysInside(k, b, p), ~Throws(k, b, p)
    PROVE  /\ MessageFromBuffer(k, b, p) \in Message(k)
           /\ Uint32FromBuffer(b, p) \in Nat /\ Uint32FromBuffer(b, p) >= FixedSize(k)
<1> DEFINE size == Uint32FromBuffer(b, p)
<1> DEFINE n == VectorSize(k, b, p)
<1>0. Len(b) \in Nat /\ p + FixedSize(k) <= Len(b) /\ p + size <= Len(b)
  BY DEF StaysInside, Bytes
<1>1. p + 10 <= Len(b) /\ size \in OcaUint32 /\ size \in Nat
  <2>1. p + 10 <= Len(b)
    BY <1>0 DEF Kind, FixedSize
  <2> QED BY <1>0, <2>1, NumbersTyped, SquareFacts DEF OcaUint32
<1>2. Uint32FromBuffer(b, p + 4) \in OcaUint32 /\ Uint8FromBuffer(b, p + 8) \in OcaUint8
  BY <1>0, <1>1, NumbersTyped
<1>3. CASE k = "command"
  <2>1. FixedSize(k) = 17 /\ HeadSize(k, b, p) = 17 /\ n = size - 17
    BY <1>3 DEF FixedSize, HeadSize, VectorSize
  <2>2. n \in Nat /\ size >= 17
    BY <1>1, <2>1 DEF Throws
  <2>3. p + 17 <= Len(b) /\ p + 17 + n <= Len(b)
    BY <1>0, <1>1, <2>1
  <2>4. /\ Uint32FromBuffer(b, p + 8) \in OcaUint32
        /\ Uint16FromBuffer(b, p + 12) \in OcaUint16
        /\ Uint16FromBuffer(b, p + 12 + 2) \in OcaUint16
        /\ Uint8FromBuffer(b, p + 16) \in OcaUint8
    BY <1>0, <2>3, NumbersTyped
  <2>5. BufferToUint8Vector(b, p + 16 + 1, n) \in Bytes
    BY <1>0, <2>2, <2>3, VectorTyped
  <2>6. MethodIdFromBuffer(b, p + 12) \in OcaMethodId
    BY <2>4 DEF MethodIdFromBuffer, OcaMethodId
  <2>7. ParametersFromBuffer(b, p + 16, n) \in Parameters
    BY <2>4, <2>5 DEF ParametersFromBuffer, Parameters
  <2>8. CommandFromBuffer(b, p) \in Command
    BY <1>1, <1>2, <1>3, <2>4, <2>6, <2>7 DEF CommandFromBuffer, Command
  <2> QED BY <1>1, <1>3, <2>1, <2>2, <2>8 DEF MessageFromBuffer, Message
<1>4. CASE k = "response"
  <2>1. FixedSize(k) = 10 /\ HeadSize(k, b, p) = 10 /\ n = size - 10
    BY <1>4 DEF FixedSize, HeadSize, VectorSize
  <2>2. n \in Nat /\ size >= 10
    BY <1>1, <2>1 DEF Throws
  <2>3. p + 10 <= Len(b) /\ p + 10 + n <= Len(b)
    BY <1>0, <1>1, <2>1
  <2>4. Uint8FromBuffer(b, p + 9) \in OcaUint8
    BY <1>0, <2>3, NumbersTyped
  <2>5. BufferToUint8Vector(b, p + 9 + 1, n) \in Bytes
    BY <1>0, <2>2, <2>3, VectorTyped
  <2>6. ParametersFromBuffer(b, p + 9, n) \in Parameters
    BY <2>4, <2>5 DEF ParametersFromBuffer, Parameters
  <2>7. ResponseFromBuffer(b, p) \in Response
    BY <1>1, <1>2, <1>4, <2>6 DEF ResponseFromBuffer, Response
  <2> QED BY <1>1, <1>4, <2>1, <2>2, <2>7 DEF MessageFromBuffer, Message
<1>5. CASE k = "notification"
  <2> DEFINE c == Uint16FromBuffer(b, p + 13)
  <2>1. FixedSize(k) = 15 /\ HeadSize(k, b, p) = 4 + 4 + 4 + 1 + c + 2 + 8
    BY <1>5 DEF FixedSize, HeadSize, ContextSize
  <2>2. p + 15 <= Len(b) /\ c \in OcaUint16 /\ c \in Nat
    <3>1. p + 13 \in Nat /\ p + 13 + 2 <= Len(b)
      BY <1>0, <2>1
    <3>2. c \in OcaUint16
      BY <3>1, NumbersTyped
    <3> QED BY <1>0, <2>1, <3>2, SquareFacts DEF OcaUint16
  <2>3. n = size - (23 + c) /\ p + 23 + c <= Len(b)
    BY <1>0, <1>5, <2>1, <2>2 DEF VectorSize, StaysInside
  <2>4. n \in Nat /\ size >= 15
    BY <1>1, <2>2, <2>3 DEF Throws
  <2>5. p + 15 + c + 8 <= Len(b) /\ p + 15 + c + 8 + n <= Len(b)
    <3> HIDE DEF c, n, size
    <3> QED BY <1>0, <1>1, <2>2, <2>3
  <2> DEFINE q == p + 15 + c
  <2>6. q \in Nat /\ q + 8 + n <= Len(b) /\ q + 8 <= Len(b) /\ q = p + 12 + 3 + c
    BY <1>0, <2>2, <2>5
  <2> HIDE DEF q
  <2>7. /\ Uint16FromBuffer(b, p + 8) \in OcaUint16
        /\ Uint16FromBuffer(b, p + 8 + 2) \in OcaUint16
        /\ Uint8FromBuffer(b, p + 12) \in OcaUint8
    BY <1>0, <2>2, NumbersTyped
  <2>8. /\ Uint32FromBuffer(b, q) \in OcaUint32
        /\ Uint16FromBuffer(b, q + 4) \in OcaUint16
        /\ Uint16FromBuffer(b, q + 4 + 2) \in OcaUint16
    BY <1>0, <2>6, NumbersTyped
  <2>9. BufferToUint8Vector(b, q + 8, n) \in Bytes
    BY <1>0, <2>4, <2>6, VectorTyped
  <2>10. BlobFromBuffer(b, p + 12 + 1) \in Bytes
    <3>1. p + 12 + 1 = p + 13 /\ p + 13 + 2 \in Nat /\ p + 13 + 2 + c <= Len(b)
      BY <1>0, <2>2, <2>5
    <3>2. BufferToUint8Vector(b, p + 13 + 2, c) \in Bytes
      BY <1>0, <2>2, <3>1, VectorTyped
    <3> QED BY <3>1, <3>2 DEF BlobFromBuffer
  <2>11. EventDataFromBuffer(b, q, n) \in EventData
    BY <2>8, <2>9 DEF EventDataFromBuffer, EventFromBuffer, EventIdFromBuffer,
                      EventData, OcaEvent, OcaEventId
  <2>12. p + 12 + 1 = p + 13 /\ p + 12 + 3 + Uint16FromBuffer(b, p + 12 + 1) = q
    BY <2>2, <2>6
  <2>13. NtfParamsFromBuffer(b, p + 12, n) \in NtfParams
    BY <2>7, <2>10, <2>11, <2>12 DEF NtfParamsFromBuffer, NtfParams
  <2>14. MethodIdFromBuffer(b, p + 8) \in OcaMethodId
    BY <2>7 DEF MethodIdFromBuffer, OcaMethodId
  <2>15. NotificationFromBuffer(b, p) \in Notification
    BY <1>1, <1>2, <1>5, <2>13, <2>14 DEF NotificationFromBuffer, Notification
  <2> QED BY <1>1, <1>5, <2>1, <2>4, <2>15 DEF MessageFromBuffer, Message
<1> QED BY <1>3, <1>4, <1>5 DEF Kind

-----------------------------------------------------------------------------
\* Writing s at p changes s's place, and nothing else.
LEMMA PutBytes ==
    ASSUME NEW b \in Bytes, NEW p \in Nat, NEW s \in Bytes, p + Len(s) <= Len(b)
    PROVE  /\ Put(b, p, s) \in Bytes /\ Len(Put(b, p, s)) = Len(b)
           /\ Written(Put(b, p, s), p, s)
           /\ \A q \in Nat, t \in Bytes :
                  Written(b, q, t) /\ q + Len(t) <= p => Written(Put(b, p, s), q, t)
<1> DEFINE new == Put(b, p, s)
<1>1. /\ Len(b) \in Nat /\ Len(s) \in Nat /\ DOMAIN b = 1..Len(b) /\ DOMAIN s = 1..Len(s)
      /\ \A i \in 1..Len(b) : b[i] \in OcaUint8
      /\ \A i \in 1..Len(s) : s[i] \in OcaUint8
  BY DEF Bytes
<1>2. new = [i \in 1..Len(b) |-> IF i - p \in 1..Len(s) THEN s[i - p] ELSE b[i]]
  BY <1>1 DEF Put
<1>3. \A i \in 1..Len(b) : (IF i - p \in 1..Len(s) THEN s[i - p] ELSE b[i]) \in OcaUint8
  BY <1>1
<1>4. new \in Bytes /\ Len(new) = Len(b)
  BY <1>1, <1>2, <1>3 DEF Bytes
<1>5. \A i \in 1..Len(b) : new[i] = IF i - p \in 1..Len(s) THEN s[i - p] ELSE b[i]
  BY <1>2
<1> HIDE DEF new
<1>6. Written(new, p, s)
  <2>1. ASSUME NEW i \in 1..Len(s) PROVE new[p + i] = s[i]
    <3>1. p + i \in 1..Len(b) /\ (p + i) - p = i
      BY <1>1
    <3> QED BY <1>5, <3>1
  <2> QED BY <1>4, <2>1 DEF Written
<1>7. ASSUME NEW q \in Nat, NEW t \in Bytes, Written(b, q, t), q + Len(t) <= p
      PROVE  Written(new, q, t)
  <2>1. Len(t) \in Nat
    BY DEF Bytes
  <2>2. ASSUME NEW i \in 1..Len(t) PROVE new[q + i] = t[i]
    <3>1. q + i \in 1..Len(b) /\ (q + i) - p \notin 1..Len(s)
      BY <1>1, <1>7, <2>1 DEF Written
    <3>2. new[q + i] = b[q + i]
      BY <1>5, <3>1
    <3> QED BY <1>7, <3>2 DEF Written
  <2> QED BY <1>4, <1>7, <2>2 DEF Written
<1> QED BY <1>4, <1>6, <1>7 DEF new

-----------------------------------------------------------------------------
\* What a caller does to a message.

\* The size of a message without its last vector.
Overhead(k, m) == CASE k = "command" -> 17
                    [] k = "response" -> 10
                    [] k = "notification" -> 23 + Len(m.parameters.context)

LEMMA VectorChanged ==
    ASSUME NEW k \in Kind, NEW m \in Message(k), NEW v \in Bytes
    PROVE  /\ Vector(k, m) \in Bytes
           /\ WithVector(k, m, v) \in Message(k)
           /\ WithVector(k, m, v).size = m.size
           /\ Overhead(k, WithVector(k, m, v)) = Overhead(k, m)
           /\ Size(k, WithVector(k, m, v)) = Overhead(k, m) + Len(v)
           /\ Overhead(k, m) \in Nat /\ Size(k, m) = Overhead(k, m) + Len(Vector(k, m))
<1>0. Len(v) \in Nat
  BY DEF Bytes
<1>1. CASE k = "command"
  <2>1. m \in Command /\ m.parameters \in Parameters /\ m.parameters.parameters \in Bytes
    BY <1>1 DEF Message, Command, Parameters
  <2> DEFINE w == [m EXCEPT !.parameters.parameters = v]
  <2>2. w \in Command /\ w.size = m.size /\ w.parameters.parameters = v
    BY <2>1 DEF Command, Parameters
  <2>3. Vector(k, m) = m.parameters.parameters /\ WithVector(k, m, v) = w
    BY <1>1 DEF Vector, WithVector
  <2>4. Overhead(k, w) = 17 /\ Overhead(k, m) = 17
    BY <1>1 DEF Overhead
  <2> HIDE DEF w
  <2>5. Len(m.parameters.parameters) \in Nat
    BY <2>1 DEF Bytes
  <2>6. Size(k, w) = Len(v) + 1 + 16 /\ Size(k, m) = Len(m.parameters.parameters) + 1 + 16
    BY <1>1, <2>2 DEF Size, ComputeCommandDataSize
  <2>7. Message(k) = Command
    BY <1>1 DEF Message
  <2> QED BY <1>0, <2>1, <2>2, <2>3, <2>4, <2>5, <2>6, <2>7
<1>2. CASE k = "response"
  <2>1. m \in Response /\ m.parameters \in Parameters /\ m.parameters.parameters \in Bytes
    BY <1>2 DEF Message, Response, Parameters
  <2> DEFINE w == [m EXCEPT !.parameters.parameters = v]
  <2>2. w \in Response /\ w.size = m.size /\ w.parameters.parameters = v
    BY <2>1 DEF Response, Parameters
  <2>3. Vector(k, m) = m.parameters.parameters /\ WithVector(k, m, v) = w
    BY <1>2 DEF Vector, WithVector
  <2>4. Overhead(k, w) = 10 /\ Overhead(k, m) = 10
    BY <1>2 DEF Overhead
  <2> HIDE DEF w
  <2>5. Len(m.parameters.parameters) \in Nat
    BY <2>1 DEF Bytes
  <2>6. Size(k, w) = Len(v) + 1 + 9 /\ Size(k, m) = Len(m.parameters.parameters) + 1 + 9
    BY <1>2, <2>2 DEF Size, ComputeResponseDataSize
  <2>7. Message(k) = Response
    BY <1>2 DEF Message
  <2> QED BY <1>0, <2>1, <2>2, <2>3, <2>4, <2>5, <2>6, <2>7
<1>3. CASE k = "notification"
  <2> DEFINE c == Len(m.parameters.context)
  <2>1. /\ m \in Notification /\ m.parameters \in NtfParams /\ m.parameters.context \in Bytes
        /\ m.parameters.eventData \in EventData
        /\ m.parameters.eventData.eventParameters \in Bytes
    BY <1>3 DEF Message, Notification, NtfParams, EventData
  <2> DEFINE w == [m EXCEPT !.parameters.eventData.eventParameters = v]
  <2>2. /\ w \in Notification /\ w.size = m.size
        /\ w.parameters.eventData.eventParameters = v
        /\ w.parameters.context = m.parameters.context
    BY <2>1 DEF Notification, NtfParams, EventData
  <2>3. Vector(k, m) = m.parameters.eventData.eventParameters /\ WithVector(k, m, v) = w
    BY <1>3 DEF Vector, WithVector
  <2>4. Overhead(k, w) = 23 + c /\ Overhead(k, m) = 23 + c
    BY <1>3, <2>2 DEF Overhead
  <2> HIDE DEF w
  <2>5. Len(m.parameters.eventData.eventParameters) \in Nat /\ c \in Nat
    BY <2>1 DEF Bytes
  <2>6. /\ Size(k, w) = Len(v) + 8 + c + 2 + 1 + 12
        /\ Size(k, m) = Len(m.parameters.eventData.eventParameters) + 8 + c + 2 + 1 + 12
    BY <1>3, <2>2 DEF Size, ComputeNotificationDataSize
  <2>7. Message(k) = Notification
    BY <1>3 DEF Message
  <2> HIDE DEF c
  <2>8. /\ Size(k, w) = 23 + c + Len(v) /\ 23 + c \in Nat
        /\ Size(k, m) = 23 + c + Len(m.parameters.eventData.eventParameters)
    <3>1. 23 + c \in Nat /\ \A x \in Nat : x + 8 + c + 2 + 1 + 12 = 23 + c + x
      BY <2>5
    <3> QED BY <1>0, <2>5, <2>6, <3>1
  <2> QED BY <2>1, <2>2, <2>3, <2>4, <2>7, <2>8
<1> QED BY <1>1, <1>2, <1>3 DEF Kind

LEMMA OverheadBound ==
    ASSUME NEW k \in Kind, NEW m \in Message(k)
    PROVE  Overhead(k, m) >= 10
<1>1. k = "notification" => Len(m.parameters.context) \in Nat
  BY DEF Kind, Message, Notification, NtfParams, Bytes
<1> QED BY <1>1 DEF Kind, Overhead

LEMMA SizeChanged ==
    ASSUME NEW k \in Kind, NEW m \in Message(k), NEW n \in OcaUint32
    PROVE  LET w == [m EXCEPT !.size = n]
           IN  /\ w \in Message(k) /\ w.size = n
               /\ Size(k, w) = Size(k, m) /\ Overhead(k, w) = Overhead(k, m)
<1> DEFINE w == [m EXCEPT !.size = n]
<1>1. CASE k = "command"
  <2>1. m \in Command
    BY <1>1 DEF Message
  <2>2. w \in Command /\ w.size = n /\ w.parameters = m.parameters
    BY <2>1 DEF Command
  <2> HIDE DEF w
  <2> QED BY <1>1, <2>2 DEF Message, Size, ComputeCommandDataSize, Overhead, w
<1>2. CASE k = "response"
  <2>1. m \in Response
    BY <1>2 DEF Message
  <2>2. w \in Response /\ w.size = n /\ w.parameters = m.parameters
    BY <2>1 DEF Response
  <2> HIDE DEF w
  <2> QED BY <1>2, <2>2 DEF Message, Size, ComputeResponseDataSize, Overhead, w
<1>3. CASE k = "notification"
  <2>1. m \in Notification
    BY <1>3 DEF Message
  <2>2. w \in Notification /\ w.size = n /\ w.parameters = m.parameters
    BY <2>1 DEF Notification
  <2> HIDE DEF w
  <2> QED BY <1>3, <2>2 DEF Message, Size, ComputeNotificationDataSize, Overhead, w
<1> QED BY <1>1, <1>2, <1>3 DEF Kind

LEMMA WrapTyped == \A x \in Nat : Wrap32(x) \in OcaUint32
BY SquareFacts DEF Wrap32, OcaUint32

LEMMA DataSizeTyped ==
    ASSUME NEW k \in Kind, NEW m \in Message(k)
    PROVE  /\ Size(k, m) \in Nat /\ DataSize(k, m) \in OcaUint32
           /\ Size(k, m) < Square * Square => DataSize(k, m) = Size(k, m)
<1> DEFINE v == Vector(k, m)
<1>1. <<>> \in Bytes
  BY DEF Bytes
<1>2. v \in Bytes /\ Overhead(k, m) \in Nat /\ Size(k, m) = Overhead(k, m) + Len(v)
  BY <1>1, VectorChanged
<1> HIDE DEF v
<1>3. Len(v) \in Nat
  BY <1>2 DEF Bytes
<1>4. Size(k, m) \in Nat
  BY <1>2, <1>3
<1> QED BY <1>4, SquareFacts DEF DataSize, Wrap32, OcaUint32

-----------------------------------------------------------------------------
\* What holds in every reachable state: first, whatever the sizes are.

SentHeader ==
    [protocolVersion |-> 1, messageSize |-> Wrap32(OCP1_HEADER_SIZE + total),
     messageType |-> MessageType, messageCount |-> Len(messages)]

Unread == phase \in {"build", "compute", "write", "sent"} => received = <<>>

\* The header is where it was written, and is what is read.
Headed ==
    /\ phase \in {"write", "sent"} => Written(buffer, 0, HeaderBytes(SentHeader))
    /\ phase = "write" => message >= OCP1_HEADER_SIZE
    /\ phase \in {"read", "done"} => header = SentHeader

Counted ==
    /\ phase \in {"compute", "write", "read"} => next \in 1..(Len(messages) + 1)
    /\ phase = "read" => Len(received) = next - 1
    /\ phase = "done" => Len(received) = Len(messages)

TInv == TypeOK /\ Unread /\ Headed /\ Counted

LEMMA KindOfHeader ==
    ASSUME kind \in Kind, header = SentHeader
    PROVE  HeaderKind = kind /\ header.messageCount = Len(messages)
BY DEF SentHeader, MessageType, HeaderKind, Kind, OcaCmdRrq, OcaRsp, OcaNtf

LEMMA SentHeaderTyped ==
    ASSUME TypeOK
    PROVE  SentHeader \in Header
<1>1. MessageType \in OcaMessageType
  BY DEF TypeOK, MessageType, Kind, OcaMessageType, OcaCmdRrq, OcaRsp, OcaNtf
<1>2. Len(messages) \in OcaUint16
  BY BoundAssumption, SquareFacts DEF TypeOK, OcaUint16
<1>3. OCP1_HEADER_SIZE + total \in Nat
  BY SquareFacts DEF TypeOK, OCP1_HEADER_SIZE, OcaUint32
<1>4. Wrap32(OCP1_HEADER_SIZE + total) \in OcaUint32
  BY <1>3, SquareFacts DEF Wrap32, OcaUint32
<1>5. 1 \in OcaUint16
  BY SquareFacts DEF OcaUint16
<1> QED BY <1>1, <1>2, <1>4, <1>5 DEF SentHeader, Header

LEMMA InitTInv == Init => TInv
<1> SUFFICES ASSUME Init PROVE TInv
  OBVIOUS
<1>1. 0 \in OcaUint16 /\ 0 \in OcaUint32 /\ 0 \in OcaMessageType
  BY SquareFacts DEF OcaUint16, OcaUint32, OcaMessageType
<1>2. header \in Header
  BY <1>1 DEF Init, NoHeader, Header
<1>3. TypeOK
  BY <1>1, <1>2, BoundAssumption, SquareFacts DEF Init, TypeOK, Bytes, OcaUint16
<1> QED BY <1>3 DEF Init, TInv, Unread, Headed, Counted

\* The sender's list changes.
LEMMA ListChanged ==
    ASSUME TInv, phase = "build",
           messages' \in Seq(Message(kind)), Len(messages') <= MaxMessages,
           UNCHANGED <<phase, kind, total, buffer, header, next, message, received>>
    PROVE  TInv'
<1>1. TypeOK'
  BY DEF TInv, TypeOK, HeaderKind
<1> QED BY <1>1 DEF TInv, Unread, Headed, Counted

LEMMA PushTInv == TInv /\ PushMessage => TInv'
<1> SUFFICES ASSUME TInv, PushMessage PROVE TInv'
  OBVIOUS
<1>1. PICK m \in NewMessage[kind] : messages' = Append(messages, m)
  BY DEF PushMessage
<1>2. m \in Message(kind) /\ Len(messages) < MaxMessages /\ MaxMessages \in Nat
  BY NewMessageAssumption, BoundAssumption, SquareFacts
  DEF TInv, TypeOK, PushMessage, OcaUint16
<1>3. messages' \in Seq(Message(kind)) /\ Len(messages') = Len(messages) + 1
  BY <1>1, <1>2 DEF TInv, TypeOK
<1>4. Len(messages') <= MaxMessages
  BY <1>2, <1>3 DEF TInv, TypeOK
<1> QED BY <1>3, <1>4, ListChanged DEF PushMessage

\* What Grow and Shrink have in common.
Alters(i) ==
    \E v \in Bytes :
        /\ Len(v) <= Len(Vector(kind, messages[i])) \/ Len(v) <= MaxVector
        /\ Change(i, v)

LEMMA GrowOrShrinkAlters ==
    ASSUME TypeOK, NEW i \in DOMAIN messages, Grow(i) \/ Shrink(i)
    PROVE  Alters(i)
<1> DEFINE v == Vector(kind, messages[i])
<1>1. kind \in Kind /\ messages[i] \in Message(kind) /\ <<>> \in Bytes
  BY DEF TypeOK, Bytes
<1>2. v \in Bytes /\ Len(v) \in Nat
  <2>1. v \in Bytes
    BY <1>1, VectorChanged
  <2> HIDE DEF v
  <2> QED BY <2>1 DEF Bytes
<1>3. CASE Grow(i)
  <2>1. PICK byte \in AddedByte : Change(i, Append(v, byte))
    BY <1>3 DEF Grow
  <2>2. Len(v) < MaxVector /\ MaxVector \in Nat /\ byte \in OcaUint8
    BY <1>3, BoundAssumption, AddedByteAssumption DEF Grow
  <2> HIDE DEF v
  <2>3. Append(v, byte) \in Bytes /\ Len(Append(v, byte)) = Len(v) + 1
    BY <1>2, <2>2 DEF Bytes
  <2>4. Len(Append(v, byte)) <= MaxVector
    BY <1>2, <2>2, <2>3
  <2> QED BY <2>1, <2>3, <2>4 DEF Alters
<1>4. CASE Shrink(i)
  <2>1. v # <<>> /\ Change(i, SubSeq(v, 1, Len(v) - 1))
    BY <1>4 DEF Shrink
  <2> DEFINE short == SubSeq(v, 1, Len(v) - 1)
  <2>2. Len(v) - 1 \in Nat
    <3> HIDE DEF v
    <3> QED BY <1>2, <2>1, EmptySeq DEF Bytes
  <2>3. short \in Bytes /\ Len(short) <= Len(v)
    <3> HIDE DEF v
    <3>1. \A j \in 1..(Len(v) - 1) : v[j] \in OcaUint8
      BY <1>2 DEF Bytes
    <3> QED BY <1>2, <2>2, <3>1, SubSeqProperties DEF Bytes
  <2> QED BY <2>1, <2>3 DEF Alters
<1> QED BY <1>3, <1>4

LEMMA AltersTInv ==
    ASSUME TInv, NEW i \in DOMAIN messages, Alters(i)
    PROVE  TInv'
<1>1. PICK v \in Bytes : Change(i, v)
  BY DEF Alters
<1>2. kind \in Kind /\ messages \in Seq(Message(kind)) /\ messages[i] \in Message(kind)
  BY DEF TInv, TypeOK
<1>3. WithVector(kind, messages[i], v) \in Message(kind)
  BY <1>2, VectorChanged
<1>4. messages' = [messages EXCEPT ![i] = WithVector(kind, messages[i], v)]
  BY <1>1 DEF Change
<1>5. messages' \in Seq(Message(kind)) /\ Len(messages') = Len(messages)
  BY <1>2, <1>3, <1>4
<1> QED BY <1>1, <1>5, ListChanged DEF Change, TInv, TypeOK

LEMMA ComputeTInv == TInv /\ (ComputeBegin \/ ComputeNext \/ ComputeEnd) => TInv'
<1>1. ASSUME TInv, ComputeBegin PROVE TInv'
  <2>1. 0 \in OcaUint32 /\ Len(messages) \in Nat
    BY <1>1, SquareFacts DEF OcaUint32, TInv, TypeOK
  <2> QED BY <1>1, <2>1 DEF ComputeBegin, TInv, TypeOK, HeaderKind, Unread, Headed, Counted
<1>2. ASSUME TInv, ComputeNext PROVE TInv'
  <2> DEFINE size == DataSize(kind, messages[next])
  <2>1. /\ next \in 1..Len(messages) /\ kind \in Kind
        /\ messages \in Seq(Message(kind)) /\ messages[next] \in Message(kind)
    BY <1>2 DEF ComputeNext, TInv, TypeOK, Counted
  <2>2. size \in OcaUint32 /\ [messages[next] EXCEPT !.size = size] \in Message(kind)
    BY <2>1, DataSizeTyped, SizeChanged
  <2>3. messages' = [messages EXCEPT ![next] = [messages[next] EXCEPT !.size = size]]
    BY <1>2 DEF ComputeNext
  <2> HIDE DEF size
  <2>4. messages' \in Seq(Message(kind)) /\ Len(messages') = Len(messages)
    BY <2>1, <2>2, <2>3
  <2>5. total' \in OcaUint32
    <3>1. total + size \in Nat
      <4>1. total \in OcaUint32
        BY <1>2 DEF TInv, TypeOK
      <4> QED BY <2>2, <4>1, SquareFacts DEF OcaUint32
    <3>2. total' = Wrap32(total + size)
      BY <1>2 DEF ComputeNext, size
    <3> QED BY <3>1, <3>2, WrapTyped, Zenon
  <2>6. next' \in 1..(Len(messages') + 1) /\ next' \in Nat
    BY <1>2, <2>1, <2>4 DEF ComputeNext
  <2>7. /\ phase = "compute"
        /\ UNCHANGED <<phase, kind, buffer, header, message, received>>
    BY <1>2 DEF ComputeNext
  <2>8. TypeOK'
    BY <1>2, <2>4, <2>5, <2>6, <2>7 DEF TInv, TypeOK, HeaderKind
  <2> QED BY <1>2, <2>6, <2>7, <2>8 DEF TInv, Unread, Headed, Counted
<1>3. ASSUME TInv, ComputeEnd PROVE TInv'
  BY <1>3 DEF ComputeEnd, TInv, TypeOK, HeaderKind, Unread, Headed, Counted
<1> QED BY <1>1, <1>2, <1>3

LEMMA WriteHeaderTInv == TInv /\ WriteHeader => TInv'
<1> SUFFICES ASSUME TInv, WriteHeader PROVE TInv'
  OBVIOUS
<1>1. PICK more \in Spare, filler \in {0, Radix - 1} :
          buffer' = Put([i \in 1..(OCP1_HEADER_SIZE + total + more) |-> filler], 0,
                        HeaderBytes(SentHeader))
  BY DEF WriteHeader, SentHeader
<1> DEFINE b == [i \in 1..(OCP1_HEADER_SIZE + total + more) |-> filler]
<1>2. total \in Nat /\ more \in Nat /\ filler \in OcaUint8
  <2>1. total \in Nat
    BY SquareFacts DEF TInv, TypeOK, OcaUint32
  <2> QED BY <2>1, BoundAssumption, SquareFacts DEF OcaUint8
<1>3. b \in Bytes /\ Len(b) = 9 + total + more
  BY <1>2 DEF Bytes, OCP1_HEADER_SIZE
<1>4. HeaderBytes(SentHeader) \in Bytes /\ Len(HeaderBytes(SentHeader)) = 9
  BY SentHeaderTyped, HeaderWritten DEF TInv, OCP1_HEADER_SIZE
<1> HIDE DEF b
<1>5. 0 \in Nat /\ 0 + Len(HeaderBytes(SentHeader)) <= Len(b)
  BY <1>2, <1>3, <1>4
<1>6. buffer' \in Bytes /\ Written(buffer', 0, HeaderBytes(SentHeader))
  BY <1>1, <1>3, <1>4, <1>5, PutBytes DEF b
<1>7. /\ phase = "build" /\ phase' = "write" /\ next' = 1 /\ message' = 9
      /\ UNCHANGED <<kind, messages, total, header, received>>
  BY DEF WriteHeader, OCP1_HEADER_SIZE
<1>8. SentHeader' = SentHeader
  BY <1>7 DEF SentHeader, MessageType
<1>9. TypeOK'
  BY <1>6, <1>7 DEF TInv, TypeOK, HeaderKind
<1>10. Headed'
  BY <1>6, <1>7, <1>8 DEF Headed, OCP1_HEADER_SIZE
<1>11. Unread' /\ Counted'
  BY <1>7 DEF TInv, TypeOK, Unread, Counted
<1> QED BY <1>9, <1>10, <1>11 DEF TInv

LEMMA WriteNextTInv == TInv /\ WriteNext => TInv'
<1> SUFFICES ASSUME TInv, WriteNext PROVE TInv'
  OBVIOUS
<1> DEFINE s == MessageBytes(kind, messages[next])
<1>1. /\ phase = "write" /\ next <= Len(messages) /\ message + Len(s) <= Len(buffer)
      /\ buffer' = Put(buffer, message, s)
      /\ message' = message + messages[next].size /\ next' = next + 1
      /\ UNCHANGED <<phase, kind, messages, total, header, received>>
      /\ Writable(kind, messages[next])
  BY DEF WriteNext, Writable
<1>2. /\ kind \in Kind /\ messages \in Seq(Message(kind)) /\ next \in 1..Len(messages)
      /\ messages[next] \in Message(kind) /\ message \in Nat /\ buffer \in Bytes
      /\ message >= 9
  BY <1>1 DEF TInv, TypeOK, Counted, Headed, OCP1_HEADER_SIZE
<1>3. s \in Bytes
  BY <1>1, <1>2, MessageWritten
<1>4. messages[next].size \in Nat
  <2>1. messages[next].size \in OcaUint32
    BY <1>2 DEF Kind, Message, Command, Response, Notification
  <2> QED BY <2>1, SquareFacts DEF OcaUint32
<1> HIDE DEF s
<1>5. /\ buffer' \in Bytes
      /\ \A q \in Nat, t \in Bytes :
             Written(buffer, q, t) /\ q + Len(t) <= message => Written(buffer', q, t)
  BY <1>1, <1>2, <1>3, PutBytes
<1>6. HeaderBytes(SentHeader) \in Bytes /\ Len(HeaderBytes(SentHeader)) = 9
  BY SentHeaderTyped, HeaderWritten DEF TInv, OCP1_HEADER_SIZE
<1>7. Written(buffer, 0, HeaderBytes(SentHeader))
  BY <1>1 DEF TInv, Headed
<1>8. 0 \in Nat /\ 0 + Len(HeaderBytes(SentHeader)) <= message
  BY <1>2, <1>6
<1>9. Written(buffer', 0, HeaderBytes(SentHeader))
  BY <1>5, <1>6, <1>7, <1>8
<1>10. SentHeader' = SentHeader
  BY <1>1 DEF SentHeader, MessageType
<1>11. message' \in Nat /\ message' >= 9 /\ next' \in 1..(Len(messages') + 1) /\ next' \in Nat
  BY <1>1, <1>2, <1>4
<1>12. TypeOK'
  BY <1>1, <1>5, <1>11 DEF TInv, TypeOK, HeaderKind
<1>13. Headed'
  BY <1>1, <1>9, <1>10, <1>11 DEF Headed, OCP1_HEADER_SIZE
<1>14. Unread' /\ Counted'
  BY <1>1, <1>11 DEF TInv, Unread, Counted
<1> QED BY <1>12, <1>13, <1>14 DEF TInv

LEMMA ReadHeaderTInv == TInv /\ ReadHeader => TInv'
<1> SUFFICES ASSUME TInv, ReadHeader PROVE TInv'
  OBVIOUS
<1>1. /\ phase = "sent" /\ phase' = "read" /\ next' = 1 /\ message' = 9 /\ received = <<>>
      /\ header' = HeaderFromBuffer(buffer, 0)
      /\ UNCHANGED <<kind, messages, total, buffer, received>>
  BY DEF ReadHeader, TInv, Unread, OCP1_HEADER_SIZE
<1>2. Written(buffer, 0, HeaderBytes(SentHeader)) /\ buffer \in Bytes /\ 0 \in Nat
  BY <1>1 DEF TInv, Headed, TypeOK
<1>3. SentHeader \in Header
  BY SentHeaderTyped DEF TInv
<1>4. header' = SentHeader
  BY <1>1, <1>2, <1>3, HeaderWritten
<1>5. SentHeader' = SentHeader
  BY <1>1 DEF SentHeader, MessageType
<1>6. TypeOK'
  BY <1>1, <1>3, <1>4 DEF TInv, TypeOK
<1>7. Headed' /\ Unread'
  BY <1>1, <1>4, <1>5 DEF Headed, Unread
<1>8. Counted'
  BY <1>1 DEF TInv, TypeOK, Counted
<1> QED BY <1>6, <1>7, <1>8 DEF TInv

LEMMA ReadNextTInv == TInv /\ ReadNext => TInv'
<1> SUFFICES ASSUME TInv, ReadNext PROVE TInv'
  OBVIOUS
<1> DEFINE m == MessageFromBuffer(HeaderKind, buffer, message)
<1>1. /\ phase = "read" /\ next <= header.messageCount
      /\ StaysInside(HeaderKind, buffer, message) /\ ~Throws(HeaderKind, buffer, message)
      /\ received' = Append(received, m)
      /\ message' = message + Uint32FromBuffer(buffer, message) /\ next' = next + 1
      /\ UNCHANGED <<phase, kind, messages, total, buffer, header>>
  BY DEF ReadNext
<1>2. /\ kind \in Kind /\ HeaderKind = kind /\ header.messageCount = Len(messages)
      /\ buffer \in Bytes /\ message \in Nat /\ next \in 1..(Len(messages) + 1)
      /\ received \in Seq(Message(HeaderKind)) /\ Len(received) = next - 1
      /\ Len(messages) \in Nat
  BY <1>1, KindOfHeader DEF TInv, TypeOK, Headed, Counted
<1>3. m \in Message(HeaderKind) /\ Uint32FromBuffer(buffer, message) \in Nat
  BY <1>1, <1>2, MessageTyped
<1>4. HeaderKind' = HeaderKind
  BY <1>1 DEF HeaderKind
<1> HIDE DEF m
<1>5. received' \in Seq(Message(HeaderKind')) /\ Len(received') = Len(received) + 1
  BY <1>1, <1>2, <1>3, <1>4
<1>6. message' \in Nat /\ next' \in Nat /\ next' \in 1..(Len(messages') + 1)
  BY <1>1, <1>2, <1>3
<1>7. Len(received') = next' - 1
  BY <1>1, <1>2, <1>5
<1>8. TypeOK'
  BY <1>1, <1>5, <1>6 DEF TInv, TypeOK
<1>9. Headed'
  <2>1. SentHeader' = SentHeader
    BY <1>1 DEF SentHeader, MessageType
  <2> QED BY <1>1, <2>1 DEF TInv, Headed
<1>10. Unread' /\ Counted'
  BY <1>1, <1>6, <1>7 DEF Unread, Counted
<1> QED BY <1>8, <1>9, <1>10 DEF TInv

\* The loops end, and what fails ends everything.
LEMMA EndsTInv == TInv /\ (WriteEnd \/ WriteFails \/ ReadEnd \/ ReadFails) => TInv'
<1> SUFFICES ASSUME TInv, WriteEnd \/ WriteFails \/ ReadEnd \/ ReadFails PROVE TInv'
  OBVIOUS
<1>1. UNCHANGED <<kind, messages, total, buffer, header, next, message, received>>
  BY DEF WriteEnd, WriteFails, ReadEnd, ReadFails
<1>2. SentHeader' = SentHeader /\ HeaderKind' = HeaderKind
  BY <1>1 DEF SentHeader, MessageType, HeaderKind
<1>3. CASE WriteEnd
  BY <1>1, <1>2, <1>3 DEF WriteEnd, TInv, TypeOK, Unread, Headed, Counted
<1>4. CASE WriteFails
  <2>1. phase' \in {"aborted", "outside"}
    BY <1>4 DEF WriteFails
  <2> QED BY <1>1, <1>2, <2>1 DEF TInv, TypeOK, Unread, Headed, Counted
<1>5. CASE ReadFails
  <2>1. phase' \in {"thrown", "outside"}
    BY <1>5 DEF ReadFails
  <2> QED BY <1>1, <1>2, <2>1 DEF TInv, TypeOK, Unread, Headed, Counted
<1>6. CASE ReadEnd
  <2>1. phase = "read" /\ phase' = "done" /\ next > header.messageCount
    BY <1>6 DEF ReadEnd
  <2>2. header = SentHeader /\ header.messageCount = Len(messages)
    BY <2>1, KindOfHeader DEF TInv, TypeOK, Headed
  <2>3. Len(received') = Len(messages')
    BY <1>1, <2>1, <2>2 DEF TInv, TypeOK, Counted
  <2> QED BY <1>1, <1>2, <2>1, <2>2, <2>3 DEF TInv, TypeOK, Unread, Headed, Counted
<1> QED BY <1>3, <1>4, <1>5, <1>6

LEMMA NextTInv == TInv /\ [Next]_vars => TInv'
<1> SUFFICES ASSUME TInv, [Next]_vars PROVE TInv'
  OBVIOUS
<1>1. CASE PushMessage
  BY <1>1, PushTInv
<1>2. CASE \E i \in DOMAIN messages : Grow(i) \/ Shrink(i)
  BY <1>2, GrowOrShrinkAlters, AltersTInv DEF TInv
<1>3. CASE ComputeBegin \/ ComputeNext \/ ComputeEnd
  BY <1>3, ComputeTInv
<1>4. CASE WriteHeader
  BY <1>4, WriteHeaderTInv
<1>5. CASE WriteNext
  BY <1>5, WriteNextTInv
<1>6. CASE ReadHeader
  BY <1>6, ReadHeaderTInv
<1>7. CASE ReadNext
  BY <1>7, ReadNextTInv
<1>8. CASE WriteEnd \/ WriteFails \/ ReadEnd \/ ReadFails
  BY <1>8, EndsTInv
<1>9. CASE UNCHANGED vars
  BY <1>9 DEF vars, TInv, TypeOK, Unread, Headed, Counted, SentHeader, MessageType, HeaderKind
<1> QED BY <1>1, <1>2, <1>3, <1>4, <1>5, <1>6, <1>7, <1>8, <1>9 DEF Next

\* What the code reads from a buffer is made of bytes, fits its types and follows the
\* header that was written, whatever sizes the caller forgot to compute.
THEOREM TypeCorrect == Spec => []TypeOK
<1>1. TInv => TypeOK
  BY DEF TInv
<1> QED BY InitTInv, NextTInv, <1>1, PTL DEF Spec

\* Each message that is read without an exception moves the reader on by what it has
\* read at least (OcpMessageReader.cxx:117, 159, 184, 194, 205, where a size below
\* that wraps around): the walk through the list never stands still.
THEOREM WalkAlwaysAdvances == Spec => WalkAdvances
<1>1. TInv /\ [Next]_vars =>
          [received' # received => message' >= message + FixedSize(HeaderKind)]_vars
  <2> SUFFICES ASSUME TInv, [Next]_vars, received' # received
               PROVE  message' >= message + FixedSize(HeaderKind)
    OBVIOUS
  <2>1. ReadNext
    BY DEF Next, vars, PushMessage, Grow, Shrink, Change, ComputeBegin, ComputeNext,
           ComputeEnd, WriteHeader, WriteFails, WriteNext, WriteEnd, ReadHeader,
           ReadFails, ReadEnd
  <2>2. kind \in Kind /\ HeaderKind = kind /\ buffer \in Bytes /\ message \in Nat
    BY <2>1, KindOfHeader DEF ReadNext, TInv, TypeOK, Headed
  <2>3. /\ Uint32FromBuffer(buffer, message) \in Nat
        /\ Uint32FromBuffer(buffer, message) >= FixedSize(HeaderKind)
    BY <2>1, <2>2, MessageTyped DEF ReadNext
  <2>4. FixedSize(HeaderKind) \in Nat
    BY <2>2 DEF Kind, FixedSize
  <2> QED BY <2>1, <2>2, <2>3, <2>4 DEF ReadNext
<1> QED BY InitTInv, NextTInv, <1>1, PTL DEF Spec, WalkAdvances

-----------------------------------------------------------------------------
\* Second, what holds of lists whose sizes are computed, provided that they fit: n is
\* as many bytes as any message takes.

Small(n) == \A k \in Kind : \A m \in NewMessage[k] : Size(k, m) + MaxVector <= n

Fits(n) == Small(n) /\ MaxMessages * n < Square * Square

Bounded(n) == \A i \in DOMAIN messages :
    /\ Overhead(kind, messages[i]) + MaxVector <= n
    /\ Size(kind, messages[i]) <= n

\* off[i] is the sum of the size fields before the i-th message.
Sums(off, s, j) ==
    /\ off[1] = 0
    /\ \A i \in 1..(j - 1) : off[i + 1] = off[i] + s[i].size
    /\ \A i, l \in 1..j : i <= l => off[i] <= off[l]

Adding(n) == phase = "compute" =>
    \E off \in [1..next -> Nat] :
        Sums(off, messages, next) /\ total = off[next] /\ total <= (next - 1) * n

InPlace(off, i) ==
    /\ Writable(kind, messages[i])
    /\ Written(buffer, OCP1_HEADER_SIZE + off[i], MessageBytes(kind, messages[i]))

\* Each message is in the buffer behind the one before it.
Laid(off) ==
    /\ phase = "build" => total = off[Len(messages) + 1]
    /\ phase = "write" =>
           /\ message = OCP1_HEADER_SIZE + off[next]
           /\ OCP1_HEADER_SIZE + off[Len(messages) + 1] <= Len(buffer)
           /\ Computed => \A i \in 1..(next - 1) : InPlace(off, i)
    /\ phase \in {"sent", "read"} => (Computed => \A i \in 1..Len(messages) : InPlace(off, i))
    /\ phase = "read" => (Computed => message = OCP1_HEADER_SIZE + off[next])

Stored == phase \in {"build", "write", "sent", "read"} =>
    \E off \in [1..(Len(messages) + 1) -> Nat] :
        Sums(off, messages, Len(messages) + 1) /\ Laid(off)

\* Nothing went wrong so far.
Faithful == Computed =>
    /\ phase \notin {"outside", "thrown"}
    /\ \A i \in DOMAIN received : received[i] = messages[i]

RInv(n) == TInv /\ Bounded(n) /\ Adding(n) /\ Stored /\ Faithful

LEMMA Product ==
    ASSUME NEW a \in Nat, NEW b \in Nat, NEW n \in Nat, a <= b
    PROVE  a * n <= b * n /\ a * n \in Nat /\ b * n \in Nat
OBVIOUS

LEMMA WrapsNothing ==
    ASSUME NEW x \in Nat, x < Square * Square
    PROVE  Wrap32(x) = x
BY SquareFacts DEF Wrap32

LEMMA SumsSame ==
    ASSUME NEW off, NEW s, NEW t, NEW j \in Nat, Sums(off, s, j),
           \A i \in 1..(j - 1) : t[i].size = s[i].size
    PROVE  Sums(off, t, j)
BY DEF Sums

\* new sums up t as off did, one message further.
Extended(new, off, t, j) ==
    /\ new \in [1..(j + 1) -> Nat]
    /\ Sums(new, t, j + 1)
    /\ new[j + 1] = off[j] + t[j].size
    /\ \A i \in 1..j : new[i] = off[i]

LEMMA SumsExtend ==
    ASSUME NEW j \in Nat, j >= 1, NEW off \in [1..j -> Nat], NEW s, NEW t, Sums(off, s, j),
           \A i \in 1..(j - 1) : t[i].size = s[i].size, t[j].size \in Nat
    PROVE  \E new : Extended(new, off, t, j)
<1> DEFINE d == t[j].size
<1> DEFINE new == [i \in 1..(j + 1) |-> IF i = j + 1 THEN off[j] + d ELSE off[i]]
<1>1. d \in Nat /\ off[j] \in Nat
  OBVIOUS
<1>2. new \in [1..(j + 1) -> Nat]
  BY <1>1
<1>3. new[j + 1] = off[j] + d /\ \A i \in 1..j : new[i] = off[i]
  OBVIOUS
<1> HIDE DEF new, d
<1>4. new[1] = 0
  BY <1>3 DEF Sums
<1>5. ASSUME NEW i \in 1..j PROVE new[i + 1] = new[i] + t[i].size
  <2>1. CASE i = j
    BY <1>3, <2>1 DEF d
  <2>2. CASE i < j
    <3>1. i \in 1..(j - 1) /\ i + 1 \in 1..j
      BY <2>2
    <3> QED BY <1>3, <3>1 DEF Sums
  <2> QED BY <2>1, <2>2
<1>6. ASSUME NEW i \in 1..(j + 1), NEW l \in 1..(j + 1), i <= l PROVE new[i] <= new[l]
  <2>1. CASE l \in 1..j
    <3>1. i \in 1..j
      BY <1>6, <2>1
    <3> QED BY <1>3, <1>6, <2>1, <3>1 DEF Sums
  <2>2. CASE l = j + 1 /\ i \in 1..j
    <3>1. off[i] <= off[j] /\ off[i] \in Nat
      BY <2>2 DEF Sums
    <3> QED BY <1>1, <1>3, <2>2, <3>1
  <2>3. CASE l = j + 1 /\ i = j + 1
    BY <1>1, <1>3, <2>3
  <2> QED BY <2>1, <2>2, <2>3
<1>7. (j + 1) - 1 = j
  OBVIOUS
<1>8. Sums(new, t, j + 1)
  BY <1>4, <1>5, <1>6, <1>7 DEF Sums
<1> QED BY <1>2, <1>3, <1>8 DEF d, Extended

\* Every message that is small enough has the size that was computed, and is not empty.
LEMMA SmallSize ==
    ASSUME NEW n \in Nat, n < Square * Square, TypeOK, Bounded(n), NEW i \in DOMAIN messages
    PROVE  /\ kind \in Kind /\ messages[i] \in Message(kind) /\ messages[i].size \in Nat
           /\ Size(kind, messages[i]) \in Nat /\ Size(kind, messages[i]) > 0
           /\ Overhead(kind, messages[i]) \in Nat /\ Overhead(kind, messages[i]) >= 10
           /\ Size(kind, messages[i]) >= Overhead(kind, messages[i])
           /\ DataSize(kind, messages[i]) = Size(kind, messages[i])
           /\ Size(kind, messages[i]) <= n
<1>1. kind \in Kind /\ messages[i] \in Message(kind)
  BY DEF TypeOK
<1>2. messages[i].size \in Nat
  <2>1. messages[i].size \in OcaUint32
    BY <1>1 DEF Kind, Message, Command, Response, Notification
  <2> QED BY <2>1, SquareFacts DEF OcaUint32
<1>3. Size(kind, messages[i]) \in Nat
  BY <1>1, DataSizeTyped
<1>4. Size(kind, messages[i]) <= n /\ Size(kind, messages[i]) < Square * Square
  BY <1>3, SquareFacts DEF Bounded
<1>5. DataSize(kind, messages[i]) = Size(kind, messages[i])
  BY <1>1, <1>4, DataSizeTyped
<1> DEFINE v == Vector(kind, messages[i])
<1>6. <<>> \in Bytes
  BY DEF Bytes
<1>7. /\ v \in Bytes /\ Overhead(kind, messages[i]) \in Nat
      /\ Size(kind, messages[i]) = Overhead(kind, messages[i]) + Len(v)
  BY <1>1, <1>6, VectorChanged
<1> HIDE DEF v
<1>8. Len(v) \in Nat
  BY <1>7 DEF Bytes
<1>9. Overhead(kind, messages[i]) >= 10
  BY <1>1, OverheadBound
<1>10. Size(kind, messages[i]) > 0 /\ Size(kind, messages[i]) >= Overhead(kind, messages[i])
  BY <1>7, <1>8, <1>9
<1> QED BY <1>1, <1>2, <1>3, <1>4, <1>5, <1>7, <1>9, <1>10

LEMMA FittingSize ==
    ASSUME NEW n \in Nat, Fits(n), TypeOK, Bounded(n), NEW i \in DOMAIN messages
    PROVE  /\ kind \in Kind /\ messages[i] \in Message(kind) /\ messages[i].size \in Nat
           /\ Size(kind, messages[i]) \in Nat /\ Size(kind, messages[i]) > 0
           /\ DataSize(kind, messages[i]) = Size(kind, messages[i])
           /\ Size(kind, messages[i]) <= n
<1>1. MaxMessages \in Nat /\ MaxMessages >= 1
  BY BoundAssumption, SquareFacts DEF TypeOK, OcaUint16
<1>2. 1 * n <= MaxMessages * n /\ MaxMessages * n \in Nat
  BY <1>1, Product
<1>3. n < Square * Square
  BY <1>2, SquareFacts DEF Fits
<1> QED BY <1>3, SmallSize

LEMMA InitRInv == ASSUME NEW n \in Nat PROVE Init => RInv(n)
<1> SUFFICES ASSUME Init PROVE RInv(n)
  OBVIOUS
<1> DEFINE off == [i \in {1} |-> 0]
<1>1. 1..(Len(messages) + 1) = {1} /\ Len(messages) + 1 = 1
  BY DEF Init
<1>2. off \in [1..(Len(messages) + 1) -> Nat]
  BY <1>1
<1>3. Sums(off, messages, Len(messages) + 1) /\ Laid(off)
  BY <1>1 DEF Init, Sums, Laid
<1>4. Stored
  BY <1>2, <1>3 DEF Stored
<1>5. Bounded(n) /\ Adding(n) /\ Faithful
  BY DEF Init, Bounded, Adding, Faithful
<1> QED BY InitTInv, <1>4, <1>5 DEF RInv

\* Building keeps every message small.
LEMMA PushBounded ==
    ASSUME NEW n \in Nat, Small(n), TypeOK, Bounded(n), PushMessage
    PROVE  Bounded(n)'
<1>1. PICK m \in NewMessage[kind] : messages' = Append(messages, m)
  BY DEF PushMessage
<1>2. kind' = kind
  BY DEF PushMessage
<1>3. kind \in Kind /\ m \in Message(kind) /\ messages \in Seq(Message(kind))
  BY NewMessageAssumption DEF TypeOK
<1> DEFINE j == Len(messages) + 1
<1>4. /\ DOMAIN messages' = 1..j /\ messages'[j] = m
      /\ \A i \in 1..(j - 1) : messages'[i] = messages[i]
      /\ DOMAIN messages = 1..(j - 1) /\ Len(messages) \in Nat
  BY <1>1, <1>3
<1>5. Overhead(kind, m) + MaxVector <= n /\ Size(kind, m) <= n
  <2> DEFINE v == Vector(kind, m)
  <2>1. <<>> \in Bytes
    BY DEF Bytes
  <2>2. v \in Bytes /\ Overhead(kind, m) \in Nat /\ Size(kind, m) = Overhead(kind, m) + Len(v)
    BY <1>3, <2>1, VectorChanged
  <2> HIDE DEF v
  <2>3. Len(v) \in Nat /\ MaxVector \in Nat
    BY <2>2, BoundAssumption DEF Bytes
  <2>4. Size(kind, m) + MaxVector <= n
    BY <1>3 DEF Small
  <2> QED BY <2>2, <2>3, <2>4
<1>6. ASSUME NEW i \in DOMAIN messages'
      PROVE  Overhead(kind, messages'[i]) + MaxVector <= n /\ Size(kind, messages'[i]) <= n
  <2>1. CASE i = j
    BY <1>4, <1>5, <2>1
  <2>2. CASE i \in DOMAIN messages
    BY <1>4, <2>2 DEF Bounded
  <2> QED BY <1>4, <1>6, <2>1, <2>2
<1> QED BY <1>2, <1>6 DEF Bounded

LEMMA AltersBounded ==
    ASSUME NEW n \in Nat, TypeOK, Bounded(n), NEW i \in DOMAIN messages, Alters(i)
    PROVE  Bounded(n)'
<1>1. PICK v \in Bytes :
          /\ Len(v) <= Len(Vector(kind, messages[i])) \/ Len(v) <= MaxVector
          /\ Change(i, v)
  BY DEF Alters
<1> DEFINE w == WithVector(kind, messages[i], v)
<1>2. kind' = kind /\ messages' = [messages EXCEPT ![i] = w]
  BY <1>1 DEF Change
<1>3. kind \in Kind /\ messages \in Seq(Message(kind)) /\ messages[i] \in Message(kind)
  BY DEF TypeOK
<1>4. /\ Overhead(kind, w) = Overhead(kind, messages[i])
      /\ Size(kind, w) = Overhead(kind, messages[i]) + Len(v)
      /\ Overhead(kind, messages[i]) \in Nat /\ Vector(kind, messages[i]) \in Bytes
      /\ Size(kind, messages[i]) = Overhead(kind, messages[i]) + Len(Vector(kind, messages[i]))
  BY <1>3, VectorChanged
<1> DEFINE old == Vector(kind, messages[i])
<1> HIDE DEF w, old
<1>5. Overhead(kind, w) + MaxVector <= n /\ Size(kind, w) <= n
  <2>1. Len(v) \in Nat /\ Len(old) \in Nat /\ MaxVector \in Nat
    BY <1>4, BoundAssumption DEF Bytes, old
  <2>2. /\ Overhead(kind, messages[i]) + MaxVector <= n
        /\ Size(kind, messages[i]) <= n
    BY DEF Bounded
  <2>3. /\ Len(v) <= Len(old) \/ Len(v) <= MaxVector
        /\ Size(kind, messages[i]) = Overhead(kind, messages[i]) + Len(old)
    BY <1>1, <1>4 DEF old
  <2> QED BY <1>4, <2>1, <2>2, <2>3
<1>6. /\ DOMAIN messages' = DOMAIN messages
      /\ messages'[i] = w /\ \A l \in DOMAIN messages : l # i => messages'[l] = messages[l]
  BY <1>2, <1>3
<1>7. ASSUME NEW l \in DOMAIN messages'
      PROVE  Overhead(kind, messages'[l]) + MaxVector <= n /\ Size(kind, messages'[l]) <= n
  <2>1. CASE l = i
    BY <1>5, <1>6, <2>1
  <2>2. CASE l # i
    BY <1>6, <2>2 DEF Bounded
  <2> QED BY <2>1, <2>2
<1> QED BY <1>2, <1>7 DEF Bounded

\* So does the computing of sizes.
LEMMA ComputeNextBounded ==
    ASSUME NEW n \in Nat, TInv, Bounded(n), ComputeNext
    PROVE  Bounded(n)'
<1> DEFINE d == DataSize(kind, messages[next])
<1> DEFINE w == [messages[next] EXCEPT !.size = d]
<1>1. kind' = kind /\ messages' = [messages EXCEPT ![next] = w]
  BY DEF ComputeNext
<1>2. /\ kind \in Kind /\ messages \in Seq(Message(kind)) /\ next \in DOMAIN messages
      /\ messages[next] \in Message(kind)
  BY DEF TInv, TypeOK, Counted, ComputeNext
<1>3. d \in OcaUint32
  BY <1>2, DataSizeTyped
<1>4. /\ Size(kind, w) = Size(kind, messages[next])
      /\ Overhead(kind, w) = Overhead(kind, messages[next])
  BY <1>2, <1>3, SizeChanged
<1> HIDE DEF w, d
<1>5. /\ DOMAIN messages' = DOMAIN messages /\ messages'[next] = w
      /\ \A l \in DOMAIN messages : l # next => messages'[l] = messages[l]
  BY <1>1, <1>2
<1>6. ASSUME NEW l \in DOMAIN messages'
      PROVE  Overhead(kind, messages'[l]) + MaxVector <= n /\ Size(kind, messages'[l]) <= n
  <2>1. CASE l = next
    BY <1>2, <1>4, <1>5, <2>1 DEF Bounded
  <2>2. CASE l # next
    BY <1>5, <2>2 DEF Bounded
  <2> QED BY <2>1, <2>2
<1> QED BY <1>1, <1>6 DEF Bounded

\* Building keeps the sums: what is new has size 0.
LEMMA PushRInv ==
    ASSUME NEW n \in Nat, Fits(n), RInv(n), PushMessage
    PROVE  RInv(n)'
<1>1. PICK m \in NewMessage[kind] : messages' = Append(messages, m)
  BY DEF PushMessage
<1>2. /\ phase = "build" /\ received = <<>>
      /\ UNCHANGED <<phase, kind, total, buffer, header, next, message, received>>
  BY DEF PushMessage, RInv, TInv, Unread
<1>3. kind \in Kind /\ m \in Message(kind) /\ m.size = 0 /\ messages \in Seq(Message(kind))
  BY NewMessageAssumption DEF RInv, TInv, TypeOK
<1> DEFINE j == Len(messages) + 1
<1>4. /\ Len(messages) \in Nat /\ Len(messages') = j /\ DOMAIN messages' = 1..j
      /\ messages'[j] = m /\ \A i \in 1..(j - 1) : messages'[i] = messages[i]
      /\ DOMAIN messages = 1..(j - 1)
  BY <1>1, <1>3
<1>5. Bounded(n)'
  BY PushBounded DEF RInv, TInv, Fits
<1>6. PICK off \in [1..j -> Nat] : Sums(off, messages, j) /\ total = off[j]
  BY <1>2 DEF RInv, Stored, Laid
<1>7. j \in Nat /\ j >= 1 /\ messages'[j].size \in Nat
      /\ \A i \in 1..(j - 1) : messages'[i].size = messages[i].size
  BY <1>3, <1>4
<1>8. PICK new : Extended(new, off, messages', j)
  <2> HIDE DEF j
  <2> QED BY <1>6, <1>7, SumsExtend
<1>9. /\ new \in [1..(j + 1) -> Nat] /\ Sums(new, messages', j + 1)
      /\ new[j + 1] = total' /\ Len(messages') + 1 = j + 1
  BY <1>2, <1>3, <1>4, <1>6, <1>8 DEF Extended
<1> HIDE DEF j
<1>10. Stored'
  BY <1>2, <1>9 DEF Stored, Laid
<1>11. Adding(n)' /\ Faithful'
  BY <1>2 DEF Adding, Faithful
<1> QED BY <1>5, <1>10, <1>11, PushTInv DEF RInv

LEMMA AltersRInv ==
    ASSUME NEW n \in Nat, RInv(n), NEW i \in DOMAIN messages, Alters(i)
    PROVE  RInv(n)'
<1>1. PICK v \in Bytes :
          /\ Len(v) <= Len(Vector(kind, messages[i])) \/ Len(v) <= MaxVector
          /\ Change(i, v)
  BY DEF Alters
<1> DEFINE w == WithVector(kind, messages[i], v)
<1>2. /\ phase = "build" /\ received = <<>> /\ messages' = [messages EXCEPT ![i] = w]
      /\ UNCHANGED <<phase, kind, total, buffer, header, next, message, received>>
  BY <1>1 DEF Change, RInv, TInv, Unread
<1>3. kind \in Kind /\ messages \in Seq(Message(kind)) /\ messages[i] \in Message(kind)
  BY DEF RInv, TInv, TypeOK
<1>4. w.size = messages[i].size
  BY <1>3, VectorChanged
<1> HIDE DEF w
<1>5. /\ DOMAIN messages' = DOMAIN messages /\ Len(messages') = Len(messages)
      /\ messages'[i] = w /\ \A l \in DOMAIN messages : l # i => messages'[l] = messages[l]
      /\ Len(messages) \in Nat /\ DOMAIN messages = 1..Len(messages)
  BY <1>2, <1>3
<1>6. Bounded(n)'
  BY AltersBounded DEF RInv, TInv
<1> DEFINE j == Len(messages) + 1
<1>7. PICK off \in [1..j -> Nat] : Sums(off, messages, j) /\ total = off[j]
  BY <1>2 DEF RInv, Stored, Laid
<1>8. j \in Nat /\ \A l \in 1..(j - 1) : messages'[l].size = messages[l].size
  BY <1>4, <1>5
<1>9. Sums(off, messages', j)
  BY <1>7, <1>8, SumsSame
<1>10. Len(messages') + 1 = j
  BY <1>5
<1> HIDE DEF j
<1>11. Stored'
  BY <1>2, <1>7, <1>9, <1>10 DEF Stored, Laid
<1>12. Adding(n)' /\ Faithful'
  BY <1>2 DEF Adding, Faithful
<1> QED BY <1>6, <1>11, <1>12, AltersTInv DEF RInv

\* Computing the sizes adds them up from the beginning.
LEMMA ComputeBeginRInv ==
    ASSUME NEW n \in Nat, RInv(n), ComputeBegin
    PROVE  RInv(n)'
<1>1. /\ phase = "build" /\ received = <<>> /\ phase' = "compute" /\ next' = 1 /\ total' = 0
      /\ UNCHANGED <<kind, messages, buffer, header, message, received>>
  BY DEF ComputeBegin, RInv, TInv, Unread
<1> DEFINE off == [i \in 1..1 |-> 0]
<1>2. off \in [1..next' -> Nat] /\ off[next'] = total' /\ total' <= (next' - 1) * n
  BY <1>1
<1>3. Sums(off, messages', next')
  BY <1>1 DEF Sums
<1> HIDE DEF off
<1>4. Adding(n)'
  BY <1>2, <1>3 DEF Adding
<1>5. Bounded(n)' /\ Stored' /\ Faithful'
  BY <1>1 DEF RInv, Bounded, Stored, Faithful
<1> QED BY <1>4, <1>5, ComputeTInv DEF RInv

LEMMA ComputeNextRInv ==
    ASSUME NEW n \in Nat, Fits(n), RInv(n), ComputeNext
    PROVE  RInv(n)'
<1> DEFINE d == DataSize(kind, messages[next])
<1> DEFINE w == [messages[next] EXCEPT !.size = d]
<1>1. /\ phase = "compute" /\ next <= Len(messages) /\ total' = Wrap32(total + d)
      /\ messages' = [messages EXCEPT ![next] = w] /\ next' = next + 1
      /\ UNCHANGED <<phase, kind, buffer, header, message, received>>
  BY DEF ComputeNext
<1>2. /\ kind \in Kind /\ messages \in Seq(Message(kind)) /\ next \in 1..Len(messages)
      /\ next \in DOMAIN messages /\ Len(messages) <= MaxMessages
      /\ DOMAIN messages = 1..Len(messages) /\ Len(messages) \in Nat /\ received = <<>>
  BY <1>1 DEF RInv, TInv, TypeOK, Counted, Unread
<1>3. d \in Nat /\ d <= n /\ messages[next] \in Message(kind)
  BY <1>2, FittingSize DEF RInv, TInv
<1>4. d \in OcaUint32
  BY <1>2, DataSizeTyped
<1>5. w.size = d
  BY <1>2, <1>3, <1>4, SizeChanged
<1> HIDE DEF w, d
<1>6. /\ DOMAIN messages' = DOMAIN messages /\ Len(messages') = Len(messages)
      /\ messages'[next] = w
      /\ \A l \in DOMAIN messages : l # next => messages'[l] = messages[l]
  BY <1>1, <1>2
<1>7. Bounded(n)'
  BY ComputeNextBounded DEF RInv
<1>8. PICK off \in [1..next -> Nat] :
          Sums(off, messages, next) /\ total = off[next] /\ total <= (next - 1) * n
  BY <1>1 DEF RInv, Adding
<1>9. /\ next \in Nat /\ next >= 1 /\ messages'[next].size \in Nat
      /\ \A l \in 1..(next - 1) : messages'[l].size = messages[l].size
  <2>1. next \in Nat /\ next >= 1
    BY <1>2
  <2>2. messages'[next].size \in Nat
    BY <1>3, <1>5, <1>6
  <2>3. \A l \in 1..(next - 1) : l \in DOMAIN messages /\ l # next
    BY <1>2, <2>1
  <2> QED BY <1>6, <2>1, <2>2, <2>3
<1>10. PICK new : Extended(new, off, messages', next)
  BY <1>8, <1>9, SumsExtend
<1>11. total \in Nat /\ total + d <= next * n
  <2>1. total \in Nat
    BY <1>8, <1>9
  <2>2. (next - 1) * n = next * n - n /\ next * n \in Nat
    BY <1>9
  <2> QED BY <1>3, <1>8, <2>1, <2>2
<1>12. total + d < Square * Square
  <2>1. MaxMessages \in Nat /\ next <= MaxMessages
    BY <1>2, BoundAssumption, SquareFacts DEF OcaUint16
  <2>2. next * n <= MaxMessages * n /\ next * n \in Nat /\ MaxMessages * n \in Nat
    BY <1>9, <2>1, Product, Zenon
  <2> QED BY <1>3, <1>11, <2>2, SquareFacts DEF Fits
<1>13. total' = total + d
  <2>1. total + d \in Nat
    BY <1>3, <1>11
  <2> QED BY <1>1, <1>12, <2>1, WrapsNothing
<1>14. /\ new \in [1..next' -> Nat] /\ Sums(new, messages', next')
       /\ total' = new[next'] /\ total' <= (next' - 1) * n
  BY <1>1, <1>5, <1>6, <1>8, <1>9, <1>10, <1>11, <1>13 DEF Extended
<1>15. Adding(n)'
  BY <1>14 DEF Adding
<1>16. Stored' /\ Faithful'
  BY <1>1, <1>2 DEF Stored, Faithful
<1> QED BY <1>7, <1>15, <1>16, ComputeTInv DEF RInv

LEMMA ComputeEndRInv ==
    ASSUME NEW n \in Nat, RInv(n), ComputeEnd
    PROVE  RInv(n)'
<1>1. /\ phase = "compute" /\ next > Len(messages) /\ phase' = "build" /\ received = <<>>
      /\ UNCHANGED <<kind, messages, total, buffer, header, next, message, received>>
  BY DEF ComputeEnd, RInv, TInv, Unread
<1>2. next = Len(messages) + 1
  BY <1>1 DEF RInv, TInv, TypeOK, Counted
<1>3. PICK off \in [1..next -> Nat] : Sums(off, messages, next) /\ total = off[next]
  BY <1>1 DEF RInv, Adding
<1>4. Stored'
  BY <1>1, <1>2, <1>3 DEF Stored, Laid
<1>5. Bounded(n)' /\ Adding(n)' /\ Faithful'
  BY <1>1 DEF RInv, Bounded, Adding, Faithful
<1> QED BY <1>4, <1>5, ComputeTInv DEF RInv

-----------------------------------------------------------------------------
\* The room is what the sums come to.
LEMMA WriteHeaderRInv ==
    ASSUME NEW n \in Nat, RInv(n), WriteHeader
    PROVE  RInv(n)'
<1>1. PICK more \in Spare, filler \in {0, Radix - 1} :
          buffer' = Put([i \in 1..(OCP1_HEADER_SIZE + total + more) |-> filler], 0,
                        HeaderBytes(SentHeader))
  BY DEF WriteHeader, SentHeader
<1>2. /\ phase = "build" /\ received = <<>> /\ phase' = "write" /\ next' = 1 /\ message' = 9
      /\ UNCHANGED <<kind, messages, total, header, received>>
  BY DEF WriteHeader, RInv, TInv, Unread, OCP1_HEADER_SIZE
<1> DEFINE b == [i \in 1..(OCP1_HEADER_SIZE + total + more) |-> filler]
<1>3. total \in Nat /\ more \in Nat
  <2>1. total \in Nat
    BY SquareFacts DEF RInv, TInv, TypeOK, OcaUint32
  <2> QED BY <2>1, BoundAssumption
<1>4. DOMAIN b = 1..(9 + total + more) /\ 9 + total + more \in Nat
  BY <1>3 DEF OCP1_HEADER_SIZE
<1>5. DOMAIN buffer' = 1..(9 + total + more)
  <2> HIDE DEF b
  <2> QED BY <1>1, <1>4 DEF Put, b
<1>6. buffer' \in Bytes
  BY WriteHeaderTInv DEF RInv, TInv, TypeOK
<1>7. Len(buffer') = 9 + total + more
  BY <1>4, <1>5, <1>6 DEF Bytes
<1>8. PICK off \in [1..(Len(messages) + 1) -> Nat] :
          /\ Sums(off, messages, Len(messages) + 1) /\ total = off[Len(messages) + 1]
  BY <1>2 DEF RInv, Stored, Laid
<1>9. message' = 9 + off[next'] /\ 9 + off[Len(messages') + 1] <= Len(buffer')
      /\ 1..(next' - 1) = {}
  <2>1. off[1] = 0
    BY <1>8 DEF Sums
  <2> QED BY <1>2, <1>3, <1>7, <1>8, <2>1
<1>10. Stored'
  BY <1>2, <1>8, <1>9 DEF Stored, Laid, OCP1_HEADER_SIZE
<1>11. Bounded(n)' /\ Adding(n)' /\ Faithful'
  BY <1>2 DEF RInv, Bounded, Adding, Faithful
<1> QED BY <1>10, <1>11, WriteHeaderTInv DEF RInv

\* Where a computed message begins and ends.
LEMMA Extent ==
    ASSUME NEW n \in Nat, Fits(n), TypeOK, Bounded(n), Computed,
           NEW off \in [1..(Len(messages) + 1) -> Nat],
           Sums(off, messages, Len(messages) + 1),
           NEW i \in DOMAIN messages, Writable(kind, messages[i])
    PROVE  /\ MessageBytes(kind, messages[i]) \in Bytes
           /\ messages[i].size = Size(kind, messages[i])
           /\ off[i] + Len(MessageBytes(kind, messages[i])) = off[i + 1]
           /\ off[i] + messages[i].size = off[i + 1]
<1>1. /\ kind \in Kind /\ messages[i] \in Message(kind)
      /\ DataSize(kind, messages[i]) = Size(kind, messages[i])
  BY FittingSize
<1>2. messages[i].size = Size(kind, messages[i])
  BY <1>1 DEF Computed
<1>3. /\ MessageBytes(kind, messages[i]) \in Bytes
      /\ Len(MessageBytes(kind, messages[i])) = Size(kind, messages[i])
  BY <1>1, MessageWritten
<1>4. i \in 1..(Len(messages) + 1 - 1)
  BY DEF TypeOK
<1>5. off[i + 1] = off[i] + messages[i].size
  BY <1>4 DEF Sums
<1> QED BY <1>2, <1>3, <1>5

LEMMA WriteNextRInv ==
    ASSUME NEW n \in Nat, Fits(n), RInv(n), WriteNext
    PROVE  RInv(n)'
<1> DEFINE s == MessageBytes(kind, messages[next])
<1>1. /\ phase = "write" /\ next <= Len(messages) /\ message + Len(s) <= Len(buffer)
      /\ buffer' = Put(buffer, message, s) /\ received = <<>>
      /\ message' = message + messages[next].size /\ next' = next + 1
      /\ UNCHANGED <<phase, kind, messages, total, header, received>>
      /\ Writable(kind, messages[next])
  BY DEF WriteNext, Writable, RInv, TInv, Unread
<1>2. /\ kind \in Kind /\ messages \in Seq(Message(kind)) /\ next \in 1..Len(messages)
      /\ next \in DOMAIN messages /\ DOMAIN messages = 1..Len(messages)
      /\ messages[next] \in Message(kind) /\ message \in Nat /\ buffer \in Bytes
      /\ Len(messages) \in Nat /\ TypeOK
  BY <1>1 DEF RInv, TInv, TypeOK, Counted
<1>3. s \in Bytes
  BY <1>1, <1>2, MessageWritten
<1> HIDE DEF s
<1>4. /\ buffer' \in Bytes /\ Len(buffer') = Len(buffer) /\ Written(buffer', message, s)
      /\ \A q \in Nat, t \in Bytes :
             Written(buffer, q, t) /\ q + Len(t) <= message => Written(buffer', q, t)
  BY <1>1, <1>2, <1>3, PutBytes
<1>5. PICK off \in [1..(Len(messages) + 1) -> Nat] :
          /\ Sums(off, messages, Len(messages) + 1)
          /\ message = 9 + off[next] /\ 9 + off[Len(messages) + 1] <= Len(buffer)
          /\ Computed => \A i \in 1..(next - 1) : InPlace(off, i)
  BY <1>1 DEF RInv, Stored, Laid, OCP1_HEADER_SIZE
<1>6. message' = 9 + off[next']
  <2>1. next \in 1..(Len(messages) + 1 - 1) /\ off[next] \in Nat /\ messages[next].size \in Nat
    <3>1. messages[next].size \in OcaUint32
      BY <1>2 DEF Kind, Message, Command, Response, Notification
    <3> QED BY <1>2, <3>1, SquareFacts DEF OcaUint32
  <2>2. off[next + 1] = off[next] + messages[next].size
    BY <1>5, <2>1 DEF Sums
  <2>3. message' = 9 + off[next] + messages[next].size
    BY <1>1, <1>5
  <2>4. 9 + off[next] + messages[next].size = 9 + off[next + 1]
    <3> DEFINE a == off[next]
               b == messages[next].size
               c == off[next + 1]
    <3>1. a \in Nat /\ b \in Nat /\ c = a + b
      BY <2>1, <2>2
    <3> HIDE DEF a, b, c
    <3>2. 9 + a + b = 9 + c
      BY <3>1
    <3> QED BY <3>2 DEF a, b, c
  <2> QED BY <1>1, <2>3, <2>4
<1>7. ASSUME Computed, NEW i \in 1..(next' - 1) PROVE InPlace(off, i)'
  <2>1. CASE i = next
    <3>1. messages'[i] = messages[next] /\ kind' = kind /\ Written(buffer', 9 + off[i], s)
      BY <1>1, <1>4, <1>5, <2>1
    <3> QED BY <1>1, <3>1 DEF InPlace, OCP1_HEADER_SIZE, s
  <2>2. CASE i < next
    <3>1. i \in 1..(next - 1) /\ i \in DOMAIN messages /\ i + 1 <= next
          /\ i + 1 \in 1..(Len(messages) + 1) /\ next \in 1..(Len(messages) + 1)
      BY <1>1, <1>2, <2>2
    <3>2. InPlace(off, i)
      BY <1>5, <1>7, <3>1
    <3> DEFINE t == MessageBytes(kind, messages[i])
    <3>3. t \in Bytes /\ off[i] + Len(t) = off[i + 1]
      BY <1>2, <1>5, <1>7, <3>1, <3>2, Extent DEF RInv, InPlace
    <3>4. Written(buffer, 9 + off[i], t)
      BY <3>2 DEF InPlace, OCP1_HEADER_SIZE
    <3> HIDE DEF t
    <3>5. off[i + 1] <= off[next]
      BY <1>5, <3>1 DEF Sums
    <3>6. off[i] \in Nat /\ off[next] \in Nat /\ off[i + 1] \in Nat /\ Len(t) \in Nat
      BY <3>1, <3>3, <1>2 DEF Bytes
    <3>7. 9 + off[i] \in Nat /\ 9 + off[i] + Len(t) <= message
      <4>1. \A a, b, c, d \in Nat : a + b = c /\ c <= d => 9 + a \in Nat /\ 9 + a + b <= 9 + d
        OBVIOUS
      <4>2. 9 + off[i] \in Nat /\ 9 + off[i] + Len(t) <= 9 + off[next]
        BY <3>3, <3>5, <3>6, <4>1
      <4>3. message = 9 + off[next]
        BY <1>5
      <4> QED BY <4>2, <4>3
    <3>8. Written(buffer', 9 + off[i], t)
      BY <1>4, <3>3, <3>4, <3>7
    <3> QED BY <1>1, <3>2, <3>8 DEF InPlace, OCP1_HEADER_SIZE, t
  <2>3. i = next \/ i < next
    BY <1>1, <1>2
  <2> QED BY <2>1, <2>2, <2>3
<1>8. Computed' = Computed
  BY <1>1 DEF Computed
<1>9. Stored'
  BY <1>1, <1>4, <1>5, <1>6, <1>7, <1>8 DEF Stored, Laid, OCP1_HEADER_SIZE
<1>10. Bounded(n)' /\ Adding(n)' /\ Faithful'
  BY <1>1, <1>8 DEF RInv, Bounded, Adding, Faithful
<1> QED BY <1>9, <1>10, WriteNextTInv DEF RInv

\* What was computed fits.
LEMMA WriteFailsRInv ==
    ASSUME NEW n \in Nat, Fits(n), RInv(n), WriteFails
    PROVE  RInv(n)'
<1>1. /\ phase = "write" /\ next <= Len(messages) /\ phase' \in {"aborted", "outside"}
      /\ received = <<>>
      /\ UNCHANGED <<kind, messages, total, buffer, header, next, message, received>>
  BY DEF WriteFails, RInv, TInv, Unread
<1>2. ASSUME Computed PROVE phase' = "aborted"
  <2> DEFINE s == MessageBytes(kind, messages[next])
  <2>1. SUFFICES ASSUME phase' = "outside" PROVE FALSE
    BY <1>1
  <2>2. Writable(kind, messages[next]) /\ message + Len(s) > Len(buffer)
    BY <2>1 DEF WriteFails, Writable
  <2>3. /\ next \in DOMAIN messages /\ next + 1 \in 1..(Len(messages) + 1) /\ TypeOK
        /\ next \in 1..(Len(messages) + 1) /\ Len(messages) + 1 \in 1..(Len(messages) + 1)
        /\ Len(buffer) \in Nat /\ next + 1 <= Len(messages) + 1
    BY <1>1 DEF RInv, TInv, TypeOK, Counted, Bytes
  <2>4. PICK off \in [1..(Len(messages) + 1) -> Nat] :
            /\ Sums(off, messages, Len(messages) + 1)
            /\ message = 9 + off[next] /\ 9 + off[Len(messages) + 1] <= Len(buffer)
    BY <1>1 DEF RInv, Stored, Laid, OCP1_HEADER_SIZE
  <2>5. s \in Bytes /\ off[next] + Len(s) = off[next + 1]
    BY <1>2, <2>2, <2>3, <2>4, Extent DEF RInv
  <2> HIDE DEF s
  <2>6. off[next + 1] <= off[Len(messages) + 1]
    BY <2>3, <2>4 DEF Sums
  <2>7. /\ off[next] \in Nat /\ off[next + 1] \in Nat /\ off[Len(messages) + 1] \in Nat
        /\ Len(s) \in Nat
    BY <2>3, <2>5 DEF Bytes
  <2>8. \A a, b, c, d, e \in Nat : a + b = c /\ c <= d /\ 9 + d <= e => ~(9 + a + b > e)
    OBVIOUS
  <2>9. 9 + off[next] + Len(s) > Len(buffer)
    BY <2>2, <2>4
  <2> QED BY <2>3, <2>4, <2>5, <2>6, <2>7, <2>8, <2>9, Zenon
<1>3. Computed' = Computed
  BY <1>1 DEF Computed
<1>4. Bounded(n)' /\ Adding(n)' /\ Stored' /\ Faithful'
  BY <1>1, <1>2, <1>3 DEF RInv, Bounded, Adding, Stored, Faithful
<1> QED BY <1>4, EndsTInv DEF RInv

LEMMA WriteEndRInv ==
    ASSUME NEW n \in Nat, RInv(n), WriteEnd
    PROVE  RInv(n)'
<1>1. /\ phase = "write" /\ next > Len(messages) /\ phase' = "sent" /\ received = <<>>
      /\ UNCHANGED <<kind, messages, total, buffer, header, next, message, received>>
  BY DEF WriteEnd, RInv, TInv, Unread
<1>2. next - 1 = Len(messages)
  BY <1>1 DEF RInv, TInv, TypeOK, Counted
<1>3. PICK off \in [1..(Len(messages) + 1) -> Nat] :
          /\ Sums(off, messages, Len(messages) + 1)
          /\ Computed => \A i \in 1..(next - 1) : InPlace(off, i)
  BY <1>1 DEF RInv, Stored, Laid
<1>4. Computed' = Computed /\ \A i : InPlace(off, i)' = InPlace(off, i)
  BY <1>1 DEF Computed, InPlace
<1>5. Stored'
  BY <1>1, <1>2, <1>3, <1>4 DEF Stored, Laid
<1>6. Bounded(n)' /\ Adding(n)' /\ Faithful'
  BY <1>1, <1>4 DEF RInv, Bounded, Adding, Faithful
<1> QED BY <1>5, <1>6, EndsTInv DEF RInv

-----------------------------------------------------------------------------
\* The reader goes by the sums the writer went by.
LEMMA ReadHeaderRInv ==
    ASSUME NEW n \in Nat, RInv(n), ReadHeader
    PROVE  RInv(n)'
<1>1. /\ phase = "sent" /\ phase' = "read" /\ next' = 1 /\ message' = 9 /\ received = <<>>
      /\ UNCHANGED <<kind, messages, total, buffer, received>>
  BY DEF ReadHeader, RInv, TInv, Unread, OCP1_HEADER_SIZE
<1>2. PICK off \in [1..(Len(messages) + 1) -> Nat] :
          /\ Sums(off, messages, Len(messages) + 1)
          /\ Computed => \A i \in 1..Len(messages) : InPlace(off, i)
  BY <1>1 DEF RInv, Stored, Laid
<1>3. message' = 9 + off[next']
  BY <1>1, <1>2 DEF Sums
<1>4. Computed' = Computed /\ \A i : InPlace(off, i)' = InPlace(off, i)
  BY <1>1 DEF Computed, InPlace
<1>5. Stored'
  BY <1>1, <1>2, <1>3, <1>4 DEF Stored, Laid, OCP1_HEADER_SIZE
<1>6. Bounded(n)' /\ Adding(n)' /\ Faithful'
  BY <1>1, <1>4 DEF RInv, Bounded, Adding, Faithful
<1> QED BY <1>5, <1>6, ReadHeaderTInv DEF RInv

\* The message that is read next is there as it was written.
LEMMA ReadsTheNext ==
    ASSUME NEW n \in Nat, Fits(n), RInv(n), Computed, phase = "read",
           next <= header.messageCount,
           NEW off \in [1..(Len(messages) + 1) -> Nat],
           Sums(off, messages, Len(messages) + 1), Laid(off)
    PROVE  /\ HeaderKind = kind /\ next \in DOMAIN messages
           /\ StaysInside(kind, buffer, message) /\ ~Throws(kind, buffer, message)
           /\ MessageFromBuffer(kind, buffer, message) = messages[next]
           /\ message + Uint32FromBuffer(buffer, message) = OCP1_HEADER_SIZE + off[next + 1]
<1>1. HeaderKind = kind /\ header.messageCount = Len(messages)
  BY KindOfHeader DEF RInv, TInv, TypeOK, Headed
<1>2. /\ next \in 1..Len(messages) /\ next \in DOMAIN messages /\ TypeOK
      /\ message \in Nat /\ buffer \in Bytes
  BY <1>1 DEF RInv, TInv, TypeOK, Counted
<1>3. InPlace(off, next) /\ message = OCP1_HEADER_SIZE + off[next]
  BY <1>2 DEF Laid
<1> DEFINE m == messages[next]
<1> DEFINE s == MessageBytes(kind, m)
<1>4. Writable(kind, m) /\ Written(buffer, message, s)
  BY <1>3 DEF InPlace
<1>5. kind \in Kind /\ m \in Message(kind) /\ m.size \in Nat
  BY <1>2, FittingSize DEF RInv
<1>6. m.size = Size(kind, m) /\ off[next] + m.size = off[next + 1]
  BY <1>2, <1>4, Extent DEF RInv
<1>7. Read(kind, m, buffer, message)
  BY <1>2, <1>4, <1>5, MessageWritten
<1>8. /\ StaysInside(kind, buffer, message) /\ ~Throws(kind, buffer, message)
      /\ MessageFromBuffer(kind, buffer, message) = m
      /\ Uint32FromBuffer(buffer, message) = m.size
  BY <1>6, <1>7 DEF Read
<1> HIDE DEF m, s
<1>9. message + m.size = 9 + off[next + 1]
  <2>1. off[next] \in Nat
    BY <1>2 DEF TypeOK
  <2>2. 9 + off[next] + m.size = 9 + off[next + 1]
    BY <1>5, <1>6, <2>1
  <2> QED BY <1>3, <2>2 DEF OCP1_HEADER_SIZE
<1> QED BY <1>1, <1>2, <1>8, <1>9 DEF OCP1_HEADER_SIZE, m

LEMMA ReadNextRInv ==
    ASSUME NEW n \in Nat, Fits(n), RInv(n), ReadNext
    PROVE  RInv(n)'
<1>1. /\ phase = "read" /\ next <= header.messageCount
      /\ received' = Append(received, MessageFromBuffer(HeaderKind, buffer, message))
      /\ message' = message + Uint32FromBuffer(buffer, message) /\ next' = next + 1
      /\ UNCHANGED <<phase, kind, messages, total, buffer, header>>
  BY DEF ReadNext
<1>2. PICK off \in [1..(Len(messages) + 1) -> Nat] :
          Sums(off, messages, Len(messages) + 1) /\ Laid(off)
  BY <1>1 DEF RInv, Stored
<1>3. Computed' = Computed /\ \A i : InPlace(off, i)' = InPlace(off, i)
  BY <1>1 DEF Computed, InPlace
<1>4. Computed =>
          /\ MessageFromBuffer(HeaderKind, buffer, message) = messages[next]
          /\ message' = OCP1_HEADER_SIZE + off[next']
  BY <1>1, <1>2, ReadsTheNext
<1>5. Stored'
  <2>1. Sums(off, messages', Len(messages') + 1)
    BY <1>1, <1>2
  <2>2. Laid(off)'
    BY <1>1, <1>2, <1>3, <1>4 DEF Laid
  <2> QED BY <1>1, <2>1, <2>2 DEF Stored
<1>6. Faithful'
  <2>1. SUFFICES ASSUME Computed PROVE \A i \in DOMAIN received' : received'[i] = messages[i]
    BY <1>1, <1>3 DEF Faithful
  <2>2. /\ received \in Seq(Message(HeaderKind)) /\ Len(received) = next - 1 /\ next \in Nat
        /\ \A i \in DOMAIN received : received[i] = messages[i]
    BY <1>1, <2>1 DEF RInv, TInv, TypeOK, Counted, Faithful
  <2> DEFINE m == MessageFromBuffer(HeaderKind, buffer, message)
  <2>3. m = messages[next] /\ received' = Append(received, m)
    BY <1>1, <1>4, <2>1
  <2> HIDE DEF m
  <2>4. /\ DOMAIN received' = 1..(Len(received) + 1) /\ received'[Len(received) + 1] = m
        /\ DOMAIN received = 1..Len(received) /\ Len(received) \in Nat
        /\ \A i \in 1..Len(received) : received'[i] = received[i]
    BY <2>2, <2>3, AppendProperties
  <2>5. Len(received) + 1 = next
    BY <2>2
  <2>6. ASSUME NEW i \in DOMAIN received' PROVE received'[i] = messages[i]
    <3>1. i \in 1..Len(received) \/ i = Len(received) + 1
      BY <2>4
    <3> QED BY <2>2, <2>3, <2>4, <2>5, <3>1
  <2> QED BY <2>6
<1>7. Bounded(n)' /\ Adding(n)'
  BY <1>1 DEF RInv, Bounded, Adding
<1> QED BY <1>5, <1>6, <1>7, ReadNextTInv DEF RInv

LEMMA ReadEndsRInv ==
    ASSUME NEW n \in Nat, Fits(n), RInv(n), ReadEnd \/ ReadFails
    PROVE  RInv(n)'
<1>1. UNCHANGED <<kind, messages, total, buffer, header, next, message, received>>
  BY DEF ReadEnd, ReadFails
<1>2. phase = "read" /\ phase' \in {"done", "thrown", "outside"}
  BY DEF ReadEnd, ReadFails
<1>3. Computed' = Computed
  BY <1>1 DEF Computed
<1>4. ASSUME Computed PROVE phase' = "done"
  <2>1. SUFFICES ASSUME ReadFails PROVE FALSE
    BY DEF ReadEnd
  <2>2. PICK off \in [1..(Len(messages) + 1) -> Nat] :
            Sums(off, messages, Len(messages) + 1) /\ Laid(off)
    BY <1>2 DEF RInv, Stored
  <2>3. /\ HeaderKind = kind /\ StaysInside(kind, buffer, message)
        /\ ~Throws(kind, buffer, message)
    BY <1>2, <1>4, <2>1, <2>2, ReadsTheNext DEF ReadFails
  <2> QED BY <2>1, <2>3 DEF ReadFails
<1>5. Bounded(n)' /\ Adding(n)' /\ Stored' /\ Faithful'
  BY <1>1, <1>2, <1>3, <1>4 DEF RInv, Bounded, Adding, Stored, Faithful
<1> QED BY <1>5, EndsTInv DEF RInv

LEMMA NextRInv ==
    ASSUME NEW n \in Nat, Fits(n)
    PROVE  RInv(n) /\ [Next]_vars => RInv(n)'
<1> SUFFICES ASSUME RInv(n), [Next]_vars PROVE RInv(n)'
  OBVIOUS
<1>1. CASE PushMessage
  BY <1>1, PushRInv
<1>2. CASE \E i \in DOMAIN messages : Grow(i) \/ Shrink(i)
  BY <1>2, GrowOrShrinkAlters, AltersRInv DEF RInv, TInv
<1>3. CASE ComputeBegin
  BY <1>3, ComputeBeginRInv
<1>4. CASE ComputeNext
  BY <1>4, ComputeNextRInv
<1>5. CASE ComputeEnd
  BY <1>5, ComputeEndRInv
<1>6. CASE WriteHeader
  BY <1>6, WriteHeaderRInv
<1>7. CASE WriteFails
  BY <1>7, WriteFailsRInv
<1>8. CASE WriteNext
  BY <1>8, WriteNextRInv
<1>9. CASE WriteEnd
  BY <1>9, WriteEndRInv
<1>10. CASE ReadHeader
  BY <1>10, ReadHeaderRInv
<1>11. CASE ReadNext
  BY <1>11, ReadNextRInv
<1>12. CASE ReadEnd \/ ReadFails
  BY <1>12, ReadEndsRInv
<1>13. CASE UNCHANGED vars
  <2>1. TInv'
    BY <1>13, NextTInv DEF RInv
  <2>2. UNCHANGED <<phase, kind, messages, total, buffer, header, next, message, received>>
    BY <1>13 DEF vars
  <2>3. Computed' = Computed /\ \A off, i : InPlace(off, i)' = InPlace(off, i)
    BY <2>2 DEF Computed, InPlace
  <2>4. \A off : Laid(off)' = Laid(off)
    BY <2>2, <2>3 DEF Laid
  <2>5. Bounded(n)' /\ Adding(n)' /\ Stored' /\ Faithful'
    BY <2>2, <2>3, <2>4 DEF RInv, Bounded, Adding, Stored, Faithful
  <2> QED BY <2>1, <2>5 DEF RInv
<1> QED BY <1>1, <1>2, <1>3, <1>4, <1>5, <1>6, <1>7, <1>8, <1>9, <1>10, <1>11, <1>12, <1>13
        DEF Next

\* Whenever every size was computed since its message last changed, what fits into n
\* bytes a message and 2^32 bytes in all is written within the room that was computed,
\* read to its end without an exception, and read as it was: ComputeXDataSize, WriteX
\* and XFromBuffer (OcpMessageWriter.cxx:129-284, OcpMessageReader.cxx:104-219) agree
\* on every message of every kind.
THEOREM RoundTripAlways ==
    ASSUME NEW n \in Nat, Fits(n)
    PROVE  Spec => []RoundTrip
<1>1. RInv(n) => RoundTrip
  BY DEF RInv, TInv, Counted, Faithful, RoundTrip
<1>2. Init => RInv(n)
  BY InitRInv
<1>3. RInv(n) /\ [Next]_vars => RInv(n)'
  BY NextRInv
<1> QED BY <1>1, <1>2, <1>3, PTL DEF Spec
-----------------------------------------------------------------------------
\* Third, what holds of any list, its sizes computed or stale.  A message whose vector
\* has changed since is written with more bytes than its size says, or with fewer.

\* The first l bytes of s, as far as s has them, are in the buffer b from offset p on.
Begun(b, p, s, l) == \A j \in 1..Len(s) : j <= l => p + j <= Len(b) /\ b[p + j] = s[j]

\* The first l bytes of x are those of y; v is in x from offset l on.
Alike(x, y, l) == \A j \in 1..l : x[j] = y[j]
Ends(x, l, v) == \A j \in 1..Len(v) : x[l + j] = v[j]
Joined(s, t, r) == /\ r \in Bytes /\ Len(r) = Len(s) + Len(t)
                   /\ Alike(r, s, Len(s)) /\ Ends(r, Len(s), t)

LEMMA Joins == \A s, t \in Bytes : Joined(s, t, s \o t)
BY DEF Joined, Alike, Ends, Bytes

\* A vector v at the end of what is written: what stands before it is no matter of v.
LEMMA Apart ==
    ASSUME NEW s \in Bytes, NEW t \in Bytes, NEW v \in Bytes, NEW w \in Bytes
    PROVE  /\ Alike(s \o (t \o v), s \o (t \o w), Len(s) + Len(t))
           /\ Ends(s \o (t \o v), Len(s) + Len(t), v)
<1> DEFINE x == t \o v
<1> DEFINE y == t \o w
<1>1. Joined(t, v, x) /\ Joined(t, w, y)
  BY Joins
<1> HIDE DEF x, y
<1>2. x \in Bytes /\ y \in Bytes
  BY <1>1 DEF Joined
<1> DEFINE f == s \o x
<1> DEFINE g == s \o y
<1>3. Joined(s, x, f) /\ Joined(s, y, g)
  BY <1>2, Joins
<1> HIDE DEF f, g
<1>4. Len(s) \in Nat /\ Len(t) \in Nat /\ Len(v) \in Nat /\ Len(w) \in Nat
  BY DEF Bytes
<1>5. Len(x) = Len(t) + Len(v) /\ Len(y) = Len(t) + Len(w)
  BY <1>1 DEF Joined
<1>6. ASSUME NEW j \in 1..(Len(s) + Len(t)) PROVE f[j] = g[j]
  <2>1. CASE j <= Len(s)
    <3>1. j \in 1..Len(s)
      BY <1>4, <2>1
    <3> QED BY <1>3, <3>1 DEF Joined, Alike
  <2>2. CASE j > Len(s)
    <3> DEFINE i == j - Len(s)
    <3>1. i \in 1..Len(t) /\ i \in 1..Len(x) /\ i \in 1..Len(y) /\ Len(s) + i = j
      BY <1>4, <1>5, <2>2
    <3> HIDE DEF i
    <3>2. f[Len(s) + i] = x[i] /\ g[Len(s) + i] = y[i]
      BY <1>3, <3>1 DEF Joined, Ends
    <3>3. x[i] = t[i] /\ y[i] = t[i]
      BY <1>1, <3>1 DEF Joined, Alike
    <3> QED BY <3>1, <3>2, <3>3
  <2>3. j \in Int
    OBVIOUS
  <2> QED BY <1>4, <2>1, <2>2, <2>3
<1>7. ASSUME NEW j \in 1..Len(v) PROVE f[Len(s) + Len(t) + j] = v[j]
  <2>1. /\ Len(t) + j \in 1..Len(x)
        /\ Len(s) + (Len(t) + j) = Len(s) + Len(t) + j
    BY <1>4, <1>5
  <2>2. f[Len(s) + (Len(t) + j)] = x[Len(t) + j]
    BY <1>3, <2>1 DEF Joined, Ends
  <2>3. x[Len(t) + j] = v[j]
    BY <1>1 DEF Joined, Ends
  <2> QED BY <2>1, <2>2, <2>3
<1>8. Alike(f, g, Len(s) + Len(t)) /\ Ends(f, Len(s) + Len(t), v)
  BY <1>6, <1>7 DEF Alike, Ends
<1> QED BY <1>8 DEF f, g, x, y

\* The bytes of a message are those of its fields, then those of its last vector; the
\* size comes first.
Divided(k, m) ==
    /\ \A v \in Bytes :
           LET w == MessageBytes(k, WithVector(k, m, v))
           IN  Alike(w, MessageBytes(k, m), Overhead(k, m)) /\ Ends(w, Overhead(k, m), v)
    /\ Alike(MessageBytes(k, m), Uint32Bytes(m.size), 4)

LEMMA CommandDivided ==
    ASSUME NEW m \in Command
    PROVE  Divided("command", m)
<1> DEFINE s == Uint32Bytes(m.size)
<1> DEFINE t == Uint32Bytes(m.handle)
<1> DEFINE u == Uint32Bytes(m.targetONo)
<1> DEFINE x == MethodIdBytes(m.methodId)
<1> DEFINE c == <<m.parameters.parameterCount>>
<1> DEFINE old == m.parameters.parameters
<1>0. /\ m.size \in OcaUint32 /\ m.handle \in OcaUint32 /\ m.targetONo \in OcaUint32
      /\ m.methodId \in OcaMethodId /\ m.parameters \in Parameters
      /\ m.parameters.parameterCount \in OcaUint8 /\ old \in Bytes
  BY DEF Command, Parameters
<1>1. /\ s \in Bytes /\ t \in Bytes /\ u \in Bytes /\ x \in Bytes /\ c \in Bytes
      /\ Len(s) = 4 /\ Len(t) = 4 /\ Len(u) = 4 /\ Len(x) = 4 /\ Len(c) = 1
  BY <1>0, FourBytes, MethodIdWritten, OneByte
<1>2. Overhead("command", m) = 17
  BY DEF Overhead
<1>3. MessageBytes("command", m) = s \o t \o u \o x \o (c \o old)
  BY Zenon DEF MessageBytes, CommandBytes, ParametersBytes
<1>4. ASSUME NEW v \in Bytes
      PROVE  MessageBytes("command", WithVector("command", m, v)) = s \o t \o u \o x \o (c \o v)
  <2> DEFINE w == [m EXCEPT !.parameters.parameters = v]
  <2>1. /\ w.size = m.size /\ w.handle = m.handle /\ w.targetONo = m.targetONo
        /\ w.methodId = m.methodId /\ w.parameters.parameters = v
        /\ w.parameters.parameterCount = m.parameters.parameterCount
    BY <1>0 DEF Command, Parameters
  <2> HIDE DEF w
  <2>2. CommandBytes(w) = s \o t \o u \o x \o (c \o v)
    BY <2>1, Zenon DEF CommandBytes, ParametersBytes
  <2> QED BY <2>2 DEF MessageBytes, WithVector, w
<1> HIDE DEF s, t, u, x, c, old
<1> DEFINE y == s \o t
<1> DEFINE z == y \o u
<1> DEFINE b == z \o x
<1>5. /\ MessageBytes("command", m) = b \o (c \o old)
      /\ \A v \in Bytes : MessageBytes("command", WithVector("command", m, v)) = b \o (c \o v)
  BY <1>3, <1>4, Zenon
<1>6. Joined(s, t, y)
  BY <1>1, Joins
<1> HIDE DEF y
<1>7. y \in Bytes /\ Len(y) = 8 /\ Alike(y, s, 4)
  BY <1>1, <1>6 DEF Joined
<1>8. Joined(y, u, z)
  BY <1>1, <1>7, Joins
<1> HIDE DEF z
<1>9. z \in Bytes /\ Len(z) = 12 /\ Alike(z, y, 8)
  BY <1>1, <1>7, <1>8 DEF Joined
<1>10. Joined(z, x, b)
  BY <1>1, <1>9, Joins
<1> HIDE DEF b
<1>11. b \in Bytes /\ Len(b) = 16 /\ Alike(b, z, 12)
  BY <1>1, <1>9, <1>10 DEF Joined
<1>12. Len(b) + Len(c) = 17
  BY <1>1, <1>11
<1>13. ASSUME NEW v \in Bytes
       PROVE  LET w == MessageBytes("command", WithVector("command", m, v))
              IN  Alike(w, MessageBytes("command", m), 17) /\ Ends(w, 17, v)
  <2>1. old \in Bytes
    BY <1>0 DEF old
  <2>2. /\ Alike(b \o (c \o v), b \o (c \o old), Len(b) + Len(c))
        /\ Ends(b \o (c \o v), Len(b) + Len(c), v)
    BY <1>1, <1>11, <2>1, Apart
  <2> QED BY <1>5, <1>12, <2>2
<1>14. Alike(MessageBytes("command", m), s, 4)
  <2> DEFINE r == c \o old
  <2>1. old \in Bytes
    BY <1>0 DEF old
  <2>2. Joined(c, old, r)
    BY <1>1, <2>1, Joins
  <2>3. MessageBytes("command", m) = b \o r
    BY <1>5
  <2> HIDE DEF r
  <2>4. Joined(b, r, b \o r)
    BY <1>11, <2>2, Joins DEF Joined
  <2>5. Alike(b \o r, b, 16)
    BY <1>11, <2>4 DEF Joined
  <2>6. ASSUME NEW j \in 1..4 PROVE (b \o r)[j] = s[j]
    <3>1. j \in 1..8 /\ j \in 1..12 /\ j \in 1..16
      OBVIOUS
    <3>2. (b \o r)[j] = b[j] /\ b[j] = z[j] /\ z[j] = y[j] /\ y[j] = s[j]
      BY <1>7, <1>9, <1>11, <2>5, <3>1 DEF Alike
    <3> QED BY <3>2
  <2> QED BY <2>3, <2>6 DEF Alike
<1> QED BY <1>2, <1>13, <1>14 DEF Divided, s

LEMMA ResponseDivided ==
    ASSUME NEW m \in Response
    PROVE  Divided("response", m)
<1> DEFINE s == Uint32Bytes(m.size)
<1> DEFINE t == Uint32Bytes(m.handle)
<1> DEFINE u == <<m.statusCode>>
<1> DEFINE c == <<m.parameters.parameterCount>>
<1> DEFINE old == m.parameters.parameters
<1>0. /\ m.size \in OcaUint32 /\ m.handle \in OcaUint32 /\ m.statusCode \in OcaUint8
      /\ m.parameters \in Parameters
      /\ m.parameters.parameterCount \in OcaUint8 /\ old \in Bytes
  BY DEF Response, Parameters
<1>1. /\ s \in Bytes /\ t \in Bytes /\ u \in Bytes /\ c \in Bytes
      /\ Len(s) = 4 /\ Len(t) = 4 /\ Len(u) = 1 /\ Len(c) = 1
  BY <1>0, FourBytes, OneByte
<1>2. Overhead("response", m) = 10
  BY DEF Overhead
<1>3. MessageBytes("response", m) = s \o t \o u \o (c \o old)
  BY Zenon DEF MessageBytes, ResponseBytes, ParametersBytes
<1>4. ASSUME NEW v \in Bytes
      PROVE  MessageBytes("response", WithVector("response", m, v)) = s \o t \o u \o (c \o v)
  <2> DEFINE w == [m EXCEPT !.parameters.parameters = v]
  <2>1. /\ w.size = m.size /\ w.handle = m.handle /\ w.statusCode = m.statusCode
        /\ w.parameters.parameters = v
        /\ w.parameters.parameterCount = m.parameters.parameterCount
    BY <1>0 DEF Response, Parameters
  <2> HIDE DEF w
  <2>2. ResponseBytes(w) = s \o t \o u \o (c \o v)
    BY <2>1, Zenon DEF ResponseBytes, ParametersBytes
  <2> QED BY <2>2 DEF MessageBytes, WithVector, w
<1> HIDE DEF s, t, u, c, old
<1> DEFINE y == s \o t
<1> DEFINE b == y \o u
<1>5. /\ MessageBytes("response", m) = b \o (c \o old)
      /\ \A v \in Bytes : MessageBytes("response", WithVector("response", m, v)) = b \o (c \o v)
  BY <1>3, <1>4, Zenon
<1>6. Joined(s, t, y)
  BY <1>1, Joins
<1> HIDE DEF y
<1>7. y \in Bytes /\ Len(y) = 8 /\ Alike(y, s, 4)
  BY <1>1, <1>6 DEF Joined
<1>8. Joined(y, u, b)
  BY <1>1, <1>7, Joins
<1> HIDE DEF b
<1>9. b \in Bytes /\ Len(b) = 9 /\ Alike(b, y, 8)
  BY <1>1, <1>7, <1>8 DEF Joined
<1>10. Len(b) + Len(c) = 10
  BY <1>1, <1>9
<1>11. ASSUME NEW v \in Bytes
       PROVE  LET w == MessageBytes("response", WithVector("response", m, v))
              IN  Alike(w, MessageBytes("response", m), 10) /\ Ends(w, 10, v)
  <2>1. old \in Bytes
    BY <1>0 DEF old
  <2>2. /\ Alike(b \o (c \o v), b \o (c \o old), Len(b) + Len(c))
        /\ Ends(b \o (c \o v), Len(b) + Len(c), v)
    BY <1>1, <1>9, <2>1, Apart
  <2> QED BY <1>5, <1>10, <2>2
<1>12. Alike(MessageBytes("response", m), s, 4)
  <2> DEFINE r == c \o old
  <2>1. old \in Bytes
    BY <1>0 DEF old
  <2>2. Joined(c, old, r)
    BY <1>1, <2>1, Joins
  <2>3. MessageBytes("response", m) = b \o r
    BY <1>5
  <2> HIDE DEF r
  <2>4. Joined(b, r, b \o r)
    BY <1>9, <2>2, Joins DEF Joined
  <2>5. Alike(b \o r, b, 9)
    BY <1>9, <2>4 DEF Joined
  <2>6. ASSUME NEW j \in 1..4 PROVE (b \o r)[j] = s[j]
    <3>1. j \in 1..8 /\ j \in 1..9
      OBVIOUS
    <3>2. (b \o r)[j] = b[j] /\ b[j] = y[j] /\ y[j] = s[j]
      BY <1>7, <1>9, <2>5, <3>1 DEF Alike
    <3> QED BY <3>2
  <2> QED BY <2>3, <2>6 DEF Alike
<1> QED BY <1>2, <1>11, <1>12 DEF Divided, s

LEMMA NotificationDivided ==
    ASSUME NEW m \in Notification, BlobFits(m.parameters.context)
    PROVE  Divided("notification", m)
<1> DEFINE s == Uint32Bytes(m.size)
<1> DEFINE t == Uint32Bytes(m.targetONo)
<1> DEFINE u == MethodIdBytes(m.methodId)
<1> DEFINE d == <<m.parameters.parameterCount>>
<1> DEFINE e == BlobBytes(m.parameters.context)
<1> DEFINE f == EventBytes(m.parameters.eventData.event)
<1> DEFINE old == m.parameters.eventData.eventParameters
<1> DEFINE n == Len(m.parameters.context)
<1>0. /\ m.size \in OcaUint32 /\ m.targetONo \in OcaUint32 /\ m.methodId \in OcaMethodId
      /\ m.parameters \in NtfParams /\ m.parameters.parameterCount \in OcaUint8
      /\ m.parameters.context \in Bytes /\ m.parameters.eventData \in EventData
      /\ m.parameters.eventData.event \in OcaEvent /\ old \in Bytes
  BY DEF Notification, NtfParams, EventData
<1>1. /\ s \in Bytes /\ t \in Bytes /\ u \in Bytes /\ d \in Bytes /\ e \in Bytes /\ f \in Bytes
      /\ Len(s) = 4 /\ Len(t) = 4 /\ Len(u) = 4 /\ Len(d) = 1 /\ Len(e) = 2 + n /\ Len(f) = 8
  BY <1>0, FourBytes, MethodIdWritten, OneByte, BlobWritten, EventWritten
<1>2. Overhead("notification", m) = 23 + n /\ n \in Nat
  BY <1>0 DEF Overhead, Bytes
<1>3. MessageBytes("notification", m) = s \o t \o u \o (d \o e \o (f \o old))
  BY Zenon DEF MessageBytes, NotificationBytes, NtfParamsBytes, EventDataBytes
<1>4. ASSUME NEW v \in Bytes
      PROVE  MessageBytes("notification", WithVector("notification", m, v))
                 = s \o t \o u \o (d \o e \o (f \o v))
  <2> DEFINE w == [m EXCEPT !.parameters.eventData.eventParameters = v]
  <2>1. /\ w.size = m.size /\ w.targetONo = m.targetONo /\ w.methodId = m.methodId
        /\ w.parameters.parameterCount = m.parameters.parameterCount
        /\ w.parameters.context = m.parameters.context
        /\ w.parameters.eventData.event = m.parameters.eventData.event
        /\ w.parameters.eventData.eventParameters = v
    BY <1>0 DEF Notification, NtfParams, EventData
  <2> HIDE DEF w
  <2>2. NotificationBytes(w) = s \o t \o u \o (d \o e \o (f \o v))
    BY <2>1, Zenon DEF NotificationBytes, NtfParamsBytes, EventDataBytes
  <2> QED BY <2>2 DEF MessageBytes, WithVector, w
<1> HIDE DEF s, t, u, d, e, f, old, n
<1> DEFINE y == s \o t
<1> DEFINE b == y \o u
<1> DEFINE g == d \o e
<1>5. /\ MessageBytes("notification", m) = b \o (g \o (f \o old))
      /\ \A v \in Bytes : MessageBytes("notification", WithVector("notification", m, v))
                              = b \o (g \o (f \o v))
  BY <1>3, <1>4, Zenon
<1>6. Joined(s, t, y) /\ Joined(d, e, g)
  BY <1>1, Joins
<1> HIDE DEF y, g
<1>7. y \in Bytes /\ Len(y) = 8 /\ Alike(y, s, 4)
  BY <1>1, <1>6 DEF Joined
<1>8. g \in Bytes /\ Len(g) = 3 + n
  <2>1. g \in Bytes /\ Len(g) = Len(d) + Len(e)
    BY <1>6 DEF Joined
  <2> QED BY <1>1, <1>2, <2>1
<1>9. Joined(y, u, b)
  BY <1>1, <1>7, Joins
<1> HIDE DEF b
<1>10. b \in Bytes /\ Len(b) = 12 /\ Alike(b, y, 8)
  BY <1>1, <1>7, <1>9 DEF Joined
<1>11. old \in Bytes
  BY <1>0 DEF old
<1>12. ASSUME NEW v \in Bytes
       PROVE  LET w == MessageBytes("notification", WithVector("notification", m, v))
              IN  Alike(w, MessageBytes("notification", m), 23 + n) /\ Ends(w, 23 + n, v)
  <2> DEFINE x == f \o v
  <2> DEFINE z == f \o old
  <2>1. Joined(f, v, x) /\ Joined(f, old, z)
    BY <1>1, <1>11, Joins
  <2> HIDE DEF x, z
  <2>2. /\ x \in Bytes /\ Len(x) = 8 + Len(v) /\ Alike(x, f, 8) /\ Ends(x, 8, v)
        /\ z \in Bytes /\ Len(z) = 8 + Len(old) /\ Alike(z, f, 8)
    BY <1>1, <2>1 DEF Joined
  <2>3. Len(v) \in Nat /\ Len(old) \in Nat
    BY <1>11 DEF Bytes
  <2> DEFINE left == b \o (g \o x)
  <2> DEFINE right == b \o (g \o z)
  <2>4. Alike(left, right, Len(b) + Len(g)) /\ Ends(left, Len(b) + Len(g), x)
    BY <1>8, <1>10, <2>2, Apart
  <2>5. Ends(right, Len(b) + Len(g), z)
    BY <1>8, <1>10, <2>2, Apart
  <2>6. /\ MessageBytes("notification", WithVector("notification", m, v)) = left
        /\ MessageBytes("notification", m) = right
    BY <1>5 DEF x, z
  <2> HIDE DEF left, right
  <2>7. Len(b) + Len(g) = 15 + n
    BY <1>2, <1>8, <1>10
  <2>8. ASSUME NEW j \in 1..(23 + n) PROVE left[j] = right[j]
    <3>1. CASE j <= 15 + n
      <4>1. j \in 1..(Len(b) + Len(g))
        BY <1>2, <2>7, <3>1
      <4> QED BY <2>4, <4>1 DEF Alike
    <3>2. CASE j > 15 + n
      <4> DEFINE i == j - (15 + n)
      <4>1. i \in 1..8 /\ 15 + n + i = j
        BY <1>2, <3>2
      <4> HIDE DEF i
      <4>2. i \in 1..Len(x) /\ i \in 1..Len(z)
        BY <2>2, <2>3, <4>1
      <4>3. left[j] = x[i] /\ right[j] = z[i]
        BY <2>4, <2>5, <2>7, <4>1, <4>2 DEF Ends
      <4>4. x[i] = f[i] /\ z[i] = f[i]
        BY <2>2, <4>1 DEF Alike
      <4> QED BY <4>3, <4>4
    <3>3. j \in Int
      OBVIOUS
    <3> QED BY <1>2, <3>1, <3>2, <3>3
  <2>9. ASSUME NEW j \in 1..Len(v) PROVE left[23 + n + j] = v[j]
    <3>1. 8 + j \in 1..Len(x) /\ 15 + n + (8 + j) = 23 + n + j
      BY <1>2, <2>2, <2>3
    <3>2. left[15 + n + (8 + j)] = x[8 + j]
      BY <2>4, <2>7, <3>1 DEF Ends
    <3>3. x[8 + j] = v[j]
      BY <2>2 DEF Ends
    <3> QED BY <3>1, <3>2, <3>3
  <2>10. Alike(left, right, 23 + n) /\ Ends(left, 23 + n, v)
    BY <2>8, <2>9 DEF Alike, Ends
  <2> QED BY <2>6, <2>10
<1>13. Alike(MessageBytes("notification", m), s, 4)
  <2> DEFINE z == f \o old
  <2>1. Joined(f, old, z)
    BY <1>1, <1>11, Joins
  <2>2. MessageBytes("notification", m) = b \o (g \o z)
    BY <1>5
  <2> HIDE DEF z
  <2> DEFINE r == g \o z
  <2>3. Joined(g, z, r)
    BY <1>8, <2>1, Joins DEF Joined
  <2> HIDE DEF r
  <2>4. Joined(b, r, b \o r)
    BY <1>10, <2>3, Joins DEF Joined
  <2>5. Alike(b \o r, b, 12)
    BY <1>10, <2>4 DEF Joined
  <2>6. MessageBytes("notification", m) = b \o r
    BY <2>2 DEF r
  <2>7. ASSUME NEW j \in 1..4 PROVE (b \o r)[j] = s[j]
    <3>1. j \in 1..8 /\ j \in 1..12
      OBVIOUS
    <3>2. (b \o r)[j] = b[j] /\ b[j] = y[j] /\ y[j] = s[j]
      BY <1>7, <1>10, <2>5, <3>1 DEF Alike
    <3> QED BY <3>2
  <2> QED BY <2>6, <2>7 DEF Alike
<1> QED BY <1>2, <1>12, <1>13 DEF Divided, s

LEMMA MessageDivided ==
    ASSUME NEW k \in Kind, NEW m \in Message(k), Writable(k, m)
    PROVE  Divided(k, m)
BY CommandDivided, ResponseDivided, NotificationDivided DEF Kind, Message, Writable
-----------------------------------------------------------------------------
\* A vector that is put in is there, replaces the one before, and is all that changes.
Replaced(k, m, v, w) ==
    /\ Vector(k, WithVector(k, m, v)) = v
    /\ WithVector(k, WithVector(k, m, v), w) = WithVector(k, m, w)
    /\ WithVector(k, m, Vector(k, m)) = m
    /\ Writable(k, m) => Writable(k, WithVector(k, m, v))

LEMMA CommandVector ==
    ASSUME NEW m \in Command, NEW v \in Bytes, NEW w \in Bytes
    PROVE  Replaced("command", m, v, w)
<1> DEFINE With(x, y) == [x EXCEPT !.parameters.parameters = y]
           Last(x) == x.parameters.parameters
<1>1. Last(With(m, v)) = v /\ With(With(m, v), w) = With(m, w) /\ With(m, Last(m)) = m
  BY DEF Command, Parameters
<1>2. /\ \A x : Vector("command", x) = Last(x)
      /\ \A x, y : WithVector("command", x, y) = With(x, y)
  BY DEF Vector, WithVector
<1>3. Writable("command", m) => Writable("command", With(m, v))
  BY DEF Writable
<1> HIDE DEF With, Last
<1> QED BY <1>1, <1>2, <1>3 DEF Replaced

LEMMA ResponseVector ==
    ASSUME NEW m \in Response, NEW v \in Bytes, NEW w \in Bytes
    PROVE  Replaced("response", m, v, w)
<1> DEFINE With(x, y) == [x EXCEPT !.parameters.parameters = y]
           Last(x) == x.parameters.parameters
<1>1. Last(With(m, v)) = v /\ With(With(m, v), w) = With(m, w) /\ With(m, Last(m)) = m
  BY DEF Response, Parameters
<1>2. /\ \A x : Vector("response", x) = Last(x)
      /\ \A x, y : WithVector("response", x, y) = With(x, y)
  BY DEF Vector, WithVector
<1>3. Writable("response", m) => Writable("response", With(m, v))
  BY DEF Writable
<1> HIDE DEF With, Last
<1> QED BY <1>1, <1>2, <1>3 DEF Replaced

LEMMA NotificationVector ==
    ASSUME NEW m \in Notification, NEW v \in Bytes, NEW w \in Bytes
    PROVE  Replaced("notification", m, v, w)
<1> DEFINE Notified(x) == [size |-> m.size, targetONo |-> m.targetONo, methodId |-> m.methodId,
        parameters |-> [parameterCount |-> m.parameters.parameterCount,
                        context |-> m.parameters.context,
                        eventData |-> [event |-> m.parameters.eventData.event,
                                       eventParameters |-> x]]]
<1> DEFINE With(x, y) == [x EXCEPT !.parameters.eventData.eventParameters = y]
<1> DEFINE Last(x) == x.parameters.eventData.eventParameters
<1>1. \A x : With(m, x) = Notified(x)
  BY DEF Notification, NtfParams, EventData
<1>2. \A x, y : With(Notified(x), y) = Notified(y)
  OBVIOUS
<1>3. m = Notified(m.parameters.eventData.eventParameters)
  BY DEF Notification, NtfParams, EventData
<1>4. \A x : Notified(x).parameters.context = m.parameters.context
  OBVIOUS
<1>5. /\ \A x : Vector("notification", x) = Last(x)
      /\ \A x, y : WithVector("notification", x, y) = With(x, y)
      /\ \A x : Writable("notification", x) <=> BlobFits(x.parameters.context)
  BY DEF Vector, WithVector, Writable
<1>6. \A x : Last(Notified(x)) = x
  OBVIOUS
<1>7. m = Notified(Last(m))
  BY <1>3
<1> HIDE DEF Notified, With, Last
<1>8. /\ Last(With(m, v)) = v /\ With(With(m, v), w) = With(m, w) /\ With(m, Last(m)) = m
      /\ With(m, v).parameters.context = m.parameters.context
  BY <1>1, <1>2, <1>4, <1>6, <1>7
<1> QED BY <1>5, <1>8 DEF Replaced

LEMMA VectorReplaced ==
    ASSUME NEW k \in Kind, NEW m \in Message(k), NEW v \in Bytes, NEW w \in Bytes
    PROVE  Replaced(k, m, v, w)
BY CommandVector, ResponseVector, NotificationVector DEF Kind, Message

LEMMA WrittenBegun ==
    ASSUME NEW b, NEW p \in Nat, NEW s \in Bytes, NEW l \in Nat, Written(b, p, s), Len(b) \in Nat
    PROVE  Begun(b, p, s, l)
<1>1. Len(s) \in Nat
  BY DEF Bytes
<1> QED BY <1>1 DEF Written, Begun

\* What was begun stands when something is written behind it.
LEMMA PutKeeps ==
    ASSUME NEW b \in Bytes, NEW p \in Nat, NEW s \in Bytes, p + Len(s) <= Len(b),
           NEW q \in Nat, NEW t \in Bytes, NEW l \in Nat, q + l <= p, Begun(b, q, t, l)
    PROVE  Begun(Put(b, p, s), q, t, l)
<1> DEFINE new == Put(b, p, s)
<1>1. /\ Len(b) \in Nat /\ Len(s) \in Nat /\ DOMAIN b = 1..Len(b) /\ DOMAIN s = 1..Len(s)
      /\ Len(t) \in Nat
  BY DEF Bytes
<1>2. new = [i \in 1..Len(b) |-> IF i - p \in 1..Len(s) THEN s[i - p] ELSE b[i]]
  BY <1>1 DEF Put
<1>3. Len(new) = Len(b)
  BY PutBytes
<1>4. \A i \in 1..Len(b) : i <= p => new[i] = b[i]
  BY <1>1, <1>2
<1> HIDE DEF new
<1>5. ASSUME NEW j \in 1..Len(t), j <= l PROVE q + j <= Len(new) /\ new[q + j] = t[j]
  <2>1. q + j <= Len(b) /\ b[q + j] = t[j]
    BY <1>5 DEF Begun
  <2>2. q + j \in 1..Len(b) /\ q + j <= p
    BY <1>1, <1>5, <2>1
  <2> QED BY <1>3, <1>4, <2>1, <2>2
<1> QED BY <1>5 DEF Begun, new

\* The first bytes of a message are those of its size.
LEMMA SizeFirst ==
    ASSUME NEW k \in Kind, NEW m \in Message(k), Writable(k, m), NEW b \in Bytes, NEW p \in Nat,
           NEW l \in Nat, l >= 4, Begun(b, p, MessageBytes(k, m), l)
    PROVE  Written(b, p, Uint32Bytes(m.size))
<1> DEFINE s == MessageBytes(k, m)
<1> DEFINE u == Uint32Bytes(m.size)
<1>1. /\ s \in Bytes /\ Len(s) = Overhead(k, m) + Len(Vector(k, m))
      /\ Overhead(k, m) \in Nat /\ Overhead(k, m) >= 10 /\ Vector(k, m) \in Bytes
  <2>1. <<>> \in Bytes
    BY DEF Bytes
  <2> QED BY <2>1, MessageWritten, VectorChanged, OverheadBound
<1>2. Alike(s, u, 4)
  BY MessageDivided DEF Divided
<1>3. Len(u) = 4
  <2>1. m.size \in OcaUint32
    BY DEF Kind, Message, Command, Response, Notification
  <2> QED BY <2>1, FourBytes
<1> HIDE DEF s, u
<1>4. Len(s) \in Nat /\ Len(s) >= 4 /\ Len(b) \in Nat
  <2>1. Len(Vector(k, m)) \in Nat
    BY <1>1 DEF Bytes
  <2> QED BY <1>1, <2>1 DEF Bytes
<1>5. ASSUME NEW j \in 1..4 PROVE p + j <= Len(b) /\ b[p + j] = u[j]
  <2>1. j \in 1..Len(s) /\ j <= l
    BY <1>4
  <2>2. p + j <= Len(b) /\ b[p + j] = s[j]
    BY <2>1 DEF Begun, s
  <2>3. s[j] = u[j]
    BY <1>2 DEF Alike
  <2> QED BY <2>2, <2>3
<1>6. p + 4 <= Len(b)
  BY <1>5
<1> QED BY <1>3, <1>5, <1>6 DEF Written, u

\* A reader that finds the size 0 throws.
LEMMA ZeroThrows ==
    ASSUME NEW k \in Kind, NEW b \in Bytes, NEW p \in Nat, Written(b, p, Uint32Bytes(0)),
           StaysInside(k, b, p)
    PROVE  Throws(k, b, p)
<1>1. 0 \in OcaUint32
  BY SquareFacts DEF OcaUint32
<1>2. Uint32FromBuffer(b, p) = 0
  BY <1>1, FourBytes
<1>3. HeadSize(k, b, p) \in Nat /\ HeadSize(k, b, p) > 0
  <2>1. k = "notification" => ContextSize(b, p) \in Nat
    <3>1. SUFFICES ASSUME k = "notification" PROVE Uint16FromBuffer(b, p + 13) \in Nat
      BY DEF ContextSize
    <3>2. p + 13 \in Nat /\ p + 13 + 2 <= Len(b)
      BY <3>1 DEF StaysInside, FixedSize
    <3>3. Uint16FromBuffer(b, p + 13) \in OcaUint16
      BY <3>2, NumbersTyped
    <3> QED BY <3>3, SquareFacts DEF OcaUint16
  <2> QED BY <2>1 DEF Kind, HeadSize
<1>4. 0 - HeadSize(k, b, p) < 0
  BY <1>3
<1> QED BY <1>2, <1>4 DEF Throws, VectorSize
-----------------------------------------------------------------------------
\* What comes of a message of which the buffer has as many bytes as its size says,
\* whatever follows them: the message, its vector cut or filled up to the size.
LEMMA ReadsStale ==
    ASSUME NEW k \in Kind, NEW m \in Message(k), Writable(k, m),
           m.size \in Nat, m.size >= Overhead(k, m), NEW b \in Bytes, NEW p \in Nat,
           Begun(b, p, MessageBytes(k, m), m.size), StaysInside(k, b, p)
    PROVE  /\ Uint32FromBuffer(b, p) = m.size
           /\ \E v \in Bytes :
                  /\ MessageFromBuffer(k, b, p) = WithVector(k, m, v)
                  /\ Len(v) = m.size - Overhead(k, m)
                  /\ \A j \in DOMAIN v \cap DOMAIN Vector(k, m) : v[j] = Vector(k, m)[j]
<1> DEFINE s == MessageBytes(k, m)
<1> DEFINE n == Overhead(k, m)
<1> DEFINE l == m.size
<1> DEFINE old == Vector(k, m)
<1> DEFINE v == BufferToUint8Vector(b, p + n, l - n)
<1> DEFINE w == WithVector(k, m, v)
<1> DEFINE x == MessageBytes(k, w)
<1>1. /\ n \in Nat /\ n >= 10 /\ old \in Bytes /\ Len(old) \in Nat /\ s \in Bytes
      /\ Len(s) = n + Len(old)
  <2>1. <<>> \in Bytes
    BY DEF Bytes
  <2>2. old \in Bytes /\ n \in Nat /\ Size(k, m) = n + Len(old)
    BY <2>1, VectorChanged
  <2>3. s \in Bytes /\ Len(s) = Size(k, m)
    BY MessageWritten
  <2>4. Len(old) \in Nat
    BY <2>2 DEF Bytes
  <2> QED BY <2>2, <2>3, <2>4, OverheadBound
<1>2. l \in Nat /\ l >= n /\ l - n \in Nat /\ p + n \in Nat /\ Len(b) \in Nat
  <2> HIDE DEF n
  <2> QED BY <1>1 DEF Bytes, n
<1>3. Uint32FromBuffer(b, p) = l
  <2>1. Written(b, p, Uint32Bytes(m.size))
    BY <1>1, <1>2, SizeFirst
  <2>2. m.size \in OcaUint32
    BY DEF Kind, Message, Command, Response, Notification
  <2> QED BY <2>1, <2>2, FourBytes
<1>4. p + l <= Len(b)
  BY <1>3 DEF StaysInside
<1>5. /\ v \in Bytes /\ Len(v) = l - n /\ DOMAIN v = 1..(l - n)
      /\ \A j \in 1..(l - n) : v[j] = b[p + n + j]
  <2> HIDE DEF n, l
  <2>1. p + n + (l - n) <= Len(b)
    BY <1>1, <1>2, <1>4
  <2>2. v \in Bytes
    BY <1>1, <1>2, <2>1, VectorTyped
  <2>3. v = SubSeq(b, p + n + 1, p + n + (l - n))
    BY DEF BufferToUint8Vector
  <2> DEFINE d == l - n
             q == p + n
  <2>4. d \in Nat /\ q \in Nat /\ q + d <= Len(b)
    BY <1>1, <1>2, <2>1
  <2> HIDE DEF d, q
  <2>5. \A i \in (q + 1)..(q + d) : b[i] \in OcaUint8
    BY <1>2, <2>4 DEF Bytes
  <2> DEFINE t == SubSeq(b, q + 1, q + d)
  <2>6. /\ Len(t) = IF q + 1 <= q + d THEN q + d - (q + 1) + 1 ELSE 0
        /\ \A i \in 1..(q + d - (q + 1) + 1) : t[i] = b[q + 1 + i - 1]
    BY <2>4, <2>5, SubSeqProperties
  <2>7. v = t
    BY <2>3 DEF q, d
  <2> HIDE DEF t, v
  <2>8. Len(t) = d
    BY <2>4, <2>6
  <2>9. \A j \in 1..d : t[j] = b[q + j]
    <3>1. SUFFICES ASSUME NEW j \in 1..d PROVE t[j] = b[q + j]
      OBVIOUS
    <3>2. j \in 1..(q + d - (q + 1) + 1) /\ q + 1 + j - 1 = q + j
      BY <2>4
    <3> QED BY <2>6, <3>2
  <2> QED BY <2>2, <2>7, <2>8, <2>9 DEF d, q, Bytes
<1> HIDE DEF v
<1>6. /\ w \in Message(k) /\ w.size = l /\ Size(k, w) = n + Len(v) /\ Writable(k, w)
  BY <1>5, VectorChanged, VectorReplaced DEF Replaced
<1>7. x \in Bytes /\ Len(x) = l /\ Size(k, w) = l
  <2>1. x \in Bytes /\ Len(x) = Size(k, w)
    BY <1>6, MessageWritten
  <2> HIDE DEF n, l, w, x
  <2> QED BY <1>1, <1>2, <1>5, <1>6, <2>1
<1>8. Alike(x, s, n) /\ Ends(x, n, v)
  BY <1>5, MessageDivided DEF Divided
<1>9. Ends(s, n, old)
  <2>1. WithVector(k, m, old) = m
    BY <1>1, VectorReplaced DEF Replaced
  <2>2. Ends(MessageBytes(k, WithVector(k, m, old)), n, old)
    BY <1>1, MessageDivided DEF Divided
  <2> QED BY <2>1, <2>2
<1>10. \A j \in 1..Len(s) : j <= l => b[p + j] = s[j]
  BY DEF Begun
<1> HIDE DEF n, l, s, old, w, x
<1>11. ASSUME NEW j \in 1..l PROVE b[p + j] = x[j]
  <2>1. CASE j <= n
    <3>1. j \in 1..n /\ j \in 1..Len(s)
      BY <1>1, <1>2, <2>1
    <3>2. x[j] = s[j]
      BY <1>8, <3>1 DEF Alike
    <3> QED BY <1>2, <1>10, <3>1, <3>2
  <2>2. CASE j > n
    <3> DEFINE i == j - n
    <3>1. i \in 1..(l - n) /\ n + i = j /\ p + n + i = p + j
      BY <1>1, <1>2, <2>2
    <3> HIDE DEF i
    <3>2. x[n + i] = v[i] /\ v[i] = b[p + n + i]
      BY <1>5, <1>8, <3>1 DEF Ends
    <3> QED BY <3>1, <3>2
  <2> QED BY <1>1, <1>2, <2>1, <2>2
<1>12. Written(b, p, x)
  BY <1>4, <1>7, <1>11 DEF Written
<1>13. MessageFromBuffer(k, b, p) = w
  <2>1. Read(k, w, b, p)
    BY <1>6, <1>12, MessageWritten DEF x
  <2> QED BY <1>6, <1>7, <2>1 DEF Read
<1>14. ASSUME NEW j \in DOMAIN v \cap DOMAIN old PROVE v[j] = old[j]
  <2>1. j \in 1..(l - n) /\ j \in 1..Len(old)
    BY <1>1, <1>5 DEF Bytes
  <2>2. n + j \in 1..Len(s) /\ n + j <= l /\ p + (n + j) = p + n + j
    BY <1>1, <1>2, <2>1
  <2>3. b[p + (n + j)] = s[n + j]
    BY <1>10, <2>2
  <2>4. v[j] = b[p + n + j] /\ s[n + j] = old[j]
    BY <1>5, <1>9, <2>1 DEF Ends
  <2> QED BY <2>2, <2>3, <2>4
<1>15. /\ v \in Bytes /\ MessageFromBuffer(k, b, p) = WithVector(k, m, v)
       /\ Len(v) = m.size - Overhead(k, m)
       /\ \A j \in DOMAIN v \cap DOMAIN Vector(k, m) : v[j] = Vector(k, m)[j]
  BY <1>5, <1>13, <1>14 DEF w, n, l, old
<1>16. Uint32FromBuffer(b, p) = m.size
  BY <1>3 DEF l
<1> QED BY <1>15, <1>16
-----------------------------------------------------------------------------
\* A size that was computed, be it long ago, leaves room for all but the vector; sizes
\* that were not are those of the messages that came last.
Ranked ==
    /\ \A i \in DOMAIN messages :
           messages[i].size = 0 \/ messages[i].size >= Overhead(kind, messages[i])
    /\ \A i, j \in DOMAIN messages : i < j /\ messages[i].size = 0 => messages[j].size = 0
    /\ phase = "compute" => \A i \in 1..(next - 1) : messages[i].size # 0

\* What is left of the i-th message when those behind it are written.
Left(off, i) ==
    /\ Writable(kind, messages[i])
    /\ IF messages[i].size = 0
       THEN Written(buffer, OCP1_HEADER_SIZE + off[i], Uint32Bytes(0))
       ELSE Begun(buffer, OCP1_HEADER_SIZE + off[i], MessageBytes(kind, messages[i]),
                  messages[i].size)

\* The messages before the j-th; nothing moves on after one that has no size.
Row(off, j) ==
    /\ off \in [1..j -> Nat] /\ Sums(off, messages, j)
    /\ \A i \in 1..(j - 1) : Left(off, i) /\ (messages[i].size = 0 => off[i] = off[j])

Rows ==
    /\ phase = "write" => \E off : Row(off, next) /\ message = OCP1_HEADER_SIZE + off[next]
    /\ phase \in {"sent", "read"} => \E off :
           /\ Row(off, Len(messages) + 1)
           /\ phase = "read" => message = OCP1_HEADER_SIZE + off[next]

LInv(n) == TInv /\ Bounded(n) /\ Ranked /\ Rows /\ StaleSizeIsLocal

LEMMA InitLInv == ASSUME NEW n \in Nat PROVE Init => LInv(n)
<1> SUFFICES ASSUME Init PROVE LInv(n)
  OBVIOUS
<1>1. Bounded(n) /\ Ranked /\ Rows /\ StaleSizeIsLocal
  BY DEF Init, Bounded, Ranked, Rows, StaleSizeIsLocal
<1> QED BY InitTInv, <1>1 DEF LInv

\* Building: what is new has no size yet.
LEMMA PushLInv ==
    ASSUME NEW n \in Nat, Small(n), LInv(n), PushMessage
    PROVE  LInv(n)'
<1>1. PICK m \in NewMessage[kind] : messages' = Append(messages, m)
  BY DEF PushMessage
<1>2. /\ phase = "build" /\ phase' = "build" /\ received' = <<>> /\ kind' = kind
  BY DEF PushMessage, LInv, TInv, Unread
<1>3. kind \in Kind /\ m.size = 0 /\ messages \in Seq(Message(kind))
  BY NewMessageAssumption DEF LInv, TInv, TypeOK
<1> DEFINE j == Len(messages) + 1
<1>4. /\ Len(messages) \in Nat /\ DOMAIN messages' = 1..j /\ messages'[j] = m
      /\ DOMAIN messages = 1..(j - 1) /\ \A i \in 1..(j - 1) : messages'[i] = messages[i]
  BY <1>1, <1>3
<1>5. j \in Nat
  BY <1>4
<1> HIDE DEF j
<1>6. ASSUME NEW i \in 1..j, i # j PROVE i \in DOMAIN messages /\ messages'[i] = messages[i]
  BY <1>4, <1>5, <1>6
<1>7. ASSUME NEW i \in DOMAIN messages'
      PROVE  messages'[i].size = 0 \/ messages'[i].size >= Overhead(kind, messages'[i])
  BY <1>3, <1>4, <1>6, <1>7 DEF LInv, Ranked
<1>8. ASSUME NEW i \in DOMAIN messages', NEW l \in DOMAIN messages', i < l, messages'[i].size = 0
      PROVE  messages'[l].size = 0
  <2>1. CASE l = j
    BY <1>3, <1>4, <2>1
  <2>2. CASE l # j
    <3>1. i \in 1..j /\ l \in 1..j /\ i # j
      BY <1>4, <1>5, <1>8
    <3>2. /\ i \in DOMAIN messages /\ messages'[i] = messages[i]
          /\ l \in DOMAIN messages /\ messages'[l] = messages[l]
      BY <1>6, <2>2, <3>1
    <3> QED BY <1>8, <3>2 DEF LInv, Ranked
  <2> QED BY <2>1, <2>2
<1>9. Ranked' /\ Rows'
  BY <1>2, <1>7, <1>8 DEF Ranked, Rows
<1>10. Bounded(n)'
  BY PushBounded DEF LInv, TInv
<1>11. StaleSizeIsLocal'
  BY <1>2 DEF StaleSizeIsLocal
<1> QED BY <1>9, <1>10, <1>11, PushTInv DEF LInv

LEMMA AltersLInv ==
    ASSUME NEW n \in Nat, LInv(n), NEW i \in DOMAIN messages, Alters(i)
    PROVE  LInv(n)'
<1>1. PICK v \in Bytes : Change(i, v)
  BY DEF Alters
<1> DEFINE w == WithVector(kind, messages[i], v)
<1>2. /\ phase = "build" /\ phase' = "build" /\ received' = <<>> /\ kind' = kind
      /\ messages' = [messages EXCEPT ![i] = w]
  BY <1>1 DEF Change, LInv, TInv, Unread
<1>3. kind \in Kind /\ messages \in Seq(Message(kind)) /\ messages[i] \in Message(kind)
  BY DEF LInv, TInv, TypeOK
<1>4. w.size = messages[i].size /\ Overhead(kind, w) = Overhead(kind, messages[i])
  BY <1>3, VectorChanged
<1> HIDE DEF w
<1>5. /\ DOMAIN messages' = DOMAIN messages /\ messages'[i] = w
      /\ \A l \in DOMAIN messages : l # i => messages'[l] = messages[l]
  BY <1>2, <1>3
<1>6. ASSUME NEW l \in DOMAIN messages
      PROVE  /\ messages'[l].size = messages[l].size
             /\ Overhead(kind, messages'[l]) = Overhead(kind, messages[l])
  BY <1>4, <1>5
<1>7. Ranked' /\ Rows'
  BY <1>2, <1>5, <1>6 DEF LInv, Ranked, Rows
<1>8. Bounded(n)'
  BY AltersBounded DEF LInv, TInv
<1>9. StaleSizeIsLocal'
  BY <1>2 DEF StaleSizeIsLocal
<1> QED BY <1>7, <1>8, <1>9, AltersTInv DEF LInv

\* The sizes are computed from the first message on.
LEMMA ComputeNextLInv ==
    ASSUME NEW n \in Nat, n < Square * Square, LInv(n), ComputeNext
    PROVE  LInv(n)'
<1> DEFINE d == DataSize(kind, messages[next])
<1> DEFINE w == [messages[next] EXCEPT !.size = d]
<1>1. /\ phase = "compute" /\ phase' = "compute" /\ kind' = kind /\ next' = next + 1
      /\ messages' = [messages EXCEPT ![next] = w] /\ received' = <<>>
  BY DEF ComputeNext, LInv, TInv, Unread
<1>2. /\ kind \in Kind /\ messages \in Seq(Message(kind)) /\ next \in 1..Len(messages)
      /\ next \in DOMAIN messages /\ messages[next] \in Message(kind)
      /\ DOMAIN messages = 1..Len(messages) /\ TypeOK /\ next \in Nat
  BY DEF ComputeNext, LInv, TInv, TypeOK, Counted
<1>3. d \in OcaUint32
  BY <1>2, DataSizeTyped
<1>4. d \in Nat /\ d > 0 /\ d >= Overhead(kind, messages[next])
  BY <1>2, SmallSize DEF LInv
<1>5. w.size = d /\ Overhead(kind, w) = Overhead(kind, messages[next])
  BY <1>2, <1>3, SizeChanged
<1> HIDE DEF w, d
<1>6. /\ DOMAIN messages' = DOMAIN messages /\ messages'[next] = w
      /\ \A l \in DOMAIN messages : l # next => messages'[l] = messages[l]
  BY <1>1, <1>2
<1>7. ASSUME NEW i \in DOMAIN messages'
      PROVE  messages'[i].size = 0 \/ messages'[i].size >= Overhead(kind, messages'[i])
  BY <1>4, <1>5, <1>6 DEF LInv, Ranked
<1>8. ASSUME NEW i \in 1..(next' - 1) PROVE messages'[i].size # 0
  <2>1. CASE i = next
    BY <1>4, <1>5, <1>6, <2>1
  <2>2. CASE i # next
    <3>1. i \in 1..(next - 1) /\ i \in DOMAIN messages
      BY <1>1, <1>2, <2>2
    <3> QED BY <1>1, <1>6, <2>2, <3>1 DEF LInv, Ranked
  <2> QED BY <2>1, <2>2
<1>9. ASSUME NEW i \in DOMAIN messages', NEW l \in DOMAIN messages', i < l, messages'[i].size = 0
      PROVE  messages'[l].size = 0
  <2>1. i \notin 1..(next' - 1)
    BY <1>8, <1>9
  <2>2. i > next /\ i # next /\ l # next
    BY <1>1, <1>2, <1>6, <1>9, <2>1
  <2> QED BY <1>6, <1>9, <2>2 DEF LInv, Ranked
<1>10. Ranked' /\ Rows'
  BY <1>1, <1>7, <1>8, <1>9 DEF Ranked, Rows
<1>11. Bounded(n)'
  BY ComputeNextBounded DEF LInv
<1>12. StaleSizeIsLocal'
  BY <1>1 DEF StaleSizeIsLocal
<1> QED BY <1>10, <1>11, <1>12, ComputeTInv DEF LInv

\* Whatever leaves the lists alone.
LEMMA ListsSame ==
    ASSUME NEW n \in Nat, LInv(n), UNCHANGED <<kind, messages>>,
           phase' = "compute" => phase = "compute" /\ next' = next
    PROVE  Bounded(n)' /\ Ranked' /\ (received' = received => StaleSizeIsLocal')
BY DEF LInv, Bounded, Ranked, StaleSizeIsLocal

LEMMA ComputeBoundsLInv ==
    ASSUME NEW n \in Nat, LInv(n), ComputeBegin \/ ComputeEnd
    PROVE  LInv(n)'
<1>1. /\ UNCHANGED <<kind, messages, received>> /\ phase' \in {"build", "compute"}
      /\ phase' = "compute" => next' = 1
  BY DEF ComputeBegin, ComputeEnd
<1>2. Bounded(n)' /\ StaleSizeIsLocal' /\ Ranked' /\ Rows'
  BY <1>1 DEF LInv, Bounded, Ranked, Rows, StaleSizeIsLocal
<1> QED BY <1>2, ComputeTInv DEF LInv

LEMMA WriteHeaderLInv ==
    ASSUME NEW n \in Nat, LInv(n), WriteHeader
    PROVE  LInv(n)'
<1>1. /\ phase' = "write" /\ next' = 1 /\ message' = OCP1_HEADER_SIZE
      /\ UNCHANGED <<kind, messages, received>>
  BY DEF WriteHeader
<1> DEFINE off == [i \in 1..1 |-> 0]
<1>2. off \in [1..1 -> Nat] /\ off[1] = 0
  OBVIOUS
<1> HIDE DEF off
<1>3. Sums(off, messages', 1)
  BY <1>2 DEF Sums
<1>4. Row(off, 1)'
  BY <1>2, <1>3 DEF Row
<1>5. message' = OCP1_HEADER_SIZE + off[next']
  BY <1>1, <1>2 DEF OCP1_HEADER_SIZE
<1>6. Rows'
  BY <1>1, <1>4, <1>5 DEF Rows
<1>7. Bounded(n)' /\ Ranked' /\ StaleSizeIsLocal'
  BY <1>1, ListsSame
<1> QED BY <1>6, <1>7, WriteHeaderTInv DEF LInv

\* The loops end, and what fails ends everything.
LEMMA EndsLInv ==
    ASSUME NEW n \in Nat, LInv(n), WriteEnd \/ WriteFails \/ ReadEnd \/ ReadFails
    PROVE  LInv(n)'
<1>1. UNCHANGED <<kind, messages, buffer, next, message, received>>
  BY DEF WriteEnd, WriteFails, ReadEnd, ReadFails
<1>2. CASE WriteEnd
  <2>1. phase = "write" /\ phase' = "sent" /\ next = Len(messages) + 1
    BY <1>2 DEF WriteEnd, LInv, TInv, TypeOK, Counted
  <2>2. PICK off : Row(off, next)
    BY <2>1 DEF LInv, Rows
  <2>3. Row(off, Len(messages) + 1)'
    BY <1>1, <2>1, <2>2 DEF Row, Left
  <2> QED BY <2>1, <2>3, <1>1, <1>2, ListsSame, EndsTInv DEF LInv, Rows
<1>3. CASE WriteFails \/ ReadEnd \/ ReadFails
  <2>1. phase' \in {"aborted", "outside", "done", "thrown"}
    BY <1>3 DEF WriteFails, ReadEnd, ReadFails
  <2> QED BY <2>1, <1>1, <1>3, ListsSame, EndsTInv DEF LInv, Rows
<1> QED BY <1>2, <1>3

LEMMA ReadHeaderLInv ==
    ASSUME NEW n \in Nat, LInv(n), ReadHeader
    PROVE  LInv(n)'
<1>1. /\ phase = "sent" /\ phase' = "read" /\ next' = 1 /\ message' = OCP1_HEADER_SIZE
      /\ UNCHANGED <<kind, messages, buffer, received>>
  BY DEF ReadHeader
<1>2. PICK off : Row(off, Len(messages) + 1)
  BY <1>1 DEF LInv, Rows
<1>3. Row(off, Len(messages) + 1)'
  BY <1>1, <1>2 DEF Row, Left
<1>4. message' = OCP1_HEADER_SIZE + off[next']
  BY <1>1, <1>2 DEF Row, Sums, OCP1_HEADER_SIZE
<1>5. Rows'
  BY <1>1, <1>3, <1>4 DEF Rows
<1>6. Bounded(n)' /\ Ranked' /\ StaleSizeIsLocal'
  BY <1>1, ListsSame
<1> QED BY <1>5, <1>6, ReadHeaderTInv DEF LInv
-----------------------------------------------------------------------------
\* A message is written over the end of the one before it if that was too long for its
\* size, and never over what its size says.
LEMMA WriteNextLInv ==
    ASSUME NEW n \in Nat, n < Square * Square, LInv(n), WriteNext
    PROVE  LInv(n)'
<1> DEFINE s == MessageBytes(kind, messages[next])
<1>1. /\ phase = "write" /\ phase' = "write" /\ message + Len(s) <= Len(buffer)
      /\ buffer' = Put(buffer, message, s)
      /\ message' = message + messages[next].size /\ next' = next + 1
      /\ UNCHANGED <<kind, messages, received>>
      /\ Writable(kind, messages[next])
  BY DEF WriteNext, Writable
<1>2. /\ kind \in Kind /\ next \in 1..Len(messages) /\ next \in DOMAIN messages /\ next \in Nat
      /\ DOMAIN messages = 1..Len(messages) /\ Len(messages) \in Nat /\ TypeOK
      /\ message \in Nat /\ buffer \in Bytes
      /\ messages[next] \in Message(kind) /\ messages[next].size \in Nat
  <2>1. next \in 1..Len(messages) /\ TypeOK
    BY DEF WriteNext, LInv, TInv, TypeOK, Counted
  <2>2. messages \in Seq(Message(kind))
    BY <2>1 DEF TypeOK
  <2>3. next \in DOMAIN messages
    BY <2>1, <2>2
  <2> QED BY <2>1, <2>2, <2>3, SmallSize DEF LInv, TypeOK
<1>3. s \in Bytes
  BY <1>1, <1>2, MessageWritten
<1>4. PICK off : Row(off, next) /\ message = OCP1_HEADER_SIZE + off[next]
  BY <1>1 DEF LInv, Rows
<1>5. off \in [1..next -> Nat] /\ Sums(off, messages, next) /\ next >= 1
  BY <1>2, <1>4 DEF Row
<1>6. PICK new : Extended(new, off, messages, next)
  BY <1>2, <1>5, SumsExtend
<1>7. /\ new \in [1..next' -> Nat] /\ Sums(new, messages', next')
      /\ new[next'] = off[next] + messages[next].size
      /\ \A i \in 1..next : new[i] = off[i]
  BY <1>1, <1>6 DEF Extended
<1> HIDE DEF s
<1>8. buffer' \in Bytes /\ Written(buffer', message, s)
  BY <1>1, <1>2, <1>3, PutBytes
<1>9. \A l \in Nat : Begun(buffer', message, s, l)
  <2>1. Len(buffer') \in Nat
    BY <1>8 DEF Bytes
  <2> QED BY <1>2, <1>3, <1>8, <2>1, WrittenBegun
<1>10. messages[next].size = 0 => Written(buffer', message, Uint32Bytes(0))
  <2>1. Begun(buffer', message, s, 4)
    BY <1>9
  <2>2. Written(buffer', message, Uint32Bytes(messages[next].size))
    BY <1>1, <1>2, <1>8, <2>1, SizeFirst DEF s
  <2> QED BY <2>2
<1>11. ASSUME NEW i \in 1..(next' - 1)
       PROVE  Left(new, i)' /\ (messages'[i].size = 0 => new[i] = new[next'])
  <2>1. CASE i = next
    <3>1. message = OCP1_HEADER_SIZE + new[i] /\ Begun(buffer', message, s, messages[i].size)
      BY <1>2, <1>4, <1>7, <1>9, <2>1
    <3>2. Left(new, i)'
      BY <1>1, <1>10, <2>1, <3>1 DEF Left, OCP1_HEADER_SIZE, s
    <3>3. messages[i].size = 0 => new[i] = new[next']
      <4>1. off[next] \in Nat /\ new[i] = off[next]
        BY <1>2, <1>5, <1>7, <2>1
      <4> QED BY <1>7, <2>1, <4>1
    <3> QED BY <1>1, <3>2, <3>3
  <2>2. CASE i # next
    <3>1. /\ i \in 1..(next - 1) /\ i \in 1..next /\ i + 1 \in 1..next /\ next \in 1..next
          /\ i \in DOMAIN messages /\ i < next /\ i + 1 <= next
      BY <1>1, <1>2, <1>11, <2>2
    <3>2. Left(off, i) /\ (messages[i].size = 0 => off[i] = off[next])
      BY <1>4, <3>1 DEF Row
    <3>3. new[i] = off[i] /\ off[i] \in Nat /\ off[next] \in Nat
      BY <1>5, <1>7, <3>1
    <3>4. /\ messages[i] \in Message(kind) /\ messages[i].size \in Nat
          /\ Writable(kind, messages[i])
      BY <1>2, <3>1, <3>2, SmallSize DEF LInv, Left
    <3>5. CASE messages[i].size = 0
      <4>1. messages[next].size = 0
        BY <1>2, <3>1, <3>5 DEF LInv, Ranked
      <4>2. new[next'] = off[next] /\ new[i] = off[next]
        BY <1>7, <3>2, <3>3, <3>5, <4>1
      <4>3. Written(buffer', OCP1_HEADER_SIZE + new[i], Uint32Bytes(0))
        BY <1>4, <1>10, <4>1, <4>2
      <4> QED BY <1>1, <3>4, <3>5, <4>2, <4>3 DEF Left, OCP1_HEADER_SIZE
    <3>6. CASE messages[i].size # 0
      <4> DEFINE t == MessageBytes(kind, messages[i])
      <4>1. Begun(buffer, OCP1_HEADER_SIZE + off[i], t, messages[i].size) /\ t \in Bytes
        BY <1>2, <3>2, <3>4, <3>6, MessageWritten DEF Left
      <4> HIDE DEF t
      <4>2. off[i] + messages[i].size <= off[next]
        <5>1. off[i + 1] = off[i] + messages[i].size
          BY <1>5, <3>1 DEF Sums
        <5>2. off[i + 1] <= off[next]
          BY <1>5, <3>1 DEF Sums
        <5> QED BY <5>1, <5>2
      <4> DEFINE q == OCP1_HEADER_SIZE + off[i]
                 l == messages[i].size
      <4>3. q \in Nat /\ l \in Nat /\ q + l <= message
        <5> DEFINE a == off[i]
                   z == off[next]
        <5>1. a \in Nat /\ z \in Nat /\ l \in Nat /\ a + l <= z /\ message = 9 + z /\ q = 9 + a
          BY <1>4, <3>3, <3>4, <4>2 DEF OCP1_HEADER_SIZE
        <5> HIDE DEF a, z, l, q
        <5> QED BY <5>1
      <4>4. Begun(buffer, q, t, l)
        BY <4>1
      <4> HIDE DEF q, l
      <4>5. Begun(buffer', q, t, l)
        BY <1>1, <1>2, <1>3, <4>1, <4>3, <4>4, PutKeeps
      <4>6. Begun(buffer', OCP1_HEADER_SIZE + new[i], t, messages[i].size)
        BY <3>3, <4>5 DEF q, l
      <4> QED BY <1>1, <3>4, <3>6, <4>6 DEF Left, OCP1_HEADER_SIZE, t
    <3> QED BY <3>5, <3>6
  <2> QED BY <2>1, <2>2
<1>12. message' = OCP1_HEADER_SIZE + new[next']
  <2> DEFINE a == off[next]
             l == messages[next].size
  <2>1. a \in Nat /\ l \in Nat /\ message' = 9 + a + l /\ new[next'] = a + l
    BY <1>1, <1>2, <1>4, <1>5, <1>7 DEF OCP1_HEADER_SIZE
  <2> HIDE DEF a, l
  <2>2. 9 + a + l = 9 + (a + l)
    BY <2>1
  <2> QED BY <2>1, <2>2 DEF OCP1_HEADER_SIZE
<1>13. Row(new, next)'
  BY <1>7, <1>11 DEF Row
<1>14. Rows'
  BY <1>1, <1>12, <1>13 DEF Rows
<1>15. Bounded(n)' /\ Ranked' /\ StaleSizeIsLocal'
  BY <1>1, ListsSame
<1> QED BY <1>14, <1>15, WriteNextTInv DEF LInv

\* The reader goes from message to message as the writer did, or throws.
LEMMA ReadNextLInv ==
    ASSUME NEW n \in Nat, n < Square * Square, LInv(n), ReadNext
    PROVE  LInv(n)'
<1> DEFINE m == messages[next]
<1>1. /\ phase = "read" /\ phase' = "read" /\ next <= header.messageCount
      /\ StaysInside(HeaderKind, buffer, message) /\ ~Throws(HeaderKind, buffer, message)
      /\ received' = Append(received, MessageFromBuffer(HeaderKind, buffer, message))
      /\ message' = message + Uint32FromBuffer(buffer, message) /\ next' = next + 1
      /\ UNCHANGED <<kind, messages, buffer>>
  BY DEF ReadNext
<1>2. HeaderKind = kind /\ header.messageCount = Len(messages)
  BY <1>1, KindOfHeader DEF LInv, TInv, TypeOK, Headed
<1>3. /\ kind \in Kind /\ messages \in Seq(Message(kind)) /\ next \in 1..Len(messages)
      /\ next \in DOMAIN messages /\ next \in Nat /\ Len(messages) \in Nat
      /\ message \in Nat /\ buffer \in Bytes /\ TypeOK
  BY <1>1, <1>2 DEF LInv, TInv, TypeOK, Counted
<1>4. /\ m \in Message(kind) /\ m.size \in Nat /\ Overhead(kind, m) \in Nat
      /\ m.size = 0 \/ m.size >= Overhead(kind, m)
  BY <1>3, SmallSize DEF LInv, Ranked
<1>5. PICK off : Row(off, Len(messages) + 1) /\ message = OCP1_HEADER_SIZE + off[next]
  BY <1>1 DEF LInv, Rows
<1>6. /\ off \in [1..(Len(messages) + 1) -> Nat] /\ Left(off, next)
      /\ off[next + 1] = off[next] + m.size /\ off[next] \in Nat
  BY <1>3, <1>5 DEF Row, Sums
<1>7. m.size # 0 /\ Writable(kind, m)
  <2>1. SUFFICES ASSUME m.size = 0 PROVE FALSE
    BY <1>6 DEF Left
  <2>2. Written(buffer, message, Uint32Bytes(0))
    BY <1>5, <1>6, <2>1 DEF Left
  <2> QED BY <1>1, <1>2, <1>3, <2>2, ZeroThrows
<1>8. Begun(buffer, message, MessageBytes(kind, m), m.size)
  BY <1>5, <1>6, <1>7 DEF Left
<1>9. StaysInside(kind, buffer, message) /\ m.size >= Overhead(kind, m)
  BY <1>1, <1>2, <1>4, <1>7
<1> HIDE DEF m
<1>10. /\ Uint32FromBuffer(buffer, message) = m.size
       /\ \E v \in Bytes :
              /\ MessageFromBuffer(kind, buffer, message) = WithVector(kind, m, v)
              /\ Len(v) = m.size - Overhead(kind, m)
              /\ \A j \in DOMAIN v \cap DOMAIN Vector(kind, m) : v[j] = Vector(kind, m)[j]
  BY <1>3, <1>4, <1>7, <1>8, <1>9, ReadsStale
<1>11. PICK v \in Bytes :
           /\ MessageFromBuffer(kind, buffer, message) = WithVector(kind, m, v)
           /\ Len(v) = m.size - Overhead(kind, m)
           /\ \A j \in DOMAIN v \cap DOMAIN Vector(kind, m) : v[j] = Vector(kind, m)[j]
  BY <1>10
<1>12. Rows'
  <2>1. message' = OCP1_HEADER_SIZE + off[next']
    <3> DEFINE a == off[next]
               l == m.size
    <3>1. a \in Nat /\ l \in Nat /\ message' = 9 + a + l /\ off[next'] = a + l
      BY <1>1, <1>4, <1>5, <1>6, <1>10 DEF OCP1_HEADER_SIZE
    <3> HIDE DEF a, l
    <3>2. 9 + a + l = 9 + (a + l)
      BY <3>1
    <3> QED BY <3>1, <3>2 DEF OCP1_HEADER_SIZE
  <2>2. Row(off, Len(messages) + 1)'
    BY <1>1, <1>5 DEF Row, Left
  <2> QED BY <1>1, <2>1, <2>2 DEF Rows
<1>13. Bounded(n)' /\ Ranked'
  BY <1>1, ListsSame
<1> DEFINE w == WithVector(kind, m, v)
<1>14. /\ Vector(kind, w) = v /\ <<>> \in Bytes
       /\ WithVector(kind, w, <<>>) = WithVector(kind, m, <<>>)
       /\ Size(kind, m) = Overhead(kind, m) + Len(Vector(kind, m))
       /\ Len(Vector(kind, m)) \in Nat
  <2>1. <<>> \in Bytes
    BY DEF Bytes
  <2>2. /\ Vector(kind, w) = v
        /\ WithVector(kind, w, <<>>) = WithVector(kind, m, <<>>)
    BY <1>3, <1>4, <2>1, VectorReplaced DEF Replaced
  <2>3. /\ Size(kind, m) = Overhead(kind, m) + Len(Vector(kind, m))
        /\ Vector(kind, m) \in Bytes
    BY <1>3, <1>4, VectorChanged
  <2>4. Len(Vector(kind, m)) \in Nat
    BY <2>3 DEF Bytes
  <2> QED BY <2>1, <2>2, <2>3, <2>4
<1>15. received' = Append(received, w)
  BY <1>1, <1>2, <1>11
<1> HIDE DEF w
<1>16. Len(v) - Len(Vector(kind, m)) = m.size - Size(kind, m)
  <2> DEFINE a == Len(v)
             c == Len(Vector(kind, m))
             l == m.size
             o == Overhead(kind, m)
             z == Size(kind, m)
  <2>1. a = l - o /\ z = o + c /\ l \in Nat /\ o \in Nat /\ c \in Nat
    BY <1>4, <1>11, <1>14
  <2> HIDE DEF a, c, l, o, z
  <2>2. a - c = l - z
    BY <2>1
  <2> QED BY <2>2 DEF a, c, l, o, z
<1>17. received \in Seq(Message(HeaderKind)) /\ Len(received) = next - 1
  BY <1>1 DEF LInv, TInv, TypeOK, Counted
<1>18. /\ DOMAIN received' = 1..(Len(received) + 1) /\ received'[Len(received) + 1] = w
       /\ DOMAIN received = 1..Len(received) /\ Len(received) \in Nat
       /\ \A i \in 1..Len(received) : received'[i] = received[i]
  BY <1>15, <1>17, AppendProperties
<1>19. Len(received) + 1 = next
  BY <1>3, <1>17
<1>20. StaleSizeIsLocal'
  <2>1. SUFFICES ASSUME NEW i \in DOMAIN received'
                 PROVE  LET sent == Vector(kind, messages[i])
                            got == Vector(kind, received'[i])
                        IN  /\ WithVector(kind, received'[i], <<>>)
                                   = WithVector(kind, messages[i], <<>>)
                            /\ Len(got) - Len(sent) = messages[i].size - Size(kind, messages[i])
                            /\ \A j \in DOMAIN sent \cap DOMAIN got : got[j] = sent[j]
    BY <1>1 DEF StaleSizeIsLocal
  <2>2. CASE i = next
    <3>1. received'[i] = w /\ messages[i] = m
      BY <1>18, <1>19, <2>2 DEF m
    <3> QED BY <1>11, <1>14, <1>16, <3>1
  <2>3. CASE i # next
    <3>1. i \in DOMAIN received /\ received'[i] = received[i]
      BY <1>18, <1>19, <2>3
    <3> QED BY <3>1 DEF LInv, StaleSizeIsLocal
  <2> QED BY <2>2, <2>3
<1> QED BY <1>12, <1>13, <1>20, ReadNextTInv DEF LInv

LEMMA NextLInv ==
    ASSUME NEW n \in Nat, Small(n), n < Square * Square
    PROVE  LInv(n) /\ [Next]_vars => LInv(n)'
<1> SUFFICES ASSUME LInv(n), [Next]_vars PROVE LInv(n)'
  OBVIOUS
<1>1. CASE PushMessage
  BY <1>1, PushLInv
<1>2. CASE \E i \in DOMAIN messages : Grow(i) \/ Shrink(i)
  BY <1>2, GrowOrShrinkAlters, AltersLInv DEF LInv, TInv
<1>3. CASE ComputeBegin \/ ComputeEnd
  BY <1>3, ComputeBoundsLInv
<1>4. CASE ComputeNext
  BY <1>4, ComputeNextLInv
<1>5. CASE WriteHeader
  BY <1>5, WriteHeaderLInv
<1>6. CASE WriteNext
  BY <1>6, WriteNextLInv
<1>7. CASE ReadHeader
  BY <1>7, ReadHeaderLInv
<1>8. CASE ReadNext
  BY <1>8, ReadNextLInv
<1>9. CASE WriteEnd \/ WriteFails \/ ReadEnd \/ ReadFails
  BY <1>9, EndsLInv
<1>10. CASE UNCHANGED vars
  <2>1. UNCHANGED <<phase, kind, messages, total, buffer, header, next, message, received>>
    BY <1>10 DEF vars
  <2>2. TInv'
    BY <1>10, NextTInv DEF LInv
  <2>3. Bounded(n)' /\ Ranked' /\ StaleSizeIsLocal'
    BY <2>1, ListsSame
  <2>4. \A off, j : Row(off, j)' = Row(off, j)
    BY <2>1 DEF Row, Left
  <2>5. Rows'
    BY <2>1, <2>4 DEF LInv, Rows
  <2> QED BY <2>2, <2>3, <2>5 DEF LInv
<1> QED BY <1>1, <1>2, <1>3, <1>4, <1>5, <1>6, <1>7, <1>8, <1>9, <1>10 DEF Next

\* A size that was not computed again after its message had changed costs bytes of that
\* message's vector or adds some: all else that is received is what was sent, message
\* by message, whatever the caller forgot and in whatever order he built the list (the
\* loops at OcpMessageWriter.cxx:93-103, 149-158, 249-258 and at
\* OcpMessageReader.cxx:104-219 move on by the same sizes).  No message may take 2^32
\* bytes; the list may.
THEOREM StaleSizeIsLocalAlways ==
    ASSUME NEW n \in Nat, Small(n), n < Square * Square
    PROVE  Spec => []StaleSizeIsLocal
<1>1. LInv(n) => StaleSizeIsLocal
  BY DEF LInv
<1>2. Init => LInv(n)
  BY InitLInv
<1>3. LInv(n) /\ [Next]_vars => LInv(n)'
  BY NextLInv
<1> QED BY <1>1, <1>2, <1>3, PTL DEF Spec
=============================================================================
