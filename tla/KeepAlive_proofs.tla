--------------------------- MODULE KeepAlive_proofs ---------------------------
(***************************************************************************)
(* Proofs about KeepAlive: what is on the wire between two liboca          *)
(* endpoints, the periods both of them supervise with, and how soon a      *)
(* supervisor notices silence and ends, for any number of endpoints, any   *)
(* period and any delay on the way.                                        *)
(***************************************************************************)
EXTENDS KeepAlive, ConnectionEndpoint_proofs

-----------------------------------------------------------------------------
\* The invariant.  Whole(s, off): s is what is left of a number of heartbeats, all of
\* StartTime, when the first off bytes of the first are gone.

Full(n) == n % 12 = 0
Place(n) == (n % 12) + 1
Whole(s, off) ==
    /\ Full(Len(s) + off)
    /\ \A i \in 1..Len(s) : s[i] = KeepAlive(StartTime)[Place(i - 1 + off)]

\* After n bytes of such a row there is, in s, a message that is no heartbeat, or the
\* beginning of one, and whatever comes behind it.  The byte behind its header is no sync
\* byte: with it the reader has lost its way.
Other(s, off, n) ==
    /\ Full(n + off)
    /\ \A i \in 1..n : s[i] = KeepAlive(StartTime)[Place(i - 1 + off)]
    /\ s[n + 1] = SyncValue
    /\ n + 8 <= Len(s) => s[n + 8] # OcaKeepAlive
    /\ n + 11 <= Len(s) => s[n + 11] # SyncValue
OneOther(s, off) == \E n \in 0..(Len(s) - 1) : Other(s, off, n)

\* recv returns all there is, and a peer that is no endpoint of the model sends heartbeats of
\* StartTime, whole ones, and one other message, a command say, at most.
Steady ==
    /\ Fragment = FALSE
    /\ (\E e \in Endpoint : Peer[e] \notin Endpoint) =>
           \A s \in Script : Whole(s, 0) \/ OneOther(s, 0)

\* What the receive thread has read of a message.
Off(x) == CASE pc[x]["receive"] = "header" -> 1
            [] pc[x]["receive"] \in {"stamp", "body"} -> 10
            [] OTHER -> 0

\* Nothing more will be read.
Cut(x) == stream[x] = <<>> /\ remote[x] # "open"
Ended(x) == process[x] # "up" \/ fd[x] = "closed" \/ Cut(x)

\* The thread has read the sync byte of that other message, or more.
Astride(x) ==
    LET s == stream[x] IN
    CASE pc[x]["receive"] = "header" ->
             (7 <= Len(s) => s[7] # OcaKeepAlive) /\ (10 <= Len(s) => s[10] # SyncValue)
      [] pc[x]["receive"] = "stamp" ->
             MessageType(received[x]) # OcaKeepAlive /\ (s # <<>> => s[1] # SyncValue)
      [] pc[x]["receive"] \in {"loop", "sync"} -> s # <<>> => s[1] # SyncValue
      [] OTHER -> pc[x]["receive"] = "done"

Lost(x) == Peer[x] \notin Endpoint /\ Astride(x)

Framed(x) ==
    \/ Ended(x) \/ Whole(stream[x], Off(x)) \/ Lost(x)
    \/ Peer[x] \notin Endpoint /\ OneOther(stream[x], Off(x))

\* Who has told the other side of its end sends no more.
Gone(x) == Peer[x] \in Endpoint /\ remote[x] # "open" =>
              fd[Peer[x]] = "closed" \/ process[Peer[x]] # "up"

StampedRight(x) ==
    pc[x]["receive"] = "stamp" =>
        Ended(x) \/ Lost(x) \/ MessageType(received[x]) = OcaKeepAlive
AppliedRight(x) ==
    pc[x]["receive"] = "apply" => HeartbeatIn(received[x]) = StartTime

\* A descriptor is closed by the destructor of a Client only.
Held(x) ==
    pc[x]["owner"] \in BeforeServing \cup {"serving"} =>
        fd[x] = "open" \/ pc[x]["receive"] = "done"

Wire(x) == Framed(x) /\ Gone(x) /\ StampedRight(x) /\ AppliedRight(x) /\ Held(x)

\* Nobody pushes before heartbeatTime is StartTime.
Pushing == {"build", "check", "lock", "recheck", "construct", "bump"}
Timely(x) ==
    \/ pc[x]["owner"] \in Pushing \/ pc[x]["supervisor"] # "off" \/ pc[x]["receive"] = "activate"
    => heartbeatTime[x] = StartTime

Announced(m) == m = StartTime \/ m = NoMessage
Announces(x) ==
    /\ \A i \in 1..Len(messageQueue[x]) : Announced(messageQueue[x][i])
    /\ Announced(sending[x])
    /\ \A t \in Pusher : Announced(built[x][t])

Periodic(x) ==
    /\ pc[x]["supervisor"] \notin {"off", "period", "astray"} => heartbeatPeriod[x] = StartTime
    /\ pc[x]["supervisor"] \notin {"off", "period", "patience", "astray"} =>
           timeoutPeriod[x] = 3 * StartTime

Says(x) == Timely(x) /\ Announces(x) /\ Periodic(x)

AInv == \A x \in Endpoint : Wire(x) /\ Says(x)

\* In time.  The bounds on what a supervisor has let pass at each place of its loop.
Bound == 3 * StartTime + StartTime \div 2
Deadline == Bound + StartTime \div 2

Reading(x) ==
    /\ pc[x]["receive"] = "body" =>
           sinceReceived[x] <= MaxLag /\ (sinceReceived[x] <= lag[x] \/ Ended(x))
    /\ pc[x]["receive"] \in {"apply", "activate"} => sinceReceived[x] <= MaxLag

SupervisorAt == {"off", "period", "patience", "loop", "diff", "timeout", "sleep", "sleeping",
                 "done", "astray"} \cup Pushing
Watching(x) ==
    /\ pc[x]["supervisor"] \in SupervisorAt
    /\ pc[x]["supervisor"] \in {"period", "patience"} => sinceReceived[x] < Bound
    /\ pc[x]["supervisor"] = "loop" =>
           sinceReceived[x] < (IF shouldContinue[x] THEN Bound ELSE Deadline)
    /\ pc[x]["supervisor"] = "diff" => sinceReceived[x] < Bound
    /\ pc[x]["supervisor"] \in Pushing \cup {"timeout"} =>
           /\ sinceReceived[x] < Bound
           /\ ~expired[x] => sinceReceived[x] < 3 * StartTime
    /\ pc[x]["supervisor"] = "sleep" =>
           /\ sinceReceived[x] < Bound
           /\ shouldContinue[x] => sinceReceived[x] < 3 * StartTime
    /\ pc[x]["supervisor"] = "sleeping" =>
           sinceReceived[x] + sleepLeft[x] < (IF shouldContinue[x] THEN Bound ELSE Deadline)

BInv ==
    /\ lag \in [Endpoint -> 0..MaxLag]
    /\ \A x \in Endpoint : process[x] = "up" => Reading(x) /\ Watching(x)

-----------------------------------------------------------------------------
\* Heartbeats in a row.

LEMMA Places ==
    /\ \A l, o \in Nat : \A j \in 1..12 : Full(l + o) => Place((l + j) - 1 + o) = j
    /\ \A n \in 0..11 : Place(n) = n + 1
    /\ \A n \in Nat : Place(n + 12) = Place(n)
    /\ \A n \in Nat : Full(n + 12) <=> Full(n)
<1>1. \A l, o \in Nat : \A j \in 1..12 :
          (l + o) % 12 = 0 => (((l + j) - 1 + o) % 12) + 1 = j
  BY SMT
<1>2. \A n \in 0..11 : (n % 12) + 1 = n + 1
  BY SMT
<1>3. \A n \in Nat : (n + 12) % 12 = n % 12
  BY SMT
<1> QED BY <1>1, <1>2, <1>3 DEF Full, Place

LEMMA TwoParts ==
    ASSUME NEW s \in Seq(Byte), NEW t \in Seq(Byte)
    PROVE  /\ Len(s \o t) = Len(s) + Len(t)
           /\ \A i \in 1..Len(s) : (s \o t)[i] = s[i]
           /\ \A i \in 1..Len(t) : (s \o t)[Len(s) + i] = t[i]
OBVIOUS

LEMMA AHeartbeat ==
    /\ KeepAlive(StartTime) \in Seq(Byte) /\ Len(KeepAlive(StartTime)) = 12
    /\ KeepAlive(StartTime)[1] = SyncValue
    /\ KeepAlive(StartTime)[8] = OcaKeepAlive
    /\ KeepAlive(StartTime)[11] = High(StartTime)
    /\ KeepAlive(StartTime)[12] = Low(StartTime)
<1>1. KeepAlive(StartTime) \in Seq(Byte)
  BY KeepAliveBytes, TimeAssumption
<1> QED BY <1>1 DEF KeepAlive

\* One more is sent.
LEMMA RowGoesOn ==
    ASSUME NEW s \in Seq(Byte), NEW k \in Seq(Byte), NEW w \in Seq(Byte), NEW off \in Nat,
           Full(Len(s) + off),
           \A i \in 1..Len(s) : s[i] = k[Place(i - 1 + off)],
           Len(w) = Len(s) + 12,
           \A i \in 1..Len(s) : w[i] = s[i],
           \A j \in 1..12 : w[Len(s) + j] = k[j]
    PROVE  /\ Full(Len(w) + off)
           /\ \A i \in 1..Len(w) : w[i] = k[Place(i - 1 + off)]
<1>1. Len(s) \in Nat
  OBVIOUS
<1>2. Full(Len(w) + off)
  <2>1. (Len(s) + off) + 12 = Len(w) + off /\ Len(s) + off \in Nat
    BY <1>1
  <2>2. Full((Len(s) + off) + 12)
    BY <2>1, Places
  <2> QED BY <2>1, <2>2
<1>3. ASSUME NEW i \in 1..Len(w) PROVE w[i] = k[Place(i - 1 + off)]
  <2>1. \/ i \in 1..Len(s)
        \/ \E j \in 1..12 : i = Len(s) + j
    <3>1. \A l \in Nat : \A n \in 1..(l + 12) :
              n \in 1..l \/ (n - l \in 1..12 /\ n = l + (n - l))
      BY SMT
    <3>2. i \in 1..(Len(s) + 12)
      BY Zenon
    <3> QED BY <1>1, <3>1, <3>2, Zenon
  <2>2. CASE i \in 1..Len(s)
    BY <2>2, Zenon
  <2>3. ASSUME NEW j \in 1..12, i = Len(s) + j PROVE w[i] = k[Place(i - 1 + off)]
    <3>1. Place((Len(s) + j) - 1 + off) = j
      BY <1>1, Places
    <3>2. w[Len(s) + j] = k[j]
      BY Zenon
    <3> QED BY <2>3, <3>1, <3>2, Zenon
  <2> QED BY <2>1, <2>2, <2>3
<1> QED BY <1>2, <1>3

LEMMA WholeAppend ==
    ASSUME NEW s \in Seq(Byte), NEW off \in Nat, Whole(s, off)
    PROVE  Whole(s \o KeepAlive(StartTime), off)
<1>1. KeepAlive(StartTime) \in Seq(Byte) /\ Len(KeepAlive(StartTime)) = 12
  BY AHeartbeat
<1>2. /\ Len(s \o KeepAlive(StartTime)) = Len(s) + Len(KeepAlive(StartTime))
      /\ \A i \in 1..Len(s) : (s \o KeepAlive(StartTime))[i] = s[i]
      /\ \A i \in 1..Len(KeepAlive(StartTime)) :
             (s \o KeepAlive(StartTime))[Len(s) + i] = KeepAlive(StartTime)[i]
  BY <1>1, TwoParts
<1>3. s \o KeepAlive(StartTime) \in Seq(Byte)
  BY <1>1
<1> DEFINE k == KeepAlive(StartTime)
           w == s \o k
<1>4. /\ k \in Seq(Byte) /\ w \in Seq(Byte) /\ Len(w) = Len(s) + 12
      /\ \A i \in 1..Len(s) : w[i] = s[i]
      /\ \A i \in 1..12 : w[Len(s) + i] = k[i]
  BY <1>1, <1>2, <1>3, Zenon
<1>5. Full(Len(s) + off) /\ \A i \in 1..Len(s) : s[i] = k[Place(i - 1 + off)]
  BY DEF Whole
<1>6. /\ Full(Len(w) + off)
      /\ \A i \in 1..Len(w) : w[i] = k[Place(i - 1 + off)]
  <2> HIDE DEF w, k
  <2> QED BY <1>4, <1>5, RowGoesOn
<1> QED BY <1>6 DEF Whole

\* Some bytes are received.
LEMMA WholeRest ==
    ASSUME NEW s \in Seq(Byte), NEW off \in Nat, NEW n \in 0..Len(s), Whole(s, off)
    PROVE  Whole(SubSeq(s, n + 1, Len(s)), off + n)
<1> DEFINE r == SubSeq(s, n + 1, Len(s))
           k == KeepAlive(StartTime)
<1>1. Len(s) \in Nat /\ n \in Nat /\ n <= Len(s)
  OBVIOUS
<1>2. Len(r) = Len(s) - n /\ \A i \in 1..Len(r) : r[i] = s[i + n]
  BY <1>1
<1> HIDE DEF r, k
<1>3. Full(Len(s) + off) /\ \A i \in 1..Len(s) : s[i] = k[Place(i - 1 + off)]
  BY DEF Whole, k
<1>4. Full(Len(r) + (off + n))
  <2>1. Len(r) + (off + n) = Len(s) + off
    BY <1>1, <1>2
  <2> QED BY <1>3, <2>1
<1>5. ASSUME NEW i \in 1..Len(r) PROVE r[i] = k[Place(i - 1 + (off + n))]
  <2>1. i + n \in 1..Len(s) /\ (i + n) - 1 + off = i - 1 + (off + n)
    BY <1>1, <1>2
  <2>2. s[i + n] = k[Place((i + n) - 1 + off)]
    BY <1>3, <2>1
  <2> QED BY <1>2, <2>1, <2>2
<1> QED BY <1>4, <1>5 DEF Whole, r, k

\* A heartbeat has been read to its end.
LEMMA WholeTurn ==
    ASSUME NEW s \in Seq(Byte), Whole(s, 12)
    PROVE  Whole(s, 0)
<1>1. Len(s) \in Nat /\ Len(s) + 0 = Len(s)
  OBVIOUS
<1>2. Full(Len(s) + 0)
  BY <1>1, Places DEF Whole
<1>3. ASSUME NEW i \in 1..Len(s) PROVE Place(i - 1 + 12) = Place(i - 1 + 0)
  <2>1. i - 1 \in Nat /\ i - 1 + 0 = i - 1
    OBVIOUS
  <2> QED BY <2>1, Places
<1> QED BY <1>2, <1>3 DEF Whole

\* What recv finds at the three places where it is called.
LEMMA WholeSync ==
    ASSUME NEW s \in Seq(Byte), s # <<>>, Whole(s, 0)
    PROVE  s[1] = SyncValue
<1>1. 1 \in 1..Len(s) /\ Place(1 - 1 + 0) = 1
  BY Places
<1> QED BY <1>1, AHeartbeat DEF Whole

LEMMA WholeHeader ==
    ASSUME NEW s \in Seq(Byte), s # <<>>, Whole(s, 1)
    PROVE  Len(s) >= 9 /\ MessageType(SubSeq(s, 1, 9)) = OcaKeepAlive
<1>1. Len(s) \in Nat /\ Len(s) > 0
  OBVIOUS
<1>2. \A a \in Nat : a > 0 /\ Full(a + 1) => a >= 11
  BY SMT DEF Full
<1>3. Len(s) >= 11
  BY <1>1, <1>2 DEF Whole
<1>4. 7 \in 1..Len(s) /\ Place(7 - 1 + 1) = 8
  BY <1>1, <1>3, Places
<1>5. s[7] = KeepAlive(StartTime)[8]
  BY <1>4 DEF Whole
<1>6. Len(SubSeq(s, 1, 9)) = 9 /\ SubSeq(s, 1, 9)[7] = s[7]
  BY <1>1, <1>3
<1> QED BY <1>1, <1>3, <1>5, <1>6, AHeartbeat DEF MessageType

LEMMA WholeBody ==
    ASSUME NEW s \in Seq(Byte), s # <<>>, Whole(s, 10)
    PROVE  Len(s) >= 2 /\ HeartbeatIn(SubSeq(s, 1, 2)) = StartTime
<1>1. Len(s) \in Nat /\ Len(s) > 0
  OBVIOUS
<1>2. \A a \in Nat : a > 0 /\ Full(a + 10) => a >= 2
  BY SMT DEF Full
<1>3. Len(s) >= 2
  BY <1>1, <1>2 DEF Whole
<1>4. /\ 1 \in 1..Len(s) /\ Place(1 - 1 + 10) = 11
      /\ 2 \in 1..Len(s) /\ Place(2 - 1 + 10) = 12
  BY <1>1, <1>3, Places
<1>5. s[1] = High(StartTime) /\ s[2] = Low(StartTime)
  BY <1>4, AHeartbeat DEF Whole
<1>6. SubSeq(s, 1, 2)[1] = s[1] /\ SubSeq(s, 1, 2)[2] = s[2]
  BY <1>1, <1>3
<1>7. \A h \in Nat : (h \div 256) * 256 + (h % 256) = h
  BY SMT
<1>8. StartTime \in Nat
  BY TimeAssumption, UInt16IsNat
<1> QED BY <1>3, <1>5, <1>6, <1>7, <1>8 DEF HeartbeatIn, High, Low

\* In the middle of a heartbeat there is something to read.
LEMMA WholeRestOfOne ==
    ASSUME NEW off \in {1, 10}
    PROVE  ~Whole(<<>>, off)
<1>1. Len(<<>>) = 0 /\ ~Full(0 + off)
  BY DEF Full
<1> QED BY <1>1 DEF Whole

\* The same of a row with another message behind it: before that is reached, the
\* reader finds what it finds in a row.
LEMMA OtherRest ==
    ASSUME NEW s \in Seq(Byte), NEW off \in Nat, NEW n \in 0..(Len(s) - 1), Other(s, off, n),
           NEW m \in 0..n
    PROVE  OneOther(SubSeq(s, m + 1, Len(s)), off + m)
<1> DEFINE r == SubSeq(s, m + 1, Len(s))
           k == KeepAlive(StartTime)
<1>1. Len(s) \in Nat /\ n \in Nat /\ m \in Nat /\ m <= n /\ n < Len(s)
  OBVIOUS
<1>2. Len(r) = Len(s) - m /\ \A i \in 1..Len(r) : r[i] = s[i + m]
  BY <1>1
<1>3. /\ Full(n + off)
      /\ \A i \in 1..n : s[i] = k[Place(i - 1 + off)]
      /\ s[n + 1] = SyncValue
      /\ n + 8 <= Len(s) => s[n + 8] # OcaKeepAlive
      /\ n + 11 <= Len(s) => s[n + 11] # SyncValue
  BY DEF Other
<1> DEFINE q == n - m
<1>4. q \in Nat /\ q + m = n /\ q \in 0..(Len(r) - 1) /\ q + (off + m) = n + off
  BY <1>1, <1>2
<1> HIDE DEF r, k, q
<1>5. ASSUME NEW i \in 1..q PROVE r[i] = k[Place(i - 1 + (off + m))]
  <2>1. i + m \in 1..n /\ (i + m) - 1 + off = i - 1 + (off + m) /\ i \in 1..Len(r)
    BY <1>1, <1>2, <1>4
  <2> QED BY <1>2, <1>3, <2>1
<1>6. ASSUME NEW j \in 1..11, q + j <= Len(r)
      PROVE  n + j <= Len(s) /\ r[q + j] = s[n + j]
  <2>1. \A a, b, c, d \in Nat : c + b = a /\ c + j <= d - b =>
            (c + j) + b = a + j /\ a + j <= d /\ 1 <= c + j /\ c + j \in Nat
    OBVIOUS
  <2>2. (q + j) + m = n + j /\ n + j <= Len(s) /\ 1 <= q + j /\ q + j \in Nat
    BY <1>1, <1>2, <1>4, <1>6, <2>1
  <2>3. q + j \in 1..Len(r)
    BY <1>1, <1>2, <1>6, <2>2
  <2> QED BY <1>2, <2>2, <2>3
<1>7. q + 1 <= Len(r)
  BY <1>1, <1>2, <1>4
<1>8. r[q + 1] = SyncValue
  BY <1>3, <1>6, <1>7
<1>9. (q + 8 <= Len(r) => r[q + 8] # OcaKeepAlive) /\ (q + 11 <= Len(r) => r[q + 11] # SyncValue)
  BY <1>3, <1>6
<1>10. Other(r, off + m, q)
  BY <1>3, <1>4, <1>5, <1>8, <1>9 DEF Other, k
<1> QED BY <1>4, <1>10 DEF OneOther, r, q

LEMMA OtherTurn ==
    ASSUME NEW s \in Seq(Byte), OneOther(s, 12)
    PROVE  OneOther(s, 0)
<1>1. PICK n \in 0..(Len(s) - 1) : Other(s, 12, n)
  BY DEF OneOther
<1>2. n \in Nat /\ n + 0 = n
  OBVIOUS
<1>3. Full(n + 0)
  BY <1>1, <1>2, Places DEF Other
<1>4. ASSUME NEW i \in 1..n PROVE Place(i - 1 + 12) = Place(i - 1 + 0)
  <2>1. i - 1 \in Nat /\ i - 1 + 0 = i - 1
    OBVIOUS
  <2> QED BY <2>1, Places
<1>5. Other(s, 0, n)
  BY <1>1, <1>3, <1>4 DEF Other
<1> QED BY <1>5 DEF OneOther

LEMMA RestLength ==
    ASSUME NEW s \in Seq(Byte), Len(s) > 0
    PROVE  Len(SubSeq(s, 2, Len(s))) = Len(s) - 1
<1>1. \A m \in Nat : m <= Len(s) => Len(SubSeq(s, m + 1, Len(s))) = Len(s) - m
  <2> TAKE m \in Nat
  <2>1. Len(s) \in Nat
    OBVIOUS
  <2> QED BY <2>1
<1>2. 1 + 1 = 2 /\ 1 <= Len(s)
  OBVIOUS
<1> QED BY <1>1, <1>2

LEMMA OtherSync ==
    ASSUME NEW s \in Seq(Byte), OneOther(s, 0)
    PROVE  /\ s # <<>> /\ s[1] = SyncValue /\ Len(SubSeq(s, 2, Len(s))) = Len(s) - 1
           /\ \/ OneOther(SubSeq(s, 2, Len(s)), 1)
              \/ /\ 7 <= Len(s) - 1 => SubSeq(s, 2, Len(s))[7] # OcaKeepAlive
                 /\ 10 <= Len(s) - 1 => SubSeq(s, 2, Len(s))[10] # SyncValue
<1>1. PICK n \in 0..(Len(s) - 1) : Other(s, 0, n)
  BY DEF OneOther
<1>2. Len(s) \in Nat /\ Len(s) > 0 /\ n \in Nat
  BY <1>1
<1>3. Len(SubSeq(s, 2, Len(s))) = Len(s) - 1
  BY <1>2, RestLength
<1>4. CASE n = 0
  <2>1. /\ s[1] = SyncValue /\ (8 <= Len(s) => s[8] # OcaKeepAlive)
        /\ (11 <= Len(s) => s[11] # SyncValue)
    BY <1>1, <1>4 DEF Other
  <2>2. /\ 8 <= Len(s) => SubSeq(s, 2, Len(s))[7] = s[8]
        /\ 11 <= Len(s) => SubSeq(s, 2, Len(s))[10] = s[11]
    BY <1>2
  <2> QED BY <1>2, <1>3, <2>1, <2>2
<1>5. CASE n # 0
  <2>1. 1 \in 1..n /\ 1 \in 0..n
    BY <1>2, <1>5
  <2>2. s[1] = KeepAlive(StartTime)[1]
    <3>1. s[1] = KeepAlive(StartTime)[Place(1 - 1 + 0)]
      BY <1>1, <2>1 DEF Other
    <3>2. Place(1 - 1 + 0) = 1
      BY Places
    <3> QED BY <3>1, <3>2
  <2>3. OneOther(SubSeq(s, 1 + 1, Len(s)), 0 + 1)
    BY <1>1, <2>1, OtherRest
  <2> QED BY <1>2, <1>3, <2>2, <2>3, AHeartbeat
<1> QED BY <1>4, <1>5

\* In the middle of a heartbeat the rest of it is there.
LEMMA OtherLater ==
    ASSUME NEW s \in Seq(Byte), NEW off \in 1..11, OneOther(s, off)
    PROVE  /\ Len(s) >= 12 - off
           /\ \A i \in 1..(12 - off) : s[i] = KeepAlive(StartTime)[off + i]
           /\ \A m \in 0..(12 - off) : OneOther(SubSeq(s, m + 1, Len(s)), off + m)
<1>1. PICK n \in 0..(Len(s) - 1) : Other(s, off, n)
  BY DEF OneOther
<1>2. Len(s) \in Nat /\ n \in Nat /\ n < Len(s) /\ off \in Nat
  BY <1>1
<1>3. \A a \in Nat : \A o \in 1..11 : Full(a + o) => a >= 12 - o
  BY SMT DEF Full
<1>4. n >= 12 - off
  BY <1>1, <1>2, <1>3 DEF Other
<1>5. ASSUME NEW i \in 1..(12 - off) PROVE s[i] = KeepAlive(StartTime)[off + i]
  <2>1. i \in 1..n /\ i - 1 + off \in 0..11 /\ (i - 1 + off) + 1 = off + i
    BY <1>2, <1>4
  <2>2. Place(i - 1 + off) = off + i
    BY <2>1, Places
  <2> QED BY <1>1, <2>1, <2>2 DEF Other
<1>6. ASSUME NEW m \in 0..(12 - off) PROVE OneOther(SubSeq(s, m + 1, Len(s)), off + m)
  <2>1. m \in 0..n
    BY <1>2, <1>4
  <2> QED BY <1>1, <1>2, <2>1, OtherRest
<1> QED BY <1>2, <1>4, <1>5, <1>6

LEMMA OtherHeader ==
    ASSUME NEW s \in Seq(Byte), OneOther(s, 1)
    PROVE  /\ Len(s) >= 9 /\ MessageType(SubSeq(s, 1, 9)) = OcaKeepAlive
           /\ OneOther(SubSeq(s, 10, Len(s)), 10)
<1>1. /\ Len(s) >= 12 - 1 /\ s[7] = KeepAlive(StartTime)[1 + 7]
      /\ OneOther(SubSeq(s, 9 + 1, Len(s)), 1 + 9)
  BY OtherLater
<1>2. Len(SubSeq(s, 1, 9)) = 9 /\ SubSeq(s, 1, 9)[7] = s[7]
  BY <1>1
<1> QED BY <1>1, <1>2, AHeartbeat DEF MessageType

LEMMA OtherBody ==
    ASSUME NEW s \in Seq(Byte), OneOther(s, 10)
    PROVE  /\ Len(s) >= 2 /\ HeartbeatIn(SubSeq(s, 1, 2)) = StartTime
           /\ OneOther(SubSeq(s, 3, Len(s)), 0)
<1>1. /\ Len(s) >= 12 - 10 /\ s[1] = KeepAlive(StartTime)[10 + 1]
      /\ s[2] = KeepAlive(StartTime)[10 + 2]
      /\ OneOther(SubSeq(s, 2 + 1, Len(s)), 10 + 2)
  BY OtherLater
<1>2. SubSeq(s, 3, Len(s)) \in Seq(Byte) /\ SubSeq(s, 1, 2)[1] = s[1] /\ SubSeq(s, 1, 2)[2] = s[2]
  BY <1>1
<1>3. \A h \in Nat : (h \div 256) * 256 + (h % 256) = h
  BY SMT
<1>4. StartTime \in Nat
  BY TimeAssumption, UInt16IsNat
<1>5. OneOther(SubSeq(s, 3, Len(s)), 12)
  <2>1. 2 + 1 = 3 /\ 10 + 2 = 12
    OBVIOUS
  <2> QED BY <1>1, <2>1
<1>6. OneOther(SubSeq(s, 3, Len(s)), 0)
  BY <1>2, <1>5, OtherTurn
<1> QED BY <1>1, <1>2, <1>3, <1>4, <1>6, AHeartbeat DEF HeartbeatIn, High, Low

-----------------------------------------------------------------------------
\* What a step of endpoint z leaves alone of another one.
Mine(x) == <<received[x], sending[x], built[x], heartbeatTime[x],
             shouldContinue[x], sinceReceived[x], heartbeatPeriod[x], timeoutPeriod[x],
             expired[x], sleepLeft[x], fd[x], process[x]>>

LEMMA ElseFrame ==
    ASSUME TypeOK, NEW z \in Endpoint, ThreadStep(z) \/ NetworkStep(z),
           NEW x \in Endpoint, x # z
    PROVE  /\ UNCHANGED Mine(x)
           /\ x # Peer[z] \/ ThreadStep(z) => remote'[x] = remote[x]
<1> USE DEF TypeOK, DataTypeOK, SocketTypeOK, Mine
<1>1. CASE ReceiveStep(z)
  BY <1>1 DEF ReceiveStep, ReceiveLoop, While, ReceiveSync, ReceiveHeader, ReceiveStamp,
              ReceiveBody, ReceiveApply, ReceiveActivate, Goto, RecvBytes, RecvEnd,
              RecvError, RecvReturns, socketVars, queueVars, ageVars, supervisorVars
<1>2. CASE SendStep(z)
  BY <1>2 DEF SendStep, SendLoop, While, SendPeek, SendLock, SendFront, SendSend, SendPop,
              Breaks, SendStamp, Goto, SendDelivers, SendIsLost, SendError,
              SendRaisesSigpipe, EndProcess, socketVars, queueVars, ageVars,
              supervisorVars
<1>3. ASSUME NEW t, PushStep(z, t) PROVE UNCHANGED <<Mine(x), remote>>
  BY <1>3 DEF PushStep, PushBuild, PushCheck, PushRecheck, PushTest, PushLock,
              PushConstruct, PushBump, Breaks, EndProcess, Goto, socketVars, queueVars,
              ageVars, supervisorVars
<1>4. CASE SupervisorStep(z)
  BY <1>3, <1>4
  DEF SupervisorStep, SupervisorPeriod, SupervisorPatience, SupervisorLoop, While,
      SupervisorDiff, SupervisorTimeout, SupervisorSleep, SupervisorWake, Astray, Goto,
      socketVars, queueVars, ageVars, supervisorVars
<1>5. CASE OwnerStep(z)
  BY <1>3, <1>5
  DEF OwnerStep, OwnerSupervise, OwnerClose, OwnerStop, OwnerJoinReceive, OwnerJoinSend,
      OwnerJoin, OwnerExit, OwnerBreaks, Breaks, Goto, Close, EndProcess, socketVars,
      queueVars, ageVars, supervisorVars
<1>6. CASE NetworkStep(z)
  <2>1. UNCHANGED Mine(x)
    BY <1>6 DEF NetworkStep, Release, PeerCloses, queueVars, ageVars, supervisorVars
  <2>2. x # Peer[z] => remote'[x] = remote[x]
    BY <1>6 DEF NetworkStep, Release, PeerCloses
  <2>3. CASE ThreadStep(z)
    BY <1>1, <1>2, <1>4, <1>5, <2>3 DEF ThreadStep
  <2> QED BY <2>1, <2>2, <2>3
<1> QED BY <1>1, <1>2, <1>4, <1>5, <1>6 DEF ThreadStep

\* A connection only ever goes down.
Down(x) ==
    /\ process[x] # "up" => process'[x] # "up"
    /\ fd[x] = "closed" => fd'[x] = "closed"
    /\ remote[x] # "open" => remote'[x] # "open"

LEMMA StepDown ==
    ASSUME TypeOK, NEW z \in Endpoint, Held(z), ThreadStep(z) \/ NetworkStep(z),
           NEW x \in Endpoint
    PROVE  Down(x)
<1> USE DEF TypeOK, SocketTypeOK, Down
<1>1. CASE ReceiveStep(z)
  BY <1>1 DEF ReceiveStep, ReceiveLoop, While, ReceiveSync, ReceiveHeader, ReceiveStamp,
              ReceiveBody, ReceiveApply, ReceiveActivate, RecvBytes, RecvEnd, RecvError,
              RecvReturns, socketVars
<1>2. CASE SendStep(z)
  BY <1>2 DEF SendStep, SendLoop, While, SendPeek, SendLock, SendFront, SendSend, SendPop,
              Breaks, SendStamp, SendDelivers, SendIsLost, SendError, SendRaisesSigpipe,
              EndProcess, socketVars
<1>3. ASSUME NEW t, PushStep(z, t)
      PROVE  /\ UNCHANGED <<stream, fd, remote>>
             /\ process' = process \/ process' = [process EXCEPT ![z] = "killed"]
  BY <1>3 DEF PushStep, PushBuild, PushCheck, PushRecheck, PushTest, PushLock,
              PushConstruct, PushBump, Breaks, EndProcess, socketVars
<1>4. CASE SupervisorStep(z)
  BY <1>3, <1>4
  DEF SupervisorStep, SupervisorPeriod, SupervisorPatience, SupervisorLoop, While,
      SupervisorDiff, SupervisorTimeout, SupervisorSleep, SupervisorWake, Astray, socketVars
<1>5. CASE OwnerStep(z)
  <2>1. CASE OwnerClose(z)
    <3>1. fd[z] = "open" \/ pc[z]["receive"] = "done"
      BY <2>1 DEF OwnerClose, At, Held
    <3> QED BY <2>1, <3>1 DEF OwnerClose, Close, socketVars
  <2>2. CASE OwnerExit(z) \/ OwnerBreaks(z)
    BY <2>2 DEF OwnerExit, OwnerBreaks, Breaks, EndProcess
  <2> QED
    BY <1>3, <1>5, <2>1, <2>2
    DEF OwnerStep, OwnerSupervise, OwnerStop, OwnerJoinReceive, OwnerJoinSend, OwnerJoin,
        socketVars
<1>6. CASE NetworkStep(z)
  BY <1>6 DEF NetworkStep, Release, PeerCloses
<1> QED BY <1>1, <1>2, <1>4, <1>5, <1>6 DEF ThreadStep

\* Nothing more will be read, now and for ever.
LEMMA EndedOnce ==
    ASSUME NEW x, Down(x), Ended(x), stream[x] = <<>> => stream'[x] = <<>> \/ ~Cut(x)
    PROVE  Ended(x)'
BY DEF Down, Ended, Cut

\* What a step does to the bytes for x, if it is no step of the receive thread of x.
Fed(x) ==
    \/ stream'[x] = stream[x]
    \/ stream'[x] = <<>> /\ Ended(x)'
    \/ /\ stream'[x] = stream[x] \o KeepAlive(StartTime)
       /\ Peer[x] \in Endpoint /\ ~Cut(x)

LEMMA StepFeeds ==
    ASSUME TypeOK, IInv, AInv, NEW z \in Endpoint, ThreadStep(z) \/ NetworkStep(z),
           NEW x \in Endpoint, x = z => ~ReceiveStep(z)
    PROVE  Fed(x)
<1> USE DEF TypeOK, SocketTypeOK, Fed
<1>1. CASE ReceiveStep(z)
  BY <1>1 DEF ReceiveStep, ReceiveLoop, While, ReceiveSync, ReceiveHeader, ReceiveStamp,
              ReceiveBody, ReceiveApply, ReceiveActivate, RecvBytes, RecvEnd, RecvError,
              RecvReturns, socketVars
<1>2. CASE SendStep(z)
  <2>1. CASE SendSend(z) /\ SendDelivers(z, Payload(sending[z]))
    <3>2. CASE x = Peer[z]
      <4>0. sending[z] = StartTime /\ sending[z] # NoMessage
        BY <2>1, <3>2
        DEF SendSend, At, IInv, LInv, Untorn, MessageTaken, AInv, Says, Announces, Announced
      <4>1. Peer[x] = z /\ Gone(x)
        BY <3>2, PeerAssumption DEF AInv, Wire
      <4>2. fd[z] = "open" /\ process[z] = "up"
        BY <2>1 DEF SendSend, At, Running, SendDelivers
      <4>3. ~Cut(x)
        BY <4>1, <4>2 DEF Gone, Cut
      <4> QED BY <2>1, <3>2, <4>0, <4>1, <4>3 DEF SendDelivers, Payload
    <3> QED BY <2>1, <3>2 DEF SendDelivers
  <2> QED
    BY <1>2, <2>1
    DEF SendStep, SendLoop, While, SendPeek, SendLock, SendFront, SendSend, SendPop,
        Breaks, SendStamp, SendIsLost, SendError, SendRaisesSigpipe, EndProcess,
        socketVars
<1>3. ASSUME NEW t, PushStep(z, t) PROVE UNCHANGED stream
  BY <1>3 DEF PushStep, PushBuild, PushCheck, PushRecheck, PushTest, PushLock,
              PushConstruct, PushBump, Breaks, EndProcess, socketVars
<1>4. CASE SupervisorStep(z)
  BY <1>3, <1>4
  DEF SupervisorStep, SupervisorPeriod, SupervisorPatience, SupervisorLoop, While,
      SupervisorDiff, SupervisorTimeout, SupervisorSleep, SupervisorWake, Astray, socketVars
<1>5. CASE OwnerStep(z)
  BY <1>3, <1>5
  DEF OwnerStep, OwnerSupervise, OwnerClose, Close, OwnerStop, OwnerJoinReceive,
      OwnerJoinSend, OwnerJoin, OwnerExit, OwnerBreaks, Breaks, EndProcess, socketVars
<1>6. CASE NetworkStep(z)
  <2>1. CASE Release(z)
    <3>1. fd[z] = "closed" \/ process[z] # "up"
      BY <2>1 DEF Release
    <3>2. UNCHANGED <<fd, process>>
      BY <2>1 DEF Release
    <3>3. CASE x = Peer[z]
      <4>1. stream'[x] = stream[x] \/ (stream'[x] = <<>> /\ remote'[x] # "open")
        BY <2>1, <3>3 DEF Release
      <4> QED BY <4>1 DEF Ended, Cut
    <3>4. CASE x = z
      BY <2>1, <3>1, <3>2, <3>4 DEF Release, Ended
    <3> QED BY <2>1, <3>3, <3>4 DEF Release
  <2>2. CASE PeerCloses(z)
    BY <2>2 DEF PeerCloses
  <2> QED BY <1>6, <2>1, <2>2 DEF NetworkStep
<1> QED BY <1>1, <1>2, <1>4, <1>5, <1>6 DEF ThreadStep

LEMMA FedOn ==
    ASSUME NEW x, Down(x), Fed(x), Ended(x)
    PROVE  Ended(x)'
BY DEF Down, Fed, Ended, Cut

\* The receive thread finds what it would have found before.
LEMMA WireElse ==
    ASSUME TypeOK, NEW x \in Endpoint, Down(x), Fed(x), Wire(x),
           pc'[x]["receive"] = pc[x]["receive"], received'[x] = received[x]
    PROVE  Framed(x)' /\ StampedRight(x)' /\ AppliedRight(x)'
<1>1. Off(x)' = Off(x) /\ Off(x) \in Nat
  BY DEF Off
<1>2. Ended(x) => Ended(x)'
  BY FedOn
<1>3. Framed(x)'
  <2>1. CASE Ended(x)
    BY <1>2, <2>1 DEF Framed
  <2>2. CASE ~Ended(x)
    <3>2. CASE stream'[x] = stream[x]
      <4>1. /\ Whole(stream[x], Off(x)) => Whole(stream[x], Off(x))'
            /\ OneOther(stream[x], Off(x)) => OneOther(stream[x], Off(x))'
            /\ Lost(x) => Lost(x)'
        BY <1>1, <3>2 DEF Whole, OneOther, Other, Lost, Astride
      <4> QED BY <2>2, <4>1 DEF Wire, Framed
    <3>3. CASE stream'[x] = stream[x] \o KeepAlive(StartTime) /\ Peer[x] \in Endpoint
      <4>1. stream[x] \in Seq(Byte) /\ Whole(stream[x], Off(x))
        BY <2>2, <3>3 DEF TypeOK, SocketTypeOK, Wire, Framed, Lost
      <4>2. Whole(stream[x] \o KeepAlive(StartTime), Off(x))
        BY <1>1, <4>1, WholeAppend
      <4>3. Whole(stream[x], Off(x))'
        BY <1>1, <3>3, <4>2 DEF Whole
      <4> QED BY <4>3 DEF Framed
    <3> QED BY <3>2, <3>3 DEF Fed, Framed
  <2> QED BY <2>1, <2>2
<1>4. StampedRight(x)' /\ AppliedRight(x)'
  <2>1. Lost(x) /\ pc[x]["receive"] = "stamp" => Ended(x)' \/ Lost(x)'
    BY DEF Fed, Lost, Astride
  <2> QED BY <1>2, <2>1 DEF Wire, StampedRight, AppliedRight
<1> QED BY <1>3, <1>4

LEMMA ReceiveUnmoved ==
    ASSUME TypeOK, IInv, NEW z \in Endpoint, ThreadStep(z) \/ NetworkStep(z),
           NEW x \in Endpoint, x = z => ~ReceiveStep(z)
    PROVE  pc'[x]["receive"] = pc[x]["receive"] /\ received'[x] = received[x]
<1>1. CASE x # z
  BY <1>1, StepFrame, ElseFrame DEF Mine
<1>2. CASE x = z /\ ThreadStep(z)
  BY <1>2, SendReceivesAlike, SupervisorAppends, OwnerAppends
  DEF ThreadStep, ReceivesAlike, TypeOK, IInv, LInv
<1>3. CASE NetworkStep(z)
  BY <1>3 DEF NetworkStep
<1> QED BY <1>1, <1>2, <1>3

\* A step of the receive thread.
LEMMA WireByReceive ==
    ASSUME Steady, TypeOK, NEW x \in Endpoint, Wire(x), ReceiveStep(x)
    PROVE  Framed(x)' /\ StampedRight(x)' /\ AppliedRight(x)'
<1> USE DEF TypeOK, ControlTypeOK, Thread
<1>0. stream[x] \in Seq(Byte) /\ stream \in [Endpoint -> Seq(Byte)]
      /\ Len(stream[x]) \in Nat
  BY DEF SocketTypeOK
<1>a. received \in [Endpoint -> Seq(Byte)]
  BY DEF DataTypeOK
<1>d. Down(x)
  BY StepDown DEF Wire, ThreadStep
<1>e. ASSUME UNCHANGED stream PROVE Ended(x) => Ended(x)'
  BY <1>d, <1>e, FedOn DEF Fed
<1>l. \A n \in Nat : ReadSizes(n, Len(stream[x])) = {AtMost(n, Len(stream[x]))}
  BY DEF Steady, ReadSizes
<1>1. CASE ReceiveLoop(x)
  <2>1. UNCHANGED <<stream, received>> /\ pc'[x]["receive"] \in {"sync", "done"}
        /\ pc[x]["receive"] = "loop"
    BY <1>1 DEF ReceiveLoop, While, At, Goto, socketVars
  <2>2. Off(x) = 0 /\ Off(x)' = 0
    BY <2>1 DEF Off
  <2>3. /\ Whole(stream[x], Off(x)) => Whole(stream[x], Off(x))'
        /\ OneOther(stream[x], Off(x)) => OneOther(stream[x], Off(x))'
        /\ Lost(x) => Lost(x)'
    BY <2>1, <2>2 DEF Whole, OneOther, Other, Lost, Astride
  <2>4. Framed(x)'
    BY <1>e, <2>1, <2>3 DEF Wire, Framed
  <2> QED BY <2>1, <2>4 DEF StampedRight, AppliedRight
<1>2. CASE ReceiveSync(x)
  <2>1. CASE RecvBytes(x, 1)
    <3>1. stream[x] # <<>> /\ ~Ended(x) /\ pc[x]["receive"] = "sync"
      BY <1>2, <2>1 DEF ReceiveSync, At, Running, RecvBytes, Ended, Cut
    <3>2. Off(x) = 0
      BY <3>1 DEF Off
    <3>3. stream'[x] = SubSeq(stream[x], 2, Len(stream[x]))
      BY <1>0, <2>1 DEF RecvBytes
    <3>4. CASE Whole(stream[x], 0)
      <4>1. stream[x][1] = SyncValue
        BY <1>0, <3>1, <3>4, WholeSync
      <4>2. pc'[x]["receive"] = "header"
        BY <1>2, <2>1, <3>1, <4>1 DEF ReceiveSync, AfterSync, Goto, RecvEnd, RecvError, RecvBytes
      <4>3. 1 \in 0..Len(stream[x])
        BY <1>0, <3>1
      <4>4. Whole(SubSeq(stream[x], 1 + 1, Len(stream[x])), 0 + 1)
        BY <1>0, <3>4, <4>3, WholeRest
      <4>5. Off(x)' = 0 + 1
        BY <4>2 DEF Off
      <4>6. Whole(stream[x], Off(x))'
        BY <3>3, <4>4, <4>5 DEF Whole
      <4> QED BY <4>2, <4>6 DEF Framed, StampedRight, AppliedRight
    <3>5. CASE Peer[x] \notin Endpoint /\ OneOther(stream[x], 0)
      <4>1. /\ stream[x][1] = SyncValue
            /\ \/ OneOther(stream'[x], 1)
               \/ /\ 7 <= Len(stream[x]) - 1 => stream'[x][7] # OcaKeepAlive
                  /\ 10 <= Len(stream[x]) - 1 => stream'[x][10] # SyncValue
        BY <1>0, <3>3, <3>5, OtherSync
      <4>2. pc'[x]["receive"] = "header"
        BY <1>2, <2>1, <3>1, <4>1 DEF ReceiveSync, AfterSync, Goto, RecvEnd, RecvError, RecvBytes
      <4>3. Off(x)' = 1
        BY <4>2 DEF Off
      <4>4. CASE OneOther(stream'[x], 1)
        <5>1. OneOther(stream[x], Off(x))'
          BY <4>3, <4>4 DEF OneOther, Other
        <5> QED BY <3>5, <4>2, <5>1 DEF Framed, StampedRight, AppliedRight
      <4>5. CASE ~OneOther(stream'[x], 1)
        <5>1. Len(stream'[x]) = Len(stream[x]) - 1
          <6>1. Len(SubSeq(stream[x], 2, Len(stream[x]))) = Len(stream[x]) - 1
            BY <1>0, <3>5, OtherSync
          <6> QED BY <3>3, <6>1
        <5>2. Lost(x)'
          BY <3>5, <4>1, <4>2, <4>5, <5>1 DEF Lost, Astride
        <5> QED BY <4>2, <5>2 DEF Framed, StampedRight, AppliedRight
      <4> QED BY <4>4, <4>5
    <3>6. CASE Lost(x)
      <4>1. stream[x][1] # SyncValue
        BY <3>1, <3>6 DEF Lost, Astride
      <4>2. pc'[x]["receive"] = "done"
        BY <1>2, <2>1, <3>1, <4>1 DEF ReceiveSync, AfterSync, Goto, RecvEnd, RecvError, RecvBytes
      <4>3. Lost(x)'
        BY <3>6, <4>2 DEF Lost, Astride
      <4> QED BY <4>2, <4>3 DEF Framed, StampedRight, AppliedRight
    <3> QED BY <3>1, <3>2, <3>4, <3>5, <3>6 DEF Wire, Framed
  <2>2. CASE RecvEnd(x) \/ RecvError(x)
    <3>1. UNCHANGED stream /\ Ended(x)
      BY <2>2 DEF RecvEnd, RecvError, Ended, Cut
    <3>2. pc'[x]["receive"] \in {"header", "done"}
      BY <1>2 DEF ReceiveSync, AfterSync, Goto
    <3> QED BY <1>e, <3>1, <3>2 DEF Framed, StampedRight, AppliedRight
  <2> QED BY <1>2, <2>1, <2>2 DEF ReceiveSync
<1>3. CASE ReceiveHeader(x)
  <2>0. pc[x]["receive"] = "header" /\ process[x] = "up" /\ Off(x) = 1
    BY <1>3 DEF ReceiveHeader, At, Running, Off
  <2>1. ASSUME NEW k \in ReadSizes(HeaderSize, Len(stream[x])), RecvBytes(x, k),
               received' = [received EXCEPT ![x] = Prefix(x, k)],
               Goto(x, "receive", "stamp")
        PROVE  Framed(x)' /\ StampedRight(x)' /\ AppliedRight(x)'
    <3>1. stream[x] # <<>> /\ ~Ended(x)
      BY <2>0, <2>1 DEF RecvBytes, Ended, Cut
    <3>2. /\ received'[x] = SubSeq(stream[x], 1, k) /\ pc'[x]["receive"] = "stamp"
          /\ stream'[x] = SubSeq(stream[x], k + 1, Len(stream[x]))
          /\ Off(x)' = 10
      BY <1>0, <1>a, <2>1 DEF Prefix, Goto, RecvBytes, Off
    <3>3. Len(stream[x]) > 0 /\ k = (IF 9 <= Len(stream[x]) THEN 9 ELSE Len(stream[x]))
      BY <1>0, <1>l, <2>1, <3>1 DEF HeaderSize, AtMost
    <3>4. CASE Whole(stream[x], 1)
      <4>1. Len(stream[x]) >= 9 /\ MessageType(SubSeq(stream[x], 1, 9)) = OcaKeepAlive
        BY <1>0, <3>1, <3>4, WholeHeader
      <4>2. k = 9 /\ 9 \in 0..Len(stream[x])
        BY <1>0, <3>3, <4>1
      <4>3. Whole(SubSeq(stream[x], 9 + 1, Len(stream[x])), 1 + 9)
        BY <1>0, <3>4, <4>2, WholeRest
      <4>4. Whole(stream[x], Off(x))'
        BY <3>2, <4>2, <4>3 DEF Whole
      <4> QED BY <3>2, <4>1, <4>2, <4>4 DEF Framed, StampedRight, AppliedRight
    <3>5. CASE Peer[x] \notin Endpoint /\ OneOther(stream[x], 1)
      <4>1. /\ Len(stream[x]) >= 9 /\ MessageType(SubSeq(stream[x], 1, 9)) = OcaKeepAlive
            /\ OneOther(SubSeq(stream[x], 10, Len(stream[x])), 10)
        BY <1>0, <3>5, OtherHeader
      <4>2. k = 9
        BY <1>0, <3>3, <4>1
      <4>3. OneOther(stream[x], Off(x))'
        BY <3>2, <4>1, <4>2 DEF OneOther, Other
      <4> QED BY <3>2, <3>5, <4>1, <4>2, <4>3 DEF Framed, StampedRight, AppliedRight
    <3>6. CASE Lost(x)
      <4>1. /\ 7 <= Len(stream[x]) => stream[x][7] # OcaKeepAlive
            /\ 10 <= Len(stream[x]) => stream[x][10] # SyncValue
        BY <2>0, <3>6 DEF Lost, Astride
      <4>2. MessageType(received'[x]) # OcaKeepAlive
        <5>1. Len(received'[x]) = k /\ (k >= 7 => received'[x][7] = stream[x][7])
          BY <1>0, <3>2, <3>3
        <5> QED BY <1>0, <3>3, <4>1, <5>1 DEF MessageType, OcaKeepAlive
      <4>3. stream'[x] # <<>> => stream'[x][1] # SyncValue
        <5>1. CASE Len(stream[x]) <= 9
          <6>1. k = Len(stream[x])
            <7>1. \A l \in Nat : l <= 9 => (IF 9 <= l THEN 9 ELSE l) = l
              OBVIOUS
            <7> QED BY <1>0, <3>3, <5>1, <7>1
          <6>2. SubSeq(stream[x], Len(stream[x]) + 1, Len(stream[x])) = <<>>
            BY <1>0
          <6> QED BY <3>2, <6>1, <6>2
        <5>2. CASE Len(stream[x]) > 9
          <6>1. k = 9 /\ 10 <= Len(stream[x]) /\ stream'[x][1] = stream[x][10]
            BY <1>0, <3>2, <3>3, <5>2
          <6> QED BY <4>1, <6>1
        <5> QED BY <1>0, <5>1, <5>2
      <4>4. Lost(x)'
        BY <3>2, <3>6, <4>2, <4>3 DEF Lost, Astride
      <4> QED BY <3>2, <4>4 DEF Framed, StampedRight, AppliedRight
    <3> QED BY <2>0, <3>1, <3>4, <3>5, <3>6 DEF Wire, Framed
  <2>2. CASE RecvEnd(x) \/ RecvError(x)
    <3>1. UNCHANGED stream /\ Ended(x)
      BY <2>2 DEF RecvEnd, RecvError, Ended, Cut
    <3>2. pc'[x]["receive"] \in {"stamp", "done"}
      BY <1>3 DEF ReceiveHeader, Goto
    <3> QED BY <1>e, <3>1, <3>2 DEF Framed, StampedRight, AppliedRight
  <2> QED BY <1>3, <2>1, <2>2 DEF ReceiveHeader
<1>4. CASE ReceiveStamp(x)
  <2>1. /\ pc[x]["receive"] = "stamp" /\ UNCHANGED stream
        /\ pc'[x]["receive"] = IF MessageType(received[x]) = OcaKeepAlive
                               THEN "body" ELSE "loop"
    BY <1>4 DEF ReceiveStamp, At, Goto, socketVars
  <2>2. CASE Ended(x)
    BY <1>e, <2>1, <2>2 DEF Framed, StampedRight, AppliedRight
  <2>3. CASE Lost(x)
    <3>1. /\ MessageType(received[x]) # OcaKeepAlive
          /\ stream[x] # <<>> => stream[x][1] # SyncValue
      BY <2>1, <2>3 DEF Lost, Astride
    <3>2. pc'[x]["receive"] = "loop"
      BY <2>1, <3>1
    <3>3. Lost(x)'
      BY <2>1, <2>3, <3>1, <3>2 DEF Lost, Astride
    <3> QED BY <3>2, <3>3 DEF Framed, StampedRight, AppliedRight
  <2>4. CASE ~Ended(x) /\ ~Lost(x)
    <3>1. pc'[x]["receive"] = "body"
      BY <2>1, <2>4 DEF Wire, StampedRight
    <3>2. Off(x)' = Off(x)
      BY <2>1, <3>1 DEF Off
    <3>3. /\ Whole(stream[x], Off(x)) => Whole(stream[x], Off(x))'
          /\ OneOther(stream[x], Off(x)) => OneOther(stream[x], Off(x))'
      BY <2>1, <3>2 DEF Whole, OneOther, Other
    <3> QED BY <2>4, <3>1, <3>3 DEF Wire, Framed, StampedRight, AppliedRight
  <2> QED BY <2>2, <2>3, <2>4
<1>5. CASE ReceiveBody(x)
  <2>0. pc[x]["receive"] = "body" /\ process[x] = "up" /\ Off(x) = 10
    BY <1>5 DEF ReceiveBody, At, Running, Off
  <2>1. ASSUME NEW k \in ReadSizes(BodySize, Len(stream[x])), RecvBytes(x, k),
               IF k = BodySize
               THEN /\ received' = [received EXCEPT ![x] = Prefix(x, k)]
                    /\ Goto(x, "receive", "apply")
               ELSE Goto(x, "receive", "loop") /\ UNCHANGED received
        PROVE  Framed(x)' /\ StampedRight(x)' /\ AppliedRight(x)'
    <3>1. stream[x] # <<>> /\ ~Ended(x)
      BY <2>0, <2>1 DEF RecvBytes, Ended, Cut
    <3>2. Whole(stream[x], 10) \/ (Peer[x] \notin Endpoint /\ OneOther(stream[x], 10))
      BY <2>0, <3>1 DEF Wire, Framed, Lost, Astride
    <3>3. Len(stream[x]) >= 2 /\ HeartbeatIn(SubSeq(stream[x], 1, 2)) = StartTime
      BY <1>0, <3>1, <3>2, WholeBody, OtherBody
    <3>4. k = 2 /\ BodySize = 2
      BY <1>0, <1>l, <2>1, <3>3 DEF BodySize, AtMost
    <3>5. /\ received'[x] = SubSeq(stream[x], 1, 2) /\ pc'[x]["receive"] = "apply"
          /\ stream'[x] = SubSeq(stream[x], 3, Len(stream[x])) /\ Off(x)' = 0
      BY <1>0, <1>a, <2>1, <3>4 DEF Prefix, Goto, RecvBytes, Off
    <3>6. Whole(stream[x], 10) => Whole(stream'[x], 0)
      <4>1. 2 \in 0..Len(stream[x]) /\ stream'[x] \in Seq(Byte) /\ 2 + 1 = 3 /\ 10 + 2 = 12
        BY <1>0, <3>3, <3>5
      <4>2. Whole(stream[x], 10) => Whole(SubSeq(stream[x], 2 + 1, Len(stream[x])), 10 + 2)
        BY <1>0, <4>1, WholeRest
      <4> QED BY <3>5, <4>1, <4>2, WholeTurn
    <3>7. OneOther(stream[x], 10) => OneOther(stream'[x], 0)
      BY <1>0, <3>5, OtherBody
    <3>8. /\ Whole(stream'[x], 0) => Whole(stream[x], Off(x))'
          /\ OneOther(stream'[x], 0) => OneOther(stream[x], Off(x))'
      BY <3>5 DEF Whole, OneOther, Other
    <3> QED BY <3>2, <3>3, <3>5, <3>6, <3>7, <3>8 DEF Framed, StampedRight, AppliedRight
  <2>2. CASE RecvEnd(x) \/ RecvError(x)
    <3>1. UNCHANGED stream /\ Ended(x)
      BY <2>2 DEF RecvEnd, RecvError, Ended, Cut
    <3>2. pc'[x]["receive"] \in {"loop", "apply"}
      BY <1>5 DEF ReceiveBody, Goto
    <3>3. pc'[x]["receive"] = "loop"
      BY <1>5, <3>1, <2>2, <2>0 DEF ReceiveBody, Goto, RecvBytes, RecvEnd, RecvError, Ended, Cut
    <3> QED BY <1>e, <3>1, <3>3 DEF Framed, StampedRight, AppliedRight
  <2> QED BY <1>5, <2>1, <2>2 DEF ReceiveBody
<1>6. CASE ReceiveApply(x) \/ ReceiveActivate(x)
  <2>1. UNCHANGED stream /\ pc'[x]["receive"] \in {"activate", "loop"}
        /\ pc[x]["receive"] \in {"apply", "activate"}
    BY <1>6 DEF ReceiveApply, ReceiveActivate, At, Goto, socketVars
  <2>2. Off(x) = 0 /\ Off(x)' = 0
    BY <2>1 DEF Off
  <2>3. /\ Whole(stream[x], Off(x)) => Whole(stream[x], Off(x))'
        /\ OneOther(stream[x], Off(x)) => OneOther(stream[x], Off(x))'
        /\ Lost(x) => Lost(x)'
    BY <2>1, <2>2 DEF Whole, OneOther, Other, Lost, Astride
  <2>4. Framed(x)'
    BY <1>e, <2>1, <2>3 DEF Wire, Framed
  <2> QED BY <2>1, <2>4 DEF StampedRight, AppliedRight
<1> QED BY <1>1, <1>2, <1>3, <1>4, <1>5, <1>6 DEF ReceiveStep

\* A connection is told of the end of the other side by that side only.
LEMMA StepGone ==
    ASSUME TypeOK, AInv, NEW z \in Endpoint, ThreadStep(z) \/ NetworkStep(z),
           NEW x \in Endpoint
    PROVE  Gone(x)'
<1> SUFFICES ASSUME Peer[x] \in Endpoint, remote'[x] # "open"
             PROVE  fd'[Peer[x]] = "closed" \/ process'[Peer[x]] # "up"
  BY DEF Gone
<1>1. Down(Peer[x])
  BY StepDown DEF AInv, Wire
<1>2. CASE remote[x] # "open"
  BY <1>1, <1>2 DEF AInv, Wire, Gone, Down
<1>3. CASE remote[x] = "open"
  <2> USE DEF TypeOK, SocketTypeOK
  <2>1. CASE ReceiveStep(z)
    BY <1>3, <2>1
    DEF ReceiveStep, ReceiveLoop, While, ReceiveSync, ReceiveHeader, ReceiveStamp,
        ReceiveBody, ReceiveApply, ReceiveActivate, RecvBytes, RecvEnd, RecvError, socketVars
  <2>2. CASE SendStep(z)
    BY <1>3, <2>2
    DEF SendStep, SendLoop, While, SendPeek, SendLock, SendFront, SendSend, SendPop,
        Breaks, SendStamp, SendDelivers, SendIsLost, SendError, SendRaisesSigpipe,
        EndProcess, socketVars
  <2>3. ASSUME NEW t, PushStep(z, t) PROVE UNCHANGED remote
    BY <2>3 DEF PushStep, PushBuild, PushCheck, PushRecheck, PushTest, PushLock,
                PushConstruct, PushBump, Breaks, EndProcess, socketVars
  <2>4. CASE SupervisorStep(z)
    BY <1>3, <2>3, <2>4
    DEF SupervisorStep, SupervisorPeriod, SupervisorPatience, SupervisorLoop, While,
        SupervisorDiff, SupervisorTimeout, SupervisorSleep, SupervisorWake, Astray, socketVars
  <2>5. CASE OwnerStep(z)
    BY <1>3, <2>3, <2>5
    DEF OwnerStep, OwnerSupervise, OwnerClose, Close, OwnerStop, OwnerJoinReceive,
        OwnerJoinSend, OwnerJoin, OwnerExit, OwnerBreaks, Breaks, EndProcess, socketVars
  <2>6. CASE NetworkStep(z)
    <3>1. CASE Release(z)
      <4>1. Peer[z] = x
        BY <1>3, <3>1 DEF Release
      <4>2. Peer[x] = z
        BY <4>1, PeerAssumption
      <4> QED BY <1>1, <3>1, <4>2 DEF Release, Down
    <3>2. CASE PeerCloses(z)
      BY <1>3, <3>2 DEF PeerCloses
    <3> QED BY <2>6, <3>1, <3>2 DEF NetworkStep
  <2> QED BY <2>1, <2>2, <2>4, <2>5, <2>6 DEF ThreadStep
<1> QED BY <1>2, <1>3

LEMMA StepHeld ==
    ASSUME TypeOK, NEW x \in Endpoint, Held(x), ThreadStep(x) \/ NetworkStep(x)
    PROVE  Held(x)'
<1> USE DEF TypeOK, SocketTypeOK, ControlTypeOK, Thread
<1>1. CASE ReceiveStep(x)
  <2>1. pc'[x]["owner"] = pc[x]["owner"] /\ pc[x]["receive"] # "done"
    BY <1>1
    DEF ReceiveStep, ReceiveLoop, While, ReceiveSync, ReceiveHeader, ReceiveStamp,
        ReceiveBody, ReceiveApply, ReceiveActivate, At, Goto
  <2>2. fd[x] = "open" => fd'[x] = "open"
    BY <1>1
    DEF ReceiveStep, ReceiveLoop, While, ReceiveSync, ReceiveHeader, ReceiveStamp,
        ReceiveBody, ReceiveApply, ReceiveActivate, RecvBytes, RecvEnd, RecvError,
        RecvReturns, socketVars
  <2> QED BY <2>1, <2>2 DEF Held
<1>2. CASE SendStep(x)
  <2>1. pc'[x]["owner"] = pc[x]["owner"] /\ pc'[x]["receive"] = pc[x]["receive"]
    BY <1>2
    DEF SendStep, SendLoop, While, SendPeek, SendLock, SendFront, SendSend, SendPop,
        Breaks, EndProcess, SendStamp, Goto
  <2>2. UNCHANGED fd
    BY <1>2
    DEF SendStep, SendLoop, While, SendPeek, SendLock, SendFront, SendSend, SendPop,
        Breaks, SendStamp, SendDelivers, SendIsLost, SendError, SendRaisesSigpipe,
        EndProcess, socketVars
  <2> QED BY <2>1, <2>2 DEF Held
<1>3. ASSUME NEW t \in Pusher, PushStep(x, t)
      PROVE  UNCHANGED fd /\ pc'[x]["receive"] = pc[x]["receive"]
             /\ (t = "supervisor" => pc'[x]["owner"] = pc[x]["owner"])
             /\ (t = "owner" => pc[x]["owner"] \in BeforeServing)
  BY <1>3 DEF PushStep, PushBuild, PushCheck, PushRecheck, PushTest, PushLock,
              PushConstruct, PushBump, Breaks, EndProcess, At, Goto, Pusher,
              BeforeServing, socketVars
<1>4. CASE SupervisorStep(x)
  <2>1. CASE PushStep(x, "supervisor")
    BY <1>3, <2>1 DEF Held, Pusher
  <2>2. CASE ~PushStep(x, "supervisor")
    <3>1. /\ pc'[x]["owner"] = pc[x]["owner"] /\ pc'[x]["receive"] = pc[x]["receive"]
          /\ UNCHANGED fd
      BY <1>4, <2>2
      DEF SupervisorStep, SupervisorPeriod, SupervisorPatience, SupervisorLoop, While,
          SupervisorDiff, SupervisorTimeout, SupervisorSleep, SupervisorWake, Astray, Goto,
          socketVars
    <3> QED BY <3>1 DEF Held
  <2> QED BY <2>1, <2>2
<1>5. CASE OwnerStep(x)
  <2>1. CASE PushStep(x, "owner")
    BY <1>3, <2>1 DEF Held, Pusher
  <2>2. CASE OwnerSupervise(x)
    BY <2>2 DEF OwnerSupervise, At, Goto, BeforeServing, Held, socketVars
  <2>3. CASE ~PushStep(x, "owner") /\ ~OwnerSupervise(x)
    <3>1. pc'[x]["owner"] \notin BeforeServing \cup {"serving"}
      BY <1>5, <2>3
      DEF OwnerStep, OwnerClose, OwnerStop, OwnerJoinReceive, OwnerJoinSend, OwnerJoin,
          OwnerExit, OwnerBreaks, Breaks, EndProcess, At, Goto, BeforeServing
    <3> QED BY <3>1 DEF Held
  <2> QED BY <2>1, <2>2, <2>3
<1>6. CASE NetworkStep(x)
  BY <1>6 DEF NetworkStep, Release, PeerCloses, Held
<1> QED BY <1>1, <1>2, <1>4, <1>5, <1>6 DEF ThreadStep

LEMMA StepWire ==
    ASSUME Steady, TypeOK, IInv, AInv,
           NEW z \in Endpoint, ThreadStep(z) \/ NetworkStep(z), NEW x \in Endpoint
    PROVE  Wire(x)'
<1>1. Gone(x)'
  BY StepGone
<1>2. Wire(x)
  BY DEF AInv
<1>3. Framed(x)' /\ StampedRight(x)' /\ AppliedRight(x)'
  <2>1. CASE x = z /\ ReceiveStep(z)
    BY <1>2, <2>1, WireByReceive
  <2>2. CASE ~(x = z /\ ReceiveStep(z))
    <3>1. Down(x)
      BY StepDown DEF AInv, Wire
    <3>2. Fed(x)
      BY <2>2, StepFeeds
    <3>3. pc'[x]["receive"] = pc[x]["receive"] /\ received'[x] = received[x]
      BY <2>2, ReceiveUnmoved
    <3> QED BY <1>2, <3>1, <3>2, <3>3, WireElse
  <2> QED BY <2>1, <2>2
<1>4. Held(x)'
  <2>1. CASE x = z
    BY <1>2, <2>1, StepHeld DEF Wire
  <2>2. CASE x # z
    BY <1>2, <2>2, StepFrame, ElseFrame DEF Mine, Held, Wire
  <2> QED BY <2>1, <2>2
<1> QED BY <1>1, <1>3, <1>4 DEF Wire

-----------------------------------------------------------------------------
\* What is announced, and the periods.

LEMMA SaysElse ==
    ASSUME TypeOK, NEW z \in Endpoint, ThreadStep(z) \/ NetworkStep(z),
           NEW x \in Endpoint, x # z, Says(x)
    PROVE  Says(x)'
BY StepFrame, ElseFrame DEF Mine, Says, Timely, Announces, Periodic, Announced

LEMMA SaysByReceive ==
    ASSUME TypeOK, NEW x \in Endpoint, Wire(x), Says(x), ReceiveStep(x)
    PROVE  Says(x)'
<1> USE DEF TypeOK, ControlTypeOK, DataTypeOK, Thread
<1>1. /\ pc'[x]["owner"] = pc[x]["owner"] /\ pc'[x]["send"] = pc[x]["send"]
      /\ ~ReceiveActivate(x) => pc'[x]["supervisor"] = pc[x]["supervisor"]
      /\ UNCHANGED <<queueVars, sending, heartbeatPeriod, timeoutPeriod>>
  BY DEF ReceiveStep, ReceiveLoop, While, ReceiveSync, ReceiveHeader, ReceiveStamp,
         ReceiveBody, ReceiveApply, ReceiveActivate, At, Goto, supervisorVars
<1>2. heartbeatTime'[x] = heartbeatTime[x] \/ heartbeatTime'[x] = StartTime
  <2>1. CASE ReceiveApply(x)
    BY <2>1 DEF ReceiveApply, At, Wire, AppliedRight
  <2> QED
    BY <2>1 DEF ReceiveStep, ReceiveLoop, While, ReceiveSync, ReceiveHeader, ReceiveStamp,
         ReceiveBody, ReceiveActivate
<1>3. Announces(x)'
  BY <1>1 DEF Says, Announces, Announced, queueVars
<1>4. CASE ReceiveActivate(x)
  <2>1. pc[x]["receive"] = "activate" /\ pc'[x]["supervisor"] = "period"
        /\ UNCHANGED heartbeatTime
    BY <1>4 DEF ReceiveActivate, At
  <2> QED BY <1>1, <1>3, <2>1 DEF Says, Timely, Periodic
<1>5. CASE ReceiveApply(x)
  <2>1. heartbeatTime'[x] = StartTime
    BY <1>5 DEF ReceiveApply, At, Wire, AppliedRight
  <2>2. ~ReceiveActivate(x)
    BY <1>5 DEF ReceiveApply, ReceiveActivate, At
  <2> QED BY <1>1, <1>3, <2>1, <2>2 DEF Says, Timely, Periodic
<1>6. CASE ~ReceiveActivate(x) /\ ~ReceiveApply(x)
  <2>1. pc'[x]["receive"] # "activate"
    BY <1>6 DEF ReceiveStep, ReceiveLoop, While, ReceiveSync, ReceiveHeader, ReceiveStamp,
                ReceiveBody, AfterSync, At, Goto
  <2> QED BY <1>1, <1>2, <1>3, <1>6, <2>1 DEF Says, Timely, Periodic
<1> QED BY <1>4, <1>5, <1>6

LEMMA SaysBySend ==
    ASSUME TypeOK, NEW x \in Endpoint, Says(x), SendStep(x)
    PROVE  Says(x)'
<1> USE DEF TypeOK, ControlTypeOK, DataTypeOK, Thread
<1>1. /\ pc'[x]["owner"] = pc[x]["owner"] /\ pc'[x]["receive"] = pc[x]["receive"]
      /\ pc'[x]["supervisor"] = pc[x]["supervisor"]
      /\ UNCHANGED <<heartbeatTime, built, heartbeatPeriod, timeoutPeriod>>
  BY DEF SendStep, SendLoop, While, SendPeek, SendLock, SendFront, SendSend, SendPop,
         Breaks, EndProcess, SendStamp, Goto, queueVars, supervisorVars
<1>2. messageQueue[x] \in Seq(UInt16)
  OBVIOUS
<1>3. Announced(sending'[x])
  <2>1. CASE SendFront(x)
    <3>1. messageQueue[x] # <<>> => Announced(Head(messageQueue[x]))
      <4>1. messageQueue[x] # <<>> =>
                1 \in 1..Len(messageQueue[x]) /\ Head(messageQueue[x]) = messageQueue[x][1]
        BY <1>2
      <4> QED BY <4>1 DEF Says, Announces
    <3> QED BY <2>1, <3>1 DEF SendFront, Breaks, EndProcess, Says, Announces
  <2>2. CASE SendStamp(x)
    BY <2>2 DEF SendStamp, Announced
  <2> QED
    BY <2>1, <2>2
    DEF SendStep, SendLoop, While, SendPeek, SendLock, SendSend, SendPop, Breaks,
        EndProcess, Says, Announces
<1>4. \A i \in 1..Len(messageQueue'[x]) : Announced(messageQueue'[x][i])
  <2>1. CASE SendPop(x)
    <3>1. \/ messageQueue'[x] = PopFront(messageQueue[x])
          \/ messageQueue'[x] = messageQueue[x]
      BY <2>1 DEF SendPop
    <3>2. /\ PopFront(messageQueue[x]) \in Seq(UInt16)
          /\ \A i \in 1..Len(PopFront(messageQueue[x])) :
                 /\ i + 1 \in 1..Len(messageQueue[x])
                 /\ PopFront(messageQueue[x])[i] = messageQueue[x][i + 1]
      BY <1>2 DEF PopFront
    <3> QED BY <3>1, <3>2 DEF Says, Announces
  <2>2. CASE ~SendPop(x)
    <3>1. UNCHANGED messageQueue
      BY <2>2 DEF SendStep, SendLoop, While, SendPeek, SendLock, SendFront, Breaks,
                  EndProcess, SendSend, SendStamp, queueVars
    <3> QED BY <3>1 DEF Says, Announces
  <2> QED BY <2>1, <2>2
<1>5. Announces(x)'
  BY <1>1, <1>3, <1>4 DEF Says, Announces, Announced
<1> QED BY <1>1, <1>5 DEF Says, Timely, Periodic

LEMMA SaysByPush ==
    ASSUME TypeOK, NEW x \in Endpoint, NEW t \in Pusher, Says(x), PushStep(x, t)
    PROVE  Says(x)'
<1> USE DEF TypeOK, ControlTypeOK, DataTypeOK
<1>0. t \in Thread /\ (t = "owner" \/ t = "supervisor")
  BY DEF Pusher, Thread
<1>1. /\ \A u \in Thread \ {t} : pc'[x][u] = pc[x][u]
      /\ UNCHANGED <<heartbeatTime, sending, heartbeatPeriod, timeoutPeriod>>
  BY <1>0 DEF PushStep, PushBuild, PushCheck, PushRecheck, PushTest, PushLock,
              PushConstruct, PushBump, Breaks, EndProcess, Goto, supervisorVars
<1>2. pc[x][t] \in Pushing /\ pc'[x][t] \in Pushing \cup {Return(t)}
  BY <1>0 DEF PushStep, PushBuild, PushCheck, PushRecheck, PushTest, PushLock,
              PushConstruct, PushBump, Breaks, EndProcess, At, Goto, Pushing
<1>3. heartbeatTime[x] = StartTime
  BY <1>0, <1>2 DEF Says, Timely, Pushing
<1>4. \A u \in Pusher : Announced(built'[x][u])
  <2>1. \A u \in Pusher : \/ built'[x][u] = built[x][u]
                         \/ built'[x][u] = heartbeatTime[x] \/ built'[x][u] = NoMessage
    BY DEF PushStep, PushBuild, PushCheck, PushRecheck, PushTest, PushLock, PushConstruct,
           PushBump, Breaks, EndProcess, queueVars
  <2> QED BY <1>3, <2>1 DEF Says, Announces, Announced
<1>5. \A i \in 1..Len(messageQueue'[x]) : Announced(messageQueue'[x][i])
  <2>1. CASE PushConstruct(x, t)
    <3>1. messageQueue'[x] = messageQueue[x] \/ messageQueue'[x] = <<>>
      BY <2>1 DEF PushConstruct
    <3>2. 1..Len(<<>>) = {}
      OBVIOUS
    <3> QED BY <3>1, <3>2 DEF Says, Announces
  <2>2. CASE PushBump(x, t)
    <3>1. \/ messageQueue'[x] = messageQueue[x]
          \/ messageQueue'[x] = Append(messageQueue[x], built[x][t])
      BY <2>2 DEF PushBump, Enqueued
    <3>2. \A i \in 1..Len(Append(messageQueue[x], built[x][t])) :
              \/ i \in 1..Len(messageQueue[x])
                    /\ Append(messageQueue[x], built[x][t])[i] = messageQueue[x][i]
              \/ Append(messageQueue[x], built[x][t])[i] = built[x][t]
      <4>1. messageQueue[x] \in Seq(UInt16)
        OBVIOUS
      <4> QED BY <4>1
    <3> QED BY <3>1, <3>2 DEF Says, Announces
  <2>3. CASE ~PushConstruct(x, t) /\ ~PushBump(x, t)
    <3>1. UNCHANGED messageQueue
      BY <2>3 DEF PushStep, PushBuild, PushCheck, PushRecheck, PushTest, PushLock, queueVars
    <3> QED BY <3>1 DEF Says, Announces
  <2> QED BY <2>1, <2>2, <2>3
<1>7. Announces(x)'
  BY <1>1, <1>4, <1>5 DEF Says, Announces, Announced
<1>8. CASE t = "owner"
  <2>1. pc'[x]["supervisor"] = pc[x]["supervisor"] /\ pc'[x]["receive"] = pc[x]["receive"]
    BY <1>1, <1>8 DEF Thread
  <2> QED BY <1>1, <1>3, <1>7, <2>1 DEF Says, Timely, Periodic
<1>9. CASE t = "supervisor"
  <2>1. pc'[x]["supervisor"] \notin {"off", "period", "patience", "astray"}
        /\ pc[x]["supervisor"] \notin {"off", "period", "patience", "astray"}
    BY <1>2, <1>9 DEF Pushing, Return
  <2> QED BY <1>1, <1>3, <1>7, <2>1 DEF Says, Timely, Periodic
<1> QED BY <1>0, <1>8, <1>9

LEMMA SaysBySupervisor ==
    ASSUME TypeOK, NEW x \in Endpoint, Says(x), SupervisorStep(x)
    PROVE  Says(x)'
<1> USE DEF TypeOK, ControlTypeOK, DataTypeOK, Thread
<1>1. CASE PushStep(x, "supervisor")
  BY <1>1, SaysByPush DEF Pusher
<1>2. CASE ~PushStep(x, "supervisor")
  <2>1. /\ pc'[x]["owner"] = pc[x]["owner"] /\ pc'[x]["receive"] = pc[x]["receive"]
        /\ UNCHANGED <<heartbeatTime, queueVars, sending>>
        /\ pc[x]["supervisor"] # "off" /\ pc'[x]["supervisor"] # "off"
    BY <1>2
    DEF SupervisorStep, SupervisorPeriod, SupervisorPatience, SupervisorLoop, While,
        SupervisorDiff, SupervisorTimeout, SupervisorSleep, SupervisorWake, Astray, At, Goto
  <2>2. Announces(x)' /\ Timely(x)'
    BY <2>1 DEF Says, Announces, Announced, Timely, queueVars
  <2>3. heartbeatTime[x] = StartTime
    BY <2>1 DEF Says, Timely
  <2>4. CASE SupervisorPeriod(x)
    BY <2>2, <2>3, <2>4 DEF SupervisorPeriod, At, Goto, Says, Periodic
  <2>5. CASE SupervisorPatience(x)
    <3>1. Patience(StartTime) = 3 * StartTime
      BY TimeAssumption, UInt16IsNat DEF Patience
    <3> QED BY <2>2, <2>3, <2>5, <3>1 DEF SupervisorPatience, At, Goto, Says, Periodic
  <2>6. CASE ~SupervisorPeriod(x) /\ ~SupervisorPatience(x)
    <3>1. /\ UNCHANGED <<heartbeatPeriod, timeoutPeriod>>
          /\ pc'[x]["supervisor"] # "astray" =>
                 pc[x]["supervisor"] \notin {"off", "period", "patience", "astray"}
      BY <1>2, <2>6
      DEF SupervisorStep, SupervisorLoop, While, SupervisorDiff, SupervisorTimeout,
          SupervisorSleep, SupervisorWake, Astray, At, Goto, supervisorVars
    <3> QED BY <2>2, <3>1 DEF Says, Periodic
  <2> QED BY <2>4, <2>5, <2>6
<1> QED BY <1>1, <1>2

LEMMA SaysByOwner ==
    ASSUME TypeOK, NEW x \in Endpoint, Says(x), OwnerStep(x)
    PROVE  Says(x)'
<1> USE DEF TypeOK, ControlTypeOK, DataTypeOK, Thread
<1>1. CASE PushStep(x, "owner")
  BY <1>1, SaysByPush DEF Pusher
<1>2. CASE OwnerSupervise(x)
  BY <1>2 DEF OwnerSupervise, AskedTime, At, Goto, queueVars, supervisorVars, Says, Timely,
              Announces, Announced, Periodic
<1>3. CASE ~PushStep(x, "owner") /\ ~OwnerSupervise(x)
  <2>1. /\ pc'[x]["receive"] = pc[x]["receive"] /\ pc'[x]["supervisor"] = pc[x]["supervisor"]
        /\ UNCHANGED <<heartbeatTime, queueVars, sending, supervisorVars>>
        /\ pc'[x]["owner"] \notin Pushing
    BY <1>3
    DEF OwnerStep, OwnerClose, OwnerStop, OwnerJoinReceive, OwnerJoinSend, OwnerJoin,
        OwnerExit, OwnerBreaks, Breaks, EndProcess, At, Goto, Pushing
  <2> QED BY <2>1 DEF Says, Timely, Announces, Announced, Periodic, queueVars, supervisorVars
<1> QED BY <1>1, <1>2, <1>3

LEMMA StepSays ==
    ASSUME TypeOK, AInv, NEW z \in Endpoint, ThreadStep(z) \/ NetworkStep(z),
           NEW x \in Endpoint
    PROVE  Says(x)'
<1>1. Wire(x) /\ Says(x)
  BY DEF AInv
<1>2. CASE x # z
  BY <1>1, <1>2, SaysElse
<1>3. CASE x = z /\ ThreadStep(z)
  BY <1>1, <1>3, SaysByReceive, SaysBySend, SaysBySupervisor, SaysByOwner DEF ThreadStep
<1>4. CASE NetworkStep(x)
  BY <1>1, <1>4 DEF NetworkStep, queueVars, supervisorVars, Says, Timely, Announces,
                    Announced, Periodic
<1> QED BY <1>2, <1>3, <1>4

LEMMA TickA == AInv /\ (Tick \/ UNCHANGED vars) => AInv'
<1> SUFFICES ASSUME AInv, Tick \/ UNCHANGED vars, NEW x \in Endpoint
             PROVE  Wire(x)' /\ Says(x)'
  BY DEF AInv
<1>1. UNCHANGED <<stream, fd, remote, process, pc, heartbeatTime, messageQueue, built,
                  received, sending, heartbeatPeriod, timeoutPeriod>>
  BY DEF Tick, vars, socketVars, queueVars, supervisorVars
<1>2. Wire(x) /\ Says(x)
  BY DEF AInv
<1>3. Wire(x)'
  <2>1. Off(x)' = Off(x) /\ (Ended(x)' <=> Ended(x))
    BY <1>1 DEF Off, Ended, Cut
  <2>2. Lost(x)' <=> Lost(x)
    BY <1>1 DEF Lost, Astride
  <2>3. Framed(x)'
    BY <1>1, <1>2, <2>1, <2>2 DEF Wire, Framed, Whole, OneOther, Other
  <2> QED BY <1>1, <1>2, <2>1, <2>2, <2>3 DEF Wire, Gone, StampedRight, AppliedRight, Held
<1>4. Says(x)'
  BY <1>1, <1>2 DEF Says, Timely, Announces, Announced, Periodic
<1> QED BY <1>3, <1>4

LEMMA InitAInv == Steady /\ Init => AInv
<1> SUFFICES ASSUME Steady, Init, NEW x \in Endpoint PROVE Wire(x) /\ Says(x)
  BY DEF AInv
<1>1. /\ pc[x]["receive"] = (IF x \in Connected THEN "loop" ELSE "done")
      /\ pc[x]["supervisor"] = "off"
      /\ pc[x]["owner"] \in {"supervise", "serving"}
  BY DEF Init, StartLabel, Thread
<1>2. /\ fd[x] = (IF x \in Connected THEN "open" ELSE "closed")
      /\ remote[x] = "open"
      /\ stream[x] \in Script \cup {<<>>} /\ (Peer[x] \in Endpoint => stream[x] = <<>>)
  BY DEF Init, SocketInit
<1>3. Off(x) = 0
  BY <1>1 DEF Off
<1>4. Whole(<<>>, 0)
  <2>1. Len(<<>>) + 0 = 0 /\ 1..Len(<<>>) = {}
    OBVIOUS
  <2>2. Full(0)
    BY DEF Full
  <2> QED BY <2>1, <2>2 DEF Whole
<1>5. Framed(x)
  BY <1>2, <1>3, <1>4 DEF Steady, Framed
<1>6. Wire(x)
  BY <1>1, <1>2, <1>5 DEF Wire, Gone, StampedRight, AppliedRight, Held
<1>7. Says(x)
  <2>1. messageQueue[x] = <<>> /\ sending[x] = NoMessage
        /\ \A t \in Pusher : built[x][t] = NoMessage
    BY DEF Init
  <2>2. \A i \in 1..Len(messageQueue[x]) : Announced(messageQueue[x][i])
    BY <2>1
  <2> QED BY <1>1, <2>1, <2>2 DEF Says, Timely, Announces, Announced, Periodic, Pushing
<1> QED BY <1>6, <1>7

LEMMA NextAInv == Steady /\ IInv /\ AInv /\ [Next]_vars => AInv'
<1> SUFFICES ASSUME Steady, IInv, AInv, [Next]_vars PROVE AInv'
  OBVIOUS
<1>1. TypeOK
  BY DEF IInv, LInv
<1>2. ASSUME NEW z \in Endpoint, ThreadStep(z) \/ NetworkStep(z) PROVE AInv'
  BY <1>1, <1>2, StepWire, StepSays DEF AInv
<1> QED BY <1>2, TickA DEF Next

LEMMA ValueInvariant == Steady => (Spec => [](IInv /\ AInv))
<1> SUFFICES ASSUME Steady PROVE Spec => [](IInv /\ AInv)
  OBVIOUS
<1>1. Init => IInv /\ AInv
  BY InitIInv, InitAInv
<1>2. IInv /\ AInv /\ [Next]_vars => (IInv /\ AInv)'
  BY NextIInv, NextAInv
<1> QED BY <1>1, <1>2, PTL DEF Spec

-----------------------------------------------------------------------------
\* What TimedSpec adds to Spec is when a second passes: the connection in time, in which
\* a supervisor's sleep (line 200) and what is under way last as long as they do, behaves
\* as the one without does, so what is proved of every schedule holds in time.
THEOREM TimedImplementsSpec == TimedSpec => Spec
<1>1. TimedInit => Init
  BY DEF TimedInit
<1>2. [TimedNext]_timedVars => [Next]_vars
  BY DEF TimedNext, TimedStep, PromptTick, Next, ThreadStep, timedVars
<1> QED BY <1>1, <1>2, PTL DEF TimedSpec, Spec

LEMMA TimedInvariant == Steady => (TimedSpec => [](IInv /\ AInv))
BY ValueInvariant, TimedImplementsSpec, PTL

LEMMA Bounds ==
    /\ StartTime \in Nat /\ Bound \in Nat /\ Deadline \in Nat /\ Nap(StartTime) \in Nat
    /\ 3 * StartTime + Nap(StartTime) = Bound
    /\ Bound + Nap(StartTime) = Deadline
    /\ Deadline = 3 * StartTime + 2 * (StartTime \div 2)
    /\ Bound = 3 * StartTime + StartTime \div 2
<1>1. StartTime \in Nat
  BY TimeAssumption, UInt16IsNat
<1>2. StartTime \div 2 \in Nat
  BY <1>1, SMT
<1> QED BY <1>1, <1>2 DEF Bound, Deadline, Nap

\* In the middle of a heartbeat bytes are there, or will never come.
LEMMA BodyThere ==
    ASSUME NEW x, Framed(x), pc[x]["receive"] = "body", stream[x] = <<>>
    PROVE  Ended(x)
<1>1. Off(x) = 10
  BY DEF Off
<1>2. ~OneOther(<<>>, 10) /\ ~Lost(x)
  BY DEF OneOther, Lost, Astride
<1> QED BY <1>1, <1>2, WholeRestOfOne DEF Framed

LEMMA WatchEasier ==
    ASSUME TypeOK, TypeOK', NEW x \in Endpoint, Watching(x),
           pc'[x]["supervisor"] = pc[x]["supervisor"], sinceReceived'[x] <= sinceReceived[x],
           shouldContinue'[x] => shouldContinue[x],
           expired'[x] = expired[x], sleepLeft'[x] = sleepLeft[x]
    PROVE  Watching(x)'
<1>1. /\ sinceReceived[x] \in Nat /\ sinceReceived'[x] \in Nat /\ sleepLeft[x] \in Nat
      /\ sleepLeft'[x] \in Nat
  BY BoundAssumption, UInt16IsNat DEF TypeOK, DataTypeOK
<1>2. shouldContinue[x] \in BOOLEAN /\ shouldContinue'[x] \in BOOLEAN
  BY DEF TypeOK, DataTypeOK
<1>3. Bound <= Deadline /\ Bound \in Nat /\ Deadline \in Nat /\ 3 * StartTime \in Nat
  BY Bounds
<1> HIDE DEF Pushing
<1>4. /\ pc'[x]["supervisor"] \in SupervisorAt
      /\ pc'[x]["supervisor"] \in {"period", "patience"} => sinceReceived'[x] < Bound
      /\ pc'[x]["supervisor"] = "diff" => sinceReceived'[x] < Bound
  BY <1>1, <1>3 DEF Watching
<1>5. pc'[x]["supervisor"] = "loop" =>
           sinceReceived'[x] < (IF shouldContinue'[x] THEN Bound ELSE Deadline)
  BY <1>1, <1>2, <1>3 DEF Watching
<1>6. pc'[x]["supervisor"] \in Pushing \cup {"timeout"} =>
           /\ sinceReceived'[x] < Bound
           /\ ~expired'[x] => sinceReceived'[x] < 3 * StartTime
  BY <1>1, <1>3 DEF Watching
<1>7. pc'[x]["supervisor"] = "sleep" =>
           /\ sinceReceived'[x] < Bound
           /\ shouldContinue'[x] => sinceReceived'[x] < 3 * StartTime
  BY <1>1, <1>3 DEF Watching
<1>8. pc'[x]["supervisor"] = "sleeping" =>
           sinceReceived'[x] + sleepLeft'[x] < (IF shouldContinue'[x] THEN Bound ELSE Deadline)
  BY <1>1, <1>2, <1>3 DEF Watching
<1> QED BY <1>4, <1>5, <1>6, <1>7, <1>8 DEF Watching

\* What the supervisor does between two seconds.
LEMMA WatchBySupervisor ==
    ASSUME TypeOK, TypeOK', NEW x \in Endpoint, Says(x), Watching(x), SupervisorStep(x)
    PROVE  Watching(x)'
<1>1. /\ sinceReceived[x] \in Nat /\ sleepLeft[x] \in Nat
      /\ sinceReceived'[x] = sinceReceived[x]
  <2>1. sinceReceived[x] \in Nat /\ sleepLeft[x] \in Nat
    BY BoundAssumption, UInt16IsNat DEF TypeOK, DataTypeOK
  <2>2. UNCHANGED sinceReceived
    BY DEF SupervisorStep, SupervisorPeriod, SupervisorPatience, SupervisorLoop, While,
           SupervisorDiff, SupervisorTimeout, SupervisorSleep, SupervisorWake, Astray,
           PushStep, PushBuild, PushCheck, PushRecheck, PushTest, PushLock, PushConstruct,
           PushBump, Breaks, EndProcess, ageVars
  <2> QED BY <2>1, <2>2
<1>2. shouldContinue[x] \in BOOLEAN
  BY DEF TypeOK, DataTypeOK
<1>3. Bound <= Deadline /\ Bound \in Nat /\ Deadline \in Nat /\ 3 * StartTime \in Nat
  BY Bounds
<1> DEFINE at == pc[x]["supervisor"]
           to == pc'[x]["supervisor"]
<1>g. ASSUME NEW l, Goto(x, "supervisor", l) PROVE to = l
  BY <1>g DEF Goto, TypeOK, ControlTypeOK, Thread
<1>4. CASE PushStep(x, "supervisor")
  <2>1. at \in Pushing /\ to \in Pushing \cup {"timeout"}
    BY <1>4, <1>g
    DEF PushStep, PushBuild, PushCheck, PushRecheck, PushTest, PushLock, PushConstruct,
        PushBump, Breaks, EndProcess, At, Return, Pushing
  <2>2. UNCHANGED <<shouldContinue, expired>>
    BY <1>4
    DEF PushStep, PushBuild, PushCheck, PushRecheck, PushTest, PushLock, PushConstruct,
        PushBump, Breaks, EndProcess, supervisorVars
  <2>3. /\ sinceReceived[x] < Bound
        /\ ~expired[x] => sinceReceived[x] < 3 * StartTime
    BY <2>1 DEF Watching
  <2>4. to \in SupervisorAt /\ to \notin {"period", "patience", "loop", "diff", "sleep", "sleeping"}
    BY <2>1 DEF SupervisorAt, Pushing
  <2> QED BY <1>1, <2>2, <2>3, <2>4 DEF Watching
<1>5. CASE SupervisorPeriod(x) \/ SupervisorPatience(x)
  <2>1. at \in {"period", "patience"} /\ to \in {"patience", "loop"}
    BY <1>5, <1>g DEF SupervisorPeriod, SupervisorPatience, At
  <2>2. sinceReceived[x] < Bound
    BY <2>1 DEF Watching
  <2>3. sinceReceived[x] < Deadline
    BY <1>1, <1>3, <2>2
  <2> QED BY <1>1, <2>1, <2>2, <2>3 DEF Watching, SupervisorAt, Pushing
<1>6. CASE SupervisorLoop(x)
  <2>1. at = "loop" /\ to = IF shouldContinue[x] THEN "diff" ELSE "done"
    BY <1>6, <1>g DEF SupervisorLoop, While, At
  <2>2. shouldContinue[x] => sinceReceived[x] < Bound
    BY <2>1 DEF Watching
  <2> QED BY <1>1, <2>1, <2>2 DEF Watching, SupervisorAt, Pushing
<1>7. CASE SupervisorDiff(x)
  <2>1. at = "diff" /\ to \in {"build", "timeout"}
    BY <1>7, <1>g DEF SupervisorDiff, At
  <2>2. sinceReceived[x] < Bound /\ timeoutPeriod[x] = 3 * StartTime
    BY <2>1 DEF Watching, Says, Periodic
  <2>3. expired'[x] = Overdue(sinceReceived[x], 3 * StartTime)
    BY <1>7, <2>2 DEF SupervisorDiff, TypeOK, DataTypeOK
  <2>4. ~expired'[x] => sinceReceived[x] < 3 * StartTime
    <3>1. ~Overdue(sinceReceived[x], 3 * StartTime) => sinceReceived[x] < 3 * StartTime
      BY <1>1, <1>3 DEF Overdue
    <3> QED BY <2>3, <3>1, Zenon
  <2> QED BY <1>1, <2>1, <2>2, <2>4 DEF Watching, SupervisorAt, Pushing
<1>8. CASE SupervisorTimeout(x)
  <2>1. at = "timeout" /\ to = "sleep"
    BY <1>8, <1>g DEF SupervisorTimeout, At
  <2>2. /\ sinceReceived[x] < Bound
        /\ ~expired[x] => sinceReceived[x] < 3 * StartTime
    BY <2>1 DEF Watching
  <2>3. shouldContinue'[x] => ~expired[x]
    BY <1>8 DEF SupervisorTimeout, GoesOn, TypeOK, DataTypeOK
  <2> QED BY <1>1, <2>1, <2>2, <2>3 DEF Watching, SupervisorAt, Pushing
<1>9. CASE SupervisorSleep(x)
  <2>1. at = "sleep" /\ to = "sleeping" /\ UNCHANGED shouldContinue
    BY <1>9, <1>g DEF SupervisorSleep, At
  <2>2. /\ sinceReceived[x] < Bound
        /\ shouldContinue[x] => sinceReceived[x] < 3 * StartTime
    BY <2>1 DEF Watching
  <2>3. sleepLeft'[x] = Nap(StartTime)
    BY <1>9, <2>1 DEF SupervisorSleep, Says, Timely, TypeOK, DataTypeOK
  <2>4. sinceReceived[x] + Nap(StartTime) < (IF shouldContinue[x] THEN Bound ELSE Deadline)
    BY <1>1, <1>2, <2>2, Bounds
  <2> QED BY <1>1, <2>1, <2>3, <2>4 DEF Watching, SupervisorAt, Pushing
<1>10. CASE SupervisorWake(x)
  <2>1. at = "sleeping" /\ to = "loop" /\ UNCHANGED shouldContinue /\ sleepLeft[x] = 0
    BY <1>10, <1>g DEF SupervisorWake, At
  <2>2. sinceReceived[x] + 0 < (IF shouldContinue[x] THEN Bound ELSE Deadline)
    BY <2>1 DEF Watching
  <2>3. sinceReceived[x] < (IF shouldContinue[x] THEN Bound ELSE Deadline)
    BY <1>1, <2>2
  <2> QED BY <1>1, <2>1, <2>3 DEF Watching, SupervisorAt, Pushing
<1>11. CASE Astray(x)
  <2>1. to = "astray"
    BY <1>11, <1>g DEF Astray
  <2> QED BY <2>1 DEF Watching, SupervisorAt, Pushing
<1> QED
  BY <1>4, <1>5, <1>6, <1>7, <1>8, <1>9, <1>10, <1>11 DEF SupervisorStep

\* What the other threads and the network do between two seconds.
LEMMA WatchStep ==
    ASSUME MaxLag < Bound, TypeOK, TypeOK', AInv, NEW z \in Endpoint,
           ThreadStep(z) \/ NetworkStep(z), NEW x \in Endpoint, Reading(x), Watching(x)
    PROVE  Watching(x)'
<1>1. sinceReceived[x] \in Nat /\ sinceReceived'[x] \in Nat
  BY BoundAssumption DEF TypeOK, DataTypeOK
<1>2. sinceReceived[x] <= sinceReceived[x]
  BY <1>1
<1>3. CASE x # z
  BY <1>2, <1>3, StepFrame, ElseFrame, WatchEasier DEF Mine
<1>4. CASE x = z /\ ReceiveStep(x)
  <2>1. UNCHANGED <<shouldContinue, expired, sleepLeft>>
    BY <1>4
    DEF ReceiveStep, ReceiveLoop, While, ReceiveSync, ReceiveHeader, ReceiveStamp,
        ReceiveBody, ReceiveApply, ReceiveActivate, supervisorVars
  <2>2. sinceReceived'[x] = sinceReceived[x] \/ sinceReceived'[x] = 0
    BY <1>4
    DEF ReceiveStep, ReceiveLoop, While, ReceiveSync, ReceiveHeader, ReceiveStamp,
        ReceiveBody, ReceiveApply, ReceiveActivate, TypeOK, DataTypeOK, ageVars
  <2>3. sinceReceived'[x] <= sinceReceived[x]
    BY <1>1, <2>2
  <2>4. CASE ReceiveActivate(x)
    <3>1. /\ pc[x]["receive"] = "activate" /\ pc'[x]["supervisor"] = "period"
          /\ UNCHANGED sinceReceived
      BY <2>4 DEF ReceiveActivate, At, TypeOK, ControlTypeOK, Thread, ageVars
    <3>2. sinceReceived[x] < Bound
      <4>1. sinceReceived[x] <= MaxLag
        BY <3>1 DEF Reading
      <4> QED BY <1>1, <4>1, LagAssumption, Bounds
    <3> QED BY <3>1, <3>2 DEF Watching, SupervisorAt, Pushing
  <2>5. CASE ~ReceiveActivate(x)
    <3>1. pc'[x]["supervisor"] = pc[x]["supervisor"]
      BY <1>4, <2>5
      DEF ReceiveStep, ReceiveLoop, While, ReceiveSync, ReceiveHeader, ReceiveStamp,
          ReceiveBody, ReceiveApply, Goto, TypeOK, ControlTypeOK, Thread
    <3> QED BY <2>1, <2>3, <3>1, WatchEasier
  <2> QED BY <2>4, <2>5
<1>5. CASE x = z /\ SendStep(x)
  <2>1. /\ UNCHANGED <<shouldContinue, expired, sleepLeft, sinceReceived>>
        /\ pc'[x]["supervisor"] = pc[x]["supervisor"]
    BY <1>5
    DEF SendStep, SendLoop, While, SendPeek, SendLock, SendFront, SendSend, SendPop,
        Breaks, EndProcess, SendStamp, Goto, TypeOK, ControlTypeOK, Thread, ageVars,
        supervisorVars
  <2> QED BY <1>2, <2>1, WatchEasier
<1>6. CASE x = z /\ SupervisorStep(x)
  BY <1>6, WatchBySupervisor DEF AInv
<1>7. CASE x = z /\ OwnerStep(x)
  <2>1. UNCHANGED <<expired, sleepLeft, sinceReceived>>
    BY <1>7
    DEF OwnerStep, OwnerSupervise, OwnerClose, OwnerStop, OwnerJoinReceive, OwnerJoinSend,
        OwnerJoin, OwnerExit, OwnerBreaks, Breaks, EndProcess, PushStep, PushBuild,
        PushCheck, PushRecheck, PushTest, PushLock, PushConstruct, PushBump, ageVars,
        supervisorVars
  <2>2. pc'[x]["supervisor"] = pc[x]["supervisor"]
    BY <1>7
    DEF OwnerStep, OwnerSupervise, OwnerClose, OwnerStop, OwnerJoinReceive, OwnerJoinSend,
        OwnerJoin, OwnerExit, OwnerBreaks, Breaks, EndProcess, PushStep, PushBuild,
        PushCheck, PushRecheck, PushTest, PushLock, PushConstruct, PushBump, Goto, TypeOK,
        ControlTypeOK, Thread
  <2>3. shouldContinue'[x] => shouldContinue[x]
    BY <1>7, OwnerMoves DEF OwnerStop, TypeOK, DataTypeOK
  <2> QED BY <1>2, <2>1, <2>2, <2>3, WatchEasier
<1>8. CASE NetworkStep(z)
  <2>1. UNCHANGED <<shouldContinue, expired, sleepLeft, sinceReceived, pc>>
    BY <1>8 DEF NetworkStep, ageVars, supervisorVars
  <2> QED BY <1>2, <2>1, WatchEasier
<1> QED BY <1>3, <1>4, <1>5, <1>6, <1>7, <1>8 DEF ThreadStep

LEMMA HeardByReceive ==
    ASSUME TypeOK, NEW z \in Endpoint, ThreadStep(z) \/ NetworkStep(z),
           NEW x \in Endpoint, x = z => ~ReceiveStep(z)
    PROVE  sinceReceived'[x] = sinceReceived[x]
<1>1. CASE x # z
  BY <1>1, ElseFrame DEF Mine
<1>2. CASE SendStep(z)
  BY <1>2 DEF SendStep, SendLoop, While, SendPeek, SendLock, SendFront, SendSend, SendPop,
              Breaks, EndProcess, SendStamp, ageVars
<1>3. ASSUME NEW t, PushStep(z, t) PROVE UNCHANGED sinceReceived
  BY <1>3 DEF PushStep, PushBuild, PushCheck, PushRecheck, PushTest, PushLock,
              PushConstruct, PushBump, Breaks, EndProcess, ageVars
<1>4. CASE SupervisorStep(z)
  BY <1>3, <1>4
  DEF SupervisorStep, SupervisorPeriod, SupervisorPatience, SupervisorLoop, While,
      SupervisorDiff, SupervisorTimeout, SupervisorSleep, SupervisorWake, Astray, ageVars
<1>5. CASE OwnerStep(z)
  BY <1>3, <1>5
  DEF OwnerStep, OwnerSupervise, OwnerClose, OwnerStop, OwnerJoinReceive, OwnerJoinSend,
      OwnerJoin, OwnerExit, OwnerBreaks, Breaks, EndProcess, ageVars
<1>6. CASE NetworkStep(z)
  BY <1>6 DEF NetworkStep, ageVars
<1> QED BY <1>1, <1>2, <1>4, <1>5, <1>6 DEF ThreadStep

LEMMA ReadStep ==
    ASSUME TypeOK, TypeOK', IInv, AInv, AInv', lag \in [Endpoint -> 0..MaxLag],
           NEW z \in Endpoint, ThreadStep(z) \/ NetworkStep(z), NEW x \in Endpoint,
           lag'[x] = IF stream'[x] = <<>> THEN 0 ELSE lag[x], Reading(x)
    PROVE  Reading(x)'
<1>0. sinceReceived[x] \in Nat /\ sinceReceived'[x] \in Nat /\ lag[x] \in Nat /\ MaxLag \in Nat
  BY BoundAssumption, LagAssumption DEF TypeOK, DataTypeOK
<1>1. CASE x = z /\ ReceiveStep(x)
  <2> USE DEF TypeOK, ControlTypeOK, DataTypeOK, Thread
  <2>1. CASE ReceiveStamp(x)
    <3>1. sinceReceived'[x] = 0 /\ pc'[x]["receive"] \in {"body", "loop"}
      BY <2>1 DEF ReceiveStamp, Goto
    <3>2. 0 <= lag'[x] /\ 0 <= MaxLag
      BY <1>0
    <3> QED BY <3>1, <3>2 DEF Reading
  <2>2. CASE ReceiveBody(x) \/ ReceiveApply(x)
    <3>1. /\ pc[x]["receive"] \in {"body", "apply"} /\ UNCHANGED sinceReceived
          /\ pc'[x]["receive"] \in {"apply", "activate", "loop"}
      <4>1. CASE ReceiveBody(x)
        BY <4>1 DEF ReceiveBody, At, Goto, ageVars
      <4>2. CASE ReceiveApply(x)
        BY <4>2 DEF ReceiveApply, At, Goto, ageVars
      <4> QED BY <2>2, <4>1, <4>2
    <3> QED BY <3>1 DEF Reading
  <2>3. CASE ~ReceiveStamp(x) /\ ~ReceiveBody(x) /\ ~ReceiveApply(x)
    <3>1. pc'[x]["receive"] \in {"loop", "sync", "header", "stamp", "done"}
      BY <1>1, <2>3 DEF ReceiveStep, ReceiveLoop, While, ReceiveSync, AfterSync,
                        ReceiveHeader, ReceiveActivate, Goto
    <3> QED BY <3>1 DEF Reading
  <2> QED BY <2>1, <2>2, <2>3
<1>2. CASE x = z => ~ReceiveStep(z)
  <2>1. sinceReceived'[x] = sinceReceived[x]
    BY <1>2, HeardByReceive
  <2>2. pc'[x]["receive"] = pc[x]["receive"]
    BY <1>2, ReceiveUnmoved
  <2>3. ASSUME pc[x]["receive"] = "body" PROVE sinceReceived[x] <= lag'[x] \/ Ended(x)'
    <3>1. CASE stream'[x] = <<>>
      <4>1. Framed(x)'
        BY DEF AInv, Wire
      <4>2. Off(x)' = 10
        BY <2>2, <2>3 DEF Off
      <4>3. ~Lost(x)' /\ ~OneOther(stream[x], Off(x))'
        BY <2>2, <2>3, <3>1 DEF Lost, Astride, OneOther
      <4>4. Ended(x)' \/ Whole(<<>>, 10)
        BY <3>1, <4>1, <4>2, <4>3 DEF Framed, Whole
      <4> QED BY <4>4, WholeRestOfOne
    <3>2. CASE stream'[x] # <<>>
      <4>1. Down(x) /\ Fed(x)
        BY <1>2, StepDown, StepFeeds DEF AInv, Wire
      <4>2. Ended(x) => Ended(x)'
        BY <4>1, FedOn
      <4> QED BY <2>3, <3>2, <4>2 DEF Reading
    <3> QED BY <3>1, <3>2
  <2> QED BY <2>1, <2>2, <2>3 DEF Reading
<1> QED BY <1>1, <1>2

\* A second passes only while the receive thread of x waits for bytes ...
LEMMA ReadTick ==
    ASSUME TypeOK, TypeOK', AInv, lag \in [Endpoint -> 0..MaxLag], PromptTick,
           NEW x \in Endpoint, process[x] = "up", Reading(x)
    PROVE  Reading(x)'
<1>0. sinceReceived[x] \in Nat /\ lag[x] \in Nat /\ MaxLag \in Nat
  BY BoundAssumption, LagAssumption DEF TypeOK, DataTypeOK
<1>1. ReceiveWaits(x)
  BY DEF PromptTick, Waits
<1>2. UNCHANGED <<pc, stream, fd, remote, process>>
  BY DEF PromptTick, Tick, socketVars
<1>3. ASSUME pc[x]["receive"] = "body"
      PROVE  sinceReceived'[x] <= MaxLag /\ sinceReceived'[x] <= lag'[x]
  <2>1. /\ fd[x] # "closed"
        /\ IF stream[x] = <<>> THEN remote[x] = "open" ELSE lag[x] < MaxLag
    BY <1>1, <1>3 DEF ReceiveWaits
  <2>2. ~Ended(x)
    BY <2>1 DEF Ended, Cut
  <2>3. stream[x] # <<>>
    BY <1>3, <2>2, BodyThere DEF AInv, Wire
  <2>4. lag[x] < MaxLag /\ sinceReceived[x] <= lag[x]
    BY <1>3, <2>1, <2>2, <2>3 DEF Reading
  <2>5. lag'[x] = lag[x] + 1
    BY <1>0, <2>3, <2>4 DEF PromptTick, AtMost
  <2>6. sinceReceived'[x] <= sinceReceived[x] + 1 /\ sinceReceived'[x] \in Nat
    <3>1. sinceReceived'[x] = Older(sinceReceived[x])
      BY DEF PromptTick, Tick
    <3> QED BY <1>0, <3>1, BoundAssumption DEF Older, AtMost
  <2> QED BY <1>0, <2>4, <2>5, <2>6
<1>4. pc[x]["receive"] \notin {"apply", "activate"}
  BY <1>1 DEF ReceiveWaits, Receiving
<1> QED BY <1>2, <1>3, <1>4 DEF Reading

\* ... and its supervisor sleeps, is not running yet or has ended.
LEMMA WatchTick ==
    ASSUME TypeOK, TypeOK', PromptTick, NEW x \in Endpoint, process[x] = "up", Watching(x)
    PROVE  Watching(x)'
<1>0. sinceReceived[x] \in Nat /\ sleepLeft[x] \in Nat
  BY BoundAssumption, UInt16IsNat DEF TypeOK, DataTypeOK
<1>1. SupervisorWaits(x)
  BY DEF PromptTick, Waits
<1>2. UNCHANGED <<pc, shouldContinue>>
  BY DEF PromptTick, Tick
<1>3. CASE pc[x]["supervisor"] \in {"off", "done", "astray"}
  BY <1>2, <1>3 DEF Watching, Pushing
<1>4. CASE pc[x]["supervisor"] = "sleeping" /\ sleepLeft[x] > 0
  <2>1. sleepLeft'[x] = sleepLeft[x] - 1
    BY <1>4 DEF PromptTick, Tick
  <2>2. sinceReceived'[x] <= sinceReceived[x] + 1 /\ sinceReceived'[x] \in Nat
    <3>1. sinceReceived'[x] = Older(sinceReceived[x])
      BY DEF PromptTick, Tick
    <3> QED BY <1>0, <3>1, BoundAssumption DEF Older, AtMost
  <2>3. sinceReceived[x] + sleepLeft[x] < (IF shouldContinue[x] THEN Bound ELSE Deadline)
    BY <1>4 DEF Watching
  <2>4. sinceReceived'[x] + sleepLeft'[x] < (IF shouldContinue[x] THEN Bound ELSE Deadline)
    BY <1>0, <2>1, <2>2, <2>3, Bounds
  <2> QED BY <1>2, <1>4, <2>4 DEF Watching, Pushing
<1> QED BY <1>1, <1>3, <1>4 DEF SupervisorWaits

LEMMA InitBInv == TimedInit => BInv
<1> SUFFICES ASSUME TimedInit, NEW x \in Endpoint PROVE Reading(x) /\ Watching(x)
  BY LagAssumption DEF TimedInit, BInv
<1>1. pc[x]["receive"] \in {"loop", "done"} /\ pc[x]["supervisor"] = "off"
  BY DEF TimedInit, Init, StartLabel, Thread
<1> QED BY <1>1 DEF Reading, Watching, SupervisorAt, Pushing

LEMMA NextBInv ==
    ASSUME MaxLag < Bound, IInv, IInv', AInv, AInv', BInv, [TimedNext]_timedVars
    PROVE  BInv'
<1>0. TypeOK /\ TypeOK'
  BY DEF IInv, LInv
<1>1. ASSUME NEW z \in Endpoint, TimedStep(ThreadStep(z)) \/ TimedStep(NetworkStep(z))
      PROVE  BInv'
  <2>1. /\ ThreadStep(z) \/ NetworkStep(z)
        /\ lag' = [e \in Endpoint |-> IF stream'[e] = <<>> THEN 0 ELSE lag[e]]
    BY <1>1 DEF TimedStep
  <2>2. lag' \in [Endpoint -> 0..MaxLag]
    BY <2>1, LagAssumption DEF BInv
  <2>3. ASSUME NEW x \in Endpoint, process'[x] = "up" PROVE Reading(x)' /\ Watching(x)'
    <3>1. process[x] = "up"
      BY <2>1, <2>3, <1>0, StepDown DEF AInv, Wire, Down
    <3>2. Reading(x) /\ Watching(x) /\ lag \in [Endpoint -> 0..MaxLag]
      BY <3>1 DEF BInv
    <3>3. lag'[x] = IF stream'[x] = <<>> THEN 0 ELSE lag[x]
      BY <2>1
    <3> QED BY <1>0, <2>1, <3>2, <3>3, ReadStep, WatchStep
  <2> QED BY <2>2, <2>3 DEF BInv
<1>2. CASE PromptTick
  <2>1. lag' \in [Endpoint -> 0..MaxLag]
    <3>1. \A e \in Endpoint : AtMost(lag[e] + 1, MaxLag) \in 0..MaxLag
      BY LagAssumption DEF BInv, AtMost
    <3> QED BY <1>2, <3>1, LagAssumption DEF PromptTick
  <2>2. UNCHANGED process
    BY <1>2 DEF PromptTick, Tick, socketVars
  <2>3. ASSUME NEW x \in Endpoint, process'[x] = "up" PROVE Reading(x)' /\ Watching(x)'
    BY <1>0, <1>2, <2>2, <2>3, ReadTick, WatchTick DEF BInv
  <2> QED BY <2>1, <2>3 DEF BInv
<1>3. CASE UNCHANGED timedVars
  BY <1>3 DEF timedVars, vars, socketVars, queueVars, ageVars, supervisorVars, BInv, Reading,
              Watching, Ended, Cut
<1> QED BY <1>1, <1>2, <1>3 DEF TimedNext

LEMMA TimedBounds == Steady /\ MaxLag < Bound => (TimedSpec => []BInv)
<1> SUFFICES ASSUME Steady, MaxLag < Bound PROVE TimedSpec => []BInv
  OBVIOUS
<1>1. TimedSpec => [](IInv /\ AInv)
  BY TimedInvariant
<1>2. TimedInit => BInv
  BY InitBInv
<1>3. /\ IInv /\ AInv /\ (IInv /\ AInv)' /\ BInv /\ [TimedNext]_timedVars
      => BInv'
  BY NextBInv
<1> QED BY <1>1, <1>2, <1>3, PTL DEF TimedSpec

-----------------------------------------------------------------------------
\* Both ends supervise with the period the Client asked for, however their threads are
\* scheduled and however long anything takes: every heartbeat either of them announces
\* (OcpConnectionEndpoint.cxx:206-229) and takes over (line 147) carries that period, and no
\* supervisor computes its own (176-177) before.
THEOREM AgreementAlways == Steady => (Spec => []Agreement)
<1>1. AInv => Agreement
  BY DEF AInv, Says, Periodic, Agreement, Supervised
<1> QED BY ValueInvariant, <1>1, PTL

\* Silence is noticed within three periods and one nap (lines 176-200), if no bytes stay on
\* their way for longer than that, whatever the period and the number of endpoints.
THEOREM DetectionBoundAlways ==
    Steady /\ MaxLag < Bound => (TimedSpec => []DetectionBound)
<1> SUFFICES ASSUME Steady, MaxLag < Bound PROVE TimedSpec => []DetectionBound
  OBVIOUS
<1>1. IInv /\ BInv => DetectionBound
  <2> SUFFICES ASSUME IInv, BInv, NEW e \in Endpoint, shouldContinue[e], Supervised(e)
               PROVE  sinceReceived[e] < 3 * StartTime + StartTime \div 2
    BY DEF DetectionBound
  <2>1. Watching(e) /\ sinceReceived[e] \in Nat /\ sleepLeft[e] \in Nat
    BY BoundAssumption, UInt16IsNat DEF BInv, Supervised, IInv, LInv, TypeOK, DataTypeOK
  <2>2. pc[e]["supervisor"] \in {"loop", "diff", "timeout", "sleep", "sleeping"} \cup Pushing
    BY <2>1 DEF Supervised, Watching, SupervisorAt
  <2>3. sinceReceived[e] < Bound
    <3>1. CASE pc[e]["supervisor"] = "sleeping"
      <4>1. sinceReceived[e] + sleepLeft[e] < Bound
        BY <2>1, <3>1 DEF Watching
      <4> QED BY <2>1, <4>1, Bounds
    <3> QED BY <2>1, <2>2, <3>1 DEF Watching
  <2> QED BY <2>3 DEF Bound
<1> QED BY <1>1, TimedInvariant, TimedBounds, PTL

\* A supervisor is astray only where there is no object any more.
Stray == \A x \in Endpoint : pc[x]["supervisor"] = "astray" => pc[x]["owner"] = "freed"

LEMMA StepStray ==
    ASSUME TypeOK, Stray, NEW z \in Endpoint, ThreadStep(z) \/ NetworkStep(z)
    PROVE  Stray'
<1> SUFFICES ASSUME NEW x \in Endpoint, pc'[x]["supervisor"] = "astray"
             PROVE  pc'[x]["owner"] = "freed"
  BY DEF Stray
<1> USE DEF TypeOK, ControlTypeOK, Thread
<1>1. CASE x # z
  BY <1>1, StepFrame DEF Stray
<1>2. CASE x = z /\ ReceiveStep(z)
  BY <1>2 DEF ReceiveStep, ReceiveLoop, While, ReceiveSync, ReceiveHeader, ReceiveStamp,
              ReceiveBody, ReceiveApply, ReceiveActivate, Goto, Stray
<1>3. CASE x = z /\ SendStep(z)
  BY <1>3 DEF SendStep, SendLoop, While, SendPeek, SendLock, SendFront, SendSend, SendPop,
              Breaks, SendStamp, Goto, Stray
<1>4. CASE x = z /\ SupervisorStep(z)
  <2>1. CASE PushStep(z, "supervisor")
    BY <1>4, <2>1 DEF PushStep, PushBuild, PushCheck, PushRecheck, PushTest, PushLock,
                      PushConstruct, PushBump, Breaks, Return, At, Goto, Stray
  <2>2. CASE Astray(z)
    BY <1>4, <2>2 DEF Astray, Goto
  <2>3. CASE ~PushStep(z, "supervisor") /\ ~Astray(z)
    BY <1>4, <2>3
    DEF SupervisorStep, SupervisorPeriod, SupervisorPatience, SupervisorLoop, While,
        SupervisorDiff, SupervisorTimeout, SupervisorSleep, SupervisorWake, Goto
  <2> QED BY <2>1, <2>2, <2>3
<1>5. CASE x = z /\ OwnerStep(z)
  <2>1. (\E l : Goto(z, "owner", l)) \/ UNCHANGED pc
    BY <1>5
    DEF OwnerStep, OwnerSupervise, OwnerClose, OwnerStop, OwnerJoinReceive, OwnerJoinSend,
        OwnerJoin, OwnerExit, OwnerBreaks, PushStep, PushBuild, PushCheck, PushRecheck,
        PushTest, PushLock, PushConstruct, PushBump
  <2>2. pc'[z]["supervisor"] = pc[z]["supervisor"]
    BY <2>1 DEF Goto
  <2>3. pc[z]["owner"] = "freed" => UNCHANGED pc
    BY <1>5
    DEF OwnerStep, OwnerSupervise, OwnerClose, OwnerStop, OwnerJoinReceive, OwnerJoinSend,
        OwnerJoin, OwnerExit, OwnerBreaks, PushStep, PushBuild, PushCheck, PushRecheck,
        PushTest, PushLock, PushConstruct, PushBump, At
  <2> QED BY <1>5, <2>2, <2>3 DEF Stray
<1>6. CASE NetworkStep(z)
  BY <1>6 DEF NetworkStep, Stray
<1> QED BY <1>1, <1>2, <1>3, <1>4, <1>5, <1>6 DEF ThreadStep

LEMMA StrayInvariant == Spec => []Stray
<1>1. Init => Stray
  BY DEF Init, Stray, StartLabel, Thread
<1>2. IInv /\ Stray /\ [Next]_vars => Stray'
  <2> SUFFICES ASSUME IInv, Stray, [Next]_vars PROVE Stray'
    OBVIOUS
  <2>1. TypeOK
    BY DEF IInv, LInv
  <2>2. CASE Tick \/ UNCHANGED vars
    BY <2>2 DEF Tick, vars, Stray
  <2> QED BY <2>1, <2>2, StepStray DEF Next
<1> QED BY <1>1, <1>2, Invariant, PTL DEF Spec

\* As long as the object is there, its supervisor has ended by itself three periods and two
\* naps after the last message (lines 179-203): a destructor that frees the object later
\* (307-313) leaves no thread that uses it, although it does not join the supervisor.
THEOREM SupervisorEndsAlways ==
    Steady /\ MaxLag < Bound => (TimedSpec => []SupervisorEnds)
<1> SUFFICES ASSUME Steady, MaxLag < Bound PROVE TimedSpec => []SupervisorEnds
  OBVIOUS
<1>1. IInv /\ BInv /\ Stray => SupervisorEnds
  <2> SUFFICES ASSUME IInv, BInv, Stray, NEW e \in Endpoint, process[e] = "up",
                      pc[e]["owner"] # "freed", pc[e]["supervisor"] \notin {"off", "done"}
               PROVE  sinceReceived[e] < 3 * StartTime + 2 * (StartTime \div 2)
    BY DEF SupervisorEnds
  <2>0. pc[e]["supervisor"] # "astray"
    BY DEF Stray
  <2>1. Watching(e) /\ sinceReceived[e] \in Nat /\ sleepLeft[e] \in Nat
    BY BoundAssumption, UInt16IsNat DEF BInv, IInv, LInv, TypeOK, DataTypeOK
  <2>2. pc[e]["supervisor"] \in {"period", "patience", "loop", "diff", "timeout", "sleep",
                                 "sleeping"} \cup Pushing
    BY <2>0, <2>1 DEF Watching, SupervisorAt
  <2>3. Bound \in Nat /\ Deadline \in Nat /\ Bound <= Deadline
    BY Bounds
  <2>4. sinceReceived[e] < Deadline
    <3>1. CASE pc[e]["supervisor"] = "sleeping"
      <4>1. sinceReceived[e] + sleepLeft[e] < Bound \/ sinceReceived[e] + sleepLeft[e] < Deadline
        BY <2>1, <3>1 DEF Watching
      <4> QED BY <2>1, <2>3, <4>1
    <3>2. CASE pc[e]["supervisor"] = "loop"
      <4>1. sinceReceived[e] < Bound \/ sinceReceived[e] < Deadline
        BY <2>1, <3>2 DEF Watching
      <4> QED BY <2>1, <2>3, <4>1
    <3>3. CASE pc[e]["supervisor"] \notin {"sleeping", "loop"}
      <4>1. sinceReceived[e] < Bound
        BY <2>1, <2>2, <3>3 DEF Watching
      <4> QED BY <2>1, <2>3, <4>1
    <3> QED BY <3>1, <3>2, <3>3
  <2> QED BY <2>4, Bounds
<1>2. TimedSpec => []Stray
  BY StrayInvariant, TimedImplementsSpec, PTL
<1> QED BY <1>1, <1>2, TimedInvariant, TimedBounds, PTL
=============================================================================
