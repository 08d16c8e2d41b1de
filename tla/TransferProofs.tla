---------------------------- MODULE TransferProofs ----------------------------
(***************************************************************************)
(* Proofs about what reaches the device through the air.                   *)
(*                                                                         *)
(* Payloads over BLE, for any payloads, sizes of a write and of the        *)
(* buffer, and any number of writes under way: as long as nothing fails    *)
(* the application is given the payloads that were sent, and the device    *)
(* stays reachable.  The writes under way are read as a track: the places  *)
(* in the payloads that the device passes when it takes them in one after  *)
(* the other, from what its buffer holds to where the client is.           *)
(*                                                                         *)
(* Firmware images over HTTP, for every set of images and releases and     *)
(* every bound: the device keeps something to boot, and something to go    *)
(* back to, and only a verified image is selected.                         *)
(***************************************************************************)
EXTENDS BleTransfer, OtaManager, TLAPS, SequenceTheorems

-----------------------------------------------------------------------------
(* Payloads and their parts.                                                *)

LEMMA Constants ==
  /\ Hdr \in Nat /\ Hdr >= 1 /\ Chunk \in Nat /\ Hdr < Chunk /\ BufSize \in Nat /\ Chunk <= BufSize
  /\ \A p \in Payload : Size[p] \in Nat /\ Size[p] <= BufSize /\ p # Nobody
  /\ Window \in Nat /\ Window >= 1
  BY BleAssumption

LEMMA Units ==
  ASSUME NEW p \in Payload
  PROVE  /\ Data(p) \in Seq(Unit) /\ Len(Data(p)) = Size[p]
         /\ Header(p) \in Seq(Unit) /\ Len(Header(p)) = Hdr
<1>1. \A k \in 0 .. BufSize : <<p, k>> \in Unit
  BY DEF Unit
<1>2. \A k \in 1 .. Size[p] : <<p, k>> \in Unit
  BY <1>1, Constants
<1>3. 0 \in 0 .. BufSize
  BY Constants
<1>4. \A k \in 1 .. Hdr : <<p, 0>> \in Unit
  BY <1>1, <1>3
<1>5. Data(p) \in [1 .. Size[p] -> Unit]
  BY <1>2 DEF Data
<1>6. Header(p) \in [1 .. Hdr -> Unit]
  BY <1>4 DEF Header
<1> QED
  BY <1>5, <1>6, Constants

\* A header tells the payloads apart.
LEMMA HeaderTells ==
  ASSUME NEW p \in Payload, NEW q \in Payload, Header(p) = Header(q)
  PROVE  p = q
<1>1. Header(p)[1] = <<p, 0>> /\ Header(q)[1] = <<q, 0>>
  BY Constants DEF Header
<1> QED
  BY <1>1

\* The part of a payload from one place to another.
LEMMA Part ==
  ASSUME NEW p \in Payload, NEW m \in 0 .. Size[p], NEW n \in m .. Size[p]
  PROVE  /\ SubSeq(Data(p), m + 1, n) \in Seq(Unit)
         /\ Len(SubSeq(Data(p), m + 1, n)) = n - m
         /\ SubSeq(Data(p), 1, m) \o SubSeq(Data(p), m + 1, n) = SubSeq(Data(p), 1, n)
<1>1. Data(p) \in Seq(Unit) /\ Len(Data(p)) = Size[p] /\ Size[p] \in Nat
  BY Units, Constants
<1>2. \A i \in m + 1 .. n : Data(p)[i] \in Unit
  BY <1>1, ElementOfSeq
<1>3. m + 1 \in Int /\ n \in Int
  BY <1>1
<1>4. /\ SubSeq(Data(p), m + 1, n) \in Seq(Unit)
      /\ Len(SubSeq(Data(p), m + 1, n)) = IF m + 1 <= n THEN n - (m + 1) + 1 ELSE 0
  BY <1>2, <1>3, SubSeqProperties
<1>5. 1 \in 1 .. Len(Data(p)) + 1 /\ m \in 1 - 1 .. Len(Data(p)) /\ n \in m .. Len(Data(p))
  BY <1>1
<1>6. SubSeq(Data(p), 1, m) \o SubSeq(Data(p), m + 1, n) = SubSeq(Data(p), 1, n)
  BY <1>1, <1>5, ConcatAdjacentSubSeq
<1> QED
  BY <1>1, <1>4, <1>6

\* The beginning of a payload.
LEMMA Beginning ==
  ASSUME NEW p \in Payload, NEW n \in 0 .. Size[p]
  PROVE  /\ SubSeq(Data(p), 1, n) \in Seq(Unit)
         /\ Len(SubSeq(Data(p), 1, n)) = n
         /\ n = Size[p] => SubSeq(Data(p), 1, n) = Data(p)
<1>1. Data(p) \in Seq(Unit) /\ Len(Data(p)) = Size[p] /\ Size[p] \in Nat
  BY Units, Constants
<1>2. 0 \in 0 .. Size[p] /\ n - 0 = n /\ 0 + 1 = 1
  BY <1>1
<1>3. SubSeq(Data(p), 1, Size[p]) = Data(p)
  BY <1>1, SubSeqFull
<1>4. SubSeq(Data(p), 0 + 1, n) \in Seq(Unit) /\ Len(SubSeq(Data(p), 0 + 1, n)) = n - 0
  BY <1>2, Part
<1> QED
  BY <1>2, <1>3, <1>4

\* What follows the first of two sequences.
LEMMA AfterHead ==
  ASSUME NEW h \in Seq(Unit), NEW d \in Seq(Unit), Len(d) >= 1
  PROVE  SubSeq(h \o d, Len(h) + 1, Len(h) + Len(d)) = d
<1> DEFINE w == h \o d
           a == Len(h)
           n == Len(d)
           t == SubSeq(w, a + 1, a + n)
<1>1. w \in Seq(Unit) /\ Len(w) = a + n /\ \A i \in 1 .. a + n : w[i] = IF i <= a THEN h[i] ELSE d[i - a]
  BY ConcatProperties
<1>2. a \in Nat /\ n \in Nat /\ n >= 1
  BY LenProperties
<1> HIDE DEF w, a, n
<1>3. \A i \in a + 1 .. a + n : w[i] \in Unit
  BY <1>1, <1>2, ElementOfSeq
<1>4. /\ t \in Seq(Unit) /\ Len(t) = IF a + 1 <= a + n THEN a + n - (a + 1) + 1 ELSE 0
      /\ \A i \in 1 .. a + n - (a + 1) + 1 : t[i] = w[a + 1 + i - 1]
  BY <1>2, <1>3, SubSeqProperties
<1> HIDE DEF t
<1>5. Len(t) = n
  BY <1>2, <1>4
<1>6. \A i \in 1 .. n : t[i] = d[i]
  BY <1>1, <1>2, <1>4
<1>7. t = d
  BY <1>4, <1>5, <1>6, SeqEqual DEF n
<1> QED
  BY <1>7 DEF t, w, a, n

\* The first write of a payload: the header, and n units after it.
LEMMA FirstWrite ==
  ASSUME NEW p \in Payload, NEW n \in 0 .. Size[p]
  PROVE  LET w == Header(p) \o SubSeq(Data(p), 1, n)
         IN  /\ w \in Seq(Unit) /\ Len(w) = Hdr + n
             /\ SubSeq(w, 1, Hdr) = Header(p)
             /\ SubSeq(w, Hdr + 1, Len(w)) = SubSeq(Data(p), 1, n)
<1> DEFINE h == Header(p)
           d == SubSeq(Data(p), 1, n)
           w == h \o d
<1>1. h \in Seq(Unit) /\ Len(h) = Hdr /\ d \in Seq(Unit) /\ Len(d) = n
  BY Units, Beginning
<1>2. n \in Nat /\ Hdr \in Nat /\ Hdr >= 1
  BY Constants
<1> HIDE DEF h, d
<1>3. w \in Seq(Unit) /\ Len(w) = Hdr + n
  BY <1>1, ConcatProperties
<1>4. SubSeq(w, 1, Hdr) = h
  <2>1. 1 \in 1 .. Len(h) /\ Hdr \in 1 .. Len(h)
    BY <1>1, <1>2
  <2>2. SubSeq(w, 1, Hdr) = SubSeq(h, 1, Hdr)
    BY <1>1, <2>1, SubSeqOfConcat1
  <2> QED
    BY <1>1, <2>2, SubSeqFull
<1>5. SubSeq(w, Hdr + 1, Len(w)) = d
  <2>1. CASE n = 0
    <3>1. d = <<>>
      BY <1>1, <2>1, EmptySeq
    <3>2. Len(w) < Hdr + 1 /\ Len(w) \in Int /\ Hdr + 1 \in Int
      BY <1>2, <1>3, <2>1
    <3>3. SubSeq(w, Hdr + 1, Len(w)) = <<>>
      BY <3>2, SubSeqEmpty
    <3> QED
      BY <3>1, <3>3
  <2>2. CASE n # 0
    <3>1. Len(d) >= 1 /\ Len(w) = Len(h) + Len(d) /\ Hdr + 1 = Len(h) + 1
      BY <1>1, <1>2, <1>3, <2>2
    <3> QED
      BY <1>1, <3>1, AfterHead
  <2> QED
    BY <2>1, <2>2
<1> QED
  BY <1>3, <1>4, <1>5 DEF h, d

-----------------------------------------------------------------------------
(* The track.                                                               *)

\* A place: how much of a payload has gone by.
Positions == {s \in [of : Payload \cup {Nobody}, to : 0 .. BufSize] :
             s.of # Nobody => s.to <= Size[s.of]}

\* It is not within a payload.
Whole(s) == s.of = Nobody \/ s.to = Size[s.of]

\* The write that leads from one place to another.
Leads(s, w, t) ==
  /\ t.of \in Payload
  /\ \/ /\ Whole(s)
        /\ t.to \in 0 .. Size[t.of] /\ Hdr + t.to <= Chunk /\ (t.to > 0 \/ Size[t.of] = 0)
        /\ w = Header(t.of) \o SubSeq(Data(t.of), 1, t.to)
     \/ /\ ~Whole(s) /\ t.of = s.of
        /\ t.to \in s.to + 1 .. Size[t.of] /\ t.to - s.to <= Chunk
        /\ w = SubSeq(Data(t.of), s.to + 1, t.to)

\* What the buffer holds at a place.
Holds(s, b, n) ==
  IF Whole(s) THEN b = <<>>
  ELSE s.to > 0 /\ n = Size[s.of] /\ b = SubSeq(Data(s.of), 1, s.to)

IsTrack(t) ==
  /\ t \in [0 .. Len(air) -> Positions]
  /\ Holds(t[0], buf, expected)
  /\ \A i \in 1 .. Len(air) : Leads(t[i - 1], air[i], t[i])
  /\ t[Len(air)] = [of |-> sending, to |-> offset]

TransferInv ==
  /\ BleTypeOK
  /\ \A i \in 1 .. Len(air) : Len(air[i]) <= Chunk
  /\ calm => DeliveredIntact /\ \E t \in [0 .. Len(air) -> Positions] : IsTrack(t)

\* A write that leads somewhere: where from, what it is made of, and where to.
LEMMA LeadsWithin ==
  ASSUME NEW s \in Positions, NEW w, NEW t \in Positions, Leads(s, w, t)
  PROVE  /\ t.of \in Payload /\ t.to \in 0 .. Size[t.of]
         /\ ~Whole(t) => t.to > 0
         /\ w \in Seq(Unit) /\ Len(w) <= Chunk
         /\ Whole(s) => /\ Len(w) >= Hdr /\ SubSeq(w, 1, Hdr) = Header(t.of)
                        /\ SubSeq(w, Hdr + 1, Len(w)) = SubSeq(Data(t.of), 1, t.to)
         /\ ~Whole(s) => /\ t.of = s.of /\ s.to \in 0 .. t.to
                         /\ w = SubSeq(Data(t.of), s.to + 1, t.to)
<1> DEFINE p == t.of
<1>1. p \in Payload /\ Size[p] \in Nat /\ Hdr \in Nat /\ Hdr >= 1 /\ Chunk \in Nat /\ Hdr < Chunk
  BY Constants DEF Leads
<1>2. t.to \in 0 .. Size[p]
  BY <1>1, Constants DEF Positions
<1>3. CASE Whole(s)
  <2>1. /\ Hdr + t.to <= Chunk /\ (t.to > 0 \/ Size[p] = 0)
        /\ w = Header(p) \o SubSeq(Data(p), 1, t.to)
    BY <1>3 DEF Leads
  <2>2. ~Whole(t) => t.to > 0
    BY <1>1, <1>2, <2>1 DEF Whole
  <2>3. /\ w \in Seq(Unit) /\ Len(w) = Hdr + t.to
        /\ SubSeq(w, 1, Hdr) = Header(p)
        /\ SubSeq(w, Hdr + 1, Len(w)) = SubSeq(Data(p), 1, t.to)
    BY <1>1, <1>2, <2>1, FirstWrite
  <2>4. Len(w) <= Chunk /\ Len(w) >= Hdr
    BY <1>1, <1>2, <2>1, <2>3
  <2> QED
    BY <1>1, <1>2, <1>3, <2>2, <2>3, <2>4
<1>4. CASE ~Whole(s)
  <2>1. /\ p = s.of /\ t.to \in s.to + 1 .. Size[p] /\ t.to - s.to <= Chunk
        /\ w = SubSeq(Data(p), s.to + 1, t.to)
    BY <1>4 DEF Leads
  <2>2. s.to \in Nat
    BY Constants DEF Positions
  <2>3. t.to > 0 /\ s.to \in 0 .. t.to /\ t.to \in s.to .. Size[p] /\ s.to \in 0 .. Size[p]
    BY <1>1, <2>1, <2>2
  <2>4. w \in Seq(Unit) /\ Len(w) = t.to - s.to
    BY <1>1, <2>1, <2>3, Part
  <2> QED
    BY <1>1, <1>2, <1>4, <2>1, <2>3, <2>4
<1> QED
  BY <1>3, <1>4

\* The track of a queue with one more write at its end.
LEMMA TrackGrows ==
  ASSUME NEW t, IsTrack(t), air \in Seq(Seq(Unit)), NEW w \in Seq(Unit), NEW e \in Positions,
         Leads([of |-> sending, to |-> offset], w, e),
         air' = Append(air, w), buf' = buf, expected' = expected,
         e = [of |-> sending', to |-> offset']
  PROVE  \E u \in [0 .. Len(air') -> Positions] : IsTrack(u)'
<1>1. /\ Len(air) \in Nat /\ Len(air') = Len(air) + 1 /\ air'[Len(air) + 1] = w
      /\ \A i \in 1 .. Len(air) : air'[i] = air[i]
  BY AppendProperties, EmptySeq, LenProperties
<1>2. /\ t \in [0 .. Len(air) -> Positions] /\ Holds(t[0], buf, expected)
      /\ \A i \in 1 .. Len(air) : Leads(t[i - 1], air[i], t[i])
      /\ t[Len(air)] = [of |-> sending, to |-> offset]
  BY DEF IsTrack
<1>3. PICK n \in Nat : n = Len(air)
  BY <1>1
<1>4. PICK u : u = [i \in 0 .. n + 1 |-> IF i <= n THEN t[i] ELSE e]
  OBVIOUS
<1>5. u \in [0 .. n + 1 -> Positions]
  BY <1>2, <1>3, <1>4
<1>6. u[0] = t[0] /\ u[n + 1] = e /\ u[n] = t[n] /\ \A i \in 1 .. n : u[i] = t[i] /\ u[i - 1] = t[i - 1]
  BY <1>4
<1>7. ASSUME NEW i \in 1 .. n + 1 PROVE Leads(u[i - 1], air'[i], u[i])
  <2>0. i \in 1 .. n \/ i = n + 1
    BY <1>3
  <2>1. CASE i \in 1 .. n
    BY <1>1, <1>2, <1>3, <1>6, <2>1
  <2>2. CASE i = n + 1
    <3>1. i - 1 = n
      BY <2>2
    <3>2. u[i - 1] = t[n] /\ u[i] = e
      BY <1>6, <2>2, <3>1
    <3>3. air'[i] = w
      BY <1>1, <1>3, <2>2
    <3>4. Leads(t[n], w, e)
      BY <1>2, <1>3
    <3> QED
      BY <3>2, <3>3, <3>4
  <2> QED
    BY <2>0, <2>1, <2>2, Zenon
<1>8. Holds(u[0], buf', expected')
  BY <1>2, <1>6
<1>9. u \in [0 .. Len(air') -> Positions] /\ u[Len(air')] = [of |-> sending', to |-> offset']
  BY <1>1, <1>3, <1>5, <1>6
<1>10. \A i \in 1 .. Len(air') : Leads(u[i - 1], air'[i], u[i])
  BY <1>1, <1>3, <1>7
<1>11. IsTrack(u)'
  BY <1>8, <1>9, <1>10 DEF IsTrack, Holds
<1> QED
  BY <1>9, <1>11

\* The track of a queue without its first write, which has been taken in.
LEMMA TrackMoves ==
  ASSUME NEW t, IsTrack(t), air \in Seq(Seq(Unit)), air # <<>>, air' = Tail(air),
         Holds(t[1], buf', expected'), sending' = sending, offset' = offset
  PROVE  \E u \in [0 .. Len(air') -> Positions] : IsTrack(u)'
<1>1. /\ Len(air) \in Nat /\ Len(air) >= 1 /\ Len(air') = Len(air) - 1
      /\ \A i \in 1 .. Len(air) - 1 : air'[i] = air[i + 1]
  BY HeadTailProperties, EmptySeq
<1>2. /\ t \in [0 .. Len(air) -> Positions]
      /\ \A i \in 1 .. Len(air) : Leads(t[i - 1], air[i], t[i])
      /\ t[Len(air)] = [of |-> sending, to |-> offset]
  BY DEF IsTrack
<1>3. PICK n \in Nat : n = Len(air) - 1
  <2>1. Len(air) - 1 \in Nat
    BY <1>1
  <2> QED
    BY <2>1, Zenon
<1>a. n + 1 = Len(air)
  BY <1>1, <1>3
<1>4. PICK u : u = [i \in 0 .. n |-> t[i + 1]]
  OBVIOUS
<1>5. u \in [0 .. n -> Positions]
  <2>1. \A i \in 0 .. n : i + 1 \in 0 .. Len(air)
    BY <1>a
  <2>2. \A i \in 0 .. n : t[i + 1] \in Positions
    BY <1>2, <2>1
  <2> QED
    BY <1>4, <2>2
<1>6. u[0] = t[1] /\ u[n] = t[n + 1] /\ \A i \in 1 .. n : u[i] = t[i + 1] /\ u[i - 1] = t[i]
  <2>1. \A i \in 0 .. n : u[i] = t[i + 1]
    BY <1>4
  <2>2. \A i \in 1 .. n : i - 1 \in 0 .. n /\ i - 1 + 1 = i
    OBVIOUS
  <2>3. 0 \in 0 .. n /\ n \in 0 .. n /\ 0 + 1 = 1 /\ \A i \in 1 .. n : i \in 0 .. n
    OBVIOUS
  <2> QED
    BY <2>1, <2>2, <2>3
<1>7. Len(air') = n
  BY <1>1, <1>3
<1>8. ASSUME NEW i \in 1 .. n PROVE Leads(u[i - 1], air'[i], u[i])
  <2>1. i + 1 \in 1 .. Len(air) /\ i + 1 - 1 = i /\ i \in 1 .. Len(air) - 1
    BY <1>a
  <2>2. Leads(t[i + 1 - 1], air[i + 1], t[i + 1])
    BY <1>2, <2>1
  <2>3. air'[i] = air[i + 1] /\ u[i] = t[i + 1] /\ u[i - 1] = t[i]
    BY <1>1, <1>6, <2>1
  <2> QED
    BY <2>1, <2>2, <2>3
<1>9. u[n] = [of |-> sending', to |-> offset']
  BY <1>2, <1>a, <1>6
<1>10. IsTrack(u)'
  BY <1>5, <1>6, <1>7, <1>8, <1>9 DEF IsTrack, Holds
<1> QED
  BY <1>5, <1>7, <1>10

-----------------------------------------------------------------------------
(* The steps.                                                               *)

\* The buffer takes in the payload up to a place.
LEMMA StoreHolds ==
  ASSUME NEW e \in Positions, e.of \in Payload, ~Whole(e) => e.to > 0,
         Store(SubSeq(Data(e.of), 1, e.to), Size[e.of])
  PROVE  Holds(e, buf', expected') /\ (last' = last \/ last' = Data(e.of))
<1>1. e.to \in 0 .. Size[e.of] /\ Size[e.of] \in Nat
  BY Constants DEF Positions
<1>2. /\ Len(SubSeq(Data(e.of), 1, e.to)) = e.to
      /\ SubSeq(Data(e.of), 1, e.to) \in Seq(Unit)
      /\ e.to = Size[e.of] => SubSeq(Data(e.of), 1, e.to) = Data(e.of)
  BY <1>1, Beginning
<1>3. CASE e.to >= Size[e.of] /\ Size[e.of] > 0
  <2>1. e.to = Size[e.of]
    BY <1>1, <1>3
  <2>2. buf' = <<>> /\ last' = SubSeq(Data(e.of), 1, e.to)
    BY <1>2, <1>3 DEF Store
  <2> QED
    BY <1>2, <2>1, <2>2 DEF Holds, Whole
<1>4. CASE ~(e.to >= Size[e.of] /\ Size[e.of] > 0)
  <2>1. buf' = SubSeq(Data(e.of), 1, e.to) /\ expected' = Size[e.of] /\ last' = last
    BY <1>2, <1>4 DEF Store
  <2>2. CASE Whole(e)
    <3>1. e.to = 0
      <4>1. e.to = Size[e.of]
        BY <2>2, Constants DEF Whole
      <4> QED
        BY <1>1, <1>4, <4>1
    <3>2. buf' = <<>>
      BY <1>2, <2>1, <3>1, EmptySeq
    <3> QED
      BY <2>1, <2>2, <3>2 DEF Holds
  <2>3. CASE ~Whole(e)
    BY <2>1, <2>3 DEF Holds
  <2> QED
    BY <2>2, <2>3
<1> QED
  BY <1>3, <1>4

\* A write on the track is taken in: the device is at the next place.
LEMMA ReceiveOnTrack ==
  ASSUME NEW s \in Positions, NEW w, NEW e \in Positions, Leads(s, w, e), Holds(s, buf, expected),
         First(w) \/ Subsequent(w)
  PROVE  Holds(e, buf', expected') /\ (last' = last \/ last' = Data(e.of))
<1> DEFINE p == e.of
<1>1. /\ p \in Payload /\ e.to \in 0 .. Size[p] /\ Size[p] \in Nat /\ Size[p] <= BufSize
      /\ BufSize \in Nat
      /\ ~Whole(e) => e.to > 0
      /\ w \in Seq(Unit)
  BY LeadsWithin, Constants
<1> SUFFICES Store(SubSeq(Data(p), 1, e.to), Size[p])
  BY <1>1, StoreHolds
<1>2. CASE Whole(s)
  <2>1. /\ Len(w) >= Hdr /\ SubSeq(w, 1, Hdr) = Header(p)
        /\ SubSeq(w, Hdr + 1, Len(w)) = SubSeq(Data(p), 1, e.to)
    BY <1>2, LeadsWithin
  <2>2. IsFirst(w)
    BY <1>2, <2>1 DEF Holds, IsFirst
  <2>3. PICK n \in LengthIn(w) :
          IF n > BufSize
          THEN expected' = n /\ UNCHANGED <<buf, last>>
          ELSE Store(SubSeq(w, Hdr + 1, Len(w)), n)
    BY <2>2 DEF First, Subsequent
  <2>4. n = Size[p]
    <3>1. PICK q \in {r \in Payload : SubSeq(w, 1, Hdr) = Header(r)} : n = Size[q]
      BY <1>1, <2>1, <2>3 DEF LengthIn
    <3> QED
      BY <1>1, <2>1, <3>1, HeaderTells
  <2>5. ~(n > BufSize)
    BY <1>1, <2>4
  <2> QED
    BY <2>1, <2>3, <2>4, <2>5
<1>3. CASE ~Whole(s)
  <2>1. p = s.of /\ s.to \in 0 .. e.to /\ w = SubSeq(Data(p), s.to + 1, e.to)
    BY <1>3, LeadsWithin
  <2>2. s.to > 0 /\ expected = Size[p] /\ buf = SubSeq(Data(p), 1, s.to)
    BY <1>3, <2>1 DEF Holds
  <2>3. s.to \in 0 .. Size[p] /\ e.to \in s.to .. Size[p]
    BY <1>1, <2>1
  <2>4. Len(buf) = s.to /\ Len(w) = e.to - s.to /\ buf \o w = SubSeq(Data(p), 1, e.to)
    BY <1>1, <2>1, <2>2, <2>3, Beginning, Part
  <2>5. ~IsFirst(w)
    <3>1. Len(<<>>) = 0
      BY EmptySeq
    <3>2. Len(buf) > 0
      BY <2>2, <2>4
    <3>3. buf # <<>>
      <4> SUFFICES ASSUME buf = <<>> PROVE FALSE
        OBVIOUS
      <4>1. Len(buf) = 0
        BY <3>1, Zenon
      <4> QED
        BY <3>2, <4>1
    <3> QED
      BY <3>3 DEF IsFirst
  <2>6. Fits(w)
    BY <1>1, <2>3, <2>4 DEF Fits
  <2> QED
    BY <2>2, <2>4, <2>5, <2>6 DEF First, Subsequent
<1> QED
  BY <1>2, <1>3

\* Where the device and the client are.
Here == [of |-> sending, to |-> offset]

LEMMA ClientPlace ==
  ASSUME BleTypeOK
  PROVE  Here \in Positions /\ (Returned <=> Whole(Here)) /\ (Returned \/ sending \in Payload)
<1>1. /\ sending \in Payload \cup {Nobody} /\ offset \in 0 .. BufSize
      /\ sending # Nobody => offset <= Size[sending]
  BY DEF BleTypeOK
<1>2. sending \in Payload => offset \in Nat /\ offset <= Size[sending] /\ Size[sending] \in Nat
  BY <1>1, Constants
<1>3. Here.of = sending /\ Here.to = offset
  BY DEF Here
<1>4. Here \in Positions
  BY <1>1 DEF Here, Positions
<1>5. Returned <=> ~(sending \in Payload /\ offset < Size[sending])
  BY DEF Returned
<1>6. sending \in Payload => sending # Nobody
  BY Constants
<1>7. Whole(Here) <=> (sending = Nobody \/ offset = Size[sending])
  BY <1>3 DEF Whole
<1>8. sending \in Payload => (offset < Size[sending] <=> offset # Size[sending])
  BY <1>2
<1> QED
  BY <1>1, <1>4, <1>5, <1>6, <1>7, <1>8

\* A write is queued at the end of the track, or lost.
LEMMA WriteKeeps ==
  ASSUME TransferInv, NEW w, NEW e \in Positions, Leads(Here, w, e),
         Queue(w) \/ Lose, sending' = e.of, offset' = e.to, last' = last \/ last' = <<>>,
         attached' \in BOOLEAN, undisturbed' \in BOOLEAN,
         UNCHANGED <<link, adv, buf, expected, refused>>
  PROVE  TransferInv'
<1>1. e.of \in Payload /\ e.to \in 0 .. Size[e.of] /\ w \in Seq(Unit) /\ Len(w) <= Chunk
  BY ClientPlace, LeadsWithin DEF TransferInv
<1>2. e = [of |-> sending', to |-> offset']
  BY DEF Positions
<1>3. air \in Seq(Seq(Unit)) /\ Len(air) <= Window /\ last \in Seq(Unit) /\ last' \in Seq(Unit)
  BY EmptySeq DEF TransferInv, BleTypeOK
<1>4. /\ air' \in Seq(Seq(Unit)) /\ Len(air') <= Window
      /\ \A i \in 1 .. Len(air') : Len(air'[i]) <= Chunk
      /\ calm' \in BOOLEAN
  <2>1. CASE Queue(w)
    <3>1. /\ Len(air) < Window /\ air' = Append(air, w) /\ calm' = calm
      BY <2>1 DEF Queue
    <3>2. /\ air' \in Seq(Seq(Unit)) /\ Len(air') = Len(air) + 1 /\ air'[Len(air) + 1] = w
          /\ \A i \in 1 .. Len(air) : air'[i] = air[i]
      BY <1>1, <1>3, <3>1, AppendProperties
    <3>3. Len(air) \in Nat /\ Window \in Nat
      BY <1>3, LenProperties, Constants
    <3>4. Len(air') <= Window
      BY <3>1, <3>2, <3>3
    <3>5. ASSUME NEW i \in 1 .. Len(air') PROVE Len(air'[i]) <= Chunk
      <4>1. i \in 1 .. Len(air) \/ i = Len(air) + 1
        BY <3>2, <3>3
      <4>2. \A j \in 1 .. Len(air) : Len(air[j]) <= Chunk
        BY DEF TransferInv
      <4> QED
        BY <1>1, <3>2, <4>1, <4>2, Zenon
    <3> QED
      BY <3>1, <3>2, <3>4, <3>5 DEF TransferInv, BleTypeOK
  <2>2. CASE Lose
    BY <1>3, <2>2 DEF Lose, TransferInv
  <2> QED
    BY <2>1, <2>2
<1>5. BleTypeOK'
  <2>1. offset' \in 0 .. BufSize /\ offset' <= Size[sending']
    BY <1>1, Constants
  <2> QED
    BY <1>1, <1>3, <1>4, <2>1 DEF TransferInv, BleTypeOK
<1>6. ASSUME calm' PROVE DeliveredIntact' /\ \E t \in [0 .. Len(air') -> Positions] : IsTrack(t)'
  <2>1. Queue(w) /\ calm
    BY <1>6 DEF Queue, Lose
  <2>2. PICK t : IsTrack(t)
    BY <2>1 DEF TransferInv
  <2>3. DeliveredIntact'
    BY <2>1 DEF TransferInv, DeliveredIntact, Data
  <2>4. air' = Append(air, w)
    BY <2>1 DEF Queue
  <2> QED
    BY <1>1, <1>2, <1>3, <2>2, <2>3, <2>4, TrackGrows DEF Here
<1> QED
  BY <1>4, <1>5, <1>6 DEF TransferInv

LEMMA SendFirstKeeps ==
  ASSUME TransferInv, NEW p \in Payload, SendFirst(p)
  PROVE  TransferInv'
<1>1. PICK n \in 0 .. Size[p] :
        /\ Hdr + n <= Chunk /\ (n > 0 \/ Size[p] = 0)
        /\ offset' = n
        /\ \/ Queue(Header(p) \o SubSeq(Data(p), 1, n)) /\ undisturbed' = TRUE
           \/ "write" \in Faults /\ Lose
  BY DEF SendFirst
<1> DEFINE e == [of |-> p, to |-> n]
           w == Header(p) \o SubSeq(Data(p), 1, n)
<1>2. Size[p] \in Nat /\ Size[p] <= BufSize /\ BufSize \in Nat
  BY Constants
<1>3. e \in Positions
  BY <1>2 DEF Positions
<1>4. Whole(Here)
  BY ClientPlace DEF SendFirst, TransferInv
<1>5. Leads(Here, w, e)
  BY <1>1, <1>4 DEF Leads
<1>6. /\ Queue(w) \/ Lose
      /\ sending' = e.of /\ offset' = e.to /\ last' = <<>>
      /\ attached' \in BOOLEAN /\ undisturbed' \in BOOLEAN
      /\ UNCHANGED <<link, adv, buf, expected, refused>>
  BY <1>1 DEF SendFirst, Lose
<1> HIDE DEF e, w
<1> QED
  BY <1>3, <1>5, <1>6, WriteKeeps

LEMMA SendNextKeeps ==
  ASSUME TransferInv, SendNext
  PROVE  TransferInv'
<1>1. PICK n \in offset + 1 .. Size[sending] :
        /\ n - offset <= Chunk
        /\ offset' = n
        /\ \/ attached /\ Queue(SubSeq(Data(sending), offset + 1, n)) /\ UNCHANGED undisturbed
           \/ (~attached \/ "write" \in Faults) /\ Lose
  BY DEF SendNext
<1> DEFINE e == [of |-> sending, to |-> n]
           w == SubSeq(Data(sending), offset + 1, n)
<1>2. sending \in Payload /\ ~Whole(Here) /\ Here \in Positions
  BY ClientPlace DEF SendNext, TransferInv
<1>3. Here.of = sending /\ Here.to = offset
  BY DEF Here
<1>4. /\ offset \in Nat /\ Size[sending] \in Nat /\ Size[sending] <= BufSize /\ BufSize \in Nat
  BY <1>2, Constants DEF TransferInv, BleTypeOK
<1>5. n \in 0 .. BufSize /\ n <= Size[sending]
  BY <1>4
<1>6. e \in Positions
  BY <1>2, <1>5 DEF Positions
<1>7. Leads(Here, w, e)
  BY <1>1, <1>2, <1>3 DEF Leads
<1>8. /\ Queue(w) \/ Lose
      /\ sending' = e.of /\ offset' = e.to /\ last' = last
      /\ attached' \in BOOLEAN /\ undisturbed' \in BOOLEAN
      /\ UNCHANGED <<link, adv, buf, expected, refused>>
  BY <1>1 DEF SendNext, Lose, deviceVars, TransferInv, BleTypeOK
<1> HIDE DEF e, w
<1> QED
  BY <1>6, <1>7, <1>8, WriteKeeps

\* What the buffer takes in is of the right type, on the track or not.
LEMMA StoreTypes ==
  ASSUME BleTypeOK, NEW b \in Seq(Unit), Len(b) <= BufSize,
         NEW n \in Lengths \cup {Size[p] : p \in Payload} \cup {0}, Store(b, n)
  PROVE  /\ buf' \in Seq(Unit) /\ Len(buf') <= BufSize
         /\ expected' \in Lengths \cup {Size[p] : p \in Payload} \cup {0}
         /\ last' \in Seq(Unit)
<1>1. last \in Seq(Unit) /\ <<>> \in Seq(Unit) /\ Len(<<>>) = 0 /\ 0 <= BufSize
  BY EmptySeq, Constants DEF BleTypeOK
<1> QED
  BY <1>1 DEF Store

LEMMA ReceiveTypes ==
  ASSUME TransferInv, Receive
  PROVE  /\ buf' \in Seq(Unit) /\ Len(buf') <= BufSize
         /\ expected' \in Lengths \cup {Size[p] : p \in Payload} \cup {0}
         /\ last' \in Seq(Unit)
<1> DEFINE w == air[1]
<1>1. /\ air # <<>> /\ (First(w) \/ Subsequent(w))
  BY DEF Receive
<1>2. BleTypeOK /\ air \in Seq(Seq(Unit)) /\ buf \in Seq(Unit) /\ Len(buf) <= BufSize /\ last \in Seq(Unit)
      /\ expected \in Lengths \cup {Size[p] : p \in Payload} \cup {0}
  BY DEF TransferInv, BleTypeOK
<1>3. 1 \in 1 .. Len(air)
  BY <1>1, <1>2, EmptySeq
<1>4. w \in Seq(Unit) /\ Len(w) <= Chunk
  BY <1>2, <1>3, ElementOfSeq DEF TransferInv
<1>5. /\ Hdr \in Nat /\ Chunk \in Nat /\ BufSize \in Nat /\ Chunk <= BufSize
      /\ Len(w) \in Nat /\ Len(buf) \in Nat
  BY <1>2, <1>4, Constants, LenProperties
<1> HIDE DEF w
<1>6. CASE First(w)
  <2>1. PICK n \in LengthIn(w) :
          IF n > BufSize
          THEN expected' = n /\ UNCHANGED <<buf, last>>
          ELSE Store(SubSeq(w, Hdr + 1, Len(w)), n)
    BY <1>6 DEF First
  <2>2. n \in Lengths \cup {Size[p] : p \in Payload} \cup {0}
    <3>1. LengthIn(w) = Lengths \/ LengthIn(w) \subseteq {Size[p] : p \in Payload}
      BY DEF LengthIn
    <3> QED
      BY <2>1, <3>1
  <2>3. CASE n > BufSize
    BY <1>2, <2>1, <2>2, <2>3
  <2>4. CASE ~(n > BufSize)
    <3>1. \A i \in Hdr + 1 .. Len(w) : w[i] \in Unit
      BY <1>4, <1>5, ElementOfSeq
    <3>2. Hdr + 1 \in Int /\ Len(w) \in Int
      BY <1>5
    <3>3. /\ SubSeq(w, Hdr + 1, Len(w)) \in Seq(Unit)
          /\ Len(SubSeq(w, Hdr + 1, Len(w))) = IF Hdr + 1 <= Len(w) THEN Len(w) - (Hdr + 1) + 1 ELSE 0
      BY <3>1, <3>2, SubSeqProperties
    <3>4. Len(SubSeq(w, Hdr + 1, Len(w))) <= BufSize
      BY <1>4, <1>5, <3>3
    <3> QED
      BY <1>2, <2>1, <2>2, <2>4, <3>3, <3>4, StoreTypes
  <2> QED
    BY <2>3, <2>4
<1>7. CASE Subsequent(w)
  <2> DEFINE b == IF Fits(w) THEN buf \o w ELSE buf
  <2>1. Store(b, expected)
    BY <1>7 DEF Subsequent
  <2>2. buf \o w \in Seq(Unit) /\ Len(buf \o w) = Len(buf) + Len(w)
    BY <1>2, <1>4, ConcatProperties
  <2>3. b \in Seq(Unit) /\ Len(b) <= BufSize
    BY <1>2, <2>2 DEF Fits
  <2> HIDE DEF b
  <2> QED
    BY <1>2, <2>1, <2>3, StoreTypes
<1> QED
  BY <1>1, <1>6, <1>7

LEMMA ReceiveKeeps ==
  ASSUME TransferInv, Receive
  PROVE  TransferInv'
<1>1. /\ air # <<>> /\ air' = Tail(air) /\ (First(air[1]) \/ Subsequent(air[1]))
      /\ UNCHANGED <<link, adv, sending, offset, attached, undisturbed, calm, refused>>
  BY DEF Receive, clientVars
<1>2. air \in Seq(Seq(Unit)) /\ Len(air) <= Window
  BY DEF TransferInv, BleTypeOK
<1>3. /\ Len(air) \in Nat /\ Len(air) >= 1 /\ air' \in Seq(Seq(Unit)) /\ Len(air') = Len(air) - 1
      /\ \A i \in 1 .. Len(air') : air'[i] = air[i + 1]
  BY <1>1, <1>2, HeadTailProperties, EmptySeq
<1>4. Len(air') <= Window /\ \A i \in 1 .. Len(air') : Len(air'[i]) <= Chunk
  <2>1. \A i \in 1 .. Len(air) : Len(air[i]) <= Chunk
    BY DEF TransferInv
  <2>2. \A i \in 1 .. Len(air') : i + 1 \in 1 .. Len(air)
    BY <1>3
  <2>3. Len(air') <= Window
    BY <1>2, <1>3, Constants
  <2> QED
    BY <1>3, <2>1, <2>2, <2>3
<1>5. BleTypeOK'
  BY <1>1, <1>3, <1>4, ReceiveTypes DEF TransferInv, BleTypeOK
<1>6. ASSUME calm' PROVE DeliveredIntact' /\ \E t \in [0 .. Len(air') -> Positions] : IsTrack(t)'
  <2>1. PICK t : IsTrack(t)
    BY <1>1, <1>6 DEF TransferInv
  <2>2. /\ t \in [0 .. Len(air) -> Positions] /\ Holds(t[0], buf, expected)
        /\ \A i \in 1 .. Len(air) : Leads(t[i - 1], air[i], t[i])
    BY <2>1 DEF IsTrack
  <2>3. t[0] \in Positions /\ t[1] \in Positions /\ Leads(t[0], air[1], t[1])
    <3>1. 0 \in 0 .. Len(air) /\ 1 \in 0 .. Len(air) /\ 1 \in 1 .. Len(air) /\ 1 - 1 = 0
      BY <1>3
    <3>2. Leads(t[1 - 1], air[1], t[1])
      BY <2>2, <3>1
    <3> QED
      BY <2>2, <3>1, <3>2
  <2>4. Holds(t[1], buf', expected') /\ (last' = last \/ last' = Data(t[1].of))
    BY <1>1, <2>2, <2>3, ReceiveOnTrack
  <2>5. t[1].of \in Payload
    BY <2>3 DEF Leads
  <2>6. DeliveredIntact'
    BY <1>1, <1>6, <2>4, <2>5 DEF TransferInv, DeliveredIntact, Data
  <2> QED
    BY <1>1, <1>2, <2>1, <2>4, <2>6, TrackMoves
<1> QED
  BY <1>4, <1>5, <1>6 DEF TransferInv

\* The connection: what is under way is untouched, or calm is over.
LEMMA ConnectionKeeps ==
  ASSUME TransferInv, Connect \/ ConnectFails \/ Disconnect \/ UNCHANGED bleVars
  PROVE  TransferInv'
<1>1. CASE Connect \/ ConnectFails \/ UNCHANGED bleVars
  <2>1. /\ UNCHANGED <<air, buf, expected, last, sending, offset, attached, undisturbed, calm>>
        /\ link' \in BOOLEAN /\ adv' \in BOOLEAN /\ refused' \in BOOLEAN
    BY <1>1 DEF Connect, ConnectFails, bleVars, deviceVars, clientVars, TransferInv, BleTypeOK
  <2> QED
    BY <2>1 DEF TransferInv, BleTypeOK, DeliveredIntact, IsTrack, Holds
<1>2. CASE Disconnect
  <2>1. /\ UNCHANGED <<buf, expected, last, sending, offset, refused>>
        /\ air' = <<>> /\ ~calm' /\ calm' \in BOOLEAN
        /\ link' \in BOOLEAN /\ adv' \in BOOLEAN /\ attached' \in BOOLEAN /\ undisturbed' \in BOOLEAN
    BY <1>2 DEF Disconnect, deviceVars
  <2>2. <<>> \in Seq(Seq(Unit)) /\ Len(<<>>) = 0 /\ 0 <= Window
    BY EmptySeq, Constants
  <2>3. BleTypeOK'
    BY <2>1, <2>2 DEF TransferInv, BleTypeOK
  <2> QED
    BY <2>1, <2>2, <2>3 DEF TransferInv
<1> QED
  BY <1>1, <1>2

LEMMA TransferStart == BleInit => TransferInv
<1> SUFFICES ASSUME BleInit PROVE TransferInv
  OBVIOUS
<1>1. air = <<>> /\ Len(air) = 0 /\ <<>> \in Seq(Seq(Unit)) /\ <<>> \in Seq(Unit) /\ Len(<<>>) = 0
  BY EmptySeq DEF BleInit
<1>2. BufSize \in Nat /\ Window \in Nat
  BY Constants
<1>3. BleTypeOK
  <2>1. Len(air) <= Window /\ Len(buf) <= BufSize /\ 0 \in 0 .. BufSize
    <3>1. Len(buf) = 0
      BY <1>1, Zenon DEF BleInit
    <3> QED
      BY <1>1, <1>2, <3>1
  <2>2. air \in Seq(Seq(Unit)) /\ buf \in Seq(Unit) /\ last \in Seq(Unit)
    BY <1>1, Zenon DEF BleInit
  <2> QED
    BY <2>1, <2>2, Zenon DEF BleInit, BleTypeOK
<1>4. Here \in Positions /\ Whole(Here)
  BY <1>3, ClientPlace DEF BleInit, Returned, Whole, Here
<1>5. PICK t : t = [i \in 0 .. 0 |-> Here]
  OBVIOUS
<1>6. t \in [0 .. Len(air) -> Positions] /\ t[0] = Here
  BY <1>1, <1>4, <1>5
<1>7. IsTrack(t)
  BY <1>1, <1>4, <1>6 DEF IsTrack, BleInit, Holds, Here
<1> QED
  BY <1>1, <1>3, <1>6, <1>7 DEF TransferInv, BleInit, DeliveredIntact

\* As long as nothing has failed, what reaches the application is a payload that a client
\* sent, however it cuts the payload into writes, and the reassembly buffer keeps its bound
\* whatever fails: for any payloads, any sizes of a write and of the buffer, and any number
\* of writes under way (ble_gatt_profile.c:61-100).  The clients are those that keep to the
\* protocol of deploy_access_cb: header and at least one unit in the first write.
THEOREM AlwaysIntact == BleSpec => []Intact
<1>1. TransferInv /\ [BleNext]_bleVars => TransferInv'
  BY SendFirstKeeps, SendNextKeeps, ReceiveKeeps, ConnectionKeeps DEF BleNext, Client
<1>2. TransferInv => Intact
  BY DEF TransferInv, Intact, DeliveredIntact
<1> QED
  BY TransferStart, <1>1, <1>2, PTL DEF BleSpec

\* Nothing but a connection attempt that failed leaves the device neither connected nor
\* advertising (ble_gatt_profile.c:128-164).
THEOREM AlwaysReachable == BleSpec => []Reachable
<1>1. BleInit => Reachable
  BY DEF BleInit, Reachable
<1>2. Reachable /\ [BleNext]_bleVars => Reachable'
  BY DEF Reachable, BleNext, Client, Connect, ConnectFails, Disconnect, SendFirst, SendNext, Receive, bleVars
<1> QED
  BY <1>1, <1>2, PTL DEF BleSpec

-----------------------------------------------------------------------------
(* The update of the firmware.                                              *)

\* The slot that is selected is the running one, until an update is applied.
Selected ==
  IF at = "restart"
  THEN boot = Target /\ slot[boot] = "new"
  ELSE boot = running

\* What runs is whole, and confirmed once a slot has been opened for writing.
Running ==
  /\ flash[running] \in Firmware
  /\ slot[running] \in {"valid", "pending"}
  /\ at \in {"chunk", "streaming", "end", "verify", "apply", "restart"} => slot[running] = "valid"
  /\ slot[running] = "pending" => slot[Target] = "valid" /\ flash[Target] \in Firmware

\* What the slot being written holds at each stage of the update.
Written ==
  /\ at = "streaming" => flash[Target] = Torn
  /\ at \in {"end", "verify", "apply"} => flash[Target] = sha
  /\ at \in {"verify", "apply", "restart"} => flash[Target] \in Firmware
  /\ at = "apply" => sha = manifest

IInv == TypeOK /\ Selected /\ Running /\ Written

\* Whatever the project, the faults, the resets and the callers of the trigger
\* do, every variable keeps to its type.
LEMMA InitTypeOK == Init => TypeOK
<1> SUFFICES ASSUME NEW first \in Firmware, InitWith(first) PROVE TypeOK
  BY DEF Init
<1>1. project \in Rows \cup {None} /\ slice \in 0..(Slices - 1)
  BY ImagesAssumption, BoundsAssumption DEF InitWith
<1>2. budget \in Bounds
  BY BoundsAssumption DEF InitWith, Bounds
<1>3. flash \in [0..1 -> Images \cup {Torn}]
  BY DEF InitWith, Images
<1>4. slot \in [0..1 -> {"valid", "new", "pending", "aborted"}]
  BY DEF InitWith
<1>5. boot \in 0..1 /\ running \in 0..1 /\ {manifest, sha} \subseteq Images \cup {Torn}
  BY DEF InitWith
<1>6. at \in Places /\ status \in States /\ caller \in {"out", "set"}
  BY DEF InitWith, Places, States
<1>7. trigger \in BOOLEAN
  BY Zenon DEF InitWith
<1> QED
  BY <1>1, <1>2, <1>3, <1>4, <1>5, <1>6, <1>7 DEF TypeOK

LEMMA ResetTypeOK == TypeOK /\ Reset /\ budget' \in Bounds => TypeOK'
<1> SUFFICES ASSUME TypeOK, Reset, budget' \in Bounds PROVE TypeOK'
  OBVIOUS
<1>1. /\ slot' \in [0..1 -> {"valid", "new", "pending", "aborted"}]
      /\ boot' \in 0..1 /\ running' \in 0..1
  BY DEF TypeOK, Reset, Rollback, BootSelected
<1>2. slice' \in 0..(Slices - 1)
  BY BoundsAssumption DEF Reset
<1> QED
  BY <1>1, <1>2 DEF TypeOK, Reset, Goto, Places, States

LEMMA StepTypeOK == TypeOK /\ [Next]_vars => TypeOK'
<1> SUFFICES ASSUME TypeOK, [Next]_vars PROVE TypeOK'
  OBVIOUS
<1> USE ImagesAssumption, BoundsAssumption
        DEF TypeOK, task, slots, Goto, Target, Places, States, Bounds, Failed, FailsIf, Fault
<1>1. CASE UNCHANGED vars
  BY <1>1 DEF vars
<1>2. CASE Publish
  BY <1>2 DEF Publish
<1>3. CASE Settle
  BY <1>3 DEF Settle
<1>4. CASE StartCheck
  BY <1>4 DEF StartCheck
<1>5. CASE Check
  BY <1>5 DEF Check
<1>6. CASE GetManifest
  BY <1>6 DEF GetManifest, HasUpdate, Rows
<1>7. CASE BeginWrite
  BY <1>7 DEF BeginWrite
<1>8. CASE RequestChunk
  BY <1>8 DEF RequestChunk, HasUpdate, Rows
<1>9. CASE Stream
  BY <1>9 DEF Stream
<1>10. CASE EndWrite
  BY <1>10 DEF EndWrite
<1>11. CASE Verify
  BY <1>11 DEF Verify
<1>12. CASE Apply
  BY <1>12 DEF Apply, Select
<1>13. CASE Sleep
  <2>1. slice' \in 0..(Slices - 1)
    BY <1>13 DEF Sleep, Woken
  <2> QED
    BY <1>13, <2>1 DEF Sleep
<1>14. CASE Look
  BY <1>14 DEF Look
<1>15. CASE SetTrigger
  BY <1>15 DEF SetTrigger
<1>16. CASE Restart
  BY <1>16, ResetTypeOK DEF Restart
<1>17. CASE PowerLoss
  BY <1>17, ResetTypeOK DEF PowerLoss
<1> QED
  BY <1>1, <1>2, <1>3, <1>4, <1>5, <1>6, <1>7, <1>8, <1>9, <1>10, <1>11, <1>12,
     <1>13, <1>14, <1>15, <1>16, <1>17 DEF Next, Task

\* Every variable of the update manager keeps to its type.
THEOREM TypeCorrect == Spec => []TypeOK
<1>1. TypeOK /\ [Next]_vars => TypeOK'
  BY StepTypeOK
<1> QED
  BY InitTypeOK, <1>1, PTL DEF Spec

\* The invariant is established, and kept: the task's own steps move from one
\* stage to the next, and a reset is safe at every stage.
LEMMA InitIInv == Init => IInv
  BY InitTypeOK, ImagesAssumption DEF Init, InitWith, IInv, Selected, Running, Written, Target

\* The steps that leave the slots alone and stay outside of an update.
LEMMA Elsewhere ==
  ASSUME TypeOK, Selected /\ Running /\ Written, UNCHANGED slots,
         at' \in {"settle", "top", "check", "manifest", "begin", "sleep"}, at # "restart"
  PROVE  (Selected /\ Running /\ Written)'
  BY DEF TypeOK, Selected, Running, Written, Target, slots

LEMMA ResetIInv == IInv /\ Reset => (Selected /\ Running /\ Written)'
<1> SUFFICES ASSUME IInv, Reset PROVE (Selected /\ Running /\ Written)'
  OBVIOUS
<1> USE DEF IInv, TypeOK, Selected, Running, Written, Target, Reset, Goto
<1>1. CASE Rollback
  BY <1>1 DEF Rollback
<1>2. CASE BootSelected
  BY <1>2 DEF BootSelected
<1> QED
  BY <1>1, <1>2

LEMMA StepIInv == IInv /\ [Next]_vars => IInv'
<1> SUFFICES ASSUME IInv, [Next]_vars PROVE IInv'
  OBVIOUS
<1>0. TypeOK'
  BY StepTypeOK DEF IInv
<1> SUFFICES (Selected /\ Running /\ Written)'
  BY <1>0 DEF IInv
<1> USE ImagesAssumption DEF IInv
<1>1. CASE UNCHANGED <<slots, task>>
  BY <1>1 DEF slots, task, Selected, Running, Written, Target
<1>2. CASE Publish \/ Look \/ SetTrigger \/ UNCHANGED vars
  BY <1>1, <1>2 DEF Publish, Look, SetTrigger, vars
<1>3. CASE Settle \/ StartCheck \/ Check \/ GetManifest \/ Sleep
  BY <1>3, Elsewhere DEF Settle, StartCheck, Check, GetManifest, Sleep, Goto, Failed
<1>4. CASE BeginWrite
  BY <1>4 DEF BeginWrite, Refused, Goto, Failed, slots, Selected, Running, Written, Target
<1>5. CASE RequestChunk
  BY <1>5 DEF RequestChunk, Goto, Failed, TypeOK, Selected, Running, Written, Target
<1>6. CASE Stream
  BY <1>6 DEF Stream, Goto, Failed, TypeOK, Selected, Running, Written, Target
<1>7. CASE EndWrite
  BY <1>7 DEF EndWrite, Goto, Failed, TypeOK, slots, Selected, Running, Written, Target
<1>8. CASE Verify
  BY <1>8 DEF Verify, Matches, Goto, Failed, TypeOK, slots, Selected, Running, Written, Target
<1>9. CASE Apply
  BY <1>9 DEF Apply, Select, Goto, Failed, TypeOK, Selected, Running, Written, Target
<1>10. CASE Restart \/ PowerLoss
  BY <1>10, ResetIInv DEF Restart, PowerLoss
<1> QED
  BY <1>2, <1>3, <1>4, <1>5, <1>6, <1>7, <1>8, <1>9, <1>10 DEF Next, Task

THEOREM Invariant == Spec => []IInv
<1>1. IInv /\ [Next]_vars => IInv'
  BY StepIInv
<1> QED
  BY InitIInv, <1>1, PTL DEF Spec

\* Wherever an update is interrupted, the slot that is selected holds a whole
\* application image.
THEOREM AlwaysBootable == Spec => []Bootable
<1>1. IInv => Bootable
  BY DEF IInv, Selected, Running, Written, Bootable, Target
<1> QED
  BY Invariant, <1>1, PTL

\* While an image is selected that has not been confirmed, the other slot holds
\* a confirmed image to go back to.
THEOREM AlwaysWayBack == Spec => []WayBack
<1>1. IInv => WayBack
  BY DEF IInv, TypeOK, Selected, Running, Written, WayBack, Target
<1> QED
  BY Invariant, <1>1, PTL

\* The update that is applied is the image whose digest the manifest gave.
THEOREM AppliesVerified == Spec => Verified
<1>1. IInv /\ IInv' /\ [Next]_vars => [at = "apply" /\ boot' # boot => flash[boot'] = manifest]_vars
  <2> SUFFICES ASSUME IInv, Next, at = "apply", boot' # boot PROVE flash[boot'] = manifest
    BY DEF vars, slots, task
  <2>1. CASE Apply
    BY <2>1 DEF Apply, Select, IInv, Written, Target
  <2>2. CASE Reset
    BY <2>2 DEF Reset, Rollback, BootSelected, IInv, TypeOK, Selected, Running, Written, Target
  <2> QED
    BY <2>1, <2>2
       DEF Next, Task, Settle, StartCheck, Check, GetManifest, BeginWrite, RequestChunk, Stream,
           EndWrite, Verify, Sleep, Restart, Look, SetTrigger, Publish, PowerLoss, slots
<1> QED
  BY Invariant, <1>1, PTL DEF Spec, Verified

\* Types, a bootable selection and a way back, the property the runs check.
THEOREM AlwaysSafe == Spec => []SlotsSafe
<1>1. TypeOK /\ Bootable /\ WayBack => SlotsSafe
  BY DEF SlotsSafe
<1> QED
  BY TypeCorrect, AlwaysBootable, AlwaysWayBack, <1>1, PTL
=============================================================================
