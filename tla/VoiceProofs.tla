----------------------------- MODULE VoiceProofs ------------------------------
(***************************************************************************)
(* Proofs about the voice assistant: what is played is the stream of the   *)
(* server in order, without a repetition; a change of the settings is      *)
(* never lost; and the filter of the microphone never overflows its word,  *)
(* for samples of any width and settings that change at any time.          *)
(***************************************************************************)
EXTENDS VoiceAssistant, MicFilter, TLAPS

(***************************************************************************)
(* The microphone's filter.  The sum is alpha times x, where x is the next *)
(* sample plus the distance of the last output from the last input.        *)
(* Because alpha is below one, the output lies between 0 and x, so that    *)
(* the distance stays within one full sample, and x within two: alpha      *)
(* times x fits in the word.                                               *)
(***************************************************************************)

\* The inductive invariant.
FilterInv == FilterTypeOK /\ OutputNearInput

\* A product with a number below n, divided by n, lies between 0 and the other
\* factor.
LEMMA ScaledDown ==
  ASSUME NEW n \in Nat, n >= 1, NEW a \in 0 .. n - 1, NEW x \in Int
  PROVE  /\ (a * x) \div n \in Int
         /\ x >= 0 => (a * x) \div n >= 0 /\ (a * x) \div n <= x
         /\ x <= 0 => (a * x) \div n <= 0 /\ (a * x) \div n >= x
<1> DEFINE q == (a * x) \div n
<1>1. a * x \in Int /\ n * x \in Int
  OBVIOUS
<1>2. q \in Int /\ q * n <= a * x /\ a * x < q * n + n
  BY <1>1
<1>3. ASSUME x >= 0 PROVE q >= 0 /\ q <= x
  <2>1. a * x >= 0 /\ a * x <= n * x
    BY <1>3
  <2> QED
    BY <1>2, <2>1
<1>4. ASSUME x <= 0 PROVE q <= 0 /\ q >= x
  <2>1. a * x <= 0 /\ a * x >= n * x
    BY <1>4
  <2> QED
    BY <1>2, <2>1
<1> QED
  BY <1>2, <1>3, <1>4

\* A product with a number below n of one below 2n fits in the word.
LEMMA ProductFits ==
  ASSUME NEW n \in Nat, n >= 1, NEW a \in 0 .. n - 1, NEW x \in Int,
         x >= -(2 * n - 1), x <= 2 * n - 1
  PROVE  a * x >= -(2 * n * n) /\ a * x <= 2 * n * n - 1
<1> DEFINE m == 2 * n - 1
<1>1. a * x \in Int /\ a * m \in Int /\ n * m \in Int /\ m >= 1
  OBVIOUS
<1>2. a * x <= a * m /\ a * x >= -(a * m)
  OBVIOUS
<1>3. a * m <= n * m
  BY <1>1
<1>4. n * m = 2 * n * n - n
  OBVIOUS
<1> QED
  BY <1>1, <1>2, <1>3, <1>4

\* What is summed, as one product.
LEMMA SumIsProduct ==
  ASSUME FilterTypeOK, OutputNearInput, NEW s \in -(Full - 1) .. Full - 1
  PROVE  /\ hpfOut - hpfIn + s \in -(2 * Full - 1) .. 2 * Full - 1
         /\ Sum(s) = alpha * (hpfOut - hpfIn + s)
BY FilterAssumption DEF FilterTypeOK, OutputNearInput, Samples, Sum

\* Clipped samples.
LEMMA ClippedRange ==
  ASSUME FilterTypeOK, NEW v \in Shifted
  PROVE  Clipped(v) \in -(Full - 1) .. Full - 1
BY FilterAssumption DEF FilterTypeOK, Clipped, Between

\* A sample keeps the output near the input.
LEMMA SampleStep == FilterInv /\ Sample => FilterInv'
<1> SUFFICES ASSUME FilterInv, NEW v \in Shifted,
                    hpfIn' = Clipped(v), hpfOut' = Filtered(Clipped(v)), UNCHANGED <<alpha, clip>>
             PROVE  FilterInv'
  BY DEF Sample
<1> DEFINE s == Clipped(v)
           x == hpfOut - hpfIn + s
           y == (alpha * x) \div Full
<1>1. s \in -(Full - 1) .. Full - 1
  BY ClippedRange DEF FilterInv
<1>2. x \in -(2 * Full - 1) .. 2 * Full - 1 /\ Sum(s) = alpha * x
  BY <1>1, SumIsProduct DEF FilterInv
<1>3. /\ y \in Int
      /\ x >= 0 => y >= 0 /\ y <= x
      /\ x <= 0 => y <= 0 /\ y >= x
  <2>1. alpha \in 0 .. Full - 1 /\ Full \in Nat /\ Full >= 1 /\ x \in Int
    BY <1>2, FilterAssumption DEF FilterInv, FilterTypeOK
  <2> QED
    BY <2>1, ScaledDown
<1>4. hpfOut' = Between(y, -Full, Full - 1)
  BY <1>2 DEF Filtered
<1>5. hpfOut - hpfIn \in -Full .. Full /\ hpfOut \in Int /\ hpfIn \in Int
  BY FilterAssumption DEF FilterInv, FilterTypeOK, OutputNearInput, Samples
<1> HIDE DEF s, y
<1>6. y - s \in -Full .. Full
  BY <1>1, <1>2, <1>3, <1>5, FilterAssumption
<1>7. hpfOut' \in Samples /\ hpfOut' - s \in -Full .. Full
  BY <1>1, <1>3, <1>4, <1>6, FilterAssumption DEF Between, Samples
<1>8. hpfIn' = s /\ hpfIn' \in Samples
  BY <1>1, FilterAssumption DEF s, Samples
<1> QED
  BY <1>7, <1>8 DEF FilterInv, FilterTypeOK, OutputNearInput

\* The invariant holds from the start and is kept by every step.
LEMMA FilterInvariant == FilterSpec => []FilterInv
<1>1. FilterInit => FilterInv
  BY FilterAssumption DEF FilterInit, FilterInv, FilterTypeOK, OutputNearInput, Samples
<1>2. FilterInv /\ [FilterNext]_filterVars => FilterInv'
  <2> SUFFICES ASSUME FilterInv, [FilterNext]_filterVars PROVE FilterInv'
    OBVIOUS
  <2>1. CASE Sample
    BY <2>1, SampleStep
  <2>2. CASE Adjust
    BY <2>2 DEF Adjust, FilterInv, FilterTypeOK, OutputNearInput
  <2>3. CASE UNCHANGED filterVars
    BY <2>3 DEF filterVars, FilterInv, FilterTypeOK, OutputNearInput
  <2> QED
    BY <2>1, <2>2, <2>3 DEF FilterNext
<1> QED
  BY <1>1, <1>2, PTL DEF FilterSpec

\* The sum of the next sample fits in the signed word, for every width of the
\* samples and whenever the settings change (voice_assistant.ino:212-217).
THEOREM NeverOverflows == FilterSpec => []NoOverflow
<1>1. FilterInv => NoOverflow
  <2> SUFFICES ASSUME FilterInv, NEW v \in Shifted
               PROVE  Sum(Clipped(v)) \in -Word .. Word - 1
    BY DEF NoOverflow
  <2> DEFINE s == Clipped(v)
             x == hpfOut - hpfIn + s
  <2>1. s \in -(Full - 1) .. Full - 1
    BY ClippedRange DEF FilterInv
  <2>2. x \in -(2 * Full - 1) .. 2 * Full - 1 /\ Sum(s) = alpha * x
    BY <2>1, SumIsProduct DEF FilterInv
  <2>3. alpha \in 0 .. Full - 1 /\ Full \in Nat /\ Full >= 1
    BY FilterAssumption DEF FilterInv, FilterTypeOK
  <2>4. alpha * x >= -(2 * Full * Full) /\ alpha * x <= 2 * Full * Full - 1
    BY <2>2, <2>3, ProductFits
  <2>5. alpha * x \in Int /\ 2 * Full * Full \in Int
    BY <2>2, <2>3
  <2> QED
    BY <2>2, <2>4, <2>5 DEF Word
<1> QED
  BY <1>1, FilterInvariant, PTL

(***************************************************************************)
(* The ring.                                                               *)
(***************************************************************************)

\* Positions of the ring, once round it in either direction.
LEMMA Wrapped ==
  ASSUME NEW n \in Nat, n >= 1, NEW x \in Int, -n <= x, x < 2 * n
  PROVE  x % n = IF x < 0 THEN x + n ELSE IF x < n THEN x ELSE x - n
<1> DEFINE q == x \div n
           r == x % n
<1>1. q \in Int /\ r \in Int /\ x = n * q + r /\ 0 <= r /\ r < n
  OBVIOUS
<1> HIDE DEF q, r
<1>2. n * q \in Int /\ n * q <= x /\ n * q > x - n
  BY <1>1
<1>3. q >= -1
  <2>1. CASE q <= -2
    <3>1. n * q <= n * (-2)
      BY <1>1, <2>1
    <3> QED
      BY <1>2, <3>1
  <2> QED
    BY <1>1, <2>1
<1>4. q <= 1
  <2>1. CASE q >= 2
    <3>1. n * q >= n * 2
      BY <1>1, <2>1
    <3> QED
      BY <1>2, <3>1
  <2> QED
    BY <1>1, <2>1
<1>5. q = -1 \/ q = 0 \/ q = 1
  BY <1>1, <1>3, <1>4
<1>6. r = IF x < 0 THEN x + n ELSE IF x < n THEN x ELSE x - n
  BY <1>1, <1>5
<1> QED
  BY <1>6 DEF r

RingType == ring \in [cells : [0 .. RingBytes - 1 -> Nat], rd : 0 .. RingBytes - 1, wr : 0 .. RingBytes - 1]

StreamType ==
  /\ stream \in [pushed : Nat, taken : Nat, gone : Nat]
  /\ stream.taken <= stream.gone /\ stream.gone <= stream.pushed

\* The j-th byte, from 0, is the one that many places before the newest.
RingHolds ==
  /\ Used(ring) = IF stream.pushed - stream.gone < RingBytes THEN stream.pushed - stream.gone
                                                             ELSE RingBytes - 1
  /\ \A j \in 0 .. Used(ring) - 1 :
        ring.cells[Advance(ring.rd, j)] = stream.pushed - Used(ring) + j + 1

RingInv == RingType /\ StreamType /\ RingHolds

\* Going round the ring.
LEMMA Advances ==
  ASSUME NEW at \in 0 .. RingBytes - 1, NEW n \in 0 .. RingBytes
  PROVE  /\ Advance(at, n) = IF at + n < RingBytes THEN at + n ELSE at + n - RingBytes
         /\ Advance(at, n) \in 0 .. RingBytes - 1
<1> DEFINE x == at + n
<1>1. RingBytes \in Nat /\ RingBytes >= 1
  BY VoiceAssumption
<1>2. x \in Int /\ 0 <= x /\ -RingBytes <= x /\ x < 2 * RingBytes
  BY <1>1
<1>3. Advance(at, n) = x % RingBytes
  BY DEF Advance
<1> HIDE DEF x
<1>4. x % RingBytes = IF x < 0 THEN x + RingBytes ELSE IF x < RingBytes THEN x ELSE x - RingBytes
  BY <1>1, <1>2, Wrapped
<1>5. Advance(at, n) = IF x < RingBytes THEN x ELSE x - RingBytes
  BY <1>1, <1>2, <1>3, <1>4
<1>6. Advance(at, n) \in 0 .. RingBytes - 1
  <2>1. CASE x < RingBytes
    BY <1>1, <1>2, <1>5, <2>1
  <2>2. CASE ~(x < RingBytes)
    <3>1. Advance(at, n) = x - RingBytes /\ x - RingBytes >= 0 /\ x - RingBytes <= RingBytes - 1
      BY <1>1, <1>2, <1>5, <2>2
    <3>2. x - RingBytes \in Int /\ RingBytes - 1 \in Int
      BY <1>1, <1>2
    <3> QED
      BY <3>1, <3>2
  <2> QED
    BY <2>1, <2>2
<1>7. x = at + n
  BY DEF x
<1> QED
  BY <1>1, <1>2, <1>5, <1>6, <1>7

\* How much is used is how far the write position is ahead.
LEMMA UsedAhead ==
  ASSUME NEW rd \in 0 .. RingBytes - 1, NEW u \in 0 .. RingBytes - 1, NEW r,
         r.rd = rd, r.wr = Advance(rd, u)
  PROVE  Used(r) = u
<1>1. RingBytes \in Nat /\ RingBytes >= 1 /\ u \in 0 .. RingBytes
  BY VoiceAssumption
<1>2. Advance(rd, u) = IF rd + u < RingBytes THEN rd + u ELSE rd + u - RingBytes
  BY <1>1, Advances
<1> QED
  BY <1>1, <1>2 DEF Used

LEMMA UsedRange ==
  ASSUME RingType
  PROVE  /\ Used(ring) \in 0 .. RingBytes - 1
         /\ ring.wr = Advance(ring.rd, Used(ring))
<1>1. /\ RingBytes \in Nat /\ RingBytes >= 1
      /\ ring.rd \in 0 .. RingBytes - 1 /\ ring.wr \in 0 .. RingBytes - 1
  BY VoiceAssumption DEF RingType
<1>2. Used(ring) \in 0 .. RingBytes - 1
  BY <1>1 DEF Used
<1>3. Used(ring) \in 0 .. RingBytes
  BY <1>1, <1>2
<1>4. Advance(ring.rd, Used(ring)) = IF ring.rd + Used(ring) < RingBytes THEN ring.rd + Used(ring)
                                     ELSE ring.rd + Used(ring) - RingBytes
  BY <1>1, <1>3, Advances
<1> QED
  BY <1>1, <1>2, <1>4 DEF Used

\* Where the n bytes go that are pushed in, k counting from the write position: behind
\* those that stay, all but the first `drop` of them.
LEMMA PushedCell ==
  ASSUME NEW R \in Nat, R >= 1, NEW rd \in 0 .. R - 1, NEW u \in 0 .. R - 1, NEW n \in 0 .. R - 1,
         NEW wr, wr = IF rd + u < R THEN rd + u ELSE rd + u - R,
         NEW drop, drop = IF n > R - u - 1 THEN n - (R - u - 1) ELSE 0,
         NEW rd2, rd2 = IF rd + drop < R THEN rd + drop ELSE rd + drop - R,
         NEW j \in 0 .. u + n - drop - 1,
         NEW c, c = IF rd2 + j < R THEN rd2 + j ELSE rd2 + j - R,
         NEW k, k = IF c - wr < 0 THEN c - wr + R ELSE IF c - wr < R THEN c - wr ELSE c - wr - R
  PROVE  /\ j + drop < u => c = (IF rd + j + drop < R THEN rd + j + drop ELSE rd + j + drop - R) /\ k >= n
         /\ j + drop >= u => k = j + drop - u /\ k < n
<1>1. drop \in 0 .. n /\ j + drop \in 0 .. u + n - 1 /\ u + n - drop <= R - 1
  OBVIOUS
<1>2. c = IF rd + j + drop < R THEN rd + j + drop
          ELSE IF rd + j + drop < 2 * R THEN rd + j + drop - R ELSE rd + j + drop - 2 * R
  BY <1>1
<1>3. CASE j + drop < u
  BY <1>1, <1>2, <1>3
<1>4. CASE j + drop >= u
  BY <1>1, <1>2, <1>4
<1> QED
  BY <1>1, <1>3, <1>4

\* How many bytes are pushed out and how many are in the ring then.
LEMMA PushedRoom ==
  ASSUME NEW R \in Nat, R >= 1, NEW u \in 0 .. R - 1, NEW n \in 0 .. R - 1,
         NEW p \in Nat, NEW g \in Nat, g <= p, u = IF p - g < R THEN p - g ELSE R - 1,
         NEW drop \in Int, drop = IF n > R - u - 1 THEN n - (R - u - 1) ELSE 0,
         NEW v \in Int, v = u + n - drop
  PROVE  /\ drop \in 0 .. n /\ drop \in 0 .. R
         /\ v \in 0 .. R - 1 /\ v = IF p + n - g < R THEN p + n - g ELSE R - 1
  OBVIOUS

Pushes(n) ==
  ring' = Pushed(ring, n, stream.pushed) /\ stream' = [stream EXCEPT !.pushed = @ + n]

\* Bytes that are pushed in follow those that stay.
LEMMA PushKeeps ==
  ASSUME RingInv, NEW n \in 0 .. RingBytes - 1, Pushes(n)
  PROVE  RingInv'
<1> DEFINE R == RingBytes
           u == Used(ring)
           rd == ring.rd
           wr == ring.wr
           p == stream.pushed
           g == stream.gone
           drop == IF n > R - u - 1 THEN n - (R - u - 1) ELSE 0
           v == u + n - drop
           rd2 == Advance(rd, drop)
           wr2 == Advance(wr, n)
           k(c) == (c - wr) % R
           cells == ring.cells
           cells2 == [c \in 0 .. R - 1 |-> IF k(c) < n THEN p + k(c) + 1 ELSE cells[c]]
<1>1. R \in Nat /\ R >= 1 /\ n \in Nat /\ n < R
  BY VoiceAssumption
<1>2. u \in 0 .. R - 1 /\ rd \in 0 .. R - 1 /\ wr \in 0 .. R - 1 /\ wr = Advance(rd, u)
  BY UsedRange DEF RingInv, RingType
<1>3. /\ p \in Nat /\ g \in Nat /\ g <= p /\ stream.taken \in Nat /\ stream.taken <= g
  BY DEF RingInv, StreamType
<1>4. /\ u = IF p - g < R THEN p - g ELSE R - 1
      /\ \A j \in 0 .. u - 1 : cells[Advance(rd, j)] = p - u + j + 1
      /\ cells \in [0 .. R - 1 -> Nat]
  BY DEF RingInv, RingType, RingHolds
<1>5. ring' = [cells |-> cells2, rd |-> rd2, wr |-> wr2]
  <2>1. Room(ring) = R - u - 1
    BY DEF Room
  <2>2. Advance(rd, 0) = rd
    <3>1. rd \in 0 .. R - 1 /\ 0 \in 0 .. R /\ rd \in Int /\ rd + 0 < R /\ rd + 0 = rd
      BY <1>1, <1>2
    <3> HIDE DEF rd
    <3>2. Advance(rd, 0) = IF rd + 0 < R THEN rd + 0 ELSE rd + 0 - R
      BY <3>1, Advances
    <3> QED
      BY <3>1, <3>2
  <2> HIDE DEF R, u, rd, wr
  <2> QED
    BY <2>1, <2>2 DEF Pushes, Pushed, R, rd, wr
<1>6. stream' = [pushed |-> p + n, taken |-> stream.taken, gone |-> g]
  BY DEF RingInv, StreamType, Pushes
<1>7. \A at \in 0 .. R - 1, m \in 0 .. R :
         /\ Advance(at, m) = IF at + m < R THEN at + m ELSE at + m - R
         /\ Advance(at, m) \in 0 .. R - 1
  BY Advances
<1>8. \A c \in 0 .. R - 1 :
         k(c) = IF c - wr < 0 THEN c - wr + R ELSE IF c - wr < R THEN c - wr ELSE c - wr - R
  <2> SUFFICES ASSUME NEW c \in 0 .. R - 1
               PROVE  k(c) = IF c - wr < 0 THEN c - wr + R ELSE IF c - wr < R THEN c - wr ELSE c - wr - R
    OBVIOUS
  <2> DEFINE x == c - wr
  <2>1. x \in Int /\ -R <= x /\ x < 2 * R
    BY <1>1, <1>2
  <2>2. k(c) = x % R
    OBVIOUS
  <2> HIDE DEF x
  <2>3. x % R = IF x < 0 THEN x + R ELSE IF x < R THEN x ELSE x - R
    BY <1>1, <2>1, Wrapped
  <2> QED
    BY <2>2, <2>3 DEF x
<1>9. /\ drop = (IF n > R - u - 1 THEN n - (R - u - 1) ELSE 0) /\ v = u + n - drop
      /\ drop \in Int /\ v \in Int
  BY <1>1, <1>2
<1>10. ring'.cells = cells2 /\ ring'.rd = rd2 /\ ring'.wr = wr2
  BY <1>5
<1>11. stream'.pushed = p + n /\ stream'.gone = g /\ stream'.taken = stream.taken
  BY <1>6
<1>12. \A c \in 0 .. R - 1 : cells2[c] = IF k(c) < n THEN p + k(c) + 1 ELSE cells[c]
  OBVIOUS
<1>13. rd2 = Advance(rd, drop) /\ wr2 = Advance(wr, n)
  OBVIOUS
<1> HIDE DEF R, u, rd, wr, p, g, drop, v, rd2, wr2, k, cells
<1>14. drop \in 0 .. n /\ drop \in 0 .. R /\ v \in 0 .. R - 1 /\ n \in 0 .. R /\ u \in 0 .. R
       /\ v = IF p + n - g < R THEN p + n - g ELSE R - 1
  <2>1. n \in 0 .. R /\ u \in 0 .. R /\ n \in 0 .. R - 1
    BY <1>1, <1>2
  <2> QED
    BY <1>1, <1>2, <1>3, <1>4, <1>9, <2>1, PushedRoom, SMTT(20)
<1>15. /\ rd2 = (IF rd + drop < R THEN rd + drop ELSE rd + drop - R) /\ rd2 \in 0 .. R - 1
       /\ wr2 = (IF wr + n < R THEN wr + n ELSE wr + n - R) /\ wr2 \in 0 .. R - 1
       /\ wr = IF rd + u < R THEN rd + u ELSE rd + u - R
  BY <1>2, <1>7, <1>13, <1>14
<1>16. Used(ring') = v
  <2>1. v \in 0 .. R
    BY <1>1, <1>14
  <2>2. Advance(rd2, v) = IF rd2 + v < R THEN rd2 + v ELSE rd2 + v - R
    BY <1>7, <1>15, <2>1
  <2>3. wr2 = Advance(rd2, v)
    BY <1>1, <1>2, <1>9, <1>14, <1>15, <2>2
  <2> QED
    BY <1>10, <1>14, <1>15, <2>3, UsedAhead DEF R
<1>17. cells2 \in [0 .. R - 1 -> Nat]
  <2>1. ASSUME NEW c \in 0 .. R - 1 PROVE k(c) \in Int /\ k(c) >= 0
    <3>1. c \in Int /\ wr \in Int /\ c - wr < R /\ c - wr >= -R
      BY <1>1, <1>2
    <3>2. k(c) = IF c - wr < 0 THEN c - wr + R ELSE IF c - wr < R THEN c - wr ELSE c - wr - R
      BY <1>8
    <3> QED
      BY <1>1, <3>1, <3>2
  <2>2. ASSUME NEW c \in 0 .. R - 1 PROVE (IF k(c) < n THEN p + k(c) + 1 ELSE cells[c]) \in Nat
    <3>1. k(c) \in Int /\ k(c) >= 0 /\ p + k(c) + 1 \in Nat
      BY <1>1, <1>3, <2>1
    <3>2. cells[c] \in Nat
      BY <1>4
    <3> QED
      BY <3>1, <3>2
  <2> QED
    BY <2>2
<1> HIDE DEF cells2
<1>18. ASSUME NEW j \in 0 .. v - 1
       PROVE  cells2[Advance(rd2, j)] = p + n - v + j + 1
  <2>1. j \in 0 .. R /\ j \in 0 .. u + n - drop - 1 /\ j \in Nat
    BY <1>1, <1>9, <1>14
  <2>2. PICK c : c = Advance(rd2, j)
    OBVIOUS
  <2>3. c = (IF rd2 + j < R THEN rd2 + j ELSE rd2 + j - R) /\ c \in 0 .. R - 1
    BY <1>7, <1>15, <2>1, <2>2
  <2>4. PICK kc : kc = k(c)
    OBVIOUS
  <2>5. kc = IF c - wr < 0 THEN c - wr + R ELSE IF c - wr < R THEN c - wr ELSE c - wr - R
    BY <1>8, <2>3, <2>4
  <2>6. /\ j + drop < u => c = (IF rd + j + drop < R THEN rd + j + drop ELSE rd + j + drop - R) /\ kc >= n
        /\ j + drop >= u => kc = j + drop - u /\ kc < n
    BY <1>1, <1>2, <1>9, <1>15, <2>1, <2>3, <2>5, PushedCell
  <2>7. cells2[c] = IF kc < n THEN p + kc + 1 ELSE cells[c]
    BY <1>12, <2>3, <2>4
  <2>8. CASE j + drop < u
    <3>1. PICK i : i = j + drop
      OBVIOUS
    <3>2. i \in 0 .. u - 1 /\ i \in 0 .. R
      BY <1>1, <1>2, <1>14, <2>1, <2>8, <3>1
    <3>3. Advance(rd, i) = c
      <4>1. Advance(rd, i) = IF rd + i < R THEN rd + i ELSE rd + i - R
        BY <1>2, <1>7, <3>2
      <4>2. rd + i = rd + j + drop
        BY <1>1, <1>2, <1>9, <2>1, <3>1
      <4>3. c = IF rd + j + drop < R THEN rd + j + drop ELSE rd + j + drop - R
        BY <2>6, <2>8
      <4> QED
        BY <1>1, <1>2, <1>9, <2>1, <3>2, <4>1, <4>2, <4>3
    <3>4. cells[c] = p - u + i + 1
      BY <1>4, <3>2, <3>3
    <3>5. cells2[c] = cells[c]
      BY <1>1, <1>2, <2>3, <2>5, <2>6, <2>7, <2>8
    <3> QED
      BY <1>1, <1>2, <1>3, <1>9, <1>14, <2>1, <2>2, <3>1, <3>4, <3>5
  <2>9. CASE j + drop >= u
    <3>1. cells2[c] = p + kc + 1 /\ kc = j + drop - u
      BY <2>6, <2>7, <2>9
    <3> QED
      BY <1>1, <1>2, <1>3, <1>9, <1>14, <2>1, <2>2, <3>1
  <2> QED
    BY <1>1, <1>2, <1>14, <2>1, <2>8, <2>9
<1>19. RingType'
  BY <1>5, <1>15, <1>17 DEF RingType, R
<1>20. StreamType'
  <2>1. p + n \in Nat /\ g <= p + n
    BY <1>1, <1>3
  <2>2. stream' \in [pushed : Nat, taken : Nat, gone : Nat]
    BY <1>3, <1>6, <2>1
  <2>3. stream'.taken <= stream'.gone /\ stream'.gone <= stream'.pushed
    BY <1>3, <1>11, <2>1
  <2> QED
    BY <2>2, <2>3 DEF StreamType
<1>21. RingHolds'
  <2>1. Used(ring') = IF stream'.pushed - stream'.gone < RingBytes THEN stream'.pushed - stream'.gone
                                                                  ELSE RingBytes - 1
    BY <1>1, <1>3, <1>11, <1>14, <1>16 DEF R
  <2>2. ASSUME NEW j \in 0 .. Used(ring') - 1
        PROVE  ring'.cells[Advance(ring'.rd, j)] = stream'.pushed - Used(ring') + j + 1
    <3>1. j \in 0 .. v - 1
      BY <1>16
    <3>2. ring'.cells[Advance(ring'.rd, j)] = p + n - v + j + 1
      BY <1>10, <1>18, <3>1
    <3> QED
      BY <1>1, <1>3, <1>11, <1>14, <1>16, <3>2 DEF R
  <2> QED
    BY <2>1, <2>2 DEF RingHolds
<1> QED
  BY <1>19, <1>20, <1>21 DEF RingInv

Pops ==
  LET n == Popped(ring)
  IN  /\ ring' = [ring EXCEPT !.rd = Advance(@, n)]
      /\ stream' = IF n = 0 THEN stream
                   ELSE [stream EXCEPT !.taken = Content(ring)[n], !.gone = Content(ring)[n]]

\* The oldest bytes are taken out, and nothing before them is left.
LEMMA PopKeeps ==
  ASSUME RingInv, Pops
  PROVE  RingInv'
<1> DEFINE R == RingBytes
           u == Used(ring)
           rd == ring.rd
           wr == ring.wr
           p == stream.pushed
           g == stream.gone
           n == Popped(ring)
           rd2 == Advance(rd, n)
           v == u - n
           cells == ring.cells
<1>1. R \in Nat /\ R >= 1 /\ PopMax \in Nat
  BY VoiceAssumption
<1>2. u \in 0 .. R - 1 /\ rd \in 0 .. R - 1 /\ wr \in 0 .. R - 1 /\ wr = Advance(rd, u)
  BY UsedRange DEF RingInv, RingType
<1>3. /\ p \in Nat /\ g \in Nat /\ g <= p /\ stream.taken \in Nat /\ stream.taken <= g
  BY DEF RingInv, StreamType
<1>4. /\ u = IF p - g < R THEN p - g ELSE R - 1
      /\ \A j \in 0 .. u - 1 : cells[Advance(rd, j)] = p - u + j + 1
      /\ cells \in [0 .. R - 1 -> Nat]
  BY DEF RingInv, RingType, RingHolds
<1>5. n \in 0 .. u /\ n \in Int /\ v \in Int /\ v = u - n
  BY <1>1, <1>2 DEF Popped
<1>6. ring' = [cells |-> cells, rd |-> rd2, wr |-> wr]
  BY DEF Pops, RingInv, RingType
<1>7. \A at \in 0 .. R - 1, m \in 0 .. R :
         /\ Advance(at, m) = IF at + m < R THEN at + m ELSE at + m - R
         /\ Advance(at, m) \in 0 .. R - 1
  BY Advances
<1>8. IF n = 0 THEN stream' = stream
      ELSE stream' = [pushed |-> p, taken |-> p - v, gone |-> p - v]
  <2>1. CASE n = 0
    BY <2>1 DEF Pops
  <2>2. CASE n # 0
    <3>1. n \in 1 .. u /\ n - 1 \in 0 .. u - 1
      BY <1>2, <1>5, <2>2
    <3>2. Content(ring)[n] = cells[Advance(rd, n - 1)]
      BY <3>1 DEF Content
    <3>3. cells[Advance(rd, n - 1)] = p - u + (n - 1) + 1
      BY <1>4, <3>1
    <3>4. p - u + (n - 1) + 1 = p - v
      BY <1>2, <1>3, <1>5
    <3>5. stream' = [stream EXCEPT !.taken = p - v, !.gone = p - v]
      BY <2>2, <3>2, <3>3, <3>4 DEF Pops
    <3> HIDE DEF v, n
    <3> QED
      BY <2>2, <3>5 DEF RingInv, StreamType
  <2> QED
    BY <2>1, <2>2
<1>9. rd2 = Advance(rd, n)
  OBVIOUS
<1>10. ring'.cells = cells /\ ring'.rd = rd2 /\ ring'.wr = wr
  BY <1>6
<1> HIDE DEF R, u, rd, wr, p, g, n, rd2, v, cells
<1>11. n \in 0 .. R /\ u \in 0 .. R /\ v \in 0 .. u /\ v \in 0 .. R - 1 /\ v \in 0 .. R
  BY <1>1, <1>2, <1>5
<1>12. /\ rd2 = (IF rd + n < R THEN rd + n ELSE rd + n - R) /\ rd2 \in 0 .. R - 1
       /\ wr = IF rd + u < R THEN rd + u ELSE rd + u - R
  BY <1>2, <1>7, <1>9, <1>11
<1>13. Used(ring') = v
  <2>1. Advance(rd2, v) = IF rd2 + v < R THEN rd2 + v ELSE rd2 + v - R
    BY <1>7, <1>11, <1>12
  <2>2. wr = Advance(rd2, v)
    BY <1>1, <1>2, <1>5, <1>11, <1>12, <2>1
  <2> QED
    BY <1>10, <1>11, <1>12, <2>2, UsedAhead DEF R
<1>14. ASSUME NEW j \in 0 .. v - 1
       PROVE  cells[Advance(rd2, j)] = p - v + j + 1
  <2>1. PICK i : i = n + j
    OBVIOUS
  <2>2. j \in 0 .. R /\ i \in 0 .. u - 1 /\ i \in 0 .. R
    BY <1>1, <1>2, <1>5, <1>11, <2>1
  <2>3. /\ Advance(rd2, j) = IF rd2 + j < R THEN rd2 + j ELSE rd2 + j - R
        /\ Advance(rd, i) = IF rd + i < R THEN rd + i ELSE rd + i - R
    BY <1>2, <1>7, <1>12, <2>2
  <2>4. Advance(rd2, j) = Advance(rd, i)
    BY <1>1, <1>2, <1>5, <1>11, <1>12, <2>1, <2>2, <2>3
  <2>5. cells[Advance(rd, i)] = p - u + i + 1
    BY <1>4, <2>2
  <2> QED
    BY <1>1, <1>2, <1>3, <1>5, <2>1, <2>2, <2>4, <2>5
<1>15. RingType'
  BY <1>2, <1>4, <1>6, <1>12 DEF RingType, R
<1>16. CASE n = 0
  <2>1. stream' = stream /\ v = u
    BY <1>2, <1>5, <1>8, <1>16
  <2>2. StreamType'
    BY <2>1 DEF RingInv, StreamType
  <2>3. Used(ring') = IF stream'.pushed - stream'.gone < RingBytes THEN stream'.pushed - stream'.gone
                                                                  ELSE RingBytes - 1
    BY <1>4, <1>13, <2>1 DEF p, g, R
  <2>4. ASSUME NEW j \in 0 .. Used(ring') - 1
        PROVE  ring'.cells[Advance(ring'.rd, j)] = stream'.pushed - Used(ring') + j + 1
    <3>1. ring'.cells[Advance(ring'.rd, j)] = p - v + j + 1
      BY <1>10, <1>13, <1>14
    <3> QED
      BY <1>1, <1>2, <1>3, <1>5, <1>11, <1>13, <2>1, <3>1 DEF p
  <2> QED
    BY <1>15, <2>2, <2>3, <2>4 DEF RingInv, RingHolds
<1>17. CASE n # 0
  <2>1. stream' = [pushed |-> p, taken |-> p - v, gone |-> p - v]
    BY <1>8, <1>17
  <2>2. stream'.pushed = p /\ stream'.gone = p - v /\ stream'.taken = p - v
    BY <2>1
  <2>3. p - v \in Nat /\ p - v <= p /\ p - (p - v) = v /\ v < R
    BY <1>1, <1>2, <1>3, <1>4, <1>5, <1>11
  <2>4. StreamType'
    <3>1. stream' \in [pushed : Nat, taken : Nat, gone : Nat]
      BY <1>3, <2>1, <2>3
    <3> QED
      BY <1>3, <2>2, <2>3, <3>1 DEF StreamType
  <2>5. Used(ring') = IF stream'.pushed - stream'.gone < RingBytes THEN stream'.pushed - stream'.gone
                                                                  ELSE RingBytes - 1
    BY <1>1, <1>3, <1>5, <1>11, <1>13, <2>2, <2>3 DEF R
  <2>6. ASSUME NEW j \in 0 .. Used(ring') - 1
        PROVE  ring'.cells[Advance(ring'.rd, j)] = stream'.pushed - Used(ring') + j + 1
    <3>1. ring'.cells[Advance(ring'.rd, j)] = p - v + j + 1
      BY <1>10, <1>13, <1>14
    <3> QED
      BY <1>1, <1>2, <1>3, <1>5, <1>11, <1>13, <2>2, <3>1
  <2> QED
    BY <1>15, <2>4, <2>5, <2>6 DEF RingInv, RingHolds
<1> QED
  BY <1>16, <1>17

Clears == ring' = [ring EXCEPT !.rd = 0, !.wr = 0] /\ stream' = [stream EXCEPT !.gone = stream.pushed]

\* A ring that is cleared holds nothing, and everything pushed so far is gone.
LEMMA ClearKeeps ==
  ASSUME RingInv, Clears
  PROVE  RingInv'
<1>1. RingBytes \in Nat /\ RingBytes >= 1
  BY VoiceAssumption
<1>2. ring' = [cells |-> ring.cells, rd |-> 0, wr |-> 0] /\ ring.cells \in [0 .. RingBytes - 1 -> Nat]
  BY DEF Clears, RingInv, RingType
<1>3. /\ stream' = [pushed |-> stream.pushed, taken |-> stream.taken, gone |-> stream.pushed]
      /\ stream.pushed \in Nat /\ stream.taken \in Nat /\ stream.taken <= stream.pushed
  BY DEF Clears, RingInv, StreamType
<1>4. RingType'
  BY <1>1, <1>2 DEF RingType
<1>5. StreamType'
  BY <1>3 DEF StreamType
<1>6. Used(ring') = 0
  BY <1>2 DEF Used
<1>7. stream'.pushed - stream'.gone = 0
  BY <1>3
<1>8. RingHolds'
  BY <1>1, <1>6, <1>7 DEF RingHolds
<1> QED
  BY <1>4, <1>5, <1>8 DEF RingInv

\* What RingHolds says of what ring_pop would hand out.
LEMMA HoldsInOrder ==
  ASSUME RingInv
  PROVE  InOrder /\ NothingReplayed
<1> DEFINE u == Used(ring)
           p == stream.pushed
           g == stream.gone
           c == Content(ring)
<1>1. RingBytes \in Nat /\ RingBytes >= 1 /\ u \in 0 .. RingBytes - 1
  BY VoiceAssumption, UsedRange DEF RingInv
<1>2. p \in Nat /\ g \in Nat /\ g <= p /\ stream.taken \in Nat /\ stream.taken <= g
  BY DEF RingInv, StreamType
<1>3. /\ u = IF p - g < RingBytes THEN p - g ELSE RingBytes - 1
      /\ \A j \in 0 .. u - 1 : ring.cells[Advance(ring.rd, j)] = p - u + j + 1
  BY DEF RingInv, RingHolds
<1>4. DOMAIN c = 1 .. u /\ \A i \in 1 .. u : c[i] = ring.cells[Advance(ring.rd, i - 1)]
  BY DEF Content
<1>5. Len(c) = u
  <2>1. u \in Nat
    BY <1>1
  <2> HIDE DEF u
  <2>2. c = [i \in 1 .. u |-> ring.cells[Advance(ring.rd, i - 1)]]
    BY DEF Content, u
  <2> HIDE DEF c
  <2> QED
    BY <2>1, <2>2
<1> HIDE DEF u, p, g, c
<1>6. ASSUME NEW i \in 1 .. u PROVE c[i] = p - u + i /\ c[i] > stream.taken
  <2>1. i - 1 \in 0 .. u - 1
    BY <1>1
  <2>2. c[i] = p - u + (i - 1) + 1
    BY <1>3, <1>4, <2>1
  <2>3. i \in Int /\ i >= 1 /\ u \in Int
    BY <1>1
  <2> QED
    BY <1>1, <1>2, <1>3, <2>2, <2>3
<1> QED
  BY <1>3, <1>4, <1>5, <1>6 DEF InOrder, NothingReplayed, u, p, g, c

(***************************************************************************)
(* Types of the tasks' variables.                                          *)
(***************************************************************************)

Settings == [rate : Rates, len : DmaLens, bufs : BufCounts, chunk : ChunkSizes,
             karaoke : BOOLEAN, loop : BOOLEAN]

CfgType == cfg \in Settings
FlagType == need \in BOOLEAN /\ playing \in BOOLEAN
AudioType ==
  /\ audio \in [running : BOOLEAN, buffers : DmaLens \cup {0}, mic : Drivers, spk : Drivers]
  /\ cfgPc \in {"idle", "deinit", "stopped", "alloc", "mic", "spk", "run", "fatal"}
SetterType == setter \in [Setters -> [pc : {"none", "len", "flag"}, reinit : BOOLEAN]]
WsPlaces == {"loop", "send", "sending", "push", "pushing", "clear", "clearing", "stop"}
WsType == ws \in [up : BOOLEAN, n : Packets \cup {0}, pc : WsPlaces]
MutexType == wsMutex \in {"none", "ws", "cap"} /\ ringMutex \in {"none", "ws", "cap"}
CapPlaces == {"top", "play", "pop", "quiet", "frame", "read", "use", "send", "sending"}
CapType == cap \in [pc : CapPlaces, drain : 0 .. DrainLimit - 1, len : DmaLens \cup {0}, n : 0 .. PktMax]
PktType == pkt \in [len : 0 .. PktMax, stale : 0 .. PktMax] /\ pkt.stale <= pkt.len

Types == CfgType /\ FlagType /\ AudioType /\ SetterType /\ WsType /\ MutexType /\ CapType /\ PktType

LEMMA PlainNumbers ==
  /\ PktMax \in Nat /\ PktMax >= 1 /\ DrainLimit \in Nat /\ DrainLimit >= 1
  /\ \A l \in DmaLens \cup {0} : l \in Nat /\ l <= PktMax
  /\ Packets \cup {0} \subseteq 0 .. RingBytes - 1
<1>1. \A l \in DmaLens \cup {0} : l \in Nat /\ l <= PktMax
  BY VoiceAssumption
<1>2. Packets \cup {0} \subseteq 0 .. RingBytes - 1
  BY VoiceAssumption
<1> QED
  BY <1>1, <1>2, VoiceAssumption

\* The drivers that can be installed.
LEMMA DriversTyped ==
  ASSUME CfgType
  PROVE  Driver(cfg.len) \in Drivers /\ Down \in Drivers /\ Driver(cfg.len) # Down
  BY VoiceAssumption DEF CfgType, Settings, Driver, Drivers, Opened

LEMMA CaptureTypes ==
  ASSUME Types, Capture
  PROVE  Types'
<1> USE DEF Types, CaptureOnly, configVars, ringVars
<1>1. UNCHANGED <<cfg, need, configVars, setter, ws>>
  BY DEF Capture, CaptureTop, CaptureTake, CaptureTimeout, CapturePop, CaptureQuiet, CaptureFrame,
         MicReads, MicSilent, CaptureUse, CaptureSend, CaptureSent
<1>2. CfgType' /\ AudioType' /\ SetterType' /\ WsType'
  BY <1>1 DEF CfgType, AudioType, SetterType, WsType
<1>3. FlagType' /\ MutexType'
  BY <1>1 DEF Capture, CaptureTop, CaptureTake, CaptureTimeout, CapturePop, CaptureQuiet, CaptureFrame,
         MicReads, MicSilent, CaptureUse, CaptureSend, CaptureSent, FlagType, MutexType
<1>4. ASSUME NEW c \in [pc : CapPlaces, drain : 0 .. DrainLimit - 1, len : DmaLens \cup {0}, n : 0 .. PktMax]
      PROVE  Emptied(c) \in [pc : CapPlaces, drain : 0 .. DrainLimit - 1, len : DmaLens \cup {0}, n : 0 .. PktMax]
  <2>1. 0 \in 0 .. DrainLimit - 1 /\ c.drain \in 0 .. DrainLimit - 1
    BY PlainNumbers
  <2>2. ~(c.drain + 1 >= DrainLimit) => c.drain + 1 \in 0 .. DrainLimit - 1
    BY <2>1, PlainNumbers
  <2> QED
    BY <2>1, <2>2 DEF Emptied, CapPlaces
<1>5. CASE CaptureTop \/ CaptureTake \/ CaptureTimeout \/ CapturePop \/ CaptureQuiet \/ CaptureFrame
           \/ MicSilent
  <2>1. UNCHANGED pkt
    BY <1>5 DEF CaptureTop, CaptureTake, CaptureTimeout, CapturePop, CaptureQuiet, CaptureFrame, MicSilent
  <2>2. 0 \in 0 .. DrainLimit - 1
    BY PlainNumbers
  <2>3. CapType'
    <3>1. CASE CaptureTop \/ CaptureTake \/ CaptureQuiet
      BY <2>2, <3>1 DEF CaptureTop, CaptureTake, CaptureQuiet, Go, CapType, CapPlaces
    <3>2. CASE CaptureFrame \/ MicSilent
      BY <3>2 DEF CaptureFrame, MicSilent, CapType, CapPlaces, CfgType, Settings
    <3>3. CASE CaptureTimeout
      BY <1>4, <3>3 DEF CaptureTimeout, CapType
    <3>4. CASE CapturePop
      <4>1. cap' = [cap EXCEPT !.pc = "frame", !.drain = 0] \/ cap' = Emptied(cap)
        BY <3>4 DEF CapturePop
      <4>2. [cap EXCEPT !.pc = "frame", !.drain = 0] \in
              [pc : CapPlaces, drain : 0 .. DrainLimit - 1, len : DmaLens \cup {0}, n : 0 .. PktMax]
        BY <2>2 DEF CapType, CapPlaces
      <4> QED
        BY <1>4, <4>1, <4>2 DEF CapType
    <3> QED
      BY <1>5, <3>1, <3>2, <3>3, <3>4
  <2> QED
    BY <1>2, <1>3, <2>1, <2>3 DEF PktType
<1>6. CASE MicReads
  <2>1. PICK n \in 1 .. cap.len : cap' = [cap EXCEPT !.pc = "use", !.n = n]
    BY <1>6 DEF MicReads
  <2>2. n \in 0 .. PktMax
    <3>1. cap.len \in Nat /\ cap.len <= PktMax
      BY PlainNumbers DEF CapType
    <3> QED
      BY <3>1, PlainNumbers
  <2>3. CapType'
    BY <2>1, <2>2 DEF CapType, CapPlaces
  <2> QED
    BY <1>2, <1>3, <1>6, <2>3 DEF MicReads, PktType
<1>7. CASE CaptureUse
  <2>1. /\ 0 \in DmaLens \cup {0} /\ 0 \in 0 .. PktMax
    BY PlainNumbers
  <2>2. CapType'
    BY <1>7, <2>1 DEF CaptureUse, CapType, CapPlaces
  <2>3. pkt' = pkt \/ pkt' = Accumulated \/ pkt' = Empty
    BY <1>7 DEF CaptureUse
  <2>4. cap.n \in 0 .. PktMax /\ pkt.len \in 0 .. PktMax /\ pkt.stale \in 0 .. PktMax /\ pkt.stale <= pkt.len
    BY DEF CapType, PktType
  <2>5. ASSUME pkt' = Accumulated PROVE PktType'
    <3>1. CASE pkt.len + cap.n > PktMax
      <4>1. pkt' = [len |-> cap.n, stale |-> 0]
        BY <2>5, <3>1 DEF Accumulated
      <4> QED
        BY <2>1, <2>4, <4>1, PlainNumbers DEF PktType
    <3>2. CASE ~(pkt.len + cap.n > PktMax)
      <4>1. pkt.len + cap.n \in 0 .. PktMax /\ pkt.stale <= pkt.len + cap.n
        BY <2>4, <3>2, PlainNumbers
      <4>2. pkt' = [len |-> pkt.len + cap.n, stale |-> pkt.stale]
        BY <2>5, <3>2 DEF Accumulated, PktType
      <4> QED
        BY <2>4, <4>1, <4>2, PlainNumbers DEF PktType
    <3> QED
      BY <3>1, <3>2
  <2>6. PktType'
    BY <2>1, <2>3, <2>5 DEF Empty, PktType
  <2> QED
    BY <1>2, <1>3, <2>2, <2>6
<1>8. CASE CaptureSend \/ CaptureSent
  <2>1. CapType'
    BY <1>8 DEF CaptureSend, CaptureSent, Go, CapType, CapPlaces
  <2>2. pkt' = pkt \/ pkt' = Empty
    BY <1>8 DEF CaptureSend, CaptureSent
  <2>3. PktType'
    BY <2>2, PlainNumbers DEF Empty, PktType
  <2> QED
    BY <1>2, <1>3, <2>1, <2>3
<1> QED
  BY <1>5, <1>6, <1>7, <1>8 DEF Capture

LEMMA WsTypes ==
  ASSUME Types, WsStep
  PROVE  Types'
<1> USE DEF Types, WsOnly, configVars, captureVars
<1>1. UNCHANGED <<cfg, need, setter, configVars, captureVars>>
  BY DEF WsStep, RingTake, RingTimeout, RingPush, RingClear, StopPlaying, WsSend, WsSent
<1>2. CfgType' /\ AudioType' /\ SetterType' /\ CapType' /\ PktType'
  BY <1>1 DEF CfgType, AudioType, SetterType, CapType, PktType
<1>3. FlagType' /\ MutexType'
  BY <1>1 DEF WsStep, RingTake, RingTimeout, RingPush, RingClear, StopPlaying, WsSend, WsSent,
              FlagType, MutexType, ringVars
<1>4. PICK pc \in WsPlaces : WsToLoop(pc)
  BY DEF WsStep, RingTake, RingTimeout, RingPush, RingClear, StopPlaying, WsSend, WsSent, WsPlaces
<1>5. WsType'
  BY <1>4 DEF WsToLoop, WsType
<1> QED
  BY <1>2, <1>3, <1>5

LEMMA ReopenTypes ==
  ASSUME Types, Reopen \/ AllocFailure
  PROVE  Types'
<1> USE DEF Types, ConfigOnly, ringVars
<1>1. UNCHANGED <<cfg, setter, ws, wsMutex, ringMutex, playing, cap>>
  BY DEF Reopen, TakeNeed, Uninstall, FreeBuffers, AllocBuffers, AllocFailure, InitMic, InitSpk, SetRunning
<1>2. CfgType' /\ SetterType' /\ WsType' /\ MutexType' /\ CapType'
  BY <1>1 DEF CfgType, SetterType, Settings, WsType, MutexType, CapType
<1>3. FlagType'
  BY <1>1 DEF Reopen, TakeNeed, Uninstall, FreeBuffers, AllocBuffers, AllocFailure, InitMic, InitSpk,
              SetRunning, FlagType
<1>4. AudioType'
  <2>1. Driver(cfg.len) \in Drivers /\ Down \in Drivers /\ cfg.len \in DmaLens
    BY DriversTyped DEF CfgType, Settings
  <2> QED
    BY <2>1 DEF Reopen, TakeNeed, Uninstall, FreeBuffers, AllocBuffers, AllocFailure, InitMic, InitSpk,
                SetRunning, AudioType
<1>5. PktType'
  <2>1. pkt' = pkt \/ pkt' = [pkt EXCEPT !.stale = pkt.len]
    BY DEF Reopen, TakeNeed, Uninstall, FreeBuffers, AllocBuffers, AllocFailure, InitMic, InitSpk, SetRunning
  <2>2. pkt.len \in 0 .. PktMax /\ pkt.len \in Int
    BY DEF PktType
  <2> QED
    BY <2>1, <2>2 DEF PktType
<1> QED
  BY <1>2, <1>3, <1>4, <1>5

LEMMA SettingTypes ==
  ASSUME Types, NEW a \in Setters, Setting(a) \/ FetchConfig(a)
  PROVE  Types'
<1> USE DEF Types, configVars, captureVars, ringVars
<1>1. UNCHANGED <<ws, wsMutex, ringMutex, playing, audio, cfgPc, cap, pkt>> /\ need' \in {need, TRUE}
  BY DEF Setting, FetchConfig, FetchLen, SetNeed
<1>2. WsType' /\ MutexType' /\ FlagType' /\ AudioType' /\ CapType' /\ PktType'
  <2>1. FlagType'
    BY <1>1 DEF FlagType
  <2>2. AudioType' /\ MutexType'
    BY <1>1 DEF AudioType, MutexType
  <2>3. WsType' /\ CapType' /\ PktType'
    BY <1>1 DEF WsType, CapType, PktType
  <2> QED
    BY <2>1, <2>2, <2>3
<1>3. CASE FetchConfig(a)
  <2>1. PICK r \in Rates, b \in BufCounts, c \in ChunkSizes :
          /\ cfg' = [cfg EXCEPT !.rate = r, !.bufs = b, !.chunk = c]
          /\ setter' = [setter EXCEPT ![a] = [pc |-> "len", reinit |-> r # cfg.rate]]
    BY <1>3 DEF FetchConfig
  <2>2. CfgType' /\ SetterType'
    BY <2>1 DEF CfgType, SetterType, Settings
  <2> QED
    BY <1>2, <2>2
<1>4. CASE FetchLen(a)
  <2>1. PICK l \in DmaLens, b \in BOOLEAN, pc \in {"flag", "none"} :
          cfg' = [cfg EXCEPT !.len = l] /\ setter' = [setter EXCEPT ![a] = [pc |-> pc, reinit |-> b]]
    <3>1. setter[a].reinit \in BOOLEAN
      BY DEF SetterType
    <3> QED
      BY <1>4, <3>1 DEF FetchLen
  <2>2. CfgType' /\ SetterType'
    BY <2>1 DEF CfgType, SetterType, Settings
  <2> QED
    BY <1>2, <2>2
<1>5. CASE SetNeed(a)
  <2>1. CfgType' /\ SetterType'
    BY <1>5 DEF SetNeed, CfgType, Settings, SetterType
  <2> QED
    BY <1>2, <2>1
<1> QED
  BY <1>3, <1>4, <1>5 DEF Setting

\* The driver that is opened with some settings.
Opening(c) == [rate |-> c.rate, len |-> c.len, bufs |-> c.bufs]

\* Every start is of the right types.
LEMMA StartTypes ==
  ASSUME NEW f \in Starts
  PROVE  /\ f.cfg \in Settings
         /\ f.audio = [running |-> TRUE, buffers |-> f.cfg.len,
                       mic |-> Opening(f.cfg), spk |-> Opening(f.cfg)]
         /\ f.setter = [a \in Setters |-> [pc |-> "none", reinit |-> FALSE]]
         /\ f.ws = [up |-> FALSE, pc |-> "loop", n |-> 0]
         /\ f.ring = [cells |-> [i \in 0 .. RingBytes - 1 |-> 0], rd |-> 0, wr |-> 0]
         /\ f.cap = [pc |-> "top", drain |-> 0, len |-> 0, n |-> 0]
<1>1. PICK d \in Opened, c \in ChunkSizes : f = Fresh(d, c)
  BY DEF Starts
<1>2. d = [rate |-> d.rate, len |-> d.len, bufs |-> d.bufs]
      /\ d.rate \in Rates /\ d.len \in DmaLens /\ d.bufs \in BufCounts
  BY DEF Opened
<1> QED
  BY <1>1, <1>2 DEF Fresh, Settings, Opening

LEMMA OutsideTypes ==
  ASSUME Types, Command \/ Switch \/ Connect \/ Disconnect \/ Audio
  PROVE  Types'
<1> USE DEF Types, configVars, captureVars, ringVars
<1>1. UNCHANGED <<need, wsMutex, ringMutex, audio, cfgPc, cap, pkt>>
  BY DEF Command, Switch, Connect, Disconnect, Audio
<1>2. MutexType' /\ AudioType' /\ CapType' /\ PktType'
  BY <1>1 DEF MutexType, AudioType, CapType, PktType
<1>3. FlagType'
  BY <1>1 DEF Command, Switch, Connect, Disconnect, Audio, FlagType
<1>4. CASE Command
  BY <1>2, <1>3, <1>4 DEF Command, CfgType, Settings, SetterType, Setters, WsType
<1>5. CASE Switch
  BY <1>2, <1>3, <1>5 DEF Switch, CfgType, Settings, SetterType, WsType
<1>6. CASE Connect \/ Disconnect
  BY <1>2, <1>3, <1>6 DEF Connect, Disconnect, CfgType, Settings, SetterType, WsType, WsPlaces
<1>7. CASE Audio
  BY <1>2, <1>3, <1>7 DEF Audio, CfgType, Settings, SetterType, WsType, WsPlaces
<1> QED
  BY <1>4, <1>5, <1>6, <1>7

\* A device that starts, for the first time or again.
Started == \E f \in Starts :
  /\ cfg = f.cfg /\ need = FALSE /\ audio = f.audio /\ cfgPc = "idle" /\ setter = f.setter
  /\ ws = f.ws /\ wsMutex = "none" /\ ringMutex = "none" /\ ring = f.ring
  /\ stream = [pushed |-> 0, taken |-> 0, gone |-> 0] /\ playing = FALSE
  /\ cap = f.cap /\ pkt = [len |-> 0, stale |-> 0]

\* Types, ring and settings.
LEMMA FreshStart == Started => Types /\ RingInv
<1> SUFFICES ASSUME Started PROVE Types /\ RingInv
  OBVIOUS
<1>0. PICK f \in Starts :
        /\ cfg = f.cfg /\ need = FALSE /\ audio = f.audio /\ cfgPc = "idle" /\ setter = f.setter
        /\ ws = f.ws /\ wsMutex = "none" /\ ringMutex = "none" /\ ring = f.ring
        /\ stream = [pushed |-> 0, taken |-> 0, gone |-> 0] /\ playing = FALSE
        /\ cap = f.cap /\ pkt = [len |-> 0, stale |-> 0]
  BY DEF Started
<1>a. /\ cfg \in Settings
      /\ audio = [running |-> TRUE, buffers |-> cfg.len,
                  mic |-> Opening(cfg), spk |-> Opening(cfg)]
      /\ setter = [a \in Setters |-> [pc |-> "none", reinit |-> FALSE]]
      /\ ws = [up |-> FALSE, pc |-> "loop", n |-> 0]
      /\ ring = [cells |-> [i \in 0 .. RingBytes - 1 |-> 0], rd |-> 0, wr |-> 0]
      /\ cap = [pc |-> "top", drain |-> 0, len |-> 0, n |-> 0]
  BY <1>0, StartTypes, Zenon
<1>1. CfgType /\ cfg.len \in DmaLens /\ cfg.rate \in Rates /\ cfg.bufs \in BufCounts
  BY <1>a DEF CfgType, Settings
<1>2. AudioType
  <2>1. Opening(cfg) \in Drivers
    BY <1>1 DEF Drivers, Opened, Opening
  <2> QED
    BY <1>0, <1>a, <1>1, <2>1 DEF AudioType
<1>3. FlagType /\ SetterType /\ WsType /\ MutexType
  <2>1. SetterType
    <3>1. [pc |-> "none", reinit |-> FALSE] \in [pc : {"none", "len", "flag"}, reinit : BOOLEAN]
      OBVIOUS
    <3> QED
      BY <1>a, <3>1 DEF SetterType
  <2>2. WsType
    BY <1>a DEF WsType, WsPlaces
  <2> QED
    BY <1>0, <2>1, <2>2 DEF FlagType, MutexType
<1>4. CapType /\ PktType
  <2>1. 0 \in 0 .. PktMax /\ 0 \in 0 .. DrainLimit - 1
    BY PlainNumbers
  <2>2. CapType
    BY <1>a, <2>1 DEF CapType, CapPlaces
  <2>3. pkt = [len |-> 0, stale |-> 0] /\ 0 <= 0
    BY <1>0
  <2> QED
    BY <2>1, <2>2, <2>3 DEF PktType
<1>5. RingBytes \in Nat /\ RingBytes >= 1
  BY VoiceAssumption
<1>6. ring = [cells |-> [i \in 0 .. RingBytes - 1 |-> 0], rd |-> 0, wr |-> 0]
  BY <1>a
<1>7. RingType
  BY <1>5, <1>6 DEF RingType
<1>8. StreamType
  BY <1>0 DEF StreamType
<1>9. Used(ring) = 0
  BY <1>6 DEF Used
<1>10. RingHolds
  BY <1>0, <1>5, <1>9 DEF RingHolds
<1> QED
  BY <1>1, <1>2, <1>3, <1>4, <1>7, <1>8, <1>10 DEF Types, RingInv

LEMMA RebootIsStart == Reboot => Started'
  BY DEF Reboot, Started

\* A reboot is a start.
LEMMA RebootStarts == Reboot => (Types /\ RingInv)'
  BY RebootIsStart, FreshStart, PTL

LEMMA TypesStep ==
  ASSUME Types, [Next]_vars
  PROVE  Types'
<1>1. CASE UNCHANGED vars
  BY <1>1 DEF vars, Types, CfgType, FlagType, AudioType, SetterType, WsType, MutexType, CapType, PktType
<1> QED
  BY <1>1, CaptureTypes, WsTypes, ReopenTypes, SettingTypes, OutsideTypes, RebootStarts DEF Next, Outside

\* The ring and the stream change by a push, a pop, a clearing and a start.
LEMMA RingStep ==
  ASSUME Types, RingInv, [Next]_vars
  PROVE  RingInv'
<1>1. ASSUME UNCHANGED <<ring, stream>> PROVE RingInv'
  BY <1>1 DEF RingInv, RingType, StreamType, RingHolds, Used
<1>2. CASE UNCHANGED vars
  BY <1>1, <1>2 DEF vars
<1>3. CASE Capture
  <2>1. CASE CapturePop
    <3>1. Pops
      BY <2>1 DEF CapturePop, Pops
    <3> QED
      BY <3>1, PopKeeps
  <2>2. CASE CaptureTake
    BY <1>1, <2>2 DEF CaptureTake
  <2>3. CASE CaptureTop \/ CaptureTimeout \/ CaptureQuiet \/ CaptureFrame \/ MicReads \/ MicSilent
             \/ CaptureUse \/ CaptureSend \/ CaptureSent
    BY <1>1, <2>3 DEF CaptureTop, CaptureTimeout, CaptureQuiet, CaptureFrame, MicReads, MicSilent,
       CaptureUse, CaptureSend, CaptureSent, ringVars
  <2> QED
    BY <1>3, <2>1, <2>2, <2>3 DEF Capture
<1>4. CASE WsStep
  <2>1. CASE RingPush
    <3>1. Pushes(ws.n)
      BY <2>1 DEF RingPush, Pushes
    <3>2. ws.n \in 0 .. RingBytes - 1
      BY PlainNumbers DEF Types, WsType
    <3> QED
      BY <3>1, <3>2, PushKeeps
  <2>2. CASE RingClear
    <3>1. Clears
      BY <2>2 DEF RingClear, Clears
    <3> QED
      BY <3>1, ClearKeeps
  <2>3. CASE RingTake \/ RingTimeout \/ StopPlaying \/ WsSend \/ WsSent
    BY <1>1, <2>3 DEF RingTake, RingTimeout, StopPlaying, WsSend, WsSent, ringVars
  <2> QED
    BY <1>4, <2>1, <2>2, <2>3 DEF WsStep
<1>5. CASE Reopen \/ AllocFailure
  BY <1>1, <1>5 DEF Reopen, TakeNeed, Uninstall, FreeBuffers, AllocBuffers, AllocFailure, InitMic, InitSpk,
     SetRunning, ConfigOnly, ringVars
<1>6. ASSUME NEW a \in Setters, Setting(a) \/ FetchConfig(a) PROVE RingInv'
  BY <1>1, <1>6 DEF Setting, FetchConfig, FetchLen, SetNeed, ringVars
<1>7. CASE Command \/ Switch \/ Connect \/ Disconnect \/ Audio
  BY <1>1, <1>7 DEF Command, Switch, Connect, Disconnect, Audio, ringVars
<1> QED
  BY <1>2, <1>3, <1>4, <1>5, <1>6, <1>7, RebootStarts DEF Next, Outside

LEMMA StartsRight == Init => Types /\ RingInv
  BY FreshStart DEF Init, Started

\* What the player takes out of the ring is the stream of the server in order: no byte is
\* heard twice or before one that was pushed earlier, for any size of the ring, of the
\* packets and of the reads, though the ring overruns, is cleared on a disconnection and
\* loses its mutex to a timeout (voice_assistant.ino:149-180).
THEOREM AlwaysInOrder == Spec => []PlaysInOrder
<1>1. Types /\ RingInv /\ [Next]_vars => (Types /\ RingInv)'
  BY TypesStep, RingStep
<1>2. Types /\ RingInv => PlaysInOrder
  <2> SUFFICES ASSUME Types, RingInv PROVE VoiceTypeOK
    BY HoldsInOrder DEF PlaysInOrder
  <2>1. ring.rd \in 0 .. RingBytes - 1 /\ ring.wr \in 0 .. RingBytes - 1
    BY DEF RingInv, RingType
  <2>2. stream.taken \in 0 .. stream.gone /\ stream.gone \in 0 .. stream.pushed
    BY DEF RingInv, StreamType
  <2>3. pkt.len \in 0 .. PktMax /\ pkt.stale \in 0 .. pkt.len
    <3>1. pkt.len \in 0 .. PktMax /\ pkt.stale \in 0 .. PktMax /\ pkt.stale <= pkt.len /\ PktMax \in Nat
      BY PlainNumbers DEF Types, PktType
    <3> QED
      BY <3>1
  <2> QED
    BY <2>1, <2>2, <2>3 DEF VoiceTypeOK, Types, CfgType, Settings, FlagType, AudioType, SetterType, WsType, WsPlaces,
       MutexType, CapType, CapPlaces
<1> QED
  BY StartsRight, <1>1, <1>2, PTL DEF Spec

(***************************************************************************)
(* The settings.                                                           *)
(***************************************************************************)

\* A reopening of the drivers is asked for, or will be.
Asked ==
  \/ need
  \/ \E a \in Setters : setter[a].pc = "flag" \/ (setter[a].pc = "len" /\ setter[a].reinit)

\* A driver that is open, with the rate and the length of some settings.
Of(d, c) == d # Down /\ d.rate = c.rate /\ d.len = c.len

\* What has been reopened so far was reopened with the settings in force, unless a change
\* since then has asked for the drivers to be reopened again.
SettingsInv ==
  /\ cfgPc = "idle" => audio.running
  /\ ~Asked =>
       /\ cfgPc \in {"mic", "spk", "run", "idle"} => audio.buffers = cfg.len
       /\ cfgPc \in {"spk", "run", "idle"} => Of(audio.mic, cfg)
       /\ cfgPc \in {"run", "idle"} => Of(audio.spk, cfg)

\* Nothing of it depends on the rest of the device.
LEMMA SettingsStay ==
  ASSUME SettingsInv, UNCHANGED <<need, setter, audio, cfgPc>>,
         cfg'.rate = cfg.rate, cfg'.len = cfg.len
  PROVE  SettingsInv'
  BY DEF SettingsInv, Asked, Of

LEMMA SettingsReopen ==
  ASSUME Types, SettingsInv, Reopen \/ AllocFailure
  PROVE  SettingsInv'
<1>1. UNCHANGED <<cfg, setter>> /\ need' \in {need, FALSE}
  BY DEF Reopen, TakeNeed, Uninstall, FreeBuffers, AllocBuffers, AllocFailure, InitMic, InitSpk, SetRunning,
     ConfigOnly
<1>2. /\ \A d : Of(d, cfg)' <=> Of(d, cfg)
      /\ Of(Driver(cfg.len), cfg)
  <2>1. Driver(cfg.len) # Down
    BY DriversTyped DEF Types
  <2> QED
    BY <1>1, <2>1 DEF Driver, Of
<1>3. CASE TakeNeed \/ Uninstall \/ FreeBuffers \/ AllocFailure
  <2>1. cfgPc' \in {"deinit", "stopped", "alloc", "fatal"}
    BY <1>3 DEF TakeNeed, Uninstall, FreeBuffers, AllocFailure
  <2> QED
    BY <2>1 DEF SettingsInv
<1>4. CASE AllocBuffers
  <2>1. /\ cfgPc' = "mic" /\ audio'.buffers = cfg.len
    BY <1>4 DEF AllocBuffers, Types, AudioType
  <2> QED
    BY <1>1, <2>1 DEF SettingsInv
<1>5. CASE InitMic
  <2>1. /\ cfgPc = "mic" /\ cfgPc' = "spk" /\ need' = need
        /\ audio'.buffers = audio.buffers /\ audio'.mic = Driver(cfg.len)
    BY <1>5 DEF InitMic, Types, AudioType
  <2>2. Asked' = Asked
    BY <1>1, <2>1 DEF Asked
  <2> QED
    BY <1>1, <1>2, <2>1, <2>2 DEF SettingsInv
<1>6. CASE InitSpk
  <2>1. /\ cfgPc = "spk" /\ cfgPc' = "run" /\ need' = need
        /\ audio'.buffers = audio.buffers /\ audio'.mic = audio.mic /\ audio'.spk = Driver(cfg.len)
    BY <1>6 DEF InitSpk, Types, AudioType
  <2>2. Asked' = Asked
    BY <1>1, <2>1 DEF Asked
  <2> QED
    BY <1>1, <1>2, <2>1, <2>2 DEF SettingsInv
<1>7. CASE SetRunning
  <2>1. /\ cfgPc = "run" /\ cfgPc' = "idle" /\ need' = need /\ audio'.running
        /\ audio'.buffers = audio.buffers /\ audio'.mic = audio.mic /\ audio'.spk = audio.spk
    BY <1>7 DEF SetRunning, Types, AudioType
  <2>2. Asked' = Asked
    BY <1>1, <2>1 DEF Asked
  <2> QED
    BY <1>1, <1>2, <2>1, <2>2 DEF SettingsInv
<1> QED
  BY <1>3, <1>4, <1>5, <1>6, <1>7 DEF Reopen

\* A change of a setting that matters is asked for by the time it is made.
LEMMA SettingsSet ==
  ASSUME Types, SettingsInv, NEW a \in Setters, Setting(a) \/ FetchConfig(a)
  PROVE  SettingsInv'
<1>0. /\ cfg \in Settings
      /\ setter \in [Setters -> [pc : {"none", "len", "flag"}, reinit : BOOLEAN]]
  BY DEF Types, CfgType, SetterType, Settings
<1>1. UNCHANGED <<audio, cfgPc>>
  BY DEF Setting, FetchConfig, FetchLen, SetNeed, configVars
<1>2. CASE Asked'
  BY <1>1, <1>2 DEF SettingsInv
<1>3. CASE FetchConfig(a)
  <2>1. PICK r \in Rates, b \in BufCounts, c \in ChunkSizes :
          /\ cfg' = [cfg EXCEPT !.rate = r, !.bufs = b, !.chunk = c]
          /\ setter' = [setter EXCEPT ![a] = [pc |-> "len", reinit |-> r # cfg.rate]]
    BY <1>3 DEF FetchConfig
  <2>2. /\ need' = need /\ setter[a].pc = "none"
        /\ setter'[a].pc = "len" /\ (setter'[a].reinit <=> r # cfg.rate)
        /\ \A o \in Setters : o # a => setter'[o] = setter[o]
        /\ cfg'.rate = r /\ cfg'.len = cfg.len
    BY <1>0, <1>3, <2>1 DEF FetchConfig, Settings
  <2>3. CASE r # cfg.rate
    BY <1>2, <2>2, <2>3 DEF Asked
  <2>4. CASE r = cfg.rate
    <3>1. Asked <=> Asked'
      BY <2>2, <2>4 DEF Asked
    <3>2. cfg'.rate = cfg.rate /\ cfg'.len = cfg.len
      BY <2>2, <2>4
    <3> QED
      BY <1>1, <2>2, <3>1, <3>2 DEF SettingsInv, Of
  <2> QED
    BY <2>3, <2>4
<1>4. CASE FetchLen(a)
  <2>1. PICK l \in DmaLens :
          /\ cfg' = [cfg EXCEPT !.len = l]
          /\ setter' = [setter EXCEPT ![a] = [pc |-> IF setter[a].reinit \/ l # cfg.len THEN "flag" ELSE "none",
                                              reinit |-> setter[a].reinit \/ l # cfg.len]]
    BY <1>4 DEF FetchLen
  <2>2. /\ need' = need
        /\ setter'[a].pc = IF setter[a].reinit \/ l # cfg.len THEN "flag" ELSE "none"
        /\ \A b \in Setters : b # a => setter'[b] = setter[b]
        /\ cfg'.rate = cfg.rate /\ cfg'.len = l
    BY <1>0, <1>4, <2>1 DEF FetchLen, Settings
  <2>3. CASE setter[a].reinit \/ l # cfg.len
    BY <1>2, <2>2, <2>3 DEF Asked
  <2>4. CASE ~(setter[a].reinit \/ l # cfg.len)
    <3>1. setter[a].pc = "len"
      BY <1>4 DEF FetchLen
    <3>2. Asked <=> Asked'
      BY <2>2, <2>4, <3>1 DEF Asked
    <3>3. cfg'.rate = cfg.rate /\ cfg'.len = cfg.len
      BY <2>2, <2>4
    <3> QED
      BY <1>1, <2>2, <2>4, <3>2, <3>3 DEF SettingsInv, Of
  <2> QED
    BY <2>3, <2>4
<1>5. CASE SetNeed(a)
  BY <1>2, <1>5 DEF SetNeed, Asked
<1> QED
  BY <1>3, <1>4, <1>5 DEF Setting

\* The drivers are opened with the settings a device starts with.
LEMMA SettingsStart == Started => SettingsInv
<1> SUFFICES ASSUME Started PROVE SettingsInv
  OBVIOUS
<1>1. PICK f \in Starts : cfg = f.cfg /\ audio = f.audio
  BY DEF Started
<1>2. /\ cfg \in Settings
      /\ audio = [running |-> TRUE, buffers |-> cfg.len, mic |-> Opening(cfg), spk |-> Opening(cfg)]
  BY <1>1, StartTypes, Zenon
<1>3. Opening(cfg) # Down
  BY <1>2, VoiceAssumption DEF Opening, Settings
<1> QED
  BY <1>2, <1>3 DEF SettingsInv, Of, Opening

LEMMA SettingsRestart == Reboot => SettingsInv'
  BY RebootIsStart, SettingsStart, PTL

LEMMA SettingsStep ==
  ASSUME Types, SettingsInv, [Next]_vars
  PROVE  SettingsInv'
<1>1. CASE UNCHANGED vars
  BY <1>1, SettingsStay DEF vars
<1>2. CASE Capture
  BY <1>2, SettingsStay DEF Capture, CaptureTop, CaptureTake, CaptureTimeout, CapturePop, CaptureQuiet,
     CaptureFrame, MicReads, MicSilent, CaptureUse, CaptureSend, CaptureSent, CaptureOnly, configVars
<1>3. CASE WsStep
  BY <1>3, SettingsStay DEF WsStep, RingTake, RingTimeout, RingPush, RingClear, StopPlaying, WsSend, WsSent,
     WsOnly, configVars
<1>4. CASE Command
  <2>1. setter'["ws"].pc = "flag" /\ UNCHANGED <<audio, cfgPc>> /\ "ws" \in Setters
    BY <1>4 DEF Command, configVars, Types, SetterType, Setters
  <2> QED
    BY <2>1 DEF SettingsInv, Asked
<1>5. CASE Switch
  BY <1>5, SettingsStay DEF Switch, configVars, Types, CfgType, Settings
<1>6. CASE Connect \/ Disconnect \/ Audio
  BY <1>6, SettingsStay DEF Connect, Disconnect, Audio, configVars
<1> QED
  BY <1>1, <1>2, <1>3, <1>4, <1>5, <1>6, SettingsRestart, SettingsReopen, SettingsSet DEF Next, Outside

\* A change of the sampling rate or of the DMA length is never lost, whichever task
\* makes it and however far task_config is with the change before: when none of these is
\* under way the buffers and the drivers are of the rate and the length in force, for any
\* settings. The number of DMA buffers is not part of it: a change of that alone asks for
\* nothing (voice_assistant.ino:359-414, 484-500, 670-671).
THEOREM ChangesTaken == Spec => []SettingsTaken
<1>1. Init => Types /\ SettingsInv
  BY StartsRight, SettingsStart DEF Init, Started
<1>2. Types /\ SettingsInv /\ [Next]_vars => (Types /\ SettingsInv)'
  BY TypesStep, SettingsStep
<1>3. SettingsInv => SettingsTaken
  BY DEF SettingsInv, SettingsTaken, Settled, Asked, Of
<1> QED
  BY <1>1, <1>2, <1>3, PTL DEF Spec
=============================================================================
