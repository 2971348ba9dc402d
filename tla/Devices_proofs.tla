--------------------------- MODULE Devices_proofs ---------------------------
(***************************************************************************)
(* Proofs about the small calculations of the device examples: the queue   *)
(* of SimpleFIFO, the beacons of free80211, the pulses of the LED strip    *)
(* and the registers of the RFM69 radio.                                   *)
(***************************************************************************)
EXTENDS Devices, SequenceTheorems, TLAPS

-----------------------------------------------------------------------------
(***************************************************************************)
(* SimpleFIFO is a bounded queue: f stands for the queue q, and each call  *)
(* returns what the queue would and leaves what stands for the queue after *)
(* it.  So it is one after any number of calls, for every size that the    *)
(* eight bits of its count can hold.                                       *)
(*                                                                         *)
(* The remainders are taken when an index is used, not when it runs out of *)
(* the array: an index of size and one of 0 are the same place.            *)
(***************************************************************************)

\* The sizes eight bits can hold.
Sizes == 1 .. CountRange - 1

\* Where index p points to, and the place i places behind place p.
Place(n, p) == IF p = n THEN 0 ELSE p
Behind(n, p, i) == IF p + i < n THEN p + i ELSE p + i - n

\* The fields of a SimpleFIFO of size n.
Fifos(n, S) ==
  [ raw : [0 .. n - 1 -> S \cup {0}], size : {n}, numberOfElements : 0 .. n,
    nextIn : 0 .. n, nextOut : 0 .. n ]

\* f, of size n, holds the elements of q from nextOut on; nextIn is behind the
\* last.
Holds(n, S, f, q) ==
  /\ f \in Fifos(n, S) /\ q \in Seq(S) /\ f.numberOfElements = Len(q)
  /\ Place(n, f.nextIn) = Behind(n, Place(n, f.nextOut), Len(q))
  /\ \A i \in 1 .. Len(q) : q[i] = f.raw[Behind(n, Place(n, f.nextOut), i - 1)]

\* The remainder of an index that is at most one past the array.
LEMMA RemainderIs ==
  ASSUME NEW n \in Nat \ {0}, NEW p \in 0 .. n
  PROVE  p % n = Place(n, p) /\ Place(n, p) \in 0 .. n - 1
  BY DEF Place

\* The count never leaves its eight bits.
LEMMA CountFits ==
  ASSUME NEW k \in 0 .. CountRange - 1
  PROVE  k % CountRange = k
  BY DEF CountRange

\* flush leaves the empty queue.
LEMMA FlushHolds ==
  ASSUME NEW S, NEW n \in Sizes
  PROVE  Holds(n, S, flush(n), << >>)
  <1> DEFINE f == flush(n)
  <1>1. n \in Nat /\ n # 0
    BY DEF Sizes, CountRange
  <1>2. /\ f \in Fifos(n, S) /\ f.numberOfElements = 0
        /\ f.nextIn = 0 /\ f.nextOut = 0
    BY <1>1 DEF flush, Fifos
  <1> HIDE DEF f
  <1>3. << >> \in Seq(S) /\ Len(<< >>) = 0
    OBVIOUS
  <1>4. Place(n, 0) = 0 /\ Behind(n, 0, 0) = 0
    BY <1>1 DEF Place, Behind
  <1>5. Holds(n, S, f, << >>)
    BY <1>2, <1>3, <1>4 DEF Holds
  <1>6. QED
    BY <1>5 DEF f

\* What is known of a fifo, in numbers.
LEMMA Indices ==
  ASSUME NEW S, NEW n \in Sizes, NEW f, NEW q, Holds(n, S, f, q)
  PROVE  /\ n \in Nat /\ n # 0 /\ n <= CountRange - 1 /\ f.size = n
         /\ Len(q) \in 0 .. n /\ q \in Seq(S) /\ count(f) = Len(q)
         /\ f.nextIn % n = Place(n, f.nextIn) /\ Place(n, f.nextIn) \in 0 .. n - 1
         /\ f.nextOut % n = Place(n, f.nextOut) /\ Place(n, f.nextOut) \in 0 .. n - 1
  <1>1. n \in Nat \ {0} /\ n <= CountRange - 1
    BY DEF Sizes, CountRange
  <1>2. /\ f.size = n /\ f.numberOfElements \in 0 .. n
        /\ f.nextIn \in 0 .. n /\ f.nextOut \in 0 .. n
    BY DEF Holds, Fifos
  <1>3. QED
    BY <1>1, <1>2, RemainderIs DEF Holds, count

\* enqueue adds an element at the end.
LEMMA EnqueueHolds ==
  ASSUME NEW S, NEW n \in Sizes, NEW f, NEW q, Holds(n, S, f, q), NEW e \in S,
         Len(q) < n
  PROVE  /\ enqueue(f, e).value = TRUE
         /\ Holds(n, S, enqueue(f, e).fifo, Append(q, e))
  <1> DEFINE k == Len(q)
             p == Place(n, f.nextOut)
             w == Place(n, f.nextIn)
             raw == [f.raw EXCEPT ![w] = e]
             g == [f EXCEPT !.numberOfElements = k + 1, !.raw = raw, !.nextIn = w + 1]
             r == Append(q, e)
  <1>1. /\ n \in Nat /\ n # 0 /\ n <= CountRange - 1 /\ f.size = n
        /\ k \in 0 .. n /\ q \in Seq(S) /\ count(f) = k
        /\ f.nextIn % n = w /\ w \in 0 .. n - 1 /\ p \in 0 .. n - 1
        /\ k < n
    BY Indices
  <1>2. /\ f \in Fifos(n, S) /\ f.numberOfElements = k /\ w = Behind(n, p, k)
        /\ \A i \in 1 .. k : q[i] = f.raw[Behind(n, p, i - 1)]
    BY DEF Holds
  <1>3. k + 1 \in 0 .. n /\ (k + 1) % CountRange = k + 1
    <2>1. k + 1 \in 0 .. n /\ k + 1 \in 0 .. CountRange - 1
      <3> HIDE DEF k, p, w
      <3>1. QED
        BY <1>1 DEF CountRange
    <2>2. QED
      BY <2>1, CountFits
  <1>4. enqueue(f, e) = [fifo |-> g, value |-> TRUE]
    <2>1. ~(count(f) >= f.size)
      BY <1>1
    <2>2. enqueue(f, e) =
            [fifo |-> [f EXCEPT !.numberOfElements = (k + 1) % CountRange,
                                !.raw = raw, !.nextIn = w + 1],
             value |-> TRUE]
      BY <1>1, <1>2, <2>1 DEF enqueue
    <2>3. QED
      BY <1>3, <2>2
  <1> HIDE DEF k, p, w
  <1>5. raw \in [0 .. n - 1 -> S \cup {0}] /\ raw[w] = e
        /\ \A i \in 0 .. n - 1 : i # w => raw[i] = f.raw[i]
    BY <1>1, <1>2 DEF Fifos
  <1> HIDE DEF raw
  <1>6. /\ g \in Fifos(n, S) /\ g.numberOfElements = k + 1 /\ g.raw = raw
        /\ g.nextIn = w + 1 /\ g.nextOut = f.nextOut
    <2>1. w + 1 \in 0 .. n
      BY <1>1
    <2>2. QED
      BY <1>2, <1>3, <1>5, <2>1 DEF Fifos
  <1> HIDE DEF g
  <1>7. /\ r \in Seq(S) /\ Len(r) = k + 1 /\ r[k + 1] = e
        /\ \A i \in 1 .. k : r[i] = q[i]
    BY <1>1, AppendProperties DEF k
  <1> HIDE DEF r
  <1>8. Place(n, w + 1) = Behind(n, p, k + 1)
    BY <1>1, <1>2 DEF Place, Behind
  <1>9. ASSUME NEW i \in 1 .. k + 1
        PROVE  r[i] = raw[Behind(n, p, i - 1)]
    <2>1. CASE i = k + 1
      <3>1. i - 1 = k
        BY <1>1, <2>1
      <3>2. QED
        BY <1>2, <1>5, <1>7, <2>1, <3>1
    <2>2. CASE i # k + 1
      <3>1. i \in 1 .. k
        BY <1>1, <2>2
      <3>2. Behind(n, p, i - 1) \in 0 .. n - 1 /\ Behind(n, p, i - 1) # w
        BY <1>1, <1>2, <3>1, SMTT(30) DEF Behind
      <3>3. QED
        BY <1>2, <1>5, <1>7, <3>1, <3>2
    <2>3. QED
      BY <2>1, <2>2
  <1>10. Holds(n, S, g, r)
    BY <1>6, <1>7, <1>8, <1>9 DEF Holds, p
  <1>11. QED
    BY <1>4, <1>10 DEF r

\* dequeue takes the oldest element off.
LEMMA DequeueHolds ==
  ASSUME NEW S, NEW n \in Sizes, NEW f, NEW q, Holds(n, S, f, q), q # << >>
  PROVE  /\ peek(f) = Head(q) /\ dequeue(f).value = Head(q)
         /\ Holds(n, S, dequeue(f).fifo, Tail(q))
  <1> DEFINE k == Len(q)
             p == Place(n, f.nextOut)
             w == Place(n, f.nextIn)
             next == Place(n, p + 1)
             g == [f EXCEPT !.numberOfElements = k - 1, !.nextOut = p + 1]
             r == Tail(q)
  <1>1. /\ n \in Nat /\ n # 0 /\ n <= CountRange - 1 /\ f.size = n
        /\ k \in 0 .. n /\ q \in Seq(S)
        /\ w \in 0 .. n - 1 /\ f.nextOut % n = p /\ p \in 0 .. n - 1
    BY Indices, ZenonT(30)
  <1>2. /\ f \in Fifos(n, S) /\ f.numberOfElements = k /\ w = Behind(n, p, k)
        /\ \A i \in 1 .. k : q[i] = f.raw[Behind(n, p, i - 1)]
    BY DEF Holds
  <1>3. k # 0 /\ k \in 1 .. n
    BY <1>1
  <1>4. k - 1 \in 0 .. n /\ (k - 1) % CountRange = k - 1
    <2>1. k - 1 \in 0 .. n /\ k - 1 \in 0 .. CountRange - 1
      <3> HIDE DEF k, p, w
      <3>1. QED
        BY <1>1, <1>3 DEF CountRange
    <2>2. QED
      BY <2>1, CountFits
  <1>5. f.raw[p] = Head(q)
    <2>1. Head(q) = q[1]
      BY <1>1, <1>3
    <2> HIDE DEF k, p
    <2>2. Behind(n, p, 1 - 1) = p /\ 1 \in 1 .. k
      BY <1>1, <1>3 DEF Behind
    <2>3. QED
      BY <1>2, <2>1, <2>2
  <1>6. dequeue(f) = [fifo |-> g, value |-> f.raw[p]] /\ peek(f) = f.raw[p]
    BY <1>1, <1>2, <1>4 DEF dequeue, peek
  <1>7. /\ r \in Seq(S) /\ Len(r) = k - 1
        /\ \A i \in 1 .. k - 1 : r[i] = q[i + 1]
    BY <1>1, <1>3
  <1> HIDE DEF k, p, w, r
  <1>8. /\ g \in Fifos(n, S) /\ g.numberOfElements = k - 1 /\ g.raw = f.raw
        /\ g.nextIn = f.nextIn /\ g.nextOut = p + 1
    <2>1. p + 1 \in 0 .. n
      BY <1>1
    <2>2. QED
      BY <1>2, <1>4, <2>1 DEF Fifos
  <1> HIDE DEF g
  <1>9. w = Behind(n, next, k - 1)
    BY <1>1, <1>2, <1>3 DEF Place, Behind
  <1>10. ASSUME NEW i \in 1 .. k - 1
         PROVE  r[i] = g.raw[Behind(n, next, i - 1)]
    <2>1. i + 1 \in 1 .. k /\ (i + 1) - 1 = i
      BY <1>3
    <2>2. Behind(n, next, i - 1) = Behind(n, p, i)
      BY <1>1, <1>3 DEF Place, Behind
    <2>3. QED
      BY <1>2, <1>7, <1>8, <2>1, <2>2
  <1> HIDE DEF next
  <1>11. Holds(n, S, g, r)
    BY <1>7, <1>8, <1>9, <1>10 DEF Holds, next, w
  <1>12. QED
    BY <1>5, <1>6, <1>11 DEF r

\* SimpleFIFO.h: flush empties the queue; enqueue adds an element, or returns
\* false and changes nothing when size elements are there; dequeue and peek of
\* a queue that is not empty return the oldest element, and dequeue takes it
\* off; count is the number of elements.
THEOREM BoundedQueue ==
  ASSUME NEW S, NEW n \in Sizes
  PROVE  /\ Holds(n, S, flush(n), << >>)
         /\ \A f, q : Holds(n, S, f, q) =>
              /\ count(f) = Len(q) /\ Len(q) <= n
              /\ Len(q) < n => \A e \in S :
                   /\ enqueue(f, e).value = TRUE
                   /\ Holds(n, S, enqueue(f, e).fifo, Append(q, e))
              /\ Len(q) = n => \A e \in S :
                   enqueue(f, e) = [fifo |-> f, value |-> FALSE]
              /\ q # << >> =>
                   /\ peek(f) = Head(q) /\ dequeue(f).value = Head(q)
                   /\ Holds(n, S, dequeue(f).fifo, Tail(q))
  <1>1. ASSUME NEW f, NEW q, Holds(n, S, f, q)
        PROVE  /\ count(f) = Len(q) /\ Len(q) <= n /\ f.size = n
               /\ Len(q) = n => \A e \in S :
                    enqueue(f, e) = [fifo |-> f, value |-> FALSE]
    <2>1. count(f) = Len(q) /\ Len(q) \in 0 .. n /\ f.size = n /\ n \in Nat
      BY <1>1, Indices
    <2>2. ASSUME Len(q) = n, NEW e \in S
          PROVE  enqueue(f, e) = [fifo |-> f, value |-> FALSE]
      <3>1. count(f) >= f.size
        BY <2>1, <2>2
      <3>2. QED
        BY <3>1, Zenon DEF enqueue
    <2>3. QED
      BY <2>1, <2>2
  <1>2. QED
    BY <1>1, FlushHolds, EnqueueHolds, DequeueHolds

-----------------------------------------------------------------------------
(* Beacons *)

\* Bytes, and the numbers of a field of twelve bits.
Byte == 0 .. 255
Numbers == { k \in Nat : k < 4096 }
\* The sequence number in a frame: two bytes, the lower one first, of which the
\* lowest four bits are the fragment's.
Number(frame) == (frame[23] + 256 * frame[24]) \div 16

\* Byte i of a beacon, as beacon_rick writes it.
BeaconByte(line, ssid, n, i) ==
  CASE i \in {16, 22} -> line
    [] i = 23 -> (n % 16) * 16
    [] i = 24 -> (n \div 16) % 256
    [] i = 38 -> Len(ssid)
    [] i \in 1 .. 37 \ {16, 22, 23, 24} -> beacon_raw[i]
    [] i \in 38 + 1 .. 38 + Len(ssid) -> ssid[i - 38]
    [] OTHER -> beacon_raw[i - Len(ssid)]

\* Behind byte 38 come the SSID and the rest of the template.
LEMMA LateBytes ==
  ASSUME NEW line, NEW ssid, NEW n, Len(ssid) \in Nat, NEW i \in Int, 38 < i
  PROVE  BeaconByte(line, ssid, n, i) =
           IF i <= 38 + Len(ssid) THEN ssid[i - 38] ELSE beacon_raw[i - Len(ssid)]
  <1>1. i \notin {16, 22} /\ i # 23 /\ i # 24 /\ i # 38 /\ i \notin 1 .. 37 \ {16, 22, 23, 24}
    BY SMT
  <1>2. i \in 38 + 1 .. 38 + Len(ssid) <=> i <= 38 + Len(ssid)
    BY SMT
  <1>3. QED
    BY <1>1, <1>2, Zenon DEF BeaconByte

\* Up to it comes the template, but for the line, the number and the length.
LEMMA EarlyBytes ==
  ASSUME NEW line, NEW ssid, NEW n, Len(ssid) \in Nat
  PROVE  /\ \A i \in {16, 22} : BeaconByte(line, ssid, n, i) = line
         /\ BeaconByte(line, ssid, n, 23) = (n % 16) * 16
         /\ BeaconByte(line, ssid, n, 24) = (n \div 16) % 256
         /\ BeaconByte(line, ssid, n, 38) = Len(ssid)
         /\ \A i \in 1 .. 37 : i \notin {16, 22, 23, 24} =>
               BeaconByte(line, ssid, n, i) = beacon_raw[i]
  <1> DEFINE Rest == 1 .. 37 \ {16, 22, 23, 24}
             Name == 38 + 1 .. 38 + Len(ssid)
  <1>1. ASSUME NEW i \in {16, 22} PROVE BeaconByte(line, ssid, n, i) = line
    <2>1. i # 23 /\ i # 24 /\ i # 38 /\ i \notin Rest /\ i \notin Name
      BY <1>1, SMT
    <2>2. QED
      BY <1>1, <2>1, Zenon DEF BeaconByte
  <1>2. BeaconByte(line, ssid, n, 23) = (n % 16) * 16
    <2>1. 23 \notin {16, 22} /\ 23 # 24 /\ 23 # 38 /\ 23 \notin Rest /\ 23 \notin Name
      BY SMT
    <2>2. QED
      BY <2>1, Zenon DEF BeaconByte
  <1>3. BeaconByte(line, ssid, n, 24) = (n \div 16) % 256
    <2>1. 24 \notin {16, 22} /\ 24 # 23 /\ 24 # 38 /\ 24 \notin Rest /\ 24 \notin Name
      BY SMT
    <2>2. QED
      BY <2>1, Zenon DEF BeaconByte
  <1>4. BeaconByte(line, ssid, n, 38) = Len(ssid)
    <2>1. 38 \notin {16, 22} /\ 38 # 23 /\ 38 # 24 /\ 38 \notin Rest /\ 38 \notin Name
      BY SMT
    <2>2. QED
      BY <2>1, Zenon DEF BeaconByte
  <1>5. ASSUME NEW i \in 1 .. 37, i \notin {16, 22, 23, 24}
        PROVE  BeaconByte(line, ssid, n, i) = beacon_raw[i]
    <2>1. i \notin {16, 22} /\ i # 23 /\ i # 24 /\ i # 38 /\ i \in Rest /\ i \notin Name
      BY <1>5, SMT
    <2>2. QED
      BY <2>1, Zenon DEF BeaconByte
  <1>6. QED
    BY <1>1, <1>2, <1>3, <1>4, <1>5

\* The two bytes of a number of twelve bits, and the number after it.
LEMMA NumberBytes ==
  ASSUME NEW n \in Numbers
  PROVE  /\ (n % 16) * 16 \in Byte /\ (n \div 16) % 256 \in Byte
         /\ ((n % 16) * 16 + 256 * ((n \div 16) % 256)) \div 16 = n
         /\ ((n % 16) * 16) % 16 = 0
         /\ NextSeqnum(n) = (n + 1) % 4096 /\ NextSeqnum(n) \in Numbers
  BY SMT DEF Byte, Numbers, NextSeqnum

\* The 57 bytes of the template.
LEMMA RawIs ==
  /\ Len(beacon_raw) = 57 /\ \A i \in 1 .. 57 : beacon_raw[i] \in Byte
  <1>1. beacon_raw \in Seq(Byte) /\ Len(beacon_raw) = 57
    BY SMT DEF beacon_raw, Byte
  <1>2. \A i \in 1 .. Len(beacon_raw) : beacon_raw[i] \in Byte
    BY <1>1, ElementOfSeq, Zenon
  <1>3. QED
    BY <1>1, <1>2, Zenon

\* Where the template and the SSID go.
LEMMA BeaconIs ==
  ASSUME NEW line \in Byte, NEW ssid \in Seq(Byte), Len(ssid) <= 32, NEW n \in Numbers
  PROVE  LET f == beacon_rick(line, ssid, n) IN
         /\ f \in [1 .. 57 + Len(ssid) -> Byte]
         /\ \A i \in 1 .. 57 + Len(ssid) : f[i] = BeaconByte(line, ssid, n, i)
  <1> DEFINE l == Len(ssid)
             f == beacon_rick(line, ssid, n)
             V(i) == BeaconByte(line, ssid, n, i)
  <1>1. Len(ssid) \in Nat /\ Len(ssid) <= 32 /\ \A i \in 1 .. Len(ssid) : ssid[i] \in Byte
    BY ElementOfSeq, LenProperties, SMT
  <1>1a. /\ \A i \in {16, 22} : V(i) = line
         /\ V(23) = (n % 16) * 16 /\ V(24) = (n \div 16) % 256 /\ V(38) = Len(ssid)
         /\ \A i \in 1 .. 37 : i \notin {16, 22, 23, 24} => V(i) = beacon_raw[i]
    <2>1. Len(ssid) \in Nat
      BY <1>1
    <2>2. QED
      BY <2>1, EarlyBytes
  <1>1b. l \in Nat /\ l <= 32
    BY <1>1
  <1>2. f = [i \in 1 .. 57 + Len(ssid) |-> V(i)]
    BY RawIs, Zenon DEF beacon_rick, BEACON_SSID_OFFSET, BeaconByte
  <1>3. ASSUME NEW i \in 1 .. 57 + Len(ssid) PROVE V(i) \in Byte
    <2>1. i \in Int /\ 0 < i /\ i <= 57 + Len(ssid)
      BY <1>1, SMT
    <2>2. CASE i \in 1 .. 37 /\ i \notin {16, 22, 23, 24}
      <3>1. i \in 1 .. 57
        BY <2>2, SMT
      <3>2. V(i) = beacon_raw[i]
        BY <1>1a, <2>2, Zenon
      <3>3. QED
        BY <3>1, <3>2, RawIs, Zenon
    <2>3. CASE i \in {16, 22}
      BY <1>1a, <2>3, Zenon
    <2>4. CASE i = 23 \/ i = 24
      <3>1. V(23) \in Byte /\ V(24) \in Byte
        BY <1>1a, NumberBytes
      <3>2. QED
        BY <2>4, <3>1, Zenon
    <2>5. CASE i = 38
      <3>1. Len(ssid) \in Byte
        <4> HIDE DEF l
        <4>1. l \in Byte
          BY <1>1b, SMT DEF Byte
        <4>2. QED
          BY <4>1 DEF l
      <3>2. QED
        BY <1>1a, <2>5, <3>1, Zenon
    <2>6. CASE 38 < i
      <3>1. V(i) = IF i <= 38 + Len(ssid) THEN ssid[i - 38] ELSE beacon_raw[i - Len(ssid)]
        BY <1>1, <2>1, <2>6, LateBytes
      <3>2. CASE i <= 38 + Len(ssid)
        <4>1. i - 38 \in 1 .. Len(ssid)
          BY <1>1, <2>1, <2>6, <3>2, SMT
        <4>2. QED
          BY <1>1, <3>1, <3>2, <4>1, Zenon
      <3>3. CASE ~(i <= 38 + Len(ssid))
        <4>1. i - Len(ssid) \in 1 .. 57
          <5>1. i \in Int /\ i <= 57 + l /\ ~(i <= 38 + l)
            BY <2>1, <3>3
          <5> HIDE DEF l
          <5>2. i - l \in 1 .. 57
            BY <1>1b, <5>1, SMT
          <5>3. QED
            BY <5>2 DEF l
        <4>2. QED
          BY RawIs, <3>1, <3>3, <4>1, Zenon
      <3>4. QED
        BY <3>2, <3>3
    <2>7. QED
      BY <2>1, <2>2, <2>3, <2>4, <2>5, <2>6, SMT
  <1> HIDE DEF f, V
  <1>4. QED
    BY <1>2, <1>3, Zenon DEF f, V

\* f is the template with the line in both addresses, the SSID as the first
\* element and the others behind it, to the end, and the number in its field.
IsBeacon(f, line, ssid, n) ==
  /\ f \in [1 .. 57 + Len(ssid) -> Byte]
  /\ f[16] = line /\ f[22] = line /\ f[37] = 0 /\ f[38] = Len(ssid)
  /\ f[23] = (n % 16) * 16 /\ f[24] = (n \div 16) % 256
  /\ \A i \in 1 .. Len(ssid) : f[38 + i] = ssid[i]
  /\ \A i \in 39 .. 57 : f[Len(ssid) + i] = beacon_raw[i]

\* What stands in a frame.
LEMMA BeaconFields ==
  ASSUME NEW line \in Byte, NEW ssid \in Seq(Byte), Len(ssid) <= 32, NEW n \in Numbers,
         NEW f, f = beacon_rick(line, ssid, n)
  PROVE  IsBeacon(f, line, ssid, n)
  <1> DEFINE l == Len(ssid)
             V(i) == BeaconByte(line, ssid, n, i)
  <1>1. l \in Nat
    OBVIOUS
  <1>2. f \in [1 .. 57 + l -> Byte] /\ \A i \in 1 .. 57 + l : f[i] = V(i)
    BY BeaconIs
  <1>3. /\ \A i \in {16, 22} : V(i) = line
        /\ V(23) = (n % 16) * 16 /\ V(24) = (n \div 16) % 256 /\ V(38) = l
        /\ \A i \in 1 .. 37 : i \notin {16, 22, 23, 24} => V(i) = beacon_raw[i]
    BY <1>1, EarlyBytes
  <1>4. \A i \in Int : 38 < i => V(i) = IF i <= 38 + l THEN ssid[i - 38] ELSE beacon_raw[i - l]
    BY <1>1, LateBytes
  <1>5. beacon_raw[37] = 0
    BY SMT DEF beacon_raw
  <1> HIDE DEF V, l
  <1>6. \A i \in {16, 22, 23, 24, 37, 38} : f[i] = V(i)
    <2>1. \A i \in {16, 22, 23, 24, 37, 38} : i \in 1 .. 57 + l
      BY <1>1, SMT
    <2>2. QED
      BY <1>2, <2>1, Zenon
  <1>7. V(37) = 0
    <2>1. 37 \in 1 .. 37 /\ 37 \notin {16, 22, 23, 24}
      BY SMT
    <2>2. QED
      BY <1>3, <1>5, <2>1
  <1>8. /\ f[16] = line /\ f[22] = line /\ f[37] = 0 /\ f[38] = l
        /\ f[23] = (n % 16) * 16 /\ f[24] = (n \div 16) % 256
    BY <1>3, <1>6, <1>7
  <1>9. ASSUME NEW i \in 1 .. l PROVE f[38 + i] = ssid[i]
    <2>1. /\ 38 + i \in Int /\ 38 < 38 + i /\ 38 + i <= 38 + l
          /\ 38 + i \in 1 .. 57 + l /\ (38 + i) - 38 = i
      BY <1>1, SMT
    <2>2. V(38 + i) = ssid[(38 + i) - 38]
      BY <1>4, <2>1, Zenon
    <2>3. QED
      BY <1>2, <2>1, <2>2, Zenon
  <1>10. ASSUME NEW i \in 39 .. 57 PROVE f[l + i] = beacon_raw[i]
    <2>1. /\ l + i \in Int /\ 38 < l + i /\ ~(l + i <= 38 + l)
          /\ l + i \in 1 .. 57 + l /\ (l + i) - l = i
      BY <1>1, SMT
    <2>2. V(l + i) = beacon_raw[(l + i) - l]
      BY <1>4, <2>1, Zenon
    <2>3. QED
      BY <1>2, <2>1, <2>2, Zenon
  <1>11. QED
    BY <1>2, <1>8, <1>9, <1>10, Zenon DEF l, IsBeacon

\* The number in a frame.
LEMMA BeaconNumber ==
  ASSUME NEW line, NEW ssid, NEW f, NEW n \in Numbers, IsBeacon(f, line, ssid, n)
  PROVE  Number(f) = n /\ f[23] % 16 = 0
  BY NumberBytes DEF Number, IsBeacon

\* free80211/main/main.c:118-146: for every line and SSID, a beacon is the template
\* with the line in both addresses, the SSID as the first element and the others
\* behind it, to the end; and the sequence number, which it carries in the upper
\* twelve bits of its field (no fragment), goes up by one from beacon to beacon,
\* modulo 4096.
THEOREM BeaconsNumbered ==
  ASSUME NEW line \in Byte, NEW ssid \in Seq(Byte), Len(ssid) <= 32, NEW n \in Numbers
  PROVE  LET f == beacon_rick(line, ssid, n)
             g == beacon_rick(line, ssid, NextSeqnum(n))
         IN  /\ IsBeacon(f, line, ssid, n)
             /\ f[23] % 16 = 0 /\ Number(f) = n
             /\ Number(g) = (Number(f) + 1) % 4096 /\ NextSeqnum(n) \in Numbers
  <1>1. NextSeqnum(n) \in Numbers /\ NextSeqnum(n) = (n + 1) % 4096
    BY NumberBytes
  <1>2. ASSUME NEW m \in Numbers
        PROVE  /\ IsBeacon(beacon_rick(line, ssid, m), line, ssid, m)
               /\ Number(beacon_rick(line, ssid, m)) = m
               /\ beacon_rick(line, ssid, m)[23] % 16 = 0
    <2> DEFINE f == beacon_rick(line, ssid, m)
    <2>1. IsBeacon(f, line, ssid, m)
      BY BeaconFields
    <2> HIDE DEF f
    <2>2. Number(f) = m /\ f[23] % 16 = 0
      BY <2>1, BeaconNumber
    <2>3. QED
      BY <2>1, <2>2 DEF f
  <1> DEFINE f == beacon_rick(line, ssid, n)
             g == beacon_rick(line, ssid, NextSeqnum(n))
  <1>3. IsBeacon(f, line, ssid, n) /\ f[23] % 16 = 0 /\ Number(f) = n
    BY <1>2
  <1>4. Number(g) = NextSeqnum(n)
    BY <1>1, <1>2
  <1> HIDE DEF f, g
  <1>5. Number(g) = (Number(f) + 1) % 4096
    BY <1>1, <1>3, <1>4, SMT
  <1>6. QED
    BY <1>1, <1>3, <1>5, SMT DEF f, g

-----------------------------------------------------------------------------
(* The adapter of the LED strip *)

\* The byte that eight items from the highest bit on stand for.
ByteOf(b) == 128 * b[1] + 64 * b[2] + 32 * b[3] + 16 * b[4] + 8 * b[5] + 4 * b[6] + 2 * b[7] + b[8]

\* Bit 8 - j of a byte.
Bit(byte, j) == (byte \div 2 ^ (8 - j)) % 2

\* The eight bits of a byte are its value.
LEMMA BitsAre ==
  ASSUME NEW v \in Byte
  PROVE  /\ \A j \in 1 .. 8 : Bit(v, j) \in {0, 1}
         /\ ByteOf([j \in 1 .. 8 |-> Bit(v, j)]) = v
  <1>1. /\ Bit(v, 1) = (v \div 128) % 2 /\ Bit(v, 2) = (v \div 64) % 2
        /\ Bit(v, 3) = (v \div 32) % 2 /\ Bit(v, 4) = (v \div 16) % 2
        /\ Bit(v, 5) = (v \div 8) % 2 /\ Bit(v, 6) = (v \div 4) % 2
        /\ Bit(v, 7) = (v \div 2) % 2 /\ Bit(v, 8) = v % 2
    BY SMT DEF Bit, Byte
  <1>2. v \in Nat /\ v < 256
    BY SMT DEF Byte
  <1>3. \A j \in 1 .. 8 : j = 1 \/ j = 2 \/ j = 3 \/ j = 4 \/ j = 5 \/ j = 6 \/ j = 7 \/ j = 8
    BY SMT
  <1>4. \A j \in 1 .. 8 : Bit(v, j) \in {0, 1}
    <2> SUFFICES ASSUME NEW j \in 1 .. 8 PROVE Bit(v, j) \in {0, 1}
      OBVIOUS
    <2>1. /\ Bit(v, 1) \in {0, 1} /\ Bit(v, 2) \in {0, 1} /\ Bit(v, 3) \in {0, 1}
          /\ Bit(v, 4) \in {0, 1} /\ Bit(v, 5) \in {0, 1} /\ Bit(v, 6) \in {0, 1}
          /\ Bit(v, 7) \in {0, 1} /\ Bit(v, 8) \in {0, 1}
      BY <1>1, <1>2, SMT
    <2>2. QED
      BY <1>3, <2>1, Zenon
  <1>5. 128 * ((v \div 128) % 2) + 64 * ((v \div 64) % 2) + 32 * ((v \div 32) % 2)
        + 16 * ((v \div 16) % 2) + 8 * ((v \div 8) % 2) + 4 * ((v \div 4) % 2)
        + 2 * ((v \div 2) % 2) + (v % 2) = v
    BY <1>2, SMT
  <1>6. ByteOf([j \in 1 .. 8 |-> Bit(v, j)]) =
          128 * Bit(v, 1) + 64 * Bit(v, 2) + 32 * Bit(v, 3) + 16 * Bit(v, 4)
          + 8 * Bit(v, 5) + 4 * Bit(v, 6) + 2 * Bit(v, 7) + Bit(v, 8)
    BY SMT DEF ByteOf
  <1>7. QED
    BY <1>1, <1>4, <1>5, <1>6

\* Eight items to a byte: item 8 * (k - 1) + j is bit 8 - j of byte k.
LEMMA ItemIs ==
  ASSUME NEW k \in Nat \ {0}, NEW j \in 1 .. 8
  PROVE  /\ ((8 * (k - 1) + j - 1) \div 8) + 1 = k
         /\ 7 - ((8 * (k - 1) + j - 1) % 8) = 8 - j
  BY SMT

\* led_strip_rmt_ws2812.c:64-94: as many whole bytes are translated as are needed
\* for wanted_num items, or all; each becomes eight items, from the highest bit
\* on, in the order of the bytes.  With room for a multiple of eight, as the RMT
\* driver has, no more items come out than were wanted.
THEOREM AdapterTranslates ==
  ASSUME NEW src \in Seq(Byte), NEW wanted_num \in Nat
  PROVE  LET a == ws2812_rmt_adapter(src, wanted_num)
             size == a.translated_size
         IN  /\ size \in 0 .. Len(src) /\ a.items \in [1 .. 8 * size -> {0, 1}]
             /\ \A k \in 1 .. size :
                  ByteOf([j \in 1 .. 8 |-> a.items[8 * (k - 1) + j]]) = src[k]
             /\ size = Len(src) \/ (wanted_num <= 8 * size /\ 8 * size < wanted_num + 8)
             /\ wanted_num % 8 = 0 => 8 * size <= wanted_num
  <1> DEFINE a == ws2812_rmt_adapter(src, wanted_num)
             size == a.translated_size
             items == a.items
             n == Len(src)
             w == (wanted_num + 7) \div 8
             Item(i) == (src[((i - 1) \div 8) + 1] \div 2 ^ (7 - ((i - 1) % 8))) % 2
  <1>1. n \in Nat /\ \A k \in 1 .. n : src[k] \in Byte
    BY ElementOfSeq, LenProperties
  <1>2. size = IF n <= w THEN n ELSE w
    BY DEF ws2812_rmt_adapter
  <1>3. items = [i \in 1 .. 8 * size |-> Item(i)]
    BY DEF ws2812_rmt_adapter
  <1>4. w \in Nat /\ 8 * w <= wanted_num + 7 /\ wanted_num <= 8 * w
    BY SMT
  <1>5. wanted_num % 8 = 0 => 8 * w = wanted_num
    BY SMT
  <1> HIDE DEF a, size, items, n, w
  <1>6. /\ size \in 0 .. n /\ size \in Nat
        /\ size = n \/ (wanted_num <= 8 * size /\ 8 * size < wanted_num + 8)
        /\ wanted_num % 8 = 0 => 8 * size <= wanted_num
    BY <1>1, <1>2, <1>4, <1>5, SMT
  <1>7. ASSUME NEW k \in 1 .. size, NEW j \in 1 .. 8
        PROVE  /\ Item(8 * (k - 1) + j) = Bit(src[k], j)
               /\ 8 * (k - 1) + j \in 1 .. 8 * size
    <2>1. k \in Nat \ {0}
      BY <1>6, SMT
    <2>2. 8 * (k - 1) + j \in 1 .. 8 * size
      BY <1>6, SMT
    <2> DEFINE i == 8 * (k - 1) + j
    <2>3. ((i - 1) \div 8) + 1 = k /\ 7 - ((i - 1) % 8) = 8 - j
      BY <2>1, ItemIs
    <2> HIDE DEF i
    <2>4. Item(i) = Bit(src[k], j)
      BY <2>3, Zenon DEF Bit
    <2>5. QED
      BY <2>2, <2>4, Zenon DEF i
  <1>8. ASSUME NEW i \in 1 .. 8 * size
        PROVE  \E k \in 1 .. size, j \in 1 .. 8 : i = 8 * (k - 1) + j
    <2> DEFINE k == ((i - 1) \div 8) + 1
               j == ((i - 1) % 8) + 1
    <2>1. k \in 1 .. size /\ j \in 1 .. 8 /\ i = 8 * (k - 1) + j
      BY <1>6, SMT
    <2>2. QED
      BY <2>1
  <1>9. \A k \in 1 .. size : src[k] \in Byte
    BY <1>1, <1>6, SMT
  <1> HIDE DEF Item
  <1>10. ASSUME NEW i \in 1 .. 8 * size PROVE Item(i) \in {0, 1}
    <2>1. PICK k \in 1 .. size, j \in 1 .. 8 : i = 8 * (k - 1) + j
      BY <1>8
    <2>2. Item(i) = Bit(src[k], j)
      BY <1>7, <2>1
    <2>3. QED
      BY <1>9, <2>2, BitsAre
  <1>11. items \in [1 .. 8 * size -> {0, 1}] /\ \A i \in 1 .. 8 * size : items[i] = Item(i)
    BY <1>3, <1>10, Zenon
  <1>12. ASSUME NEW k \in 1 .. size
         PROVE  ByteOf([j \in 1 .. 8 |-> items[8 * (k - 1) + j]]) = src[k]
    <2>1. \A j \in 1 .. 8 : items[8 * (k - 1) + j] = Bit(src[k], j)
      BY <1>7, <1>11, Zenon
    <2>2. [j \in 1 .. 8 |-> items[8 * (k - 1) + j]] = [j \in 1 .. 8 |-> Bit(src[k], j)]
      BY <2>1, Zenon
    <2>3. QED
      BY <1>9, <2>2, BitsAre
  <1>13. QED
    BY <1>6, <1>11, <1>12, Zenon DEF a, size, items, n

-----------------------------------------------------------------------------
(* The registers of the radio *)

\* The number of steps of 15625 / 256 Hz in f Hz, and the frequency of s steps.
FSteps(f) == (f * 256) \div 15625
Hz(s) == (s * 15625) \div 256

\* The code's divisions by parts compute them without leaving 32 bits.
LEMMA ByParts ==
  ASSUME NEW n \in Nat
  PROVE  /\ (n \div 15625) * 256 + ((n % 15625) * 256) \div 15625 = FSteps(n)
         /\ (n \div 256) * 15625 + ((n % 256) * 15625) \div 256 = Hz(n)
  BY SMT DEF FSteps, Hz

\* Three bytes hold a number below 2^24.
LEMMA ThreeBytes ==
  ASSUME NEW s \in Nat, s < 16777216
  PROVE  ((s \div 65536) % 256) * 65536 + ((s \div 256) % 256) * 256 + (s % 256) = s
  <1> DEFINE a == s \div 256
             m == s \div 65536
  <1>1. s = 256 * a + (s % 256) /\ a \in Nat /\ a < 65536
    BY SMT
  <1>2. m = a \div 256 /\ m \in Nat /\ m < 256
    BY SMT
  <1> HIDE DEF a, m
  <1>3. a = 256 * m + (a % 256) /\ m % 256 = m
    BY <1>1, <1>2, SMT
  <1>4. m * 65536 + (a % 256) * 256 + (s % 256) = s
    <2> DEFINE r == a % 256
               c == s % 256
    <2>1. r \in Int /\ c \in Int /\ s = 256 * a + c /\ a = 256 * m + r /\ m \in Int /\ a \in Int
      BY <1>1, <1>2, <1>3, SMT
    <2> HIDE DEF r, c
    <2>2. m * 65536 + r * 256 + c = s
      BY <2>1, SMT
    <2>3. QED
      BY <2>2, SMT DEF r, c
  <1>5. QED
    BY <1>3, <1>4, SMT DEF a, m

\* What the steps of a frequency are.
LEMMA StepsAre ==
  ASSUME NEW f \in Nat
  PROVE  /\ FSteps(f) \in Nat /\ Hz(f) \in Nat
         /\ 15625 * FSteps(f) <= 256 * f /\ 256 * f < 15625 * FSteps(f) + 15625
         /\ 256 * Hz(f) <= 15625 * f /\ 15625 * f < 256 * Hz(f) + 256
  BY SMT DEF FSteps, Hz

\* Three bytes are enough for the steps of a frequency below 1024 MHz.
LEMMA FrequencyRange ==
  ASSUME NEW f \in Nat, f < 1024000000
  PROVE  FSteps(f) \in Nat /\ FSteps(f) < 16777216
  <1> DEFINE s == FSteps(f)
  <1>1. s \in Nat /\ 15625 * s <= 256 * f
    BY StepsAre, SMT
  <1> HIDE DEF s
  <1>2. s \in Nat /\ s < 16777216
    BY <1>1, SMT
  <1>3. QED
    BY <1>2, SMT DEF s

\* Two divisions with the same quotient.
LEMMA FStepsUnique ==
  ASSUME NEW f \in Nat, NEW s \in Nat, 15625 * s <= 256 * f, 256 * f < 15625 * s + 15625
  PROVE  FSteps(f) = s
  <1> DEFINE t == FSteps(f)
  <1>1. t \in Nat /\ 15625 * t <= 256 * f /\ 256 * f < 15625 * t + 15625
    BY StepsAre, SMT
  <1> HIDE DEF t
  <1>2. t = s
    BY <1>1, SMT
  <1>3. QED
    BY <1>2, SMT DEF t

\* The frequency of the steps of f, and the steps of that.
LEMMA Nearest ==
  ASSUME NEW f \in Nat
  PROVE  Hz(FSteps(f)) \in f - 62 .. f /\ FSteps(Hz(FSteps(f)) + 1) = FSteps(f)
  <1> DEFINE s == FSteps(f)
             g == Hz(s)
  <1>1. s \in Nat /\ 15625 * s <= 256 * f /\ 256 * f < 15625 * s + 15625
    BY StepsAre, SMT
  <1> HIDE DEF s
  <1>2. g \in Nat /\ 256 * g <= 15625 * s /\ 15625 * s < 256 * g + 256
    BY <1>1, StepsAre, SMT
  <1> HIDE DEF g
  <1>3. g \in f - 62 .. f
    BY <1>1, <1>2, SMT
  <1>4. g + 1 \in Nat /\ 15625 * s <= 256 * (g + 1) /\ 256 * (g + 1) < 15625 * s + 15625
    BY <1>1, <1>2, SMT
  <1>5. FSteps(g + 1) = s
    BY <1>1, <1>4, FStepsUnique, SMT
  <1>6. QED
    BY <1>3, <1>5, SMT DEF g, s

\* The divider of a bit rate from 489 has no more than 16 bits.
LEMMA DividerFits ==
  ASSUME NEW b \in Nat, 489 <= b, b <= 32000000
  PROVE  32000000 \div b \in Nat /\ 32000000 \div b < 65536
  <1> DEFINE q == 32000000 \div b
  <1>1. q \in Nat /\ b * q <= 32000000 /\ 32000000 < b * q + b
    BY SMT
  <1> HIDE DEF q
  <1>2. 489 * q <= b * q
    BY <1>1, SMT
  <1>3. q # 0
    BY <1>1, SMT
  <1>4. q \in Nat /\ q < 65536
    BY <1>1, <1>2, <1>3, SMT
  <1>5. QED
    BY <1>4, SMT DEF q

\* setFrequency and getFrequency, in steps.
LEMMA FrequencyRegisters ==
  ASSUME NEW f \in Nat, f < 1024000000
  PROVE  getFrequency(setFrequency(f)) = Hz(FSteps(f))
  <1> DEFINE s == FSteps(f)
  <1>1. setFrequency(f) = << (s \div 65536) % 256, (s \div 256) % 256, s % 256 >>
    BY ByParts, SMT DEF setFrequency
  <1>2. s \in Nat /\ s < 16777216
    BY FrequencyRange, SMT
  <1> HIDE DEF s
  <1>3. ((s \div 65536) % 256) * 65536 + ((s \div 256) % 256) * 256 + (s % 256) = s
    BY <1>2, ThreeBytes, SMT
  <1> DEFINE r == << (s \div 65536) % 256, (s \div 256) % 256, s % 256 >>
  <1>4. r[1] * 65536 + r[2] * 256 + r[3] = s
    BY <1>3, SMT
  <1> HIDE DEF r
  <1>5. getFrequency(r) = (s \div 256) * 15625 + ((s % 256) * 15625) \div 256
    BY <1>4, SMT DEF getFrequency
  <1>6. getFrequency(r) = Hz(s)
    BY <1>2, <1>5, ByParts, SMT
  <1>7. QED
    BY <1>1, <1>6, SMT DEF s, r

\* Two frequencies of as many steps set the same registers.
LEMMA FrequencySteps ==
  ASSUME NEW f \in Nat, NEW g \in Nat, FSteps(f) = FSteps(g)
  PROVE  setFrequency(f) = setFrequency(g)
  BY ByParts, SMT DEF setFrequency

\* RFM69OOK.cpp:126-144: what is read back is the frequency asked for, or at most 62 Hz
\* below it (a step of 61.03 Hz, and the fraction getFrequency cuts off); and 1 Hz
\* above what is read back sets the same registers.
THEOREM FrequencyNear ==
  ASSUME NEW f \in Nat, f < 1024000000
  PROVE  LET g == getFrequency(setFrequency(f)) IN
         g \in f - 62 .. f /\ setFrequency(g + 1) = setFrequency(f)
  <1> DEFINE g == getFrequency(setFrequency(f))
  <1>1. g = Hz(FSteps(f))
    BY FrequencyRegisters, SMT
  <1> HIDE DEF g
  <1>2. g \in f - 62 .. f /\ FSteps(g + 1) = FSteps(f)
    BY <1>1, Nearest, SMT
  <1>3. g \in Nat
    BY <1>1, StepsAre, SMT
  <1>4. setFrequency(g + 1) = setFrequency(f)
    BY <1>2, <1>3, FrequencySteps, SMT
  <1>5. QED
    BY <1>2, <1>4, SMT DEF g

\* RFM69OOK.cpp:147-151: the divider of every bit rate from 489 fits in two bytes.
THEOREM BitrateKept ==
  ASSUME NEW b \in Nat, 489 <= b, b <= 32000000, NEW r, r = setBitrate(b)
  PROVE  256 * r[1] + r[2] = 32000000 \div b
  <1> DEFINE q == 32000000 \div b
  <1>1. q \in Nat /\ q < 65536
    BY DividerFits, SMT
  <1>2. r[1] = (q \div 256) % 256 /\ r[2] = q % 256
    BY SMT DEF setBitrate
  <1> HIDE DEF q
  <1>3. 256 * ((q \div 256) % 256) + (q % 256) = q
    BY <1>1, SMT
  <1>4. QED
    BY <1>2, <1>3, SMT DEF q

\* RFM69OOK.cpp:161-165 and 225-233: every threshold but the lowest is read back as set.
THEOREM RssiKept ==
  ASSUME NEW rssi \in -127 .. 0
  PROVE  readRSSI(setRSSIThreshold(rssi)) = rssi
  <1>1. setRSSIThreshold(rssi) = -rssi * 2
    BY SMT DEF setRSSIThreshold
  <1>2. QED
    BY <1>1, SMT DEF readRSSI

\* The level the register keeps of one that is asked for.
Level(level) == IF level > 31 THEN 31 ELSE level

\* RFM69OOK.cpp:217-221 and 272-279: a level changes no amplifier, and switching the
\* amplifiers keeps the level; switching back to one of them does for a level up to
\* 31 (above that setHighPower writes its higher bits over the amplifiers').
THEOREM PowerKept ==
  ASSUME NEW reg \in Byte, NEW level \in Byte
  PROVE  LET set == setPowerLevel(reg, level) IN
         /\ set \in Byte /\ set \div 32 = reg \div 32 /\ set % 32 = Level(level)
         /\ setHighPower(TRUE, set, level) \div 32 = 3
         /\ setHighPower(TRUE, set, level) % 32 = Level(level)
         /\ level <= 31 => setHighPower(FALSE, set, level) = 4 * 32 + level
  <1> DEFINE k == Level(level)
             h == reg \div 32
             s == h * 32 + k
  <1>1. k \in 0 .. 31 /\ h \in 0 .. 7 /\ (level <= 31 => level \in 0 .. 31)
    BY SMT DEF Byte, Level
  <1>2. setPowerLevel(reg, level) = s
    BY DEF setPowerLevel, Level
  <1> HIDE DEF k, h
  <1>3. s \in Byte /\ s \div 32 = h /\ s % 32 = k
    BY <1>1, SMT DEF Byte
  <1> HIDE DEF s
  <1>4. setHighPower(TRUE, s, level) = k + 96
    BY <1>1, <1>3, SMT DEF setHighPower
  <1>5. (k + 96) \div 32 = 3 /\ (k + 96) % 32 = k
    BY <1>1, SMT
  <1>6. level <= 31 => setHighPower(FALSE, s, level) = 4 * 32 + level
    BY <1>1, SMT DEF setHighPower
  <1>7. QED
    BY <1>2, <1>3, <1>4, <1>5, <1>6, Zenon DEF h, k
=============================================================================
