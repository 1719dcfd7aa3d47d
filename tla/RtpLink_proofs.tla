---------------------------- MODULE RtpLink_proofs ----------------------------
(***************************************************************************)
(* Proofs about the link: however many outputs aggregartp has, whatever    *)
(* their weights, and whatever the links and reordertp do, the outputs     *)
(* share the bytes of the stream in proportion to their weights, the queue *)
(* has what can be asked for, and what reordertp sends is in order, on     *)
(* time, and asked for only if it is missing.                              *)
(*                                                                         *)
(* Sharing: up to what was taken off all of them alike ("base"), the       *)
(* weighted size of an output is the quotient of its bytes by its weight,  *)
(* and its remainder the remainder of that division.  Since the output     *)
(* with the least weighted size is chosen, and the least is taken off,     *)
(* the weighted sizes stay between 0 and the largest read.                 *)
(*                                                                         *)
(* The queue: it is an end of what was sent, and what is recent enough is  *)
(* one too, since the dates of packets grow.                               *)
(*                                                                         *)
(* The order: the buffer is sorted, and no packet sent belongs behind one  *)
(* that is in it, unless that came too late.                               *)
(*                                                                         *)
(* The dates: what the clock of reordertp adds to a timestamp is the time  *)
(* at which the packet was made and no more than the links delay one.      *)
(***************************************************************************)
EXTENDS RtpLink, WellFoundedInduction, SequenceTheorems, TLAPS

USE DEF Output

AllWeigh == \A o \in Output : weight[o] > 0

Exact(base) == \A o \in Output :
    bytes[o] = weight[o] * (base + weighted[o]) + remainder[o]

(* The invariant that is inductive.                                        *)
Shared ==
    /\ weight \in [Output -> Nat]
    /\ AllWeigh =>
         /\ weighted \in [Output -> 0..Largest]
         /\ remainder \in [Output -> Nat]
         /\ bytes \in [Output -> Nat]
         /\ \A o \in Output : remainder[o] < weight[o]
         /\ \E base \in Nat : Exact(base)

-----------------------------------------------------------------------------

(* The least of some numbers is one of them.                               *)
LEMMA LeastOf ==
    ASSUME NEW S \in SUBSET Nat, S # {}
    PROVE  Min(S) \in S /\ \A n \in S : Min(S) <= n
<1> DEFINE Less == OpToRel(<, Nat)
<1>1. \A x, y \in Nat : <<y, x>> \in Less <=> y < x
  BY DEF OpToRel
<1>2. IsWellFoundedOn(Less, Nat)
  BY NatLessThanWellFounded
<1> HIDE DEF Less
<1>3. PICK m \in S : \A n \in S : ~ (<<n, m>> \in Less)
  BY <1>2, WFMin
<1>4. \A n \in S : m <= n
  <2>1. TAKE n \in S
  <2>2. ~ (n < m)
    BY <1>1, <1>3
  <2> QED
    BY <2>2
<1> QED
  BY <1>4 DEF Min

(* Sizes has a largest element, which is positive.                         *)
LEMMA LargestSize == Largest \in Nat /\ Largest > 0 /\ \A size \in Sizes : size <= Largest
<1>1. PICK m \in Sizes : \A size \in Sizes : size <= m
  BY AggregaAssumption DEF AggregaAssumption
<1>2. Largest \in Sizes /\ \A size \in Sizes : Largest >= size
  BY <1>1, AggregaAssumption DEF Largest, Max, AggregaAssumption
<1> QED
  BY <1>2, AggregaAssumption DEF AggregaAssumption

(* Dividing what is due by the weight adds at most what was read.          *)
LEMMA Quotient ==
    ASSUME NEW size \in Nat \ {0}, NEW rem \in Nat, NEW w \in Nat \ {0}, rem < w
    PROVE  /\ (size + rem) \div w \in 0..size
           /\ (size + rem) % w \in Nat
           /\ (size + rem) % w < w
           /\ size + rem = w * ((size + rem) \div w) + ((size + rem) % w)
<1> DEFINE q == (size + rem) \div w
           r == (size + rem) % w
<1>0. size + rem \in Nat
  OBVIOUS
<1>1. q \in Int /\ r \in 0..(w - 1) /\ size + rem = w * q + r
  BY <1>0, SMTT(30)
<1> HIDE DEF q, r
<1>2. q >= 0
  <2>1. SUFFICES ASSUME q <= -1 PROVE FALSE
    BY <1>1
  <2>2. w * q <= w * (-1)
    BY <1>1, <2>1, SMTT(30)
  <2> QED
    BY <1>1, <2>2
<1>3. q <= size
  <2>1. SUFFICES ASSUME q >= size + 1 PROVE FALSE
    BY <1>1
  <2>2. w * q >= w * (size + 1)
    BY <1>1, <2>1, SMTT(30)
  <2>3. w * (size + 1) = w * size + w
    BY SMTT(30)
  <2>4. w * size >= size
    BY SMTT(30)
  <2> QED
    BY <1>1, <2>2, <2>3, <2>4
<1> QED
  BY <1>1, <1>2, <1>3 DEF q, r

-----------------------------------------------------------------------------

(* NextOutput: when every output has a weight, all are considered, the one *)
(* chosen has the least weighted size, and the least is taken off all.     *)
LEMMA Choice ==
    ASSUME Shared, AllWeigh
    PROVE  /\ NextOutput \in Output
           /\ MinSize \in Nat
           /\ weighted[NextOutput] = MinSize
           /\ \A o \in Output : MinSize <= weighted[o]
           /\ AfterNext = [o \in Output |-> weighted[o] - MinSize]
<1>1. Considered = Output /\ Reduced = Output
  BY AggregaAssumption DEF AllWeigh, Considered, Reduced, AggregaAssumption
<1>2. weighted \in [Output -> Nat]
  BY LargestSize DEF Shared
<1> DEFINE S == {weighted[o] : o \in Output}
           T == {o \in Output : weighted[o] = MinSize}
<1>3. S \in SUBSET Nat /\ S # {}
  <2>1. 1 \in Output
    BY AggregaAssumption DEF AggregaAssumption
  <2> QED
    BY <1>2, <2>1
<1>4. MinSize = Min(S)
  BY <1>1 DEF MinSize
<1>5. MinSize \in S /\ \A n \in S : MinSize <= n
  <2> HIDE DEF S
  <2> QED
    BY <1>3, <1>4, LeastOf
<1>6. T \in SUBSET Nat /\ T # {}
  BY <1>5
<1>7. NextOutput \in T
  <2>1. NextOutput = Min(T)
    BY <1>1 DEF NextOutput
  <2> HIDE DEF T
  <2> QED
    BY <2>1, <1>6, LeastOf
<1>8. AfterNext = [o \in Output |-> weighted[o] - MinSize]
  BY <1>1, <1>2, <1>3, <1>5 DEF AfterNext
<1> QED
  BY <1>2, <1>3, <1>5, <1>7, <1>8

(* A packet is read, sent and accounted.                                   *)
LEMMA ReadInputShares ==
    ASSUME Shared, ReadInput
    PROVE  Shared'
<1>1. weight' = weight
  BY DEF ReadInput, config
<1>2. SUFFICES ASSUME AllWeigh
               PROVE  /\ weighted' \in [Output -> 0..Largest]
                      /\ remainder' \in [Output -> Nat]
                      /\ bytes' \in [Output -> Nat]
                      /\ \A o \in Output : remainder'[o] < weight[o]
                      /\ \E base \in Nat : Exact(base)'
  BY <1>1 DEF Shared, AllWeigh
<1> DEFINE o == NextOutput
           rest == [p \in Output |-> weighted[p] - MinSize]
<1>3. /\ o \in Output
      /\ MinSize \in Nat
      /\ weighted[o] = MinSize
      /\ \A p \in Output : MinSize <= weighted[p]
      /\ AfterNext = rest
  BY <1>2, Choice
<1>4. /\ weighted \in [Output -> 0..Largest]
      /\ remainder \in [Output -> Nat]
      /\ bytes \in [Output -> Nat]
      /\ weight \in [Output -> Nat]
      /\ \A p \in Output : weight[p] \in Nat \ {0} /\ remainder[p] < weight[p]
  BY <1>2 DEF Shared, AllWeigh
<1> HIDE DEF o
<1>5. PICK size \in Sizes :
        /\ weighted' = [rest EXCEPT ![o] = @ + (size + remainder[o]) \div weight[o]]
        /\ remainder' = [remainder EXCEPT ![o] = (size + remainder[o]) % weight[o]]
        /\ bytes' = [bytes EXCEPT ![o] = @ + size]
  <2>1. weight[o] # 0
    BY <1>3, <1>4
  <2> QED
    BY <2>1, <1>3, Zenon DEF ReadInput, o
<1> DEFINE q == (size + remainder[o]) \div weight[o]
           r == (size + remainder[o]) % weight[o]
<1>6. size \in Nat \ {0} /\ size <= Largest /\ Largest \in Nat
  BY LargestSize, AggregaAssumption DEF AggregaAssumption
<1>7. q \in 0..size /\ r \in Nat /\ r < weight[o] /\ size + remainder[o] = weight[o] * q + r
  <2>1. /\ size \in Nat \ {0} /\ remainder[o] \in Nat
        /\ weight[o] \in Nat \ {0} /\ remainder[o] < weight[o]
    BY <1>3, <1>4, <1>6
  <2> QED
    BY <2>1, Quotient
<1>8. /\ weighted' = [rest EXCEPT ![o] = @ + q]
      /\ remainder' = [remainder EXCEPT ![o] = r]
  BY <1>5
<1> HIDE DEF q, r
<1>9. rest \in [Output -> 0..Largest] /\ rest[o] = 0
  BY <1>3, <1>4, <1>6
<1>10. weighted' \in [Output -> 0..Largest]
  <2>1. q \in 0..Largest
    BY <1>6, <1>7
  <2>2. rest[o] + q = q
    BY <1>7, <1>9
  <2> HIDE DEF rest
  <2> QED
    BY <1>8, <1>9, <2>1, <2>2
<1>11. remainder' \in [Output -> Nat] /\ \A p \in Output : remainder'[p] < weight[p]
  BY <1>3, <1>4, <1>7, <1>8
<1>12. bytes' \in [Output -> Nat]
  BY <1>3, <1>4, <1>5, <1>6
<1>13. \E base \in Nat : Exact(base)'
  <2>1. PICK base \in Nat : Exact(base)
    BY <1>2 DEF Shared
  <2>2. SUFFICES ASSUME NEW p \in Output
                 PROVE  bytes'[p] = weight[p] * ((base + MinSize) + weighted'[p]) + remainder'[p]
    <3>1. base + MinSize \in Nat
      BY <1>3
    <3> QED
      BY <1>1, <3>1 DEF Exact
  <2>3. bytes[p] = weight[p] * (base + weighted[p]) + remainder[p]
    BY <2>1 DEF Exact
  <2>4. CASE p # o
    <3>1. /\ bytes'[p] = bytes[p] /\ remainder'[p] = remainder[p]
          /\ weighted'[p] = weighted[p] - MinSize
      BY <1>3, <1>4, <1>5, <1>8, <2>4
    <3>2. (base + MinSize) + weighted'[p] = base + weighted[p]
      BY <3>1, <1>3, <1>4, <1>6
    <3> QED
      BY <2>3, <3>1, <3>2
  <2>5. CASE p = o
    <3>1. /\ bytes'[p] = bytes[p] + size /\ remainder'[p] = r
          /\ weighted'[p] = q
      BY <1>3, <1>4, <1>5, <1>7, <1>8, <1>9, <2>5
    <3>2. (base + MinSize) + weighted'[p] = (base + weighted[p]) + q
      BY <3>1, <1>3, <1>7, <2>5
    <3>3. weight[p] * ((base + weighted[p]) + q)
            = weight[p] * (base + weighted[p]) + weight[p] * q
      <4>1. weight[p] \in Int /\ base + weighted[p] \in Int /\ q \in Int
        BY <1>3, <1>4, <1>7, <2>5
      <4>2. \A a, b, c \in Int : a * (b + c) = a * b + a * c
        OBVIOUS
      <4> QED
        BY <4>1, <4>2
    <3>4. /\ weight[p] * (base + weighted[p]) \in Int /\ weight[p] * q \in Int
          /\ remainder[p] \in Int /\ size \in Int /\ r \in Int
      BY <1>3, <1>4, <1>6, <1>7, <2>5
    <3> QED
      BY <1>7, <2>3, <2>5, <3>1, <3>2, <3>3, <3>4
  <2> QED
    BY <2>4, <2>5
<1> QED
  BY <1>10, <1>11, <1>12, <1>13

(* A packet is sent again: the least is taken off, nothing is accounted.   *)
LEMMA RetxHandleShares ==
    ASSUME Shared, NEW r \in down, RetxHandle(r)
    PROVE  Shared'
<1>1. weight' = weight /\ remainder' = remainder /\ bytes' = bytes
  BY DEF RetxHandle, config
<1>2. CASE weighted' = weighted
  BY <1>1, <1>2 DEF Shared, AllWeigh, Exact
<1>3. CASE weighted' = AfterNext
  <2>1. SUFFICES ASSUME AllWeigh
                 PROVE  /\ weighted' \in [Output -> 0..Largest]
                        /\ \E base \in Nat : Exact(base)'
    BY <1>1 DEF Shared, AllWeigh
  <2>2. /\ MinSize \in Nat
        /\ \A p \in Output : MinSize <= weighted[p]
        /\ weighted' = [p \in Output |-> weighted[p] - MinSize]
        /\ weighted \in [Output -> 0..Largest]
        /\ Largest \in Nat
    BY <1>3, <2>1, Choice, LargestSize DEF Shared
  <2>3. weighted' \in [Output -> 0..Largest]
    BY <2>2
  <2>4. PICK base \in Nat : Exact(base)
    BY <2>1 DEF Shared
  <2>5. ASSUME NEW p \in Output
        PROVE  (base + MinSize) + weighted'[p] = base + weighted[p]
    BY <2>2
  <2>6. base + MinSize \in Nat
    BY <2>2
  <2>7. \A p \in Output :
           bytes'[p] = weight'[p] * ((base + MinSize) + weighted'[p]) + remainder'[p]
    BY <1>1, <2>4, <2>5 DEF Exact
  <2> QED
    BY <2>3, <2>6, <2>7 DEF Exact
<1> QED
  BY <1>2, <1>3, Zenon DEF RetxHandle

-----------------------------------------------------------------------------

(* Both programs, the links and the clock: only two actions touch the      *)
(* shares, and none the weights.                                           *)
LEMMA Steps ==
    ASSUME Next
    PROVE  ReadInput \/ (\E r \in down : RetxHandle(r)) \/ UNCHANGED <<weight, shares>>
<1>1. CASE Aggrega
  BY <1>1, Zenon DEF Aggrega, AggregaStep, ReadPart, RetxPart, config
<1>2. CASE Reorder \/ Request \/ Lose \/ Restart \/ Tick \/ Finished
  BY <1>2, Zenon DEF Reorder, Request, Lose, Restart, Tick, Finished, linkVars, aggregaVars, config
<1>3. CASE \E m \in up : Arrive(m)
  BY <1>3, Zenon DEF Arrive, aggregaVars, config
<1>4. CASE Stray
  BY <1>4, Zenon DEF Stray, RetxInvalid, config
<1> QED
  BY <1>1, <1>2, <1>3, <1>4, Zenon DEF Next

LEMMA SharedIsKept ==
    ASSUME Shared, [Next]_linkVars
    PROVE  Shared'
<1>1. CASE UNCHANGED <<weight, shares>>
  BY <1>1 DEF Shared, AllWeigh, Exact, shares
<1>2. CASE ReadInput
  BY <1>2, ReadInputShares
<1>3. CASE \E r \in down : RetxHandle(r)
  BY <1>3, RetxHandleShares
<1>4. CASE UNCHANGED linkVars
  BY <1>1, <1>4 DEF linkVars, aggregaVars, config
<1> QED
  BY <1>1, <1>2, <1>3, <1>4, Steps

LEMMA SharedAtFirst == Init => Shared
<1> SUFFICES ASSUME Init PROVE Shared
  OBVIOUS
<1>1. /\ weight \in [Output -> Nat]
      /\ weighted = [o \in Output |-> 0]
      /\ remainder = [o \in Output |-> 0]
      /\ bytes = [o \in Output |-> 0]
  BY AggregaAssumption DEF Init, AggregaInit, AggregaAssumption
<1>2. Exact(0)
  BY <1>1 DEF Exact
<1> QED
  BY <1>1, <1>2, LargestSize DEF Shared, AllWeigh

(* The weighted sizes and the shares, from the invariant.                  *)
LEMMA SharedImpliesBalanced == Shared => Balanced
BY DEF Shared, AllWeigh, Balanced

(* Two outputs with the same base, weights v and w, weighted sizes a and b *)
(* and remainders r and t.                                                 *)
LEMMA Apart ==
    ASSUME NEW v \in Nat \ {0}, NEW w \in Nat \ {0}, NEW base \in Nat, NEW m \in Nat,
           NEW a \in 0..m, NEW b \in 0..m, NEW r \in 0..(v - 1), NEW t \in 0..(w - 1)
    PROVE  (v * (base + a) + r) * w - (w * (base + b) + t) * v < (m + 1) * v * w
<1>1. (v * (base + a) + r) * w - (w * (base + b) + t) * v = (v * w) * (a - b) + r * w - t * v
  BY SMTT(60)
<1>2. v * w \in Nat /\ t * v \in Nat
  BY SMTT(60)
<1>3. (v * w) * (a - b) <= (v * w) * m
  <2> DEFINE vw == v * w
  <2>1. vw \in Nat /\ a - b <= m /\ a - b \in Int
    BY <1>2
  <2> HIDE DEF vw
  <2>2. \A x \in Nat : \A y, z \in Int : y <= z => x * y <= x * z
    BY SMTT(60)
  <2>3. vw * (a - b) <= vw * m
    BY <2>1, <2>2
  <2> QED
    BY <2>3 DEF vw
<1>4. r * w < v * w
  BY SMTT(60)
<1>5. (m + 1) * v * w = (v * w) * m + v * w
  BY SMTT(60)
<1>6. (v * w) * (a - b) \in Int /\ (v * w) * m \in Int /\ r * w \in Int
  BY SMTT(60)
<1> QED
  BY <1>1, <1>2, <1>3, <1>4, <1>5, <1>6

LEMMA SharedImpliesSharing == Shared => Sharing
<1> SUFFICES ASSUME Shared, AllWeigh, NEW o \in Output, NEW p \in Output
             PROVE  bytes[o] * weight[p] - bytes[p] * weight[o]
                        < (Largest + 1) * weight[o] * weight[p]
  BY DEF Sharing, AllWeigh
<1>1. PICK base \in Nat : Exact(base)
  BY DEF Shared
<1>2. /\ bytes[o] = weight[o] * (base + weighted[o]) + remainder[o]
      /\ bytes[p] = weight[p] * (base + weighted[p]) + remainder[p]
  BY <1>1 DEF Exact
<1>3. /\ weight[o] \in Nat \ {0} /\ weight[p] \in Nat \ {0} /\ Largest \in Nat
      /\ weighted[o] \in 0..Largest /\ weighted[p] \in 0..Largest
      /\ remainder[o] \in 0..(weight[o] - 1) /\ remainder[p] \in 0..(weight[p] - 1)
  <2>1. /\ weight \in [Output -> Nat] /\ remainder \in [Output -> Nat]
        /\ weighted \in [Output -> 0..Largest]
        /\ \A n \in Output : weight[n] > 0 /\ remainder[n] < weight[n]
    BY DEF Shared, AllWeigh
  <2> QED
    BY <2>1, LargestSize
<1> QED
  BY <1>2, <1>3, Apart

-----------------------------------------------------------------------------

THEOREM SharedAlways == Spec => []Shared
BY SharedAtFirst, SharedIsKept, PTL DEF Spec

(***************************************************************************)
(* No output of aggregartp gets ahead of another by more than one read,    *)
(* whatever the weights, and the counters of its main loop stay below the  *)
(* largest read.                                                           *)
(***************************************************************************)
THEOREM OutputsBalanced == Spec => []Balanced
BY SharedAlways, SharedImpliesBalanced, PTL

(***************************************************************************)
(* The outputs of aggregartp share the bytes of the stream in proportion   *)
(* to their weights, for ever, for any number of outputs and any weights,  *)
(* whatever is retransmitted in between.                                   *)
(***************************************************************************)
THEOREM OutputsShare == Spec => []Sharing
BY SharedAlways, SharedImpliesSharing, PTL

-----------------------------------------------------------------------------

(***************************************************************************)
(* The queue of aggregartp.                                                *)
(*                                                                         *)
(* The packets of the queue are the last ones sent, in their order, each   *)
(* with the date at which it was sent.  RetxQueue takes off those in front *)
(* that are older than its cut; since the dates grow these are all that    *)
(* are.  "Early" are the packets of the first RetxBuffer units, for which  *)
(* the cut wraps around.                                                   *)
(***************************************************************************)
Kept(n) == sentAt[n] >= RetxBuffer /\ sentAt[n] >= sentAt[nbIn] - RetxBuffer

Entry == [id : Nat, at : Nat]
Place_1 == nbIn - Len(retx)     \* the packet before the first of the queue

Dates ==
    /\ now \in Nat /\ nbIn \in Nat /\ nbIn <= MaxPackets
    /\ sentAt \in Seq(Nat) /\ Len(sentAt) = nbIn
    /\ \A n \in 1..nbIn : sentAt[n] <= now
    /\ \A m, n \in 1..nbIn : m <= n => sentAt[m] <= sentAt[n]

Suffix ==
    /\ retx \in Seq(Entry) /\ Len(retx) <= nbIn
    /\ \A i \in 1..Len(retx) : retx[i].id = Place_1 + i /\ retx[i].at = sentAt[Place_1 + i]

InTime == now - RetxBuffer < ClockMod
Recent == \A n \in 1..nbIn : Kept(n) <=> n > Place_1

QueueInv == Dates /\ (aggregator # "crashed" => Suffix /\ (InTime => Recent))

(***************************************************************************)
(* The buffer of reordertp.                                                *)
(*                                                                         *)
(* The packets of the buffer are in order, and those sent before are none  *)
(* that follows one of them, unless it came too late.                      *)
(***************************************************************************)
Block == [id : Nat, date : Int, late : BOOLEAN, tight : BOOLEAN, undated : BOOLEAN]
Clock == [last : Int, cr : Int, wall : Int, delta : Int, space : Int]

Links ==
    /\ \A m \in up : m.id \in 1..nbIn
    /\ \A r \in down : r.num \in Nat

BufferTypes ==
    /\ buffer \in Seq(Block) /\ output \in Seq(Block)
    /\ retxPtr \in [Pass -> Nat]
    /\ clock \in Clock /\ lastTs \in Int /\ date \in Int

Sorted == \A j, k \in 1..Len(buffer) : j < k => buffer[j].id <= buffer[k].id
SentBefore == \A i \in 1..Len(output), k \in 1..Len(buffer) :
    buffer[k].late \/ output[i].id <= buffer[k].id

OrderInv == BufferTypes /\ Sorted /\ SentBefore /\ InOrder

(* The numbers of the packets in the buffer tell which comes first.        *)
Near == \A j, k \in 1..Len(buffer) : buffer[j].id - buffer[k].id < SeqMod \div 2

-----------------------------------------------------------------------------

(* The greatest of some numbers up to n is one of them.                    *)
LEMMA GreatestOf ==
    ASSUME NEW n \in Nat, NEW S \in SUBSET (0..n), S # {}
    PROVE  Max(S) \in S /\ \A k \in S : k <= Max(S)
<1> DEFINE T == {n - k : k \in S}
<1>1. T \in SUBSET Nat /\ T # {}
  <2>1. \A k \in S : n - k \in Nat
    OBVIOUS
  <2> QED
    BY <2>1
<1>2. Min(T) \in T /\ \A t \in T : Min(T) <= t
  <2> HIDE DEF T
  <2> QED
    BY <1>1, LeastOf
<1>3. PICK m \in S : Min(T) = n - m
  BY <1>2
<1>4. \A k \in S : m >= k
  <2>1. \A k \in S : n - m <= n - k
    BY <1>2, <1>3
  <2> QED
    BY <2>1
<1> QED
  BY <1>4 DEF Max

(* Division with a remainder has one result.                               *)
LEMMA RemainderOf ==
    ASSUME NEW m \in Nat \ {0}, NEW q \in Int, NEW r \in 0..(m - 1)
    PROVE  (m * q + r) % m = r
<1> DEFINE x == m * q + r
           p == x \div m
           s == x % m
<1>0. x \in Int
  <2>1. m * q \in Int
    BY SMTT(30)
  <2> QED
    BY <2>1
<1>1. p \in Int /\ s \in 0..(m - 1) /\ x = m * p + s
  BY <1>0, SMTT(30)
<1>2. m * q + r = m * p + s
  BY <1>1
<1> HIDE DEF x, p, s
<1>3. m * (q - p) = s - r
  BY <1>1, <1>2, SMTT(30)
<1>4. ~ (q - p >= 1)
  <2>1. SUFFICES ASSUME q - p >= 1 PROVE FALSE
    OBVIOUS
  <2>2. m * (q - p) >= m * 1
    BY <1>1, <2>1, SMTT(30)
  <2> QED
    BY <1>1, <1>3, <2>2
<1>5. ~ (q - p <= -1)
  <2>1. SUFFICES ASSUME q - p <= -1 PROVE FALSE
    OBVIOUS
  <2>2. m * (q - p) <= m * (-1)
    BY <1>1, <2>1, SMTT(30)
  <2> QED
    BY <1>1, <1>3, <2>2
<1>6. p = q
  BY <1>1, <1>4, <1>5
<1> QED
  BY <1>1, <1>2, <1>6 DEF s, x

-----------------------------------------------------------------------------

(* The cut of RetxQueue: RetxBuffer ago or, before that, a date to come.   *)
LEMMA CutIs ==
    ASSUME now \in Nat
    PROVE  /\ Cut \in Int
           /\ now >= RetxBuffer /\ InTime => Cut = now - RetxBuffer
           /\ now < RetxBuffer => Cut > now
<1> USE AggregaAssumption DEF AggregaAssumption
<1>1. Cut \in Int
  BY SMTT(30) DEF Cut
<1>2. ASSUME now >= RetxBuffer, InTime PROVE Cut = now - RetxBuffer
  <2>1. now - RetxBuffer \in 0..(ClockMod - 1) /\ ClockMod \in Nat \ {0}
    BY <1>2 DEF InTime
  <2>2. (ClockMod * 0 + (now - RetxBuffer)) % ClockMod = now - RetxBuffer
    BY <2>1, RemainderOf
  <2> QED
    BY <2>1, <2>2 DEF Cut
<1>3. ASSUME now < RetxBuffer PROVE Cut > now
  <2> DEFINE r == ClockMod + now - RetxBuffer
  <2>1. r \in 0..(ClockMod - 1) /\ r > now /\ ClockMod \in Nat \ {0}
    BY <1>3
  <2>2. (ClockMod * (-1) + r) % ClockMod = r
    BY <2>1, RemainderOf
  <2>3. ClockMod * (-1) + r = now - RetxBuffer
    BY <2>1
  <2> QED
    BY <2>1, <2>2, <2>3 DEF Cut
<1> QED
  BY <1>1, <1>2, <1>3

(* What is purged are the packets in front that are older than the cut.    *)
LEMMA PurgedIsEnd ==
    ASSUME NEW queue \in Seq(Entry), queue # <<>>, Cut \in Int
    PROVE  \E k \in 1..Len(queue) + 1 :
               /\ Purged(queue) = SubSeq(queue, k, Len(queue))
               /\ \A j \in 1..k - 1 : queue[j].at < Cut
               /\ k <= Len(queue) => queue[k].at >= Cut
<1> DEFINE n == Len(queue)
           kept == {i \in 1..n : \A j \in 1..(i - 1) : queue[j].at < Cut}
           first == Max(kept)
<1>1. n \in Nat \ {0}
  BY EmptySeq
<1>2. \A j \in 1..n : queue[j].at \in Nat
  <2>1. \A j \in 1..n : queue[j] \in Entry
    OBVIOUS
  <2> QED
    BY <2>1 DEF Entry
<1>3. kept \in SUBSET (0..n) /\ 1 \in kept
  BY <1>1
<1>4. first \in kept /\ \A k \in kept : k <= first
  <2> HIDE DEF kept
  <2> QED
    BY <1>1, <1>3, GreatestOf
<1>5. PICK f \in 1..n : f = first
  BY <1>4
<1>6. \A j \in 1..f - 1 : queue[j].at < Cut
  BY <1>4, <1>5
<1>7. \A k \in 1..n : k > f => \E j \in 1..k - 1 : ~(queue[j].at < Cut)
  BY <1>1, <1>4, <1>5
<1> HIDE DEF kept, first
<1>8. CASE queue[f].at < Cut
  <2>1. \A j \in 1..f : queue[j].at < Cut
    BY <1>6, <1>8
  <2>2. f = n
    <3>1. SUFFICES ASSUME f < n PROVE FALSE
      BY <1>1
    <3>2. f + 1 \in 1..n /\ f + 1 > f
      BY <1>1, <3>1
    <3>3. PICK j \in 1..(f + 1) - 1 : ~(queue[j].at < Cut)
      BY <1>7, <3>2
    <3> QED
      BY <2>1, <3>3
  <2>3. Purged(queue) = <<>>
    BY <1>5, <1>8 DEF Purged, first, kept
  <2>a. SubSeq(queue, n + 1, n) = <<>>
    BY <1>1, SubSeqEmpty
  <2>4. n + 1 \in 1..Len(queue) + 1 /\ \A j \in 1..(n + 1) - 1 : queue[j].at < Cut
    BY <1>1, <2>1, <2>2
  <2> QED
    BY <2>3, <2>a, <2>4
<1>9. CASE ~(queue[f].at < Cut)
  <2>1. Purged(queue) = SubSeq(queue, f, n)
    BY <1>5, <1>9 DEF Purged, first, kept
  <2>2. queue[f].at >= Cut
    BY <1>2, <1>9
  <2>3. f \in 1..Len(queue) + 1 /\ \A j \in 1..f - 1 : queue[j].at < Cut
    BY <1>1, <1>6
  <2> QED
    BY <2>1, <2>2, <2>3
<1> QED
  BY <1>8, <1>9

(***************************************************************************)
(* A packet is read: it is the last of the queue, and the queue is still   *)
(* all that was sent in the last RetxBuffer units.                         *)
(***************************************************************************)
LEMMA ReadInputQueue ==
    ASSUME QueueInv, ReadInput
    PROVE  QueueInv'
<1>1. /\ now \in Nat /\ nbIn \in Nat /\ nbIn + 1 <= MaxPackets
      /\ sentAt \in Seq(Nat) /\ Len(sentAt) = nbIn
      /\ \A n \in 1..nbIn : sentAt[n] \in Nat /\ sentAt[n] <= now
      /\ \A m, n \in 1..nbIn : m <= n => sentAt[m] <= sentAt[n]
  BY AggregaAssumption DEF QueueInv, Dates, ReadInput, Readable, AggregaAssumption
<1>2. /\ aggregator = "runs" /\ now' = now /\ nbIn' = nbIn + 1
      /\ sentAt' = Append(sentAt, now)
      /\ aggregator' # "crashed" => retx' = Purged(Append(retx, [id |-> nbIn + 1, at |-> now]))
  BY DEF ReadInput, Readable, RetxQueue
<1>3. /\ sentAt' \in Seq(Nat) /\ Len(sentAt') = nbIn'
      /\ \A n \in 1..nbIn : sentAt'[n] = sentAt[n]
      /\ sentAt'[nbIn + 1] = now
  BY <1>1, <1>2, AppendProperties
<1>4. Dates'
  <2>1. \A n \in 1..nbIn' : sentAt'[n] <= now'
    BY <1>1, <1>2, <1>3
  <2>2. \A m, n \in 1..nbIn' : m <= n => sentAt'[m] <= sentAt'[n]
    BY <1>1, <1>2, <1>3
  <2> QED
    BY <1>1, <1>2, <1>3, <2>1, <2>2 DEF Dates
<1>a. \A n \in 1..nbIn + 1 : sentAt'[n] \in Nat /\ sentAt'[n] <= now
  BY <1>1, <1>3
<1> DEFINE queue == Append(retx, [id |-> nbIn + 1, at |-> now])
           l == Len(retx)
           p == nbIn - l
<1>5. SUFFICES ASSUME aggregator' # "crashed" PROVE Suffix' /\ (InTime => Recent')
  BY <1>2, <1>4 DEF QueueInv, InTime
<1>6. /\ retx \in Seq(Entry) /\ l \in 0..nbIn
      /\ \A i \in 1..l : retx[i].id = p + i /\ retx[i].at = sentAt[p + i]
      /\ InTime => \A n \in 1..nbIn : Kept(n) <=> n > p
  BY <1>1, <1>2 DEF QueueInv, Suffix, Recent, Place_1
<1>7. /\ queue \in Seq(Entry) /\ Len(queue) = l + 1 /\ queue # <<>>
      /\ \A i \in 1..l : queue[i] = retx[i]
      /\ queue[l + 1] = [id |-> nbIn + 1, at |-> now]
  <2>1. [id |-> nbIn + 1, at |-> now] \in Entry
    BY <1>1 DEF Entry
  <2> QED
    BY <1>6, <2>1, AppendProperties
<1> HIDE DEF queue
<1>8. \A i \in 1..l + 1 : queue[i].id = p + i /\ queue[i].at = sentAt'[p + i]
  <2>1. \A i \in 1..l : queue[i].id = p + i /\ queue[i].at = sentAt'[p + i]
    <3>1. TAKE i \in 1..l
    <3>2. p + i \in 1..nbIn
      BY <1>1, <1>6
    <3> QED
      BY <1>3, <1>6, <1>7, <3>2
  <2>2. queue[l + 1].id = p + (l + 1) /\ queue[l + 1].at = sentAt'[p + (l + 1)]
    BY <1>1, <1>3, <1>6, <1>7
  <2> QED
    BY <1>6, <2>1, <2>2
<1>9. Cut \in Int
  BY <1>1, CutIs
<1>10. PICK k \in 1..l + 2 : /\ retx' = SubSeq(queue, k, l + 1)
                             /\ \A j \in 1..k - 1 : queue[j].at < Cut
                             /\ k <= l + 1 => queue[k].at >= Cut
  <2>1. retx' = Purged(queue)
    BY <1>2, <1>5 DEF queue
  <2>2. PICK k \in 1..Len(queue) + 1 : /\ Purged(queue) = SubSeq(queue, k, Len(queue))
                                       /\ \A j \in 1..k - 1 : queue[j].at < Cut
                                       /\ k <= Len(queue) => queue[k].at >= Cut
    BY <1>7, <1>9, PurgedIsEnd
  <2>3. k \in 1..l + 2
    BY <1>6, <1>7
  <2>4. retx' = SubSeq(queue, k, l + 1) /\ (k <= l + 1 => queue[k].at >= Cut)
    BY <1>7, <2>1, <2>2
  <2> QED
    BY <2>2, <2>3, <2>4
<1>11. /\ retx' \in Seq(Entry) /\ Len(retx') = l + 2 - k
       /\ \A i \in 1..l + 2 - k : retx'[i] = queue[k + i - 1]
  <2>1. \A i \in k..l + 1 : queue[i] \in Entry
    BY <1>6, <1>7
  <2>2. /\ SubSeq(queue, k, l + 1) \in Seq(Entry)
        /\ Len(SubSeq(queue, k, l + 1)) = IF k <= l + 1 THEN (l + 1) - k + 1 ELSE 0
        /\ \A i \in 1..(l + 1) - k + 1 : SubSeq(queue, k, l + 1)[i] = queue[k + i - 1]
    BY <1>6, <2>1, SubSeqProperties
  <2> QED
    BY <1>6, <1>10, <2>2
<1>12. nbIn' - Len(retx') = p + k - 1
  BY <1>1, <1>2, <1>6, <1>11
<1>13. Suffix'
  <2>1. \A i \in 1..l + 2 - k : /\ retx'[i].id = (p + k - 1) + i
                                /\ retx'[i].at = sentAt'[(p + k - 1) + i]
    <3>1. TAKE i \in 1..l + 2 - k
    <3>2. k + i - 1 \in 1..l + 1 /\ p + (k + i - 1) = (p + k - 1) + i
      BY <1>1, <1>6
    <3> QED
      BY <1>8, <1>11, <3>2
  <2>2. Len(retx') <= nbIn'
    BY <1>1, <1>2, <1>6, <1>11
  <2> QED
    BY <1>11, <1>12, <2>1, <2>2 DEF Suffix, Place_1
<1>14. ASSUME InTime PROVE Recent'
  <2>1. SUFFICES ASSUME NEW n \in 1..nbIn + 1
                 PROVE  (sentAt'[n] >= RetxBuffer /\ sentAt'[n] >= now - RetxBuffer) <=> n > p + k - 1
    BY <1>2, <1>3, <1>12 DEF Recent, Kept, Place_1
  <2>2. RetxBuffer \in Nat /\ sentAt'[n] \in Nat /\ sentAt'[n] <= now
    BY <1>a, AggregaAssumption DEF AggregaAssumption
  <2>3. CASE now < RetxBuffer
    <3>1. Cut > now
      BY <1>1, <2>3, CutIs
    <3>2. k = l + 2
      <4>1. SUFFICES ASSUME k <= l + 1 PROVE FALSE
        BY <1>6
      <4>2. p + k \in 1..nbIn + 1 /\ queue[k].at = sentAt'[p + k] /\ queue[k].at >= Cut
        BY <1>1, <1>6, <1>8, <1>10, <4>1
      <4>3. sentAt'[p + k] <= now /\ sentAt'[p + k] \in Nat
        BY <1>a, <4>2
      <4> QED
        BY <1>1, <1>9, <3>1, <4>2, <4>3
    <3> QED
      BY <1>1, <1>6, <2>2, <2>3, <3>2
  <2>4. CASE now >= RetxBuffer
    <3>1. Cut = now - RetxBuffer
      BY <1>1, <1>14, <2>4, CutIs
    <3>2. CASE n <= p
      <4>1. n \in 1..nbIn /\ ~Kept(n) /\ sentAt[nbIn] <= now /\ sentAt[nbIn] \in Nat
        BY <1>1, <1>6, <1>14, <3>2
      <4> QED
        <5>1. sentAt'[n] = sentAt[n] /\ ~(sentAt[n] >= RetxBuffer /\ sentAt[n] >= sentAt[nbIn] - RetxBuffer)
          BY <1>3, <4>1 DEF Kept
        <5>2. n <= p + k - 1
          BY <1>1, <1>6, <3>2
        <5>3. PICK a, b, t, x \in Int : /\ a = sentAt'[n] /\ b = sentAt[nbIn] /\ t = now /\ x = RetxBuffer
                                        /\ ~(a >= x /\ a >= b - x) /\ b <= t
          BY <1>1, <2>2, <4>1, <5>1
        <5>4. ~(a >= x /\ a >= t - x)
          BY <5>3
        <5>5. ~(n > p + k - 1)
          BY <1>1, <1>6, <4>1, <5>2
        <5> QED
          BY <5>3, <5>4, <5>5
    <3>3. CASE n > p /\ n <= p + k - 1
      <4>1. n - p \in 1..k - 1 /\ n - p \in 1..l + 1 /\ p + (n - p) = n
        BY <1>1, <1>6, <3>3
      <4>2. queue[n - p].at < Cut /\ queue[n - p].at = sentAt'[n]
        BY <1>8, <1>10, <4>1
      <4> QED
        BY <1>1, <1>6, <2>2, <3>1, <3>3, <4>2
    <3>4. CASE n > p + k - 1
      <4>1. k <= l + 1 /\ p + k \in 1..nbIn + 1 /\ p + k <= n
        BY <1>1, <1>6, <3>4
      <4>2. sentAt'[p + k] >= now - RetxBuffer
        BY <1>8, <1>10, <3>1, <4>1
      <4>3. sentAt'[n] >= sentAt'[p + k]
        BY <1>1, <1>2, <1>4, <4>1 DEF Dates
      <4>4. sentAt'[n] >= RetxBuffer
        <5>1. CASE n = nbIn + 1
          BY <1>3, <2>4, <5>1
        <5>2. CASE n <= nbIn
          <6>1. n \in 1..nbIn /\ n > p
            BY <1>1, <1>6, <3>4, <5>2
          <6>2. Kept(n)
            BY <1>6, <1>14, <6>1
          <6> QED
            BY <1>3, <6>1, <6>2 DEF Kept
        <5> QED
          BY <1>1, <5>1, <5>2
      <4>5. sentAt'[p + k] \in Nat
        BY <1>1, <1>3, <4>1
      <4> QED
        BY <1>1, <2>2, <3>4, <4>2, <4>3, <4>4, <4>5
    <3> QED
      BY <1>1, <1>6, <3>2, <3>3, <3>4
  <2> QED
    BY <1>1, <2>2, <2>3, <2>4
<1> QED
  BY <1>13, <1>14

LEMMA QueueKept ==
    ASSUME QueueInv, UNCHANGED <<nbIn, sentAt, retx>>, now' \in {now, now + 1},
           aggregator = "crashed" => aggregator' = "crashed"
    PROVE  QueueInv'
<1>1. /\ now \in Nat /\ now' \in Nat /\ now <= now' /\ nbIn \in Nat
      /\ sentAt \in Seq(Nat) /\ Len(sentAt) = nbIn
      /\ \A n \in 1..nbIn : sentAt[n] \in Nat /\ sentAt[n] <= now
  BY DEF QueueInv, Dates
<1>2. Dates'
  <2>1. \A n \in 1..nbIn : sentAt[n] <= now'
    BY <1>1
  <2> QED
    BY <1>1, <2>1 DEF QueueInv, Dates
<1>3. Suffix => Suffix'
  BY DEF Suffix, Place_1
<1>4. Recent => Recent'
  BY DEF Recent, Kept, Place_1
<1>5. InTime' => InTime
  <2>1. RetxBuffer \in Nat /\ ClockMod \in Nat
    BY AggregaAssumption DEF AggregaAssumption
  <2>2. SUFFICES ASSUME now' - RetxBuffer < ClockMod PROVE now - RetxBuffer < ClockMod
    BY DEF InTime
  <2>3. now \in Nat /\ now' \in Nat /\ now <= now'
    BY <1>1
  <2>4. \A a, b, r, c \in Nat : a <= b /\ b - r < c => a - r < c
    OBVIOUS
  <2> QED
    BY <2>1, <2>2, <2>3, <2>4
<1> QED
  BY <1>2, <1>3, <1>4, <1>5 DEF QueueInv

LEMMA QueueSteps ==
    ASSUME Next
    PROVE  \/ ReadInput
           \/ /\ UNCHANGED <<nbIn, sentAt, retx>> /\ now' \in {now, now + 1}
              /\ aggregator = "crashed" => aggregator' = "crashed"
<1>1. CASE Aggrega
  <2>1. CASE ReadPart \/ \E r \in down : RetxPart(r)
    BY <2>1, Zenon DEF ReadPart, RetxPart
  <2>2. ASSUME NEW r \in down, RetxHandle(r)
        PROVE  UNCHANGED <<nbIn, sentAt, retx, now>> /\ aggregator # "crashed"
    BY <2>2 DEF RetxHandle
  <2> QED
    BY <1>1, <2>1, <2>2 DEF Aggrega, AggregaStep
<1>2. CASE Reorder \/ Request \/ Lose \/ Restart \/ Finished
  BY <1>2, Zenon DEF Reorder, Request, Lose, Restart, Finished, linkVars, aggregaVars
<1>3. CASE \E m \in up : Arrive(m)
  BY <1>3, Zenon DEF Arrive, aggregaVars
<1>4. CASE Stray
  <2>1. UNCHANGED <<nbIn, sentAt, retx, now>> /\ aggregator = "runs"
    BY <1>4 DEF Stray, RetxInvalid
  <2> QED
    BY <2>1
<1>5. CASE Tick
  BY <1>5, Zenon DEF Tick, aggregaVars
<1> QED
  BY <1>1, <1>2, <1>3, <1>4, <1>5, Zenon DEF Next

LEMMA QueueInvInit == Init => QueueInv
<1> SUFFICES ASSUME Init PROVE QueueInv
  OBVIOUS
<1>1. now \in Nat /\ nbIn = 0 /\ sentAt = <<>> /\ retx = <<>> /\ 0 <= MaxPackets
  BY AggregaAssumption DEF Init, AggregaInit, AggregaAssumption
<1>2. <<>> \in Seq(Nat) /\ <<>> \in Seq(Entry) /\ Len(<<>>) = 0
  BY EmptySeq
<1> QED
  BY <1>1, <1>2 DEF QueueInv, Dates, Suffix, Recent, Place_1

LEMMA QueueInvStep == QueueInv /\ [Next]_linkVars => QueueInv'
<1> SUFFICES ASSUME QueueInv, [Next]_linkVars PROVE QueueInv'
  OBVIOUS
<1>1. CASE Next
  BY <1>1, QueueSteps, QueueKept, ReadInputQueue
<1>2. CASE UNCHANGED linkVars
  <2>1. UNCHANGED <<nbIn, sentAt, retx, now, aggregator>>
    BY <1>2 DEF linkVars, aggregaVars
  <2> QED
    BY <2>1, QueueKept
<1> QED
  BY <1>1, <1>2

(***************************************************************************)
(* What was sent in the last RetxBuffer units can be sent again, and       *)
(* nothing else: the queue is complete and does not grow, except that it   *)
(* stays empty for the first RetxBuffer units of the machine.  It is so    *)
(* until the clock has counted to ClockMod.                                *)
(***************************************************************************)
THEOREM QueueIsRecent == Spec => [](InTime => Retransmittable)
<1>1. QueueInv => (InTime => Retransmittable)
  <2> SUFFICES ASSUME QueueInv, InTime, aggregator # "crashed"
               PROVE  {retx[i].id : i \in 1..Len(retx)} = {n \in 1..nbIn : Kept(n)}
    BY DEF Retransmittable, Kept
  <2>1. /\ nbIn \in Nat /\ Len(retx) \in 0..nbIn
        /\ \A i \in 1..Len(retx) : retx[i].id = Place_1 + i
        /\ \A n \in 1..nbIn : Kept(n) <=> n > Place_1
    BY DEF QueueInv, Dates, Suffix, Recent
  <2>2. ASSUME NEW i \in 1..Len(retx)
        PROVE  retx[i].id \in 1..nbIn /\ Kept(retx[i].id)
    BY <2>1 DEF Place_1
  <2>3. ASSUME NEW n \in 1..nbIn, Kept(n)
        PROVE  \E i \in 1..Len(retx) : retx[i].id = n
    <3>1. n - Place_1 \in 1..Len(retx) /\ Place_1 + (n - Place_1) = n
      BY <2>1, <2>3 DEF Place_1
    <3> QED
      BY <2>1, <3>1
  <2> QED
    BY <2>2, <2>3
<1> QED
  BY <1>1, QueueInvInit, QueueInvStep, PTL DEF Spec

-----------------------------------------------------------------------------

(* A request asks for what is in the queue.                                *)
LEMMA AskedIsQueued ==
    ASSUME retx \in Seq(Entry), NEW r, r.num \in Nat
    PROVE  \A i \in 1..Len(Asked(r)) : \E k \in 1..Len(retx) : Asked(r)[i] = retx[k]
<1> DEFINE found == {i \in 1..Len(retx) : SeqNum(retx[i].id) = r.seq}
           ends(f) == {Len(retx), f + r.num - 1}
<1>1. CASE found = {}
  <2>1. Asked(r) = <<>>
    BY <1>1 DEF Asked
  <2> QED
    BY <2>1
<1>2. CASE found # {}
  <2>1. Min(found) \in found
    <3>1. found \in SUBSET Nat
      OBVIOUS
    <3> HIDE DEF found
    <3> QED
      BY <1>2, <3>1, LeastOf
  <2>2. PICK f \in 1..Len(retx) : f = Min(found)
    BY <2>1
  <2>3. PICK last \in ends(f) : last = Min(ends(f)) /\ last <= Len(retx) /\ last \in Nat
    <3>1. ends(f) \in SUBSET Nat /\ Len(retx) \in ends(f)
      OBVIOUS
    <3>2. Min(ends(f)) \in ends(f) /\ Min(ends(f)) <= Len(retx) /\ Min(ends(f)) \in Nat
      <4> HIDE DEF ends
      <4> QED
        BY <3>1, LeastOf
    <3> QED
      BY <3>2
  <2>4. Asked(r) = SubSeq(retx, f, last)
    BY <1>2, <2>2, <2>3 DEF Asked
  <2>5. /\ Len(SubSeq(retx, f, last)) = IF f <= last THEN last - f + 1 ELSE 0
        /\ \A i \in 1..last - f + 1 : SubSeq(retx, f, last)[i] = retx[f + i - 1]
    <3>1. \A i \in f..last : retx[i] \in Entry
      BY <2>3
    <3> QED
      BY <2>3, <3>1, SubSeqProperties
  <2>6. ASSUME NEW i \in 1..Len(Asked(r))
        PROVE  f + i - 1 \in 1..Len(retx) /\ Asked(r)[i] = retx[f + i - 1]
    BY <2>3, <2>4, <2>5, <2>6
  <2> QED
    BY <2>6
<1> QED
  BY <1>1, <1>2

-----------------------------------------------------------------------------

(* A sequence in which e is put after the first k, or the k-th left out.   *)
Insert(s, k, e) == SubSeq(s, 1, k) \o <<e>> \o SubSeq(s, k + 1, Len(s))
Without(s, k) == SubSeq(s, 1, k - 1) \o SubSeq(s, k + 1, Len(s))

LEMMA Inserted ==
    ASSUME NEW S, NEW s \in Seq(S), NEW e \in S, NEW k \in 0..Len(s)
    PROVE  /\ Insert(s, k, e) \in Seq(S) /\ Len(Insert(s, k, e)) = Len(s) + 1
           /\ \A j \in 1..k : Insert(s, k, e)[j] = s[j]
           /\ Insert(s, k, e)[k + 1] = e
           /\ \A j \in k + 2..Len(s) + 1 : Insert(s, k, e)[j] = s[j - 1]
<1> DEFINE t == Insert(s, k, e)
           a == SubSeq(s, 1, k)
           b == SubSeq(s, k + 1, Len(s))
<1>1. a \in Seq(S) /\ Len(a) = k /\ \A j \in 1..k : a[j] = s[j]
  OBVIOUS
<1>2. b \in Seq(S) /\ Len(b) = Len(s) - k /\ \A j \in 1..Len(s) - k : b[j] = s[k + j]
  OBVIOUS
<1>0. t = a \o <<e>> \o b
  BY DEF Insert
<1> HIDE DEF t, a, b
<1>3. <<e>> \in Seq(S) /\ Len(<<e>>) = 1 /\ <<e>>[1] = e
  OBVIOUS
<1>4. /\ a \o <<e>> \in Seq(S) /\ Len(a \o <<e>>) = k + 1
      /\ \A j \in 1..k : (a \o <<e>>)[j] = s[j]
      /\ (a \o <<e>>)[k + 1] = e
  BY <1>1, <1>3, ConcatProperties
<1>5. t = (a \o <<e>>) \o b
  BY <1>0
<1> DEFINE c == a \o <<e>>
<1> HIDE DEF c
<1>6. /\ c \in Seq(S) /\ Len(c) = k + 1 /\ t = c \o b
      /\ \A j \in 1..k : c[j] = s[j]
      /\ c[k + 1] = e
  BY <1>4, <1>5 DEF c
<1>7. /\ t \in Seq(S) /\ Len(t) = Len(s) + 1
      /\ \A j \in 1..Len(s) + 1 : t[j] = IF j <= k + 1 THEN c[j] ELSE b[j - (k + 1)]
  <2>1. /\ c \o b \in Seq(S) /\ Len(c \o b) = Len(c) + Len(b)
        /\ \A j \in 1..Len(c) + Len(b) :
              (c \o b)[j] = IF j <= Len(c) THEN c[j] ELSE b[j - Len(c)]
    BY <1>2, <1>6, ConcatProperties
  <2>2. Len(c) + Len(b) = Len(s) + 1
    BY <1>2, <1>6
  <2> QED
    BY <1>6, <2>1, <2>2
<1>8. \A j \in k + 2..Len(s) + 1 : t[j] = s[j - 1]
  <2>1. TAKE j \in k + 2..Len(s) + 1
  <2>2. j \in 1..Len(s) + 1 /\ ~(j <= k + 1) /\ j - (k + 1) \in 1..Len(s) - k
        /\ k + (j - (k + 1)) = j - 1
    OBVIOUS
  <2> QED
    BY <1>2, <1>7, <2>2
<1>9. \A j \in 1..k + 1 : t[j] = c[j]
  <2>1. TAKE j \in 1..k + 1
  <2>2. j \in 1..Len(s) + 1 /\ j <= k + 1
    OBVIOUS
  <2> QED
    BY <1>7, <2>2
<1>10. t[k + 1] = e /\ \A j \in 1..k : t[j] = s[j]
  <2>1. k + 1 \in 1..k + 1 /\ \A j \in 1..k : j \in 1..k + 1
    OBVIOUS
  <2> QED
    BY <1>6, <1>9, <2>1
<1> QED
  BY <1>7, <1>8, <1>10 DEF t

LEMMA Removed ==
    ASSUME NEW S, NEW s \in Seq(S), NEW k \in 1..Len(s)
    PROVE  /\ Without(s, k) \in Seq(S) /\ Len(Without(s, k)) = Len(s) - 1
           /\ \A j \in 1..k - 1 : Without(s, k)[j] = s[j]
           /\ \A j \in k..Len(s) - 1 : Without(s, k)[j] = s[j + 1]
<1> DEFINE t == Without(s, k)
           a == SubSeq(s, 1, k - 1)
           b == SubSeq(s, k + 1, Len(s))
<1>1. a \in Seq(S) /\ Len(a) = k - 1 /\ \A j \in 1..k - 1 : a[j] = s[j]
  OBVIOUS
<1>2. b \in Seq(S) /\ Len(b) = Len(s) - k /\ \A j \in 1..Len(s) - k : b[j] = s[k + j]
  OBVIOUS
<1>0. t = a \o b
  BY DEF Without
<1> HIDE DEF t, a, b
<1>3. /\ t \in Seq(S) /\ Len(t) = Len(s) - 1
      /\ \A j \in 1..Len(s) - 1 : t[j] = IF j <= k - 1 THEN a[j] ELSE b[j - (k - 1)]
  <2>1. /\ a \o b \in Seq(S) /\ Len(a \o b) = Len(a) + Len(b)
        /\ \A j \in 1..Len(a) + Len(b) :
              (a \o b)[j] = IF j <= Len(a) THEN a[j] ELSE b[j - Len(a)]
    BY <1>1, <1>2, ConcatProperties
  <2>2. Len(a) + Len(b) = Len(s) - 1
    BY <1>1, <1>2
  <2> QED
    BY <1>0, <1>1, <2>1, <2>2
<1>4. \A j \in k..Len(s) - 1 : t[j] = s[j + 1]
  <2>1. TAKE j \in k..Len(s) - 1
  <2>2. j \in 1..Len(s) - 1 /\ ~(j <= k - 1) /\ j - (k - 1) \in 1..Len(s) - k
        /\ k + (j - (k - 1)) = j + 1
    OBVIOUS
  <2> QED
    BY <1>2, <1>3, <2>2
<1>5. \A j \in 1..k - 1 : t[j] = s[j]
  <2>1. TAKE j \in 1..k - 1
  <2>2. j \in 1..Len(s) - 1 /\ j <= k - 1
    OBVIOUS
  <2> QED
    BY <1>1, <1>3, <2>2
<1> QED
  BY <1>3, <1>4, <1>5 DEF t

(***************************************************************************)
(* The types of reordertp's state.                                         *)
(***************************************************************************)
LEMMA ClockTyped ==
    ASSUME NEW c \in Clock, NEW cr \in Int, NEW wall \in Int
    PROVE  NewRef(c, cr, wall) \in Clock /\ ToWall(c, cr) \in Int
<1>1. /\ c.last \in Int /\ c.cr \in Int /\ c.wall \in Int /\ c.delta \in Int /\ c.space \in Int
      /\ c = [last |-> c.last, cr |-> c.cr, wall |-> c.wall, delta |-> c.delta, space |-> c.space]
  BY DEF Clock
<1>2. Average \in Nat \ {0}
  BY ReorderAssumption DEF ReorderAssumption
<1>3. \A a \in Int : Trunc(a, Average) \in Int
  BY <1>2, SMTT(30) DEF Trunc
<1> DEFINE diff == c.cr + wall - c.wall - cr
           weighed == c.delta * (Average - 1) + diff
<1>4. weighed \in Int
  <2>1. c.delta * (Average - 1) \in Int
    BY <1>1, <1>2, SMTT(30)
  <2> QED
    BY <1>1, <2>1
<1>5. /\ Restarted(cr, wall) \in Clock
      /\ [c EXCEPT !.space = @ + 1] \in Clock
      /\ [c EXCEPT !.space = 0, !.last = cr, !.delta = Trunc(weighed, Average)] \in Clock
  <2>1. PICK delta \in Int : delta = Trunc(weighed, Average)
    BY <1>3, <1>4
  <2>2. \A r \in Clock : \A v \in Int :
            /\ [r EXCEPT !.last = v] \in Clock /\ [r EXCEPT !.cr = v] \in Clock
            /\ [r EXCEPT !.wall = v] \in Clock /\ [r EXCEPT !.delta = v] \in Clock
            /\ [r EXCEPT !.space = v] \in Clock
    BY DEF Clock
  <2>3. Restarted(cr, wall) \in Clock
    <3>1. NoClock \in Clock
      BY DEF NoClock, Clock
    <3> DEFINE r1 == [NoClock EXCEPT !.cr = cr]
               r2 == [r1 EXCEPT !.last = cr]
    <3>2. r1 \in Clock /\ r2 \in Clock /\ [r2 EXCEPT !.wall = wall] \in Clock
      BY <2>2, <3>1
    <3> QED
      BY <3>2 DEF Restarted
  <2>4. [c EXCEPT !.space = c.space + 1] \in Clock
    <3>1. c \in Clock /\ c.space + 1 \in Int
      BY <1>1
    <3> QED
      BY <2>2, <3>1, Zenon
  <2>5. [c EXCEPT !.space = 0, !.last = cr, !.delta = delta] \in Clock
    <3> DEFINE r1 == [c EXCEPT !.space = 0]
               r2 == [r1 EXCEPT !.last = cr]
    <3>1. r1 \in Clock
      <4>1. 0 \in Int
        OBVIOUS
      <4> QED
        BY <2>2, <4>1, Zenon
    <3>2. r2 \in Clock
      BY <2>2, <3>1, Zenon
    <3>3. [r2 EXCEPT !.delta = delta] \in Clock
      BY <2>2, <3>2, Zenon
    <3> QED
      BY <3>3
  <2> QED
    BY <2>1, <2>3, <2>4, <2>5
<1>6. NewRef(c, cr, wall) \in Clock
  <2> DEFINE far == Beyond(cr - c.last, MaxGap)
             off == Beyond(diff - c.delta, MaxJitter)
  <2>1. CASE far
    <3>1. NewRef(c, cr, wall) = Restarted(cr, wall)
      BY <2>1 DEF NewRef
    <3> QED
      BY <1>5, <3>1
  <2>2. CASE ~far /\ off
    <3>1. NewRef(c, cr, wall) \in {Restarted(cr, wall), [c EXCEPT !.space = @ + 1]}
      BY <2>2 DEF NewRef
    <3> QED
      BY <1>5, <3>1
  <2>3. CASE ~far /\ ~off
    <3>1. NewRef(c, cr, wall) = [c EXCEPT !.space = 0, !.last = cr, !.delta = Trunc(weighed, Average)]
      BY <2>3 DEF NewRef
    <3> QED
      BY <1>5, <3>1
  <2> QED
    BY <2>1, <2>2, <2>3
<1> QED
  BY <1>1, <1>6 DEF ToWall

(* The date of a packet, its place, and the buffer with it.                *)
LEMMA RecvTypes ==
    ASSUME BufferTypes, now \in Int, NEW m, m.id \in Nat, NEW d \in Int, PacketRecv(m, d)
    PROVE  /\ clock' \in Clock /\ lastTs' \in Int /\ retxPtr' \in [Pass -> Nat]
           /\ buffer' \in Seq(Block) /\ Len(buffer') = Len(buffer) + 1
           /\ Place(m.id) \in 0..Len(buffer)
           /\ \A j \in 1..Place(m.id) : j \in 1..Len(buffer) /\ buffer'[j] = buffer[j]
           /\ buffer'[Place(m.id) + 1].id = m.id
           /\ buffer'[Place(m.id) + 1].late <=> \E i \in 1..Len(output) : output[i].id >= m.id
           /\ lastTs' = BuildTimestamp((m.id * Period) % TsMod)
           /\ clock' = IF m.marker \/ m.out = 0 THEN clock ELSE NewRef(clock, lastTs', d)
           /\ buffer'[Place(m.id) + 1].date = ToWall(clock', lastTs') + BufferLength
           /\ buffer'[Place(m.id) + 1].undated <=> clock' = NoClock
           /\ \A j \in Place(m.id) + 2..Len(buffer) + 1 : buffer'[j] = buffer[j - 1]
           /\ Place(m.id) # 0 => Place(m.id) \notin NewerThan(m.id)
           /\ \A j \in Place(m.id) + 1..Len(buffer) : j \in NewerThan(m.id)
<1> DEFINE ts == BuildTimestamp((m.id * Period) % TsMod)
           c == IF m.marker \/ m.out = 0 THEN clock ELSE NewRef(clock, ts, d)
           block == [id |-> m.id, date |-> ToWall(c, ts) + BufferLength,
                     late |-> \E i \in 1..Len(output) : output[i].id >= m.id,
                     tight |-> ToWall(c, ts) + BufferLength <= d + RetxDelay,
                     undated |-> c = NoClock]
           k == Place(m.id)
           rest == {0} \union ((1..Len(buffer)) \ NewerThan(m.id))
<1>1. /\ buffer \in Seq(Block) /\ retxPtr \in [Pass -> Nat] /\ clock \in Clock /\ lastTs \in Int
      /\ Len(buffer) \in Nat
  BY DEF BufferTypes
<1>2. ts \in Int
  <2>1. TsMod \in Nat \ {0} /\ Period \in Nat
    BY AggregaAssumption, ReorderAssumption DEF AggregaAssumption, ReorderAssumption
  <2>2. (m.id * Period) \in Nat
    BY <2>1, SMTT(30)
  <2>3. \A x \in Int : x % TsMod \in Int
    BY <2>1, SMTT(30)
  <2>4. (3 * TsMod) \div 2 \in Int /\ TsMod \div 2 \in Int
    BY <2>1
  <2>a. PICK x \in Nat : x = m.id * Period
    BY <2>2
  <2> DEFINE u == x % TsMod
             v == (3 * TsMod) \div 2 + u - (lastTs % TsMod)
  <2>5. u \in Int /\ lastTs % TsMod \in Int
    <3>1. x \in Int
      BY <2>a
    <3> QED
      BY <1>1, <2>3, <3>1
  <2>6. v \in Int
    BY <2>4, <2>5
  <2>7. v % TsMod \in Int
    BY <2>3, <2>6
  <2>8. ts = lastTs + (v % TsMod) - (TsMod \div 2)
    BY <2>a DEF BuildTimestamp
  <2> HIDE DEF ts, v
  <2> QED
    BY <1>1, <2>4, <2>7, <2>8
<1> HIDE DEF ts
<1>3. c \in Clock
  BY <1>1, <1>2, ClockTyped
<1> HIDE DEF c
<1>4. block \in Block
  <2>1. ToWall(c, ts) + BufferLength \in Int
    <3>1. ToWall(c, ts) \in Int
      BY <1>2, <1>3, ClockTyped, Zenon
    <3> QED
      BY <3>1, ReorderAssumption DEF ReorderAssumption
  <2> QED
    BY <2>1 DEF Block
<1>5. rest \in SUBSET (0..Len(buffer)) /\ 0 \in rest
  BY <1>1
<1>6. k \in rest /\ \A j \in rest : j <= k
  <2>1. k = Max(rest)
    BY DEF Place
  <2> HIDE DEF rest
  <2> QED
    BY <1>1, <1>5, <2>1, GreatestOf
<1>7. /\ k \in 0..Len(buffer)
      /\ k # 0 => k \notin NewerThan(m.id)
      /\ \A j \in k + 1..Len(buffer) : j \in NewerThan(m.id)
  <2>1. k \in 0..Len(buffer) /\ (k # 0 => k \notin NewerThan(m.id))
    BY <1>5, <1>6
  <2>2. ASSUME NEW j \in k + 1..Len(buffer), j \notin NewerThan(m.id) PROVE FALSE
    <3>1. j \in rest
      BY <1>1, <2>1, <2>2
    <3>2. j <= k
      BY <1>6, <3>1
    <3> QED
      BY <2>1, <3>2
  <2> QED
    BY <2>1, <2>2
<1>8. /\ lastTs' = ts /\ clock' = c
      /\ buffer' = SubSeq(buffer, 1, k) \o <<block>> \o SubSeq(buffer, k + 1, Len(buffer))
      /\ retxPtr' = [i \in Pass |-> IF retxPtr[i] > k THEN retxPtr[i] + 1 ELSE retxPtr[i]]
  BY DEF PacketRecv, ts, c
<1> HIDE DEF k, block
<1>9. /\ buffer' \in Seq(Block) /\ Len(buffer') = Len(buffer) + 1
      /\ \A j \in 1..k : buffer'[j] = buffer[j]
      /\ buffer'[k + 1] = block
      /\ \A j \in k + 2..Len(buffer) + 1 : buffer'[j] = buffer[j - 1]
  <2>1. /\ buffer \in Seq(Block) /\ block \in Block /\ k \in 0..Len(buffer)
        /\ buffer' = Insert(buffer, k, block)
    BY <1>1, <1>4, <1>7, <1>8 DEF Insert
  <2> DEFINE t == Insert(buffer, k, block)
  <2>2. t \in Seq(Block) /\ Len(t) = Len(buffer) + 1
    BY <2>1, Inserted
  <2>3. \A j \in 1..k : t[j] = buffer[j]
    BY <2>1, Inserted
  <2>4. t[k + 1] = block
    BY <2>1, Inserted
  <2>5. \A j \in k + 2..Len(buffer) + 1 : t[j] = buffer[j - 1]
    BY <2>1, Inserted
  <2> HIDE DEF t
  <2>6. buffer' = t
    BY <2>1 DEF t
  <2> QED
    BY <2>2, <2>3, <2>4, <2>5, <2>6
<1>10. retxPtr' \in [Pass -> Nat]
  BY <1>1, <1>8
<1>11. block.id = m.id /\ (block.late <=> \E i \in 1..Len(output) : output[i].id >= m.id)
       /\ block.date = ToWall(c, ts) + BufferLength /\ (block.undated <=> c = NoClock)
  BY DEF block
<1>12. ts = BuildTimestamp((m.id * Period) % TsMod)
       /\ c = IF m.marker \/ m.out = 0 THEN clock ELSE NewRef(clock, ts, d)
  BY DEF ts, c
<1> QED
  <2>1. \A j \in 1..k : j \in 1..Len(buffer)
    BY <1>1, <1>7
  <2>2. clock' \in Clock /\ lastTs' \in Int
    BY <1>2, <1>3, <1>8
  <2>3. buffer'[k + 1].id = m.id /\ (buffer'[k + 1].late <=> \E i \in 1..Len(output) : output[i].id >= m.id)
    BY <1>9, <1>11
  <2>4. /\ buffer'[k + 1].date = ToWall(clock', lastTs') + BufferLength
        /\ buffer'[k + 1].undated <=> clock' = NoClock
    BY <1>8, <1>9, <1>11, Zenon
  <2>5. /\ lastTs' = BuildTimestamp((m.id * Period) % TsMod)
        /\ clock' = IF m.marker \/ m.out = 0 THEN clock ELSE NewRef(clock, lastTs', d)
    BY <1>8, <1>12, Zenon
  <2> QED
    BY <1>7, <1>9, <1>10, <2>1, <2>2, <2>3, <2>4, <2>5, Zenon DEF k

-----------------------------------------------------------------------------

(* The numbers of two packets tell which is the newer one, as long as they *)
(* are less than half the numbers apart.                                   *)
LEMMA NumbersTell ==
    ASSUME NEW a \in Nat, NEW b \in Nat, a - b < SeqMod \div 2, b - a < SeqMod \div 2
    PROVE  (((3 * SeqMod) \div 2 + SeqNum(a) - SeqNum(b)) % SeqMod) > SeqMod \div 2 <=> a > b
<1>1. SeqMod \in Nat \ {0} /\ Seq0 \in Nat
  BY AggregaAssumption DEF AggregaAssumption
<1> DEFINE h == SeqMod \div 2
<1>2. h \in Nat /\ SeqMod >= 2 * h /\ SeqMod <= 2 * h + 1
  BY <1>1
<1>3. (3 * SeqMod) \div 2 = SeqMod + h
  BY <1>1
<1>4. ASSUME NEW n \in Nat
      PROVE  \E q \in Int : Seq0 + n = SeqMod * q + SeqNum(n) /\ SeqNum(n) \in Int
  <2>1. PICK x \in Int : x = Seq0 + n
    BY <1>1
  <2>2. x = SeqMod * (x \div SeqMod) + (x % SeqMod) /\ x \div SeqMod \in Int /\ x % SeqMod \in Int
    BY <1>1, SMTT(30)
  <2> QED
    BY <2>1, <2>2 DEF SeqNum
<1>5. PICK p \in Int : Seq0 + a = SeqMod * p + SeqNum(a) /\ SeqNum(a) \in Int
  BY <1>4
<1>6. PICK q \in Int : Seq0 + b = SeqMod * q + SeqNum(b) /\ SeqNum(b) \in Int
  BY <1>4
<1> DEFINE r == h + a - b
<1>7. r \in 0..(SeqMod - 1)
  BY <1>1, <1>2
<1>8. (3 * SeqMod) \div 2 + SeqNum(a) - SeqNum(b) = SeqMod * (1 + q - p) + r
  <2>1. SeqMod * (1 + q - p) = SeqMod + SeqMod * q - SeqMod * p
    BY <1>1, SMTT(30)
  <2>2. SeqMod * q \in Int /\ SeqMod * p \in Int
    BY <1>1, SMTT(30)
  <2>3. PICK x \in Int, y \in Int : x = SeqMod * q /\ y = SeqMod * p
    BY <2>2
  <2>4. SeqNum(a) = Seq0 + a - y /\ SeqNum(b) = Seq0 + b - x
    BY <1>1, <1>5, <1>6, <2>3
  <2>5. SeqMod * (1 + q - p) = SeqMod + x - y
    BY <2>1, <2>3
  <2>6. h \in Int /\ SeqMod \in Int /\ Seq0 \in Int
    BY <1>1, <1>2
  <2> HIDE DEF h
  <2>7. (SeqMod + h) + (Seq0 + a - y) - (Seq0 + b - x) = (SeqMod + x - y) + (h + a - b)
    BY <2>6
  <2> QED
    BY <1>3, <2>4, <2>5, <2>7
<1>9. (SeqMod * (1 + q - p) + r) % SeqMod = r
  <2>1. 1 + q - p \in Int
    OBVIOUS
  <2> HIDE DEF r
  <2> QED
    BY <1>1, <1>7, <2>1, RemainderOf
<1>10. r > h <=> a > b
  BY <1>2
<1> QED
  BY <1>8, <1>9, <1>10

(* A packet that is received gets its place.                               *)
LEMMA RecvKeepsOrder ==
    ASSUME OrderInv, Near', now \in Int, NEW m, m.id \in Nat, NEW d \in Int, PacketRecv(m, d),
           output' = output
    PROVE  Sorted' /\ SentBefore' /\ InOrder'
<1> DEFINE k == Place(m.id)
<1>1. /\ buffer' \in Seq(Block) /\ Len(buffer) \in Nat /\ Len(buffer') = Len(buffer) + 1
      /\ k \in 0..Len(buffer)
      /\ \A j \in 1..k : j \in 1..Len(buffer) /\ buffer'[j] = buffer[j]
      /\ buffer'[k + 1].id = m.id
      /\ buffer'[k + 1].late <=> \E i \in 1..Len(output) : output[i].id >= m.id
      /\ \A j \in k + 2..Len(buffer) + 1 : buffer'[j] = buffer[j - 1]
      /\ k # 0 => k \notin NewerThan(m.id)
      /\ \A j \in k + 1..Len(buffer) : j \in NewerThan(m.id)
  BY RecvTypes DEF OrderInv, BufferTypes
<1> HIDE DEF k
<1>0. \A j \in 1..Len(buffer) : buffer[j].id \in Nat
  <2> TAKE j \in 1..Len(buffer)
  <2>1. buffer[j] \in Block
    BY DEF OrderInv, BufferTypes
  <2> QED
    BY <2>1 DEF Block
<1>2. ASSUME NEW j \in 1..Len(buffer)
      PROVE  j \in NewerThan(m.id) <=> buffer[j].id > m.id
  <2>1. PICK i \in 1..Len(buffer') : buffer'[i].id = buffer[j].id
    <3>1. CASE j <= k
      BY <1>1, <3>1
    <3>2. CASE j > k
      <4>1. j + 1 \in k + 2..Len(buffer) + 1 /\ (j + 1) - 1 = j /\ j + 1 \in 1..Len(buffer')
        BY <1>1, <3>2
      <4>2. buffer'[j + 1] = buffer[j]
        BY <1>1, <4>1
      <4> QED
        BY <4>1, <4>2
    <3> QED
      BY <1>1, <3>1, <3>2
  <2>2. k + 1 \in 1..Len(buffer')
    BY <1>1
  <2>3. buffer[j].id - m.id < SeqMod \div 2 /\ m.id - buffer[j].id < SeqMod \div 2
    BY <1>1, <2>1, <2>2 DEF Near
  <2>4. buffer[j].id \in Nat
    BY <1>0
  <2> QED
    BY <2>3, <2>4, NumbersTell DEF NewerThan, Number
<1>3. \A j \in 1..k : buffer[j].id <= m.id
  <2>1. ASSUME NEW j \in 1..k PROVE buffer[j].id <= m.id
    <3>1. k \in 1..Len(buffer) /\ j \in 1..Len(buffer)
      BY <1>1
    <3>2. buffer[k].id <= m.id
      BY <1>0, <1>1, <1>2, <3>1
    <3>3. j < k => buffer[j].id <= buffer[k].id
      BY <3>1 DEF OrderInv, Sorted
    <3>4. buffer[j].id \in Nat /\ buffer[k].id \in Nat
      BY <1>0, <3>1
    <3> QED
      BY <1>1, <3>1, <3>2, <3>3, <3>4
  <2> QED
    BY <2>1
<1>4. \A j \in k + 1..Len(buffer) : buffer[j].id >= m.id
  <2> TAKE j \in k + 1..Len(buffer)
  <2>1. j \in 1..Len(buffer)
    BY <1>1
  <2>2. buffer[j].id > m.id /\ buffer[j].id \in Nat
    BY <1>0, <1>1, <1>2, <2>1
  <2> QED
    BY <2>2
<1>5. Sorted'
  <2> SUFFICES ASSUME NEW i \in 1..Len(buffer) + 1, NEW j \in 1..Len(buffer) + 1, i < j
               PROVE  buffer'[i].id <= buffer'[j].id
    BY <1>1 DEF Sorted
  <2>1. CASE j <= k
    BY <1>1, <2>1 DEF OrderInv, Sorted
  <2>2. CASE j = k + 1
    <3>1. i \in 1..k
      BY <1>1, <2>2
    <3>2. buffer'[i] = buffer[i] /\ buffer[i].id <= m.id
      BY <1>1, <1>3, <3>1
    <3> QED
      BY <1>1, <2>2, <3>2
  <2>3. CASE j > k + 1
    <3>1. buffer'[j] = buffer[j - 1] /\ j - 1 \in k + 1..Len(buffer) /\ j - 1 \in 1..Len(buffer)
      BY <1>1, <2>3
    <3>2. CASE i <= k
      <4>1. buffer'[i] = buffer[i] /\ i \in 1..Len(buffer) /\ i < j - 1
        BY <1>1, <2>3, <3>2
      <4> QED
        BY <3>1, <4>1 DEF OrderInv, Sorted
    <3>3. CASE i = k + 1
      BY <1>1, <1>4, <3>1, <3>3
    <3>4. CASE i > k + 1
      <4>1. i \in k + 2..Len(buffer) + 1 /\ i - 1 \in 1..Len(buffer) /\ i - 1 < j - 1
        BY <1>1, <2>3, <3>4
      <4>2. buffer'[i] = buffer[i - 1]
        BY <1>1, <4>1
      <4> QED
        BY <3>1, <4>1, <4>2 DEF OrderInv, Sorted
    <3> QED
      BY <1>1, <3>2, <3>3, <3>4
  <2> QED
    BY <1>1, <2>1, <2>2, <2>3
<1>6. SentBefore'
  <2> SUFFICES ASSUME NEW i \in 1..Len(output), NEW j \in 1..Len(buffer) + 1
               PROVE  buffer'[j].late \/ output[i].id <= buffer'[j].id
    BY <1>1 DEF SentBefore
  <2>1. CASE j <= k
    BY <1>1, <2>1 DEF OrderInv, SentBefore
  <2>2. CASE j = k + 1
    <3>1. output[i].id \in Int
      <4>1. output \in Seq(Block)
        BY DEF OrderInv, BufferTypes
      <4>2. output[i] \in Block
        BY <4>1
      <4> QED
        BY <4>2 DEF Block
    <3> QED
      BY <1>1, <2>2, <3>1
  <2>3. CASE j > k + 1
    <3>1. buffer'[j] = buffer[j - 1] /\ j - 1 \in 1..Len(buffer)
      BY <1>1, <2>3
    <3> QED
      BY <3>1 DEF OrderInv, SentBefore
  <2> QED
    BY <1>1, <2>1, <2>2, <2>3
<1>7. InOrder'
  BY DEF OrderInv, InOrder
<1> QED
  BY <1>5, <1>6, <1>7

-----------------------------------------------------------------------------

(* Packets go out from the front.                                          *)
LEMMA SendKeepsOrder ==
    ASSUME OrderInv, PacketSend
    PROVE  OrderInv'
<1>1. /\ buffer \in Seq(Block) /\ output \in Seq(Block) /\ buffer # <<>>
      /\ Len(buffer) \in Nat \ {0} /\ Len(output) \in Nat
      /\ retxPtr \in [Pass -> Nat]
  BY EmptySeq DEF OrderInv, BufferTypes, PacketSend
<1>2. /\ output' = Append(output, buffer[1]) /\ buffer' = Tail(buffer)
      /\ retxPtr' = [i \in Pass |-> IF retxPtr[i] = 0 THEN 0 ELSE retxPtr[i] - 1]
      /\ UNCHANGED <<clock, lastTs, date>>
  BY DEF PacketSend, clocks
<1>3. /\ buffer' \in Seq(Block) /\ Len(buffer') = Len(buffer) - 1
      /\ \A j \in 1..Len(buffer) - 1 : buffer'[j] = buffer[j + 1]
  BY <1>1, <1>2, HeadTailProperties
<1>4. 1 \in 1..Len(buffer) /\ buffer[1] \in Block
  BY <1>1
<1>5. /\ output' \in Seq(Block) /\ Len(output') = Len(output) + 1
      /\ \A i \in 1..Len(output) : output'[i] = output[i]
      /\ output'[Len(output) + 1] = buffer[1]
  BY <1>1, <1>2, <1>4, AppendProperties
<1>6. retxPtr' \in [Pass -> Nat]
  BY <1>1, <1>2
<1>7. BufferTypes'
  BY <1>2, <1>3, <1>5, <1>6 DEF OrderInv, BufferTypes
<1>8. Sorted'
  <2> SUFFICES ASSUME NEW i \in 1..Len(buffer) - 1, NEW j \in 1..Len(buffer) - 1, i < j
               PROVE  buffer'[i].id <= buffer'[j].id
    BY <1>3 DEF Sorted
  <2>1. i + 1 \in 1..Len(buffer) /\ j + 1 \in 1..Len(buffer) /\ i + 1 < j + 1
    BY <1>1
  <2> QED
    BY <1>3, <2>1 DEF OrderInv, Sorted
<1>9. SentBefore'
  <2> SUFFICES ASSUME NEW i \in 1..Len(output) + 1, NEW j \in 1..Len(buffer) - 1
               PROVE  buffer'[j].late \/ output'[i].id <= buffer'[j].id
    BY <1>3, <1>5 DEF SentBefore
  <2>1. j + 1 \in 1..Len(buffer) /\ 1 < j + 1 /\ buffer'[j] = buffer[j + 1]
    BY <1>1, <1>3
  <2>2. CASE i \in 1..Len(output)
    BY <1>5, <2>1, <2>2 DEF OrderInv, SentBefore
  <2>3. CASE i = Len(output) + 1
    BY <1>4, <1>5, <2>1, <2>3 DEF OrderInv, Sorted
  <2> QED
    BY <1>1, <2>2, <2>3
<1>10. InOrder'
  <2> SUFFICES ASSUME NEW i \in 1..Len(output) + 1, NEW j \in 1..Len(output) + 1, i < j,
                      output'[i].id > output'[j].id
               PROVE  output'[j].late
    BY <1>5 DEF InOrder
  <2>1. CASE j \in 1..Len(output)
    <3>1. i \in 1..Len(output)
      BY <1>1, <2>1
    <3> QED
      BY <1>5, <2>1, <3>1 DEF OrderInv, InOrder
  <2>2. CASE j = Len(output) + 1
    <3>1. i \in 1..Len(output)
      BY <1>1, <2>2
    <3>2. buffer[1].late \/ output[i].id <= buffer[1].id
      BY <1>4, <3>1 DEF OrderInv, SentBefore
    <3>3. output[i].id \in Nat /\ buffer[1].id \in Nat
      <4>1. output[i] \in Block
        BY <1>1, <3>1
      <4> QED
        BY <1>4, <4>1 DEF Block
    <3> QED
      BY <1>5, <2>2, <3>1, <3>2, <3>3
  <2>3. j \in 1..Len(output) \/ j = Len(output) + 1
    <3>1. PICK n \in Nat : n = Len(output)
      BY <1>1
    <3> QED
      BY <3>1
  <2> QED
    BY <2>1, <2>2, <2>3, Zenon
<1> QED
  BY <1>7, <1>8, <1>9, <1>10 DEF OrderInv

(* The second of two packets with one number is dropped.                   *)
LEMMA DuplicateKeepsOrder ==
    ASSUME OrderInv, RetxDuplicate
    PROVE  OrderInv'
<1>1. /\ buffer \in Seq(Block) /\ Len(buffer) \in Nat /\ retxPtr \in [Pass -> Nat]
      /\ Current \in 2..Len(buffer)
  BY DEF OrderInv, BufferTypes, RetxDuplicate, Walk, InHorizon, SameNumber, Current
<1> DEFINE k == Current
<1>2. /\ buffer' = Without(buffer, k)
      /\ retxPtr' = [i \in Pass |-> IF retxPtr[i] >= k THEN retxPtr[i] - 1 ELSE retxPtr[i]]
      /\ UNCHANGED <<clock, lastTs, date, output>>
  BY DEF RetxDuplicate, Without, clocks
<1> HIDE DEF k
<1>3. k \in 2..Len(buffer) /\ k \in 1..Len(buffer)
  BY <1>1 DEF k
<1>4. buffer' \in Seq(Block) /\ Len(buffer') = Len(buffer) - 1
  BY <1>1, <1>2, <1>3, Removed
<1>5. \A j \in 1..k - 1 : buffer'[j] = buffer[j]
  BY <1>1, <1>2, <1>3, Removed
<1>6. \A j \in k..Len(buffer) - 1 : buffer'[j] = buffer[j + 1]
  BY <1>1, <1>2, <1>3, Removed
<1>7. retxPtr' \in [Pass -> Nat]
  BY <1>1, <1>2, <1>3
<1>8. BufferTypes'
  BY <1>2, <1>4, <1>7 DEF OrderInv, BufferTypes
<1>9. Sorted'
  <2> SUFFICES ASSUME NEW i \in 1..Len(buffer) - 1, NEW j \in 1..Len(buffer) - 1, i < j
               PROVE  buffer'[i].id <= buffer'[j].id
    BY <1>4 DEF Sorted
  <2>1. CASE j < k
    <3>1. i \in 1..k - 1 /\ j \in 1..k - 1 /\ i \in 1..Len(buffer) /\ j \in 1..Len(buffer)
      BY <1>1, <1>3, <2>1
    <3> QED
      BY <1>5, <3>1 DEF OrderInv, Sorted
  <2>2. CASE i < k /\ j >= k
    <3>1. i \in 1..k - 1 /\ j \in k..Len(buffer) - 1 /\ i \in 1..Len(buffer) /\ j + 1 \in 1..Len(buffer)
          /\ i < j + 1
      BY <1>1, <1>3, <2>2
    <3> QED
      BY <1>5, <1>6, <3>1 DEF OrderInv, Sorted
  <2>3. CASE i >= k
    <3>1. i \in k..Len(buffer) - 1 /\ j \in k..Len(buffer) - 1 /\ i + 1 \in 1..Len(buffer)
          /\ j + 1 \in 1..Len(buffer) /\ i + 1 < j + 1
      BY <1>1, <1>3, <2>3
    <3> QED
      BY <1>6, <3>1 DEF OrderInv, Sorted
  <2> QED
    BY <1>3, <2>1, <2>2, <2>3
<1>10. SentBefore'
  <2> SUFFICES ASSUME NEW i \in 1..Len(output), NEW j \in 1..Len(buffer) - 1
               PROVE  buffer'[j].late \/ output[i].id <= buffer'[j].id
    BY <1>2, <1>4 DEF SentBefore
  <2>1. CASE j < k
    <3>1. j \in 1..k - 1 /\ j \in 1..Len(buffer)
      BY <1>1, <1>3, <2>1
    <3> QED
      BY <1>5, <3>1 DEF OrderInv, SentBefore
  <2>2. CASE j >= k
    <3>1. j \in k..Len(buffer) - 1 /\ j + 1 \in 1..Len(buffer)
      BY <1>1, <1>3, <2>2
    <3> QED
      BY <1>6, <3>1 DEF OrderInv, SentBefore
  <2> QED
    BY <1>3, <2>1, <2>2
<1>11. InOrder'
  BY <1>2 DEF OrderInv, InOrder
<1> QED
  BY <1>8, <1>9, <1>10, <1>11 DEF OrderInv

(* What leaves the buffer and the output as they are.                      *)
LEMMA SameOrder ==
    ASSUME OrderInv, UNCHANGED <<buffer, output, clock, lastTs>>, retxPtr' \in [Pass -> Nat],
           date' \in Int
    PROVE  OrderInv'
BY DEF OrderInv, BufferTypes, Sorted, SentBefore, InOrder

(* A program just started has an empty buffer.                             *)
LEMMA StartedInOrder ==
    /\ Init => OrderInv
    /\ ReorderRestart => OrderInv'
<1>1. /\ <<>> \in Seq(Block) /\ Len(<<>>) = 0 /\ NoClock \in Clock /\ TsMod \in Int
      /\ [i \in Pass |-> 0] \in [Pass -> Nat]
  BY EmptySeq, ReorderAssumption DEF NoClock, Clock, ReorderAssumption
<1>2. ASSUME Init PROVE OrderInv
  <2>1. /\ buffer = <<>> /\ output = <<>> /\ clock = NoClock /\ lastTs = TsMod /\ date = 0
        /\ retxPtr = [i \in Pass |-> 0]
    BY <1>2 DEF Init, ReorderInit, Started
  <2> QED
    BY <1>1, <2>1 DEF OrderInv, BufferTypes, Sorted, SentBefore, InOrder
<1>3. ASSUME ReorderRestart PROVE OrderInv'
  <2>1. /\ buffer' = <<>> /\ output' = <<>> /\ clock' = NoClock /\ lastTs' = TsMod /\ date' = 0
        /\ retxPtr' = [i \in Pass |-> 0]
    BY <1>3 DEF ReorderRestart, Started
  <2> QED
    BY <1>1, <2>1 DEF OrderInv, BufferTypes, Sorted, SentBefore, InOrder
<1> QED
  BY <1>2, <1>3

-----------------------------------------------------------------------------

(* What is on the links was read from the input, and requests ask for some *)
(* number of packets.                                                      *)
LEMMA LinksAtFirst == Init => Links
BY DEF Init, AggregaInit, Links

(* A packet of the input is put on a link; no request is.                  *)
LEMMA ReadInputLinks ==
    ASSUME Dates, Links, ReadInput
    PROVE  Links'
<1>1. /\ nbIn \in Nat /\ nbIn' = nbIn + 1 /\ down' = down
      /\ up' = up \union {[id |-> nbIn + 1, marker |-> FALSE, out |-> NextOutput, at |-> now]}
  BY DEF Dates, ReadInput
<1>2. \A m \in up : m.id \in 1..nbIn
  BY DEF Links
<1>3. \A m \in up' : m.id \in 1..nbIn + 1
  BY <1>1, <1>2
<1> QED
  BY <1>1, <1>3 DEF Links

(* What is sent again was read, since it is in the queue.                  *)
LEMMA RetxHandleLinks ==
    ASSUME Dates, Suffix, Links, NEW r \in down, RetxHandle(r)
    PROVE  Links'
<1>1. /\ nbIn \in Nat /\ nbIn' = nbIn /\ down' \subseteq down
      /\ up' \subseteq up \union Again(r)
  BY DEF Dates, RetxHandle
<1>2. \A k \in 1..Len(retx) : retx[k].id \in 1..nbIn
  <2> TAKE k \in 1..Len(retx)
  <2>1. /\ Len(retx) \in Nat /\ Len(retx) <= nbIn /\ retx[k].id = Place_1 + k
    BY DEF Suffix
  <2> QED
    BY <1>1, <2>1 DEF Place_1
<1>3. \A i \in 1..Len(Asked(r)) : Asked(r)[i].id \in 1..nbIn
  <2>1. retx \in Seq(Entry) /\ r.num \in Nat
    BY DEF Suffix, Links
  <2>2. \A i \in 1..Len(Asked(r)) : \E k \in 1..Len(retx) : Asked(r)[i] = retx[k]
    BY <2>1, AskedIsQueued
  <2> QED
    BY <1>2, <2>2
<1>4. \A m \in Again(r) : m.id \in 1..nbIn
  <2> TAKE m \in Again(r)
  <2>1. PICK b \in {Asked(r)[i] : i \in 1..Len(Asked(r))} : m.id = b.id
    BY DEF Again
  <2> QED
    BY <1>3, <2>1
<1> QED
  BY <1>1, <1>4 DEF Links

(* A request asks for as many packets as are missing.                      *)
LEMMA RetxGapLinks ==
    ASSUME BufferTypes, Links, Request
    PROVE  Links'
<1>1. Current \in 2..Len(buffer)
  BY DEF BufferTypes, Request, RetxGap, Walk, InHorizon, Gap, Current
<1>2. Missing \in Nat
  <2>1. \A k \in 1..Len(buffer) : Number(k) \in Int
    <3> TAKE k \in 1..Len(buffer)
    <3>1. buffer[k] \in Block
      BY DEF BufferTypes
    <3>2. buffer[k].id \in Nat
      BY <3>1 DEF Block
    <3>3. PICK x \in Nat : x = Seq0 + buffer[k].id
      BY <3>2, AggregaAssumption DEF AggregaAssumption
    <3>4. x % SeqMod \in Int
      BY AggregaAssumption DEF AggregaAssumption
    <3> QED
      BY <3>3, <3>4 DEF Number, SeqNum
  <2>2. Current \in 1..Len(buffer) /\ Current - 1 \in 1..Len(buffer)
    BY <1>1
  <2>3. Number(Current) \in Int /\ Number(Current - 1) \in Int
    BY <2>1, <2>2
  <2>4. PICK x \in Int : x = SeqMod + Number(Current) - (Number(Current - 1) + 1)
    BY <2>3, AggregaAssumption DEF AggregaAssumption
  <2>5. x % SeqMod \in Nat
    BY AggregaAssumption DEF AggregaAssumption
  <2> QED
    BY <2>4, <2>5 DEF Missing
<1>3. \A r \in down' \ down : r.num = Missing
  BY DEF Request, RetxGap
<1>4. up' = up /\ nbIn' = nbIn
  BY DEF Request, aggregaVars
<1> QED
  BY <1>2, <1>3, <1>4 DEF Links

(* The other steps put nothing on the links.                               *)
LEMMA LinksSteps ==
    ASSUME Next
    PROVE  \/ ReadInput \/ (\E r \in down : RetxHandle(r)) \/ Request
           \/ up' \subseteq up /\ down' \subseteq down /\ nbIn' = nbIn
<1>1. CASE Aggrega
  BY <1>1 DEF Aggrega, AggregaStep, ReadPart, RetxPart
<1>2. CASE Reorder
  BY <1>2 DEF Reorder, aggregaVars
<1>3. CASE Request
  BY <1>3
<1>4. CASE \E m \in up : Arrive(m)
  BY <1>4 DEF Arrive, aggregaVars
<1>5. CASE Lose
  BY <1>5 DEF Lose, aggregaVars
<1>6. CASE Stray
  BY <1>6 DEF Stray, RetxInvalid
<1>7. CASE Restart
  BY <1>7 DEF Restart, aggregaVars
<1>8. CASE Tick
  BY <1>8 DEF Tick, aggregaVars
<1>9. CASE Finished
  BY <1>9 DEF Finished, linkVars, aggregaVars
<1> QED
  BY <1>1, <1>2, <1>3, <1>4, <1>5, <1>6, <1>7, <1>8, <1>9 DEF Next

LEMMA LinksStep ==
    ASSUME QueueInv, BufferTypes, Links, [Next]_linkVars
    PROVE  Links'
<1>1. Dates
  BY DEF QueueInv
<1>2. CASE ReadInput
  BY <1>1, <1>2, ReadInputLinks
<1>3. CASE \E r \in down : RetxHandle(r)
  <2>1. PICK r \in down : RetxHandle(r)
    BY <1>3
  <2>2. Suffix
    BY <2>1 DEF QueueInv, RetxHandle
  <2> QED
    BY <1>1, <2>1, <2>2, RetxHandleLinks
<1>4. CASE Request
  BY <1>4, RetxGapLinks
<1>5. CASE up' \subseteq up /\ down' \subseteq down /\ nbIn' = nbIn
  BY <1>5 DEF Links
<1>6. CASE UNCHANGED linkVars
  BY <1>5, <1>6 DEF linkVars, aggregaVars
<1> QED
  BY <1>2, <1>3, <1>4, <1>5, <1>6, LinksSteps

-----------------------------------------------------------------------------

(* The steps of the program that touch neither link keep the order.        *)
LEMMA LocalKeepsOrder ==
    ASSUME OrderInv, now \in Int, ReorderLocal
    PROVE  OrderInv'
<1>1. retxPtr \in [Pass -> Nat] /\ date \in Int
  BY DEF OrderInv, BufferTypes
<1>2. CASE PacketSend
  BY <1>2, SendKeepsOrder
<1>3. CASE RetxDuplicate
  BY <1>3, DuplicateKeepsOrder
<1>4. CASE RetxFollows
  <2>1. UNCHANGED <<buffer, output, clock, lastTs>> /\ date' = date
    BY <1>4 DEF RetxFollows, clocks
  <2>2. retxPtr' \in [Pass -> Nat]
    BY <1>1, <1>4 DEF RetxFollows, Walk, Current
  <2> QED
    BY <1>1, <2>1, <2>2, SameOrder
<1>5. CASE NothingDue \/ RetxNextPass \/ Timeout \/ TimedOut \/ AllRead
  <2>1. UNCHANGED <<buffer, output, clock, lastTs, retxPtr>>
    BY <1>5 DEF NothingDue, RetxNextPass, Timeout, TimedOut, AllRead, position, clocks
  <2>2. date' \in {date, now}
    BY <1>5 DEF NothingDue, RetxNextPass, Timeout, TimedOut, AllRead
  <2> QED
    BY <1>1, <2>1, <2>2, SameOrder
<1> QED
  BY <1>2, <1>3, <1>4, <1>5 DEF ReorderLocal

(* A packet that comes keeps it, if its number tells where it belongs.     *)
LEMMA ArriveKeepsOrder ==
    ASSUME OrderInv, Near', Links, now \in Int, NEW m \in up, Arrive(m)
    PROVE  OrderInv'
<1>1. BufferTypes /\ m.id \in Nat
  BY DEF OrderInv, Links
<1>2. PICK d \in Int : d = date' /\ PacketRecv(m, d)
  BY <1>1 DEF Arrive, Receive, BufferTypes
<1>3. output' = output
  BY DEF Arrive, Receive
<1>4. /\ clock' \in Clock /\ lastTs' \in Int /\ retxPtr' \in [Pass -> Nat]
      /\ buffer' \in Seq(Block)
  BY <1>1, <1>2, RecvTypes
<1>5. BufferTypes'
  BY <1>1, <1>2, <1>3, <1>4 DEF BufferTypes
<1>6. Sorted' /\ SentBefore' /\ InOrder'
  BY <1>1, <1>2, <1>3, RecvKeepsOrder
<1> QED
  BY <1>5, <1>6 DEF OrderInv

LEMMA OrderStep ==
    ASSUME QueueInv, Links, OrderInv, Near', [Next]_linkVars
    PROVE  OrderInv'
<1>1. now \in Int /\ retxPtr \in [Pass -> Nat] /\ date \in Int
  BY DEF QueueInv, Dates, OrderInv, BufferTypes
<1>2. ASSUME UNCHANGED reorderVars PROVE OrderInv'
  <2>1. UNCHANGED <<buffer, output, clock, lastTs>> /\ UNCHANGED <<retxPtr, date>>
    BY <1>2 DEF reorderVars, position, clocks
  <2> QED
    BY <1>1, <2>1, SameOrder
<1>3. CASE Reorder
  BY <1>1, <1>3, LocalKeepsOrder DEF Reorder
<1>4. CASE Request
  <2>1. UNCHANGED <<buffer, output, clock, lastTs>> /\ date' = date
    BY <1>4 DEF Request, RetxGap, clocks
  <2>2. retxPtr' \in [Pass -> Nat]
    BY <1>1, <1>4 DEF Request, RetxGap, Walk, Current
  <2> QED
    BY <1>1, <2>1, <2>2, SameOrder
<1>5. CASE \E m \in up : Arrive(m)
  BY <1>1, <1>5, ArriveKeepsOrder
<1>6. CASE Restart
  BY <1>6, StartedInOrder DEF Restart
<1>7. CASE Aggrega \/ Lose \/ Stray
  BY <1>2, <1>7 DEF Aggrega, Lose, Stray
<1>8. CASE Tick \/ Finished \/ UNCHANGED linkVars
  BY <1>2, <1>8 DEF Tick, Finished, linkVars
<1> QED
  BY <1>3, <1>4, <1>5, <1>6, <1>7, <1>8 DEF Next

(* The invariant: the queue, the links and the order.                      *)
LinkInv == QueueInv /\ Links /\ OrderInv

LEMMA LinkInvInit == Init => LinkInv
BY QueueInvInit, LinksAtFirst, StartedInOrder DEF LinkInv

LEMMA LinkInvStep == LinkInv /\ Near' /\ [Next]_linkVars => LinkInv'
<1> SUFFICES ASSUME LinkInv, Near', [Next]_linkVars
             PROVE  LinkInv'
  OBVIOUS
<1>1. QueueInv'
  BY QueueInvStep DEF LinkInv
<1>2. Links'
  BY LinksStep DEF LinkInv, OrderInv
<1>3. OrderInv'
  BY OrderStep DEF LinkInv
<1> QED
  BY <1>1, <1>2, <1>3 DEF LinkInv

(***************************************************************************)
(* What comes out of reordertp comes in order, whatever the links do to    *)
(* the packets and however often the program is killed, as long as the     *)
(* packets it holds are less than half the numbers apart: PacketRecv goes  *)
(* by the difference of two 16-bit numbers.                                *)
(***************************************************************************)
THEOREM SentInOrder == Spec /\ []Near => []InOrder
<1>1. LinkInv => InOrder
  BY DEF LinkInv, OrderInv
<1> QED
  BY <1>1, LinkInvInit, LinkInvStep, PTL DEF Spec

-----------------------------------------------------------------------------

(* A multiple of the modulus does not change the remainder.                *)
LEMMA SameRemainder ==
    ASSUME NEW m \in Nat \ {0}, NEW x \in Int, NEW k \in Int, x \in 0..m - 1
    PROVE  (x + m * k) % m = x
<1>1. x + m * k = m * k + x
  <2>1. m * k \in Int
    BY SMTT(30)
  <2> QED
    BY <2>1
<1>2. (m * k + x) % m = x
  BY RemainderOf
<1> QED
  BY <1>1, <1>2

(* A number and its remainder are a multiple of the modulus apart.        *)
LEMMA NumberIs ==
    ASSUME NEW m \in Nat \ {0}, NEW x \in Int
    PROVE  \E q, z \in Int : z = m * q /\ x % m = x - z /\ x % m \in 0..m - 1
<1>1. PICK q \in Int : q = x \div m
  BY SMTT(30)
<1>2. x % m \in 0..m - 1 /\ x = m * q + (x % m)
  BY <1>1, SMTT(30)
<1>3. PICK z \in Int : z = m * q
  BY SMTT(30)
<1>4. x % m = x - z
  BY <1>2, <1>3
<1> QED
  BY <1>2, <1>3, <1>4

(* A request for what is missing between packets a and b asks for no       *)
(* packet up to a, from b on, or a whole round of numbers from there.      *)
LEMMA NotWanted ==
    ASSUME NEW a \in Nat, NEW b \in Nat, NEW n \in Nat, a < b, b - a < SeqMod,
           n <= a => n > b - SeqMod, n > a => b <= n /\ n - a < SeqMod
    PROVE  ~ ((SeqNum(n) - ((SeqNum(a) + 1) % SeqMod)) % SeqMod
                  < (SeqMod + SeqNum(b) - (SeqNum(a) + 1)) % SeqMod)
<1>1. PICK m \in Nat \ {0} : m = SeqMod
  BY AggregaAssumption DEF AggregaAssumption
<1>2. PICK s \in Nat : s = Seq0
  BY AggregaAssumption DEF AggregaAssumption
<1>3. \A x \in Nat : \E q, z \in Int : z = m * q /\ SeqNum(x) = s + x - z
  <2> TAKE x \in Nat
  <2>1. PICK y \in Int : y = s + x
    OBVIOUS
  <2>2. PICK q, z \in Int : z = m * q /\ y % m = y - z
    BY NumberIs
  <2>3. SeqNum(x) = y % m
    BY <1>1, <1>2, <2>1 DEF SeqNum
  <2>4. SeqNum(x) = s + x - z
    BY <2>1, <2>2, <2>3
  <2> QED
    BY <2>2, <2>4
<1>4. PICK qa, za \in Int : za = m * qa /\ SeqNum(a) = s + a - za
  BY <1>3
<1>5. PICK qb, zb \in Int : zb = m * qb /\ SeqNum(b) = s + b - zb
  BY <1>3
<1>6. PICK qn, zn \in Int : zn = m * qn /\ SeqNum(n) = s + n - zn
  BY <1>3
<1>7. PICK na \in Int : na = SeqNum(a) /\ na = s + a - za
  BY <1>4
<1>8. PICK nb \in Int : nb = SeqNum(b) /\ nb = s + b - zb
  BY <1>5
<1>9. PICK nn \in Int : nn = SeqNum(n) /\ nn = s + n - zn
  BY <1>6
<1>10. PICK w \in Int : w = na + 1
  OBVIOUS
<1>11. PICK q1, z1 \in Int : z1 = m * q1 /\ w % m = w - z1
  BY NumberIs
<1>A. PICK r1 \in Int : r1 = w - z1
  OBVIOUS
<1>b. r1 = (na + 1) % m
  BY <1>10, <1>11, <1>A
<1>12. \A i, j \in Int : m * i \in Int /\ m * (i + j) = m * i + m * j /\ m * (i - j) = m * i - m * j
  BY SMTT(30)
<1>13. (m + nb - (na + 1)) % m = b - a - 1
  <2>1. PICK k \in Int : k = 1 + qa - qb
    OBVIOUS
  <2>2. m * k = m + za - zb
    <3>1. m * k = m * (1 + qa) - m * qb /\ m * (1 + qa) = m * 1 + m * qa /\ m * 1 = m
      BY <1>12, <2>1
    <3> QED
      BY <1>4, <1>5, <3>1
  <2>3. m + nb - (na + 1) = (b - a - 1) + m * k
    BY <1>7, <1>8, <2>2
  <2>4. PICK d \in Int : d = b - a - 1
    OBVIOUS
  <2>5. d \in 0..m - 1
    BY <1>1, <2>4
  <2>6. (d + m * k) % m = d
    BY <2>5, SameRemainder
  <2> QED
    BY <2>3, <2>4, <2>6
<1>14. PICK k \in Int : nn - r1 = (n - a - 1) + m * k
  <2>1. PICK k \in Int : k = qa + q1 - qn
    OBVIOUS
  <2>2. m * k = za + z1 - zn
    <3>1. m * k = m * (qa + q1) - m * qn /\ m * (qa + q1) = m * qa + m * q1
      BY <1>12, <2>1
    <3> QED
      BY <1>4, <1>6, <1>11, <3>1
  <2>3. nn - r1 = (n - a - 1) + (za + z1 - zn)
    BY <1>7, <1>9, <1>10, <1>A
  <2> QED
    BY <2>2, <2>3
<1>15. PICK e \in Int : e = (nn - r1) % m /\ e >= b - a - 1
  <2>1. CASE n <= a
    <3>1. PICK d \in Int : d = n - a - 1 + m
      OBVIOUS
    <3>2. d \in 0..m - 1 /\ d >= b - a - 1
      BY <1>1, <2>1, <3>1
    <3>3. nn - r1 = d + m * (k - 1)
      <4>1. m * (k - 1) = m * k - m * 1 /\ m * 1 = m /\ m * k \in Int
        BY <1>12
      <4>2. PICK u \in Int : u = m * k
        BY <4>1
      <4>3. m * (k - 1) = u - m /\ nn - r1 = (n - a - 1) + u
        BY <1>14, <4>1, <4>2
      <4> QED
        BY <3>1, <4>3
    <3>4. (d + m * (k - 1)) % m = d
      <4>1. k - 1 \in Int
        OBVIOUS
      <4> QED
        BY <3>2, <4>1, SameRemainder
    <3> QED
      BY <3>2, <3>3, <3>4
  <2>2. CASE n > a
    <3>1. PICK d \in Int : d = n - a - 1
      OBVIOUS
    <3>2. d \in 0..m - 1 /\ d >= b - a - 1
      BY <1>1, <2>2, <3>1
    <3>3. (d + m * k) % m = d
      BY <3>2, SameRemainder
    <3>4. nn - r1 = d + m * k
      BY <1>14, <3>1
    <3> QED
      BY <3>2, <3>3, <3>4
  <2> QED
    BY <2>1, <2>2
<1>16. (SeqNum(n) - ((SeqNum(a) + 1) % SeqMod)) % SeqMod = e
  BY <1>1, <1>7, <1>9, <1>b, <1>15, Zenon
<1>17. (SeqMod + SeqNum(b) - (SeqNum(a) + 1)) % SeqMod = b - a - 1
  BY <1>1, <1>7, <1>8, <1>13, Zenon
<1>18. ~ (e < b - a - 1)
  BY <1>15
<1> QED
  BY <1>16, <1>17, <1>18, Zenon

(* What RetxCheck asks for lies between two packets of the buffer.         *)
LEMMA GapIsMissing ==
    ASSUME BufferTypes, Sorted, SentBefore, Near, Request,
           \A i \in 1..Len(buffer) : ~buffer[i].late, NEW r \in down' \ down
    PROVE  Wanted(r) \cap Known = {}
<1>1. /\ Current \in 2..Len(buffer) /\ Number(Current) # Number(Current - 1)
      /\ r.seq = (Number(Current - 1) + 1) % SeqMod /\ r.num = Missing
  <2>1. Current \in Nat /\ Len(buffer) \in Nat
    BY DEF BufferTypes, Request, RetxGap, Walk, Current
  <2>2. Current <= Len(buffer) /\ Current > 1 /\ Number(Current) # Number(Current - 1)
    BY <2>1 DEF Request, RetxGap, Walk, InHorizon, Gap, SameNumber
  <2>3. down' # down
    OBVIOUS
  <2>4. r \in {[seq |-> (Number(Current - 1) + 1) % SeqMod, num |-> Missing, at |-> now,
                via |-> IF options.url THEN 0 ELSE NextInput]}
    <3>1. ~ (Missing > MaxBurst)
      BY <2>3 DEF Request, RetxGap
    <3>2. down' \in {down, down \union
                 {[seq |-> (Number(Current - 1) + 1) % SeqMod, num |-> Missing, at |-> now,
                   via |-> IF options.url THEN 0 ELSE NextInput]}}
      BY <3>1, Zenon DEF Request, RetxGap
    <3> QED
      BY <3>2, Zenon
  <2> QED
    BY <2>1, <2>2, <2>4
<1>2. PICK c \in 2..Len(buffer) : c = Current
  BY <1>1
<1>3. \A i \in 1..Len(buffer) : buffer[i].id \in Nat
  <2> TAKE i \in 1..Len(buffer)
  <2>1. buffer[i] \in Block
    BY DEF BufferTypes
  <2> QED
    BY <2>1 DEF Block
<1>4. \A i \in 1..Len(output) : output[i].id \in Nat
  <2> TAKE i \in 1..Len(output)
  <2>1. output[i] \in Block
    BY DEF BufferTypes
  <2> QED
    BY <2>1 DEF Block
<1>5. Len(buffer) \in Nat /\ 1 \in 1..Len(buffer) /\ c \in 1..Len(buffer) /\ c - 1 \in 1..Len(buffer)
      /\ Head(buffer) = buffer[1]
  <2>1. Len(buffer) \in Nat
    BY DEF BufferTypes
  <2>2. 1 \in 1..Len(buffer) /\ c \in 1..Len(buffer) /\ c - 1 \in 1..Len(buffer)
    BY <2>1
  <2> QED
    BY <2>1, <2>2
<1>6. PICK a \in Nat : a = buffer[c - 1].id
  BY <1>3, <1>5
<1>7. PICK b \in Nat : b = buffer[c].id
  BY <1>3, <1>5
<1>8. PICK e \in Nat : e = buffer[1].id
  BY <1>3, <1>5
<1>9. PICK h \in Nat : h = SeqMod \div 2 /\ 2 * h <= SeqMod
  <2>1. SeqMod \div 2 \in Nat /\ 2 * (SeqMod \div 2) <= SeqMod
    BY AggregaAssumption DEF AggregaAssumption
  <2> QED
    BY <2>1
<1>10. \A j, k \in 1..Len(buffer) : buffer[j].id - buffer[k].id < h
  BY <1>9 DEF Near
<1>11. e <= a /\ a < b /\ b - e < h /\ SeqMod \in Nat /\ b - a < SeqMod
  <2>1. a <= b
    BY <1>5, <1>6, <1>7 DEF Sorted
  <2>2. a # b
    BY <1>1, <1>2, <1>6, <1>7 DEF Number
  <2>3. e <= a
    <3>1. CASE c - 1 = 1
      BY <1>6, <1>8, <3>1
    <3>2. CASE c - 1 # 1
      BY <1>5, <1>6, <1>8, <3>2 DEF Sorted
    <3> QED
      BY <3>1, <3>2
  <2>4. b - e < h
    BY <1>5, <1>7, <1>8, <1>10
  <2>5. SeqMod \in Nat
    BY AggregaAssumption DEF AggregaAssumption
  <2> QED
    BY <1>9, <2>1, <2>2, <2>3, <2>4, <2>5
<1>12. SUFFICES ASSUME NEW n \in Nat, n \in Known PROVE n \notin Wanted(r)
  BY AggregaAssumption DEF Wanted, AggregaAssumption
<1>13. (n <= a => n > b - SeqMod) /\ (n > a => b <= n /\ n - a < SeqMod)
  <2>1. CASE \E i \in 1..Len(buffer) : n = buffer[i].id
    <3>1. PICK i \in 1..Len(buffer) : n = buffer[i].id
      BY <2>1
    <3>2. n - a < h /\ b - n < h
      BY <1>5, <1>6, <1>7, <1>10, <3>1
    <3>3. n <= a \/ b <= n
      <4>1. CASE i < c - 1
        BY <1>5, <1>6, <3>1, <4>1 DEF Sorted
      <4>2. CASE i = c - 1
        BY <1>6, <3>1, <4>2
      <4>3. CASE i = c
        BY <1>7, <3>1, <4>3
      <4>4. CASE i > c
        BY <1>5, <1>7, <3>1, <4>4 DEF Sorted
      <4> QED
        BY <1>5, <4>1, <4>2, <4>3, <4>4
    <3> QED
      BY <1>9, <1>11, <3>2, <3>3
  <2>2. CASE \E i \in Lately : n = output[i].id
    <3>1. PICK i \in 1..Len(output) : n = output[i].id /\ n > e - h
      BY <1>5, <1>8, <1>9, <2>2 DEF Lately
    <3>2. n <= e
      BY <1>5, <1>8, <3>1 DEF SentBefore
    <3> QED
      BY <1>9, <1>11, <3>1, <3>2
  <2> QED
    BY <1>12, <2>1, <2>2 DEF Known
<1>14. Missing = (SeqMod + SeqNum(b) - (SeqNum(a) + 1)) % SeqMod
       /\ Number(Current - 1) = SeqNum(a)
  BY <1>2, <1>6, <1>7, Zenon DEF Missing, Number
<1>15. ~ ((SeqNum(n) - ((SeqNum(a) + 1) % SeqMod)) % SeqMod
              < (SeqMod + SeqNum(b) - (SeqNum(a) + 1)) % SeqMod)
  BY <1>11, <1>13, NotWanted
<1> QED
  BY <1>1, <1>14, <1>15, Zenon DEF Wanted

(* The other steps ask for nothing.                                        *)
LEMMA OnlyRequestAsks ==
    ASSUME Next
    PROVE  Request \/ down' \subseteq down
<1>1. CASE ReadInput
  BY <1>1 DEF ReadInput
<1>2. CASE \E r \in down : RetxHandle(r)
  BY <1>2 DEF RetxHandle
<1> QED
  BY <1>1, <1>2, LinksSteps

(***************************************************************************)
(* reordertp asks only for packets it neither holds nor has sent lately,   *)
(* as long as those it holds are less than half the numbers apart and none *)
(* of them came too late: RetxCheck counts what is missing by the numbers  *)
(* of two packets that stand side by side.                                 *)
(***************************************************************************)
THEOREM AsksForMissing == Spec /\ []Near => OnlyMissing
<1> DEFINE Asks == \A r \in down' \ down :
               (\E i \in 1..Len(buffer) : buffer[i].late) \/ Wanted(r) \cap Known = {}
<1>1. LinkInv /\ Near /\ [Next]_linkVars => [Asks]_linkVars
  <2> SUFFICES ASSUME LinkInv, Near, Next, NEW r \in down' \ down,
                      \A i \in 1..Len(buffer) : ~buffer[i].late
               PROVE  Wanted(r) \cap Known = {}
    OBVIOUS
  <2>1. Request
    BY OnlyRequestAsks
  <2> QED
    BY <2>1, GapIsMissing DEF LinkInv, OrderInv
<1> QED
  BY <1>1, LinkInvInit, LinkInvStep, PTL DEF Spec, OnlyMissing

-----------------------------------------------------------------------------

(***************************************************************************)
(* The dates.                                                              *)
(*                                                                         *)
(* A packet is read when it is made, and comes MaxDelay later at most.     *)
(* What the clock adds to a timestamp is therefore the time at which the   *)
(* packet was made and a lateness of 0..MaxDelay, which an average of such *)
(* latenesses still is; and so the date of a packet is the time at which   *)
(* it was made, BufferLength and such a lateness.                          *)
(*                                                                         *)
(* While nothing holds it up (Slow), reordertp has sent what is due when   *)
(* it computes its timeout, and time does not pass the date it waits for.  *)
(***************************************************************************)
MadeAt(n) == start + n * Period - Period

Punctual ==
    /\ start \in Nat /\ start <= now
    /\ \A n \in 1..nbIn : sentAt[n] = MadeAt(n) /\ MadeAt(n) <= now
    /\ aggregator = "runs" /\ nbIn < MaxPackets => now <= MadeAt(nbIn + 1)

UnderWay == \A m \in up :
    /\ m.at \in Nat /\ m.at <= now /\ now <= m.at + MaxDelay
    /\ ~m.marker => m.at = MadeAt(m.id)

Waiting ==
    /\ pc = "recv" => date = now
    /\ pc \in {"check", "timeout"} /\ buffer # <<>> => Head(buffer).date > now
    /\ pc = "poll" /\ buffer # <<>> => deadline = Head(buffer).date /\ now <= deadline

(* The timestamps of the packets read do not go beyond half their range.   *)
FewStamps == 2 * (nbIn * Period) < TsMod

Lateness(c) == c.wall - c.cr - (start - Period - TsMod)
Learnt(c) == c # NoClock =>
    c.cr > 0 /\ Lateness(c) \in 0..MaxDelay /\ Lateness(c) + c.delta \in 0..MaxDelay
Stamped == \E l \in 0..nbIn : lastTs = TsMod + l * Period
Dating == \A i \in 1..Len(buffer) :
    /\ buffer[i].id \in 1..nbIn
    /\ ~buffer[i].undated =>
          buffer[i].date - BufferLength - MadeAt(buffer[i].id) \in 0..MaxDelay

DateInv == Punctual /\ UnderWay /\ Waiting /\ (FewStamps => Learnt(clock) /\ Stamped /\ Dating)

(* The packets are made one after the other, Period apart.                 *)
LEMMA MadeInTurn ==
    ASSUME start \in Nat
    PROVE  /\ \A n \in Nat : MadeAt(n) \in Int /\ MadeAt(n + 1) = MadeAt(n) + Period
           /\ \A n \in Nat : MadeAt(n) = start - Period + n * Period
           /\ MadeAt(1) = start
           /\ \A a, b \in Nat : a <= b => MadeAt(a) <= MadeAt(b)
<1>1. PICK p \in Nat \ {0} : p = Period
  BY AggregaAssumption DEF AggregaAssumption
<1>2. PICK s \in Nat : s = start
  OBVIOUS
<1>3. \A n \in Nat : n * p \in Nat /\ (n + 1) * p = n * p + p
  BY SMTT(30)
<1>4. \A a, b \in Nat : a <= b => a * p <= b * p
  <2> TAKE a, b \in Nat
  <2> HAVE a <= b
  <2>1. PICK c \in Nat : b = a + c
    <3>1. b - a \in Nat /\ b = a + (b - a)
      OBVIOUS
    <3> QED
      BY <3>1
  <2>2. (a + c) * p = a * p + c * p /\ c * p \in Nat /\ a * p \in Nat
    BY SMTT(30)
  <2> QED
    BY <2>1, <2>2
<1>5. \A n \in Nat : MadeAt(n) = s + n * p - p
  BY <1>1, <1>2 DEF MadeAt
<1>6. 1 * p = p
  BY <1>1
<1>7. \A n \in Nat : MadeAt(n) \in Int /\ MadeAt(n + 1) = MadeAt(n) + p /\ MadeAt(n) = s - p + n * p
  <2> TAKE n \in Nat
  <2>1. PICK x \in Nat : x = n * p
    BY <1>3
  <2>2. PICK y \in Nat : y = (n + 1) * p
    BY <1>3
  <2>3. y = x + p
    BY <1>3, <2>1, <2>2
  <2>4. MadeAt(n) = s + x - p /\ MadeAt(n + 1) = s + y - p
    BY <1>5, <2>1, <2>2
  <2> QED
    BY <2>1, <2>3, <2>4
<1>8. \A a, b \in Nat : a <= b => MadeAt(a) <= MadeAt(b)
  <2> TAKE a, b \in Nat
  <2> HAVE a <= b
  <2>1. PICK x \in Nat : x = a * p
    BY <1>3
  <2>2. PICK y \in Nat : y = b * p
    BY <1>3
  <2>3. x <= y
    BY <1>4, <2>1, <2>2
  <2>4. MadeAt(a) = s + x - p /\ MadeAt(b) = s + y - p
    BY <1>5, <2>1, <2>2
  <2> QED
    BY <2>3, <2>4
<1>9. MadeAt(1) = s
  BY <1>5, <1>6
<1> QED
  BY <1>1, <1>2, <1>7, <1>8, <1>9

(* The timestamp of a packet is continued to the time at which it was made *)
(* in the count that began with the first.                                 *)
LEMMA StampIs ==
    ASSUME nbIn \in Nat, FewStamps, NEW l \in 0..nbIn, NEW n \in 0..nbIn,
           lastTs = TsMod + l * Period
    PROVE  BuildTimestamp((n * Period) % TsMod) = TsMod + n * Period
<1>1. PICK p \in Nat \ {0} : p = Period
  BY AggregaAssumption DEF AggregaAssumption
<1>2. PICK t \in Nat \ {0} : t = TsMod
  BY ReorderAssumption DEF ReorderAssumption
<1>3. \A a \in Nat : a * p \in Nat
  BY SMTT(30)
<1>4. PICK x \in Nat : x = n * p
  BY <1>3
<1>5. PICK y \in Nat : y = l * p
  BY <1>3
<1>6. PICK z \in Nat : z = nbIn * p
  BY <1>3
<1>7. x <= z /\ y <= z
  <2>1. \A a, b \in Nat : a <= b => a * p <= b * p
    <3> TAKE a, b \in Nat
    <3> HAVE a <= b
    <3>1. PICK c \in Nat : b = a + c
      <4>1. b - a \in Nat /\ b = a + (b - a)
        OBVIOUS
      <4> QED
        BY <4>1
    <3>2. (a + c) * p = a * p + c * p /\ c * p \in Nat /\ a * p \in Nat
      BY SMTT(30)
    <3> QED
      BY <3>1, <3>2
  <2> QED
    BY <1>4, <1>5, <1>6, <2>1
<1>8. 2 * z < t
  BY <1>1, <1>2, <1>6 DEF FewStamps
<1>9. PICK h \in Nat : h = t \div 2 /\ (3 * t) \div 2 = t + h /\ t <= 2 * h + 1 /\ 2 * h <= t
  <2>1. t \div 2 \in Nat /\ (3 * t) \div 2 = t + (t \div 2) /\ t <= 2 * (t \div 2) + 1 /\ 2 * (t \div 2) <= t
    OBVIOUS
  <2> QED
    BY <2>1
<1>10. x % t = x
  <2>1. x = t * 0 + x /\ x \in 0..t - 1
    BY <1>7, <1>8
  <2> QED
    BY <2>1, RemainderOf
<1>11. (t + y) % t = y
  <2>1. t + y = t * 1 + y /\ y \in 0..t - 1
    BY <1>7, <1>8
  <2> QED
    BY <2>1, RemainderOf
<1>12. (t + h + x - y) % t = h + x - y
  <2>1. PICK r \in Int : r = h + x - y
    OBVIOUS
  <2>2. r \in 0..t - 1
    BY <1>7, <1>8, <1>9, <2>1
  <2>3. t + h + x - y = t * 1 + r
    BY <2>1
  <2>4. (t * 1 + r) % t = r
    BY <2>2, RemainderOf
  <2> QED
    BY <2>1, <2>3, <2>4
<1>13. lastTs = t + y
  BY <1>1, <1>2, <1>5
<1>14. BuildTimestamp((n * Period) % TsMod) =
           (t + y) + (((3 * t) \div 2 + (x % t) - ((t + y) % t)) % t) - (t \div 2)
  BY <1>1, <1>2, <1>4, <1>13, Zenon DEF BuildTimestamp
<1>15. BuildTimestamp((n * Period) % TsMod) = (t + y) + ((t + h + x - y) % t) - h
  BY <1>9, <1>10, <1>11, <1>14, Zenon
<1>16. BuildTimestamp((n * Period) % TsMod) = t + x
  BY <1>12, <1>15
<1> QED
  BY <1>1, <1>2, <1>4, <1>16

(* The quotient of the code lies where the dividend does.                  *)
LEMMA TruncBetween ==
    ASSUME NEW a \in Int, NEW lo \in Int, NEW hi \in Int, lo <= 0, 0 <= hi,
           a <= Average * hi, Average * lo <= a
    PROVE  Trunc(a, Average) \in lo..hi
<1>1. PICK m \in Nat \ {0} : m = Average
  BY ReorderAssumption DEF ReorderAssumption
<1>2. ASSUME NEW x \in Nat, NEW b \in Nat, x <= m * b
      PROVE  (x \div m) \in 0..b
  <2>1. PICK q \in Int : q = x \div m
    BY SMTT(30)
  <2>2. PICK r \in 0..m - 1 : x = m * q + r
    <3>1. x % m \in 0..m - 1 /\ x = m * (x \div m) + (x % m)
      BY SMTT(30)
    <3> QED
      BY <2>1, <3>1
  <2>3. ~ (q >= b + 1)
    <3>1. SUFFICES ASSUME q >= b + 1 PROVE FALSE
      OBVIOUS
    <3>2. m * q >= m * (b + 1) /\ m * (b + 1) = m * b + m
      BY <3>1, SMTT(30)
    <3>3. m * q \in Int /\ m * b \in Int
      BY SMTT(30)
    <3> QED
      BY <1>2, <2>2, <3>2, <3>3
  <2>4. ~ (q <= -1)
    <3>1. SUFFICES ASSUME q <= -1 PROVE FALSE
      OBVIOUS
    <3>2. m * q <= m * (-1) /\ m * (-1) = -m
      BY <3>1, SMTT(30)
    <3>3. m * q \in Int
      BY SMTT(30)
    <3> QED
      BY <2>2, <3>2, <3>3
  <2> QED
    BY <2>1, <2>3, <2>4
<1>3. CASE a >= 0
  <2>1. (a \div m) \in 0..hi
    BY <1>1, <1>2, <1>3
  <2> QED
    BY <1>1, <1>3, <2>1 DEF Trunc
<1>4. CASE ~ (a >= 0)
  <2>1. PICK x \in Nat : x = -a
    BY <1>4
  <2>2. PICK b \in Nat : b = -lo
    OBVIOUS
  <2>3. x <= m * b
    <3>1. m * (-lo) = -(m * lo) /\ m * lo \in Int
      BY SMTT(30)
    <3> QED
      BY <1>1, <2>1, <2>2, <3>1
  <2>4. PICK q \in Int : q = x \div m /\ q \in 0..b
    BY <1>2, <2>3
  <2>5. Trunc(a, Average) = -q
    BY <1>1, <1>4, <2>1, <2>4 DEF Trunc
  <2> QED
    BY <2>2, <2>4, <2>5
<1> QED
  BY <1>3, <1>4

(* A packet that came in time leaves the clock right, whether the clock    *)
(* starts again with it, passes over it or takes it into the average.      *)
LEMMA ClockLearns ==
    ASSUME start \in Nat, NEW c \in Clock, Learnt(c), NEW n \in Nat, NEW d \in Int,
           d - MadeAt(n) \in 0..MaxDelay
    PROVE  /\ Learnt(NewRef(c, TsMod + n * Period, d))
           /\ NewRef(c, TsMod + n * Period, d) # NoClock
<1>1. MaxDelay \in Nat /\ TsMod \in Nat \ {0} /\ MaxGap \in Nat /\ MaxGap < TsMod /\ Average \in Nat \ {0}
      /\ Period \in Nat
  BY LinkAssumption, ReorderAssumption, AggregaAssumption
     DEF LinkAssumption, ReorderAssumption, AggregaAssumption
<1>2. PICK x \in Nat : x = n * Period
  <2>1. n * Period \in Nat
    BY <1>1, SMTT(30)
  <2> QED
    BY <2>1
<1>3. PICK cr \in Nat : cr = TsMod + n * Period /\ cr = TsMod + x /\ cr > MaxGap
  <2>1. TsMod + x \in Nat /\ TsMod + x > MaxGap
    BY <1>1
  <2> QED
    BY <1>2, <2>1
<1>4. MadeAt(n) = start - Period + x
  BY <1>2, MadeInTurn
<1>5. PICK q \in Int : q = start - Period - TsMod
  BY <1>1
<1>6. d - cr - q \in 0..MaxDelay
  BY <1>1, <1>3, <1>4, <1>5
<1>7. /\ c.last \in Int /\ c.cr \in Int /\ c.wall \in Int /\ c.delta \in Int /\ c.space \in Int
      /\ c = [last |-> c.last, cr |-> c.cr, wall |-> c.wall, delta |-> c.delta, space |-> c.space]
  BY DEF Clock
<1>8. /\ Restarted(cr, d).wall = d /\ Restarted(cr, d).cr = cr /\ Restarted(cr, d).delta = 0
      /\ Restarted(cr, d) # NoClock
  <2>1. Restarted(cr, d) = [last |-> cr, cr |-> cr, wall |-> d, delta |-> 0, space |-> 0]
    <3> DEFINE r1 == [NoClock EXCEPT !.cr = cr]
               r2 == [r1 EXCEPT !.last = cr]
    <3>1. r1 = [last |-> 0, cr |-> cr, wall |-> 0, delta |-> 0, space |-> 0]
      BY DEF NoClock
    <3>2. r2 = [last |-> cr, cr |-> cr, wall |-> 0, delta |-> 0, space |-> 0]
      <4> HIDE DEF r1
      <4> QED
        BY <3>1
    <3>3. [r2 EXCEPT !.wall = d] = [last |-> cr, cr |-> cr, wall |-> d, delta |-> 0, space |-> 0]
      <4> HIDE DEF r2
      <4> QED
        BY <3>2
    <3> QED
      BY <3>3 DEF Restarted
  <2>2. Restarted(cr, d).cr = cr /\ NoClock.cr = 0 /\ cr # 0
    BY <1>1, <1>3, <2>1 DEF NoClock
  <2> QED
    BY <2>1, <2>2
<1>9. Learnt(Restarted(cr, d))
  <2>1. Lateness(Restarted(cr, d)) = d - cr - q
    BY <1>5, <1>8, Zenon DEF Lateness
  <2>2. d - cr - q + 0 \in 0..MaxDelay /\ cr > 0
    BY <1>1, <1>3, <1>6
  <2> QED
    BY <1>6, <1>8, <2>1, <2>2, Zenon DEF Learnt
<1> DEFINE diff == c.cr + d - c.wall - cr
           weighed == c.delta * (Average - 1) + diff
           far == Beyond(cr - c.last, MaxGap)
           off == Beyond(diff - c.delta, MaxJitter)
<1>10. CASE far
  <2>1. NewRef(c, cr, d) = Restarted(cr, d)
    BY <1>10 DEF NewRef
  <2> QED
    BY <1>3, <1>8, <1>9, <2>1, Zenon
<1>11. CASE ~far
  <2>1. c # NoClock
    <3>1. SUFFICES ASSUME c = NoClock PROVE FALSE
      OBVIOUS
    <3>2. c.last = 0
      BY <3>1 DEF NoClock
    <3>3. ~ (cr - 0 > MaxGap)
      BY <1>11, <3>2 DEF Beyond
    <3> QED
      BY <1>1, <1>3, <3>3
  <2>2. PICK late \in Int : late = c.wall - c.cr - q /\ late = Lateness(c)
    BY <1>5, <1>7 DEF Lateness
  <2>3. c.cr > 0 /\ late \in 0..MaxDelay /\ late + c.delta \in 0..MaxDelay
    BY <2>1, <2>2, Zenon DEF Learnt
  <2>4. CASE off
    <3>1. NewRef(c, cr, d) \in {Restarted(cr, d), [c EXCEPT !.space = @ + 1]}
      BY <1>11, <2>4 DEF NewRef
    <3>2. CASE NewRef(c, cr, d) = Restarted(cr, d)
      BY <1>3, <1>8, <1>9, <3>2, Zenon
    <3>3. CASE NewRef(c, cr, d) = [c EXCEPT !.space = @ + 1]
      <4>1. PICK e : e = NewRef(c, cr, d)
        OBVIOUS
      <4>2. e.wall = c.wall /\ e.cr = c.cr /\ e.delta = c.delta /\ e.space = c.space + 1
        BY <1>7, <3>3, <4>1
      <4>3. Lateness(e) = Lateness(c)
        BY <4>2, Zenon DEF Lateness
      <4>4. Learnt(e)
        BY <2>2, <2>3, <4>2, <4>3, Zenon DEF Learnt
      <4>5. e.cr # 0
        BY <1>7, <2>3, <4>2
      <4>6. e # NoClock
        BY <4>5 DEF NoClock
      <4> QED
        BY <1>3, <4>1, <4>4, <4>6, Zenon
    <3> QED
      BY <3>1, <3>2, <3>3
  <2>5. CASE ~off
    <3>1. NewRef(c, cr, d) = [c EXCEPT !.space = 0, !.last = cr, !.delta = Trunc(weighed, Average)]
      BY <1>11, <2>5 DEF NewRef
    <3>2. PICK e : e = NewRef(c, cr, d)
      OBVIOUS
    <3>3. PICK w \in Int : w = weighed /\ w = c.delta * (Average - 1) + diff
      <4>1. c.delta * (Average - 1) \in Int
        BY <1>1, <1>7, SMTT(30)
      <4> QED
        BY <1>1, <1>3, <1>7, <4>1
    <3>4. e.wall = c.wall /\ e.cr = c.cr /\ e.delta = Trunc(w, Average)
      <4>1. PICK t : t = Trunc(w, Average)
        OBVIOUS
      <4>2. e = [c EXCEPT !.space = 0, !.last = cr, !.delta = t]
        BY <3>1, <3>2, <3>3, <4>1, Zenon
      <4> QED
        BY <1>7, <4>1, <4>2
    <3>5. PICK lo \in Int : lo = -late
      OBVIOUS
    <3>6. PICK hi \in Int : hi = MaxDelay - late
      BY <1>1
    <3>7. lo <= 0 /\ 0 <= hi /\ c.delta \in lo..hi
      BY <1>1, <1>7, <2>3, <3>5, <3>6
    <3>8. diff \in lo..hi
      <4>1. diff = (d - cr - q) - late
        BY <1>3, <1>7, <2>2
      <4> QED
        BY <1>1, <1>3, <1>6, <3>5, <3>6, <4>1
    <3>9. w <= Average * hi /\ Average * lo <= w
      <4>1. PICK a \in Nat : Average = a + 1
        <5>1. Average - 1 \in Nat /\ Average = (Average - 1) + 1
          BY <1>1
        <5> QED
          BY <5>1
      <4>2. PICK f \in Int : f = diff
        BY <3>8
      <4>3. w = c.delta * a + f
        <5>1. Average - 1 = a
          BY <1>1, <4>1
        <5> QED
          BY <3>3, <4>2, <5>1
      <4>4. PICK g \in Int : g = c.delta
        BY <1>7
      <4>5. (a + 1) * hi = a * hi + hi /\ (a + 1) * lo = a * lo + lo
            /\ a * hi \in Int /\ a * lo \in Int /\ g * a \in Int
        BY SMTT(30)
      <4>6. g * a <= a * hi /\ a * lo <= g * a
        <5>1. g \in lo..hi
          BY <3>7, <4>4
        <5>2. g <= hi /\ lo <= g
          BY <5>1
        <5> QED
          BY <5>2, SMTT(30)
      <4>7. f <= hi /\ lo <= f
        BY <3>8, <4>2
      <4> QED
        BY <4>1, <4>3, <4>4, <4>5, <4>6, <4>7
    <3>10. PICK t \in lo..hi : t = Trunc(w, Average)
      BY <3>7, <3>9, TruncBetween
    <3>11. Lateness(e) = late
      BY <2>2, <3>4, Zenon DEF Lateness
    <3>12. late + t \in 0..MaxDelay
      BY <1>1, <3>5, <3>6, <3>10
    <3>13. Learnt(e)
      BY <2>3, <3>4, <3>10, <3>11, <3>12, Zenon DEF Learnt
    <3>14. e.cr # 0
      BY <1>7, <2>3, <3>4
    <3>15. e # NoClock
      BY <3>14 DEF NoClock
    <3> QED
      BY <1>3, <3>2, <3>13, <3>15, Zenon
  <2> QED
    BY <2>4, <2>5
<1> QED
  BY <1>10, <1>11

(* What a clock that was set makes of a timestamp.                         *)
LEMMA ClockTells ==
    ASSUME start \in Nat, NEW c \in Clock, Learnt(c), c # NoClock, NEW n \in Nat
    PROVE  ToWall(c, TsMod + n * Period) - MadeAt(n) \in 0..MaxDelay
<1>1. MaxDelay \in Nat /\ TsMod \in Nat \ {0} /\ Period \in Nat
  BY LinkAssumption, ReorderAssumption, AggregaAssumption
     DEF LinkAssumption, ReorderAssumption, AggregaAssumption
<1>2. PICK x \in Nat : x = n * Period
  <2>1. n * Period \in Nat
    BY <1>1, SMTT(30)
  <2> QED
    BY <2>1
<1>3. MadeAt(n) = start - Period + x
  BY <1>2, MadeInTurn
<1>4. c.cr \in Int /\ c.wall \in Int /\ c.delta \in Int
  BY DEF Clock
<1>5. c.wall - c.cr - (start - Period - TsMod) + c.delta \in 0..MaxDelay
  BY DEF Learnt, Lateness
<1>6. ToWall(c, TsMod + n * Period) = c.wall + (TsMod + x) + c.delta - c.cr
  BY <1>2, Zenon DEF ToWall
<1> QED
  BY <1>1, <1>2, <1>3, <1>4, <1>5, <1>6

(* A packet that comes is dated by when it was made.                       *)
LEMMA RecvDates ==
    ASSUME BufferTypes, now \in Int, nbIn \in Nat, start \in Nat, FewStamps,
           Learnt(clock), Stamped, Dating,
           NEW m, m.id \in 1..nbIn, NEW d \in Int, PacketRecv(m, d),
           ~m.marker => d - MadeAt(m.id) \in 0..MaxDelay,
           start' = start, nbIn' = nbIn
    PROVE  Learnt(clock)' /\ Stamped' /\ Dating'
<1>1. PICK n \in 1..nbIn : n = m.id
  OBVIOUS
<1>2. n \in Nat /\ clock \in Clock
  BY DEF BufferTypes
<1>3. PICK ts : ts = BuildTimestamp((m.id * Period) % TsMod)
  OBVIOUS
<1>4. PICK k \in 0..Len(buffer) : k = Place(m.id)
  BY <1>1, <1>2, RecvTypes
<1>5. /\ clock' \in Clock /\ buffer' \in Seq(Block) /\ Len(buffer') = Len(buffer) + 1
      /\ lastTs' = ts
      /\ clock' = IF m.marker \/ m.out = 0 THEN clock ELSE NewRef(clock, ts, d)
  BY <1>1, <1>2, <1>3, RecvTypes
<1>6. /\ \A j \in 1..k : j \in 1..Len(buffer) /\ buffer'[j] = buffer[j]
      /\ \A j \in k + 2..Len(buffer) + 1 : buffer'[j] = buffer[j - 1]
  BY <1>1, <1>2, <1>4, RecvTypes
<1>7. /\ buffer'[k + 1].id = n
      /\ buffer'[k + 1].date = ToWall(clock', ts) + BufferLength
      /\ buffer'[k + 1].undated <=> clock' = NoClock
  BY <1>1, <1>2, <1>4, <1>5, RecvTypes
<1>8. ts = TsMod + n * Period
  <2>1. PICK l \in 0..nbIn : lastTs = TsMod + l * Period
    BY DEF Stamped
  <2>2. n \in 0..nbIn
    OBVIOUS
  <2> QED
    BY <1>1, <1>3, <2>1, <2>2, StampIs
<1>9. Stamped'
  <2>1. n \in 0..nbIn'
    OBVIOUS
  <2> QED
    BY <1>5, <1>8, <2>1 DEF Stamped
<1>10. Learnt(clock')
  <2>1. CASE m.marker \/ m.out = 0
    BY <1>5, <2>1
  <2>2. CASE ~(m.marker \/ m.out = 0)
    <3>1. clock' = NewRef(clock, TsMod + n * Period, d) /\ d - MadeAt(n) \in 0..MaxDelay
      BY <1>1, <1>5, <1>8, <2>2
    <3> QED
      BY <1>2, <3>1, ClockLearns
  <2> QED
    BY <2>1, <2>2
<1>11. Learnt(clock)'
  BY <1>10 DEF Learnt, Lateness
<1>12. \A i : MadeAt(i)' = MadeAt(i)
  BY DEF MadeAt
<1>13. ASSUME ~buffer'[k + 1].undated
       PROVE  buffer'[k + 1].date - BufferLength - MadeAt(n) \in 0..MaxDelay
  <2>1. ToWall(clock', TsMod + n * Period) - MadeAt(n) \in 0..MaxDelay
    BY <1>2, <1>5, <1>7, <1>10, <1>13, ClockTells
  <2>2. PICK w \in Int : w = ToWall(clock', ts)
    <3>1. ts \in Int
      BY <1>1, <1>2, <1>5, RecvTypes
    <3> QED
      BY <1>5, <3>1, ClockTyped
  <2>3. MadeAt(n) \in Int /\ BufferLength \in Nat
    BY <1>2, MadeInTurn, ReorderAssumption DEF ReorderAssumption
  <2>4. w - MadeAt(n) \in 0..MaxDelay /\ buffer'[k + 1].date = w + BufferLength
    BY <1>7, <1>8, <2>1, <2>2
  <2> QED
    BY <2>2, <2>3, <2>4
<1>14. ASSUME NEW i \in 1..Len(buffer')
       PROVE  /\ buffer'[i].id \in 1..nbIn
              /\ ~buffer'[i].undated =>
                   buffer'[i].date - BufferLength - MadeAt(buffer'[i].id) \in 0..MaxDelay
  <2>1. \/ i \in 1..k \/ i = k + 1 \/ i \in k + 2..Len(buffer) + 1
    BY <1>2, <1>4, <1>5 DEF BufferTypes
  <2>2. CASE i = k + 1
    BY <1>7, <1>13, <2>2
  <2>3. ASSUME NEW j \in 1..Len(buffer), buffer'[i] = buffer[j]
        PROVE  /\ buffer'[i].id \in 1..nbIn
               /\ ~buffer'[i].undated =>
                    buffer'[i].date - BufferLength - MadeAt(buffer'[i].id) \in 0..MaxDelay
    BY <2>3 DEF Dating
  <2>4. CASE i \in 1..k
    BY <1>6, <2>3, <2>4
  <2>5. CASE i \in k + 2..Len(buffer) + 1
    <3>1. i - 1 \in 1..Len(buffer)
      BY <1>4, <2>5 DEF BufferTypes
    <3>2. buffer'[i] = buffer[i - 1]
      BY <1>6, <2>5
    <3> QED
      BY <2>3, <3>1, <3>2
  <2> QED
    BY <2>1, <2>2, <2>4, <2>5
<1> QED
  BY <1>9, <1>11, <1>12, <1>14 DEF Dating

(* Time passes with Tick, and packets are read by ReadInput.               *)
LEMMA TimeSteps ==
    ASSUME Next
    PROVE  /\ start' = start
           /\ \/ ReadInput
              \/ Tick /\ UNCHANGED <<nbIn, sentAt, aggregator, up>>
              \/ /\ UNCHANGED <<now, nbIn, sentAt>>
                 /\ aggregator' = "runs" => aggregator = "runs"
<1>1. CASE Aggrega
  <2>1. CASE ReadPart \/ \E r \in down : RetxPart(r)
    BY <1>1, <2>1, Zenon DEF ReadPart, RetxPart, config
  <2>2. CASE ReadInput
    BY <2>2, Zenon DEF ReadInput, config
  <2>3. ASSUME NEW r \in down, RetxHandle(r)
        PROVE  UNCHANGED <<nbIn, sentAt, now, start>> /\ aggregator = "runs"
    BY <2>3, Zenon DEF RetxHandle, config
  <2> QED
    BY <1>1, <2>1, <2>2, <2>3, Zenon DEF Aggrega, AggregaStep
<1>2. CASE Reorder \/ Request \/ Lose \/ Restart \/ Finished
  BY <1>2, Zenon DEF Reorder, Request, Lose, Restart, Finished, linkVars, aggregaVars, config
<1>3. CASE \E m \in up : Arrive(m)
  BY <1>3, Zenon DEF Arrive, aggregaVars, config
<1>4. CASE Stray
  <2>1. UNCHANGED <<nbIn, sentAt, now, start>> /\ aggregator = "runs"
    BY <1>4, Zenon DEF Stray, RetxInvalid, config
  <2> QED
    BY <2>1
<1>5. CASE Tick
  BY <1>5, Zenon DEF Tick, aggregaVars, config
<1> QED
  BY <1>1, <1>2, <1>3, <1>4, <1>5, Zenon DEF Next

(* A packet is read at the moment it is made.                              *)
LEMMA ReadWhenMade ==
    ASSUME Dates, Punctual, ReadInput
    PROVE  /\ now' = now /\ nbIn' = nbIn + 1 /\ sentAt' = Append(sentAt, now)
           /\ nbIn + 1 <= MaxPackets /\ now = MadeAt(nbIn + 1)
<1>1. /\ now' = now /\ nbIn' = nbIn + 1 /\ sentAt' = Append(sentAt, now)
      /\ aggregator = "runs" /\ nbIn < MaxPackets /\ start + nbIn * Period <= now
  BY Zenon DEF ReadInput, Readable
<1>2. PICK p \in Nat : p = Period
  BY AggregaAssumption DEF AggregaAssumption
<1>3. nbIn \in Nat /\ now \in Nat /\ start \in Nat /\ MaxPackets \in Nat
  BY AggregaAssumption DEF Dates, Punctual, AggregaAssumption
<1>4. PICK x \in Nat : x = nbIn * Period
  <2>1. nbIn * p \in Nat
    BY <1>3, SMTT(30)
  <2> QED
    BY <1>2, <2>1
<1>5. MadeAt(nbIn) = start - p + x /\ MadeAt(nbIn + 1) = MadeAt(nbIn) + p
  BY <1>2, <1>3, <1>4, MadeInTurn
<1>6. now <= MadeAt(nbIn + 1)
  BY <1>1 DEF Punctual
<1>7. start + x <= now
  BY <1>1, <1>4
<1>8. now = MadeAt(nbIn + 1)
  BY <1>2, <1>3, <1>5, <1>6, <1>7
<1> QED
  BY <1>1, <1>3, <1>8

(* The packets are read when they are made, and no sooner or later does    *)
(* time pass.                                                              *)
LEMMA PunctualStep ==
    ASSUME Dates, Punctual, [Next]_linkVars
    PROVE  Punctual'
<1>1. nbIn \in Nat /\ now \in Nat /\ start \in Nat /\ start <= now /\ MaxPackets \in Nat
      /\ Period \in Nat \ {0} /\ sentAt \in Seq(Nat) /\ Len(sentAt) = nbIn
  BY AggregaAssumption DEF Dates, Punctual, AggregaAssumption
<1>2. start' = start
  BY TimeSteps DEF linkVars, aggregaVars, config
<1>3. \A n : MadeAt(n)' = MadeAt(n)
  BY <1>2 DEF MadeAt
<1>4. CASE ReadInput
  <2>1. /\ now' = now /\ nbIn' = nbIn + 1 /\ sentAt' = Append(sentAt, now)
        /\ now = MadeAt(nbIn + 1)
    BY <1>4, ReadWhenMade
  <2>2. \A n \in 1..nbIn : sentAt'[n] = sentAt[n]
    BY <1>1, <2>1
  <2>3. sentAt'[nbIn + 1] = now
    BY <1>1, <2>1
  <2>4. \A n \in 1..nbIn + 1 : sentAt'[n] = MadeAt(n) /\ MadeAt(n) <= now
    <3> TAKE n \in 1..nbIn + 1
    <3>1. CASE n = nbIn + 1
      BY <1>1, <2>1, <2>3, <3>1
    <3>2. CASE n \in 1..nbIn
      BY <2>2, <3>2 DEF Punctual
    <3> QED
      BY <1>1, <3>1, <3>2
  <2>5. now <= MadeAt(nbIn + 2)
    <3>1. (nbIn + 1) \in Nat /\ (nbIn + 1) + 1 = nbIn + 2
      BY <1>1
    <3>2. MadeAt(nbIn + 2) = MadeAt(nbIn + 1) + Period
      BY <1>1, <3>1, MadeInTurn
    <3> QED
      BY <1>1, <2>1, <3>2
  <2>6. nbIn' + 1 = nbIn + 2
    BY <1>1, <2>1
  <2> QED
    BY <1>1, <1>2, <1>3, <2>1, <2>4, <2>5, <2>6 DEF Punctual
<1>5. CASE Tick /\ UNCHANGED <<nbIn, sentAt, aggregator, up>>
  <2>1. now' = now + 1 /\ ~Readable
    BY <1>5 DEF Tick, AggregaIdle
  <2>2. ASSUME aggregator = "runs", nbIn < MaxPackets PROVE now + 1 <= MadeAt(nbIn + 1)
    <3>1. ~ (start + nbIn * Period <= now)
      BY <2>1, <2>2 DEF Readable
    <3>2. PICK x \in Nat : x = nbIn * Period
      <4>1. PICK p \in Nat : p = Period
        BY <1>1
      <4>2. nbIn * p \in Nat
        BY <1>1, SMTT(30)
      <4> QED
        BY <4>1, <4>2
    <3>3. MadeAt(nbIn) = start - Period + x /\ MadeAt(nbIn + 1) = MadeAt(nbIn) + Period
      BY <1>1, <3>2, MadeInTurn
    <3>4. ~ (start + x <= now)
      BY <3>1, <3>2
    <3> QED
      BY <1>1, <3>3, <3>4
  <2>3. \A n \in 1..nbIn : sentAt[n] = MadeAt(n) /\ MadeAt(n) <= now + 1
    <3> TAKE n \in 1..nbIn
    <3>1. sentAt[n] = MadeAt(n) /\ MadeAt(n) <= now /\ sentAt[n] \in Nat
      BY <1>1 DEF Punctual
    <3> QED
      BY <1>1, <3>1
  <2>4. start <= now'
    BY <1>1, <2>1
  <2> QED
    BY <1>1, <1>2, <1>3, <1>5, <2>1, <2>2, <2>3, <2>4 DEF Punctual
<1>6. CASE UNCHANGED <<now, nbIn, sentAt>> /\ (aggregator' = "runs" => aggregator = "runs")
  BY <1>2, <1>3, <1>6 DEF Punctual
<1> QED
  <2>1. CASE UNCHANGED linkVars
    BY <1>6, <2>1 DEF linkVars, aggregaVars
  <2> QED
    BY <1>4, <1>5, <1>6, <2>1, TimeSteps

(* What is sent again is sent now.                                         *)
LEMMA AgainNow == \A r : \A m \in Again(r) : m.marker /\ m.at = now
<1> SUFFICES ASSUME NEW r, NEW m \in Again(r)
             PROVE  m.marker /\ m.at = now
  OBVIOUS
<1>1. PICK b : m = [id |-> b.id, marker |-> TRUE, at |-> now,
                    out |-> IF options.url THEN 0 ELSE NextOutput]
  BY Zenon DEF Again
<1> QED
  BY <1>1

(* The packets on the links were sent a while ago, but no more than        *)
(* MaxDelay, the others when they were made.                               *)
LEMMA UnderWayStep ==
    ASSUME Dates, Punctual, Links, UnderWay, [Next]_linkVars
    PROVE  UnderWay'
<1>1. nbIn \in Nat /\ now \in Nat /\ start \in Nat /\ MaxDelay \in Nat
  BY LinkAssumption DEF Dates, Punctual, LinkAssumption
<1>2. start' = start
  BY TimeSteps DEF linkVars, aggregaVars, config
<1>3. \A n : MadeAt(n)' = MadeAt(n)
  BY <1>2 DEF MadeAt
<1>4. CASE ReadInput
  <2>1. /\ now' = now /\ now = MadeAt(nbIn + 1)
        /\ up' = up \union {[id |-> nbIn + 1, marker |-> FALSE, out |-> NextOutput, at |-> now]}
    BY <1>4, ReadWhenMade DEF ReadInput
  <2>2. ASSUME NEW m \in up'
        PROVE  /\ m.at \in Nat /\ m.at <= now /\ now <= m.at + MaxDelay
               /\ ~m.marker => m.at = MadeAt(m.id)
    <3>1. CASE m \in up
      BY <3>1 DEF UnderWay
    <3>2. CASE m = [id |-> nbIn + 1, marker |-> FALSE, out |-> NextOutput, at |-> now]
      <4>1. m.at = now /\ m.id = nbIn + 1
        BY <3>2
      <4> QED
        BY <1>1, <2>1, <4>1
    <3> QED
      BY <2>1, <2>2, <3>1, <3>2
  <2> QED
    BY <1>3, <2>1, <2>2 DEF UnderWay
<1>5. CASE \E r \in down : RetxHandle(r)
  <2>1. PICK r \in down : RetxHandle(r)
    BY <1>5
  <2>2. now' = now /\ up' \subseteq up \union Again(r)
    BY <2>1 DEF RetxHandle
  <2>3. ASSUME NEW m \in up'
        PROVE  /\ m.at \in Nat /\ m.at <= now /\ now <= m.at + MaxDelay
               /\ ~m.marker => m.at = MadeAt(m.id)
    <3>1. CASE m \in up
      BY <3>1 DEF UnderWay
    <3>2. CASE m \in Again(r)
      <4>1. m.at = now /\ m.marker
        BY <3>2, AgainNow
      <4> QED
        BY <1>1, <4>1
    <3> QED
      BY <2>2, <2>3, <3>1, <3>2
  <2> QED
    BY <1>3, <2>2, <2>3 DEF UnderWay
<1>6. CASE Tick
  <2>1. now' = now + 1 /\ up' = up /\ \A m \in up : now - m.at < MaxDelay
    BY <1>6 DEF Tick
  <2>2. ASSUME NEW m \in up
        PROVE  /\ m.at \in Nat /\ m.at <= now + 1 /\ now + 1 <= m.at + MaxDelay
               /\ ~m.marker => m.at = MadeAt(m.id)
    <3>1. m.at \in Nat /\ m.at <= now /\ (~m.marker => m.at = MadeAt(m.id))
      BY DEF UnderWay
    <3>2. now - m.at < MaxDelay
      BY <2>1
    <3>3. m.at <= now + 1 /\ now + 1 <= m.at + MaxDelay
      BY <1>1, <3>1, <3>2
    <3> QED
      BY <3>1, <3>3
  <2> QED
    BY <1>3, <2>1, <2>2 DEF UnderWay
<1>7. CASE up' \subseteq up /\ now' = now
  BY <1>3, <1>7 DEF UnderWay
<1> QED
  <2>1. CASE UNCHANGED linkVars
    BY <1>7, <2>1 DEF linkVars
  <2>2. CASE Request
    BY <1>7, <2>2 DEF Request
  <2>3. CASE up' \subseteq up /\ down' \subseteq down /\ nbIn' = nbIn
    <3>1. CASE ReadInput
      BY <1>4, <3>1
    <3>2. CASE Tick
      BY <1>6, <3>2
    <3>3. CASE now' = now
      BY <1>7, <2>3, <3>3
    <3> QED
      BY <2>1, <3>1, <3>2, <3>3, TimeSteps
  <2> QED
    BY <1>4, <1>5, <2>1, <2>2, <2>3, LinksSteps

(* Of the steps of reordertp, only the end of poll() and a packet that     *)
(* comes find time passed.                                                 *)
LEMMA LocalWaits ==
    ASSUME BufferTypes, now \in Nat, Waiting, ReorderLocal \/ RetxGap, now' = now
    PROVE  Waiting'
<1>1. buffer \in Seq(Block)
  BY DEF BufferTypes
<1>2. CASE PacketSend \/ TimedOut \/ AllRead
  BY <1>2 DEF PacketSend, TimedOut, AllRead, Waiting
<1>3. CASE NothingDue
  BY <1>3 DEF NothingDue, Waiting, position
<1>4. CASE RetxNextPass \/ RetxFollows \/ RetxGap
  <2>1. pc = "check" /\ pc' \in {"check", "timeout"} /\ buffer' = buffer
    BY <1>4 DEF RetxNextPass, RetxFollows, RetxGap, Walk, position
  <2> QED
    BY <2>1 DEF Waiting
<1>5. CASE RetxDuplicate
  <2>1. /\ pc = "check" /\ pc' = pc /\ Current > 1 /\ Current \in 1..Len(buffer)
        /\ buffer' = Without(buffer, Current)
    <3>1. Current \in Nat /\ Len(buffer) \in Nat
      BY <1>1, <1>5 DEF RetxDuplicate, Walk, Current, BufferTypes
    <3> QED
      BY <3>1, <1>5 DEF RetxDuplicate, Walk, SameNumber, InHorizon, Without
  <2>2. PICK k \in 2..Len(buffer) : buffer' = Without(buffer, k)
    BY <2>1
  <2>3. Len(buffer) \in Nat /\ 1 \in 1..k - 1 /\ k \in 1..Len(buffer) /\ buffer # <<>>
    BY <1>1, <2>2
  <2>4. buffer'[1] = buffer[1]
    BY <1>1, <2>2, <2>3, Removed
  <2>5. Head(buffer).date > now
    BY <2>1, <2>3 DEF Waiting
  <2>6. Head(buffer) = buffer[1] /\ Head(buffer') = buffer'[1]
    OBVIOUS
  <2>7. Head(buffer').date > now
    BY <2>4, <2>5, <2>6
  <2> QED
    BY <2>1, <2>7 DEF Waiting
<1>6. CASE Timeout
  <2>1. pc = "timeout" /\ pc' = "poll" /\ buffer' = buffer
    BY <1>6 DEF Timeout, position
  <2>2. ASSUME buffer # <<>> PROVE deadline' = Head(buffer).date /\ now <= deadline'
    <3>1. PICK h \in Int : h = Head(buffer).date
      <4>1. Head(buffer) \in Block
        BY <1>1, <2>2
      <4> QED
        BY <4>1 DEF Block
    <3>2. h > now
      BY <2>1, <2>2, <3>1 DEF Waiting
    <3>3. ~ (h < now) /\ now <= h
      BY <3>2
    <3>4. deadline' = h
      BY <1>6, <2>2, <3>1, <3>3 DEF Timeout
    <3> QED
      BY <3>1, <3>3, <3>4
  <2> QED
    BY <2>1, <2>2 DEF Waiting
<1> QED
  BY <1>2, <1>3, <1>4, <1>5, <1>6 DEF ReorderLocal

(* While nothing holds it up, time passes only in poll(), and not beyond   *)
(* the date it waits for.                                                  *)
LEMMA WaitingStep ==
    ASSUME ~Slow, BufferTypes, Dates, Waiting, [Next]_linkVars
    PROVE  Waiting'
<1>1. now \in Nat /\ buffer \in Seq(Block)
  BY DEF BufferTypes, Dates
<1>2. ASSUME UNCHANGED <<now, pc, date, deadline, buffer>> PROVE Waiting'
  BY <1>2 DEF Waiting
<1>3. CASE Reorder \/ Request
  BY <1>1, <1>3, LocalWaits DEF Reorder, Request
<1>4. CASE \E m \in up : Arrive(m)
  <2>1. pc \in {"poll", "recv"} /\ pc' = "recv" /\ now' = now
        /\ date' = IF pc = "poll" THEN now ELSE date
    BY <1>4 DEF Arrive, Receive
  <2> QED
    BY <2>1 DEF Waiting
<1>5. CASE Restart
  BY <1>5 DEF Restart, ReorderRestart, Started, Waiting
<1>6. CASE Tick
  <2>1. /\ now' = now + 1 /\ UNCHANGED <<pc, date, deadline, buffer>>
        /\ pc = "poll" /\ ~(deadline # Never /\ deadline <= now)
    BY <1>6, Zenon DEF Tick, ReorderIdle, reorderVars, position
  <2>2. ASSUME buffer # <<>> PROVE now + 1 <= deadline
    <3>1. PICK h \in Int : h = Head(buffer).date
      <4>1. Head(buffer) \in Block
        BY <1>1, <2>2
      <4> QED
        BY <4>1 DEF Block
    <3>2. deadline = h /\ now <= h
      BY <2>1, <2>2, <3>1 DEF Waiting
    <3>3. h # Never
      BY <1>1, <3>2 DEF Never
    <3>4. ~ (h <= now)
      BY <2>1, <3>2, <3>3
    <3> QED
      BY <1>1, <3>2, <3>4
  <2> QED
    BY <2>1, <2>2 DEF Waiting
<1>7. CASE Aggrega
  <2>1. UNCHANGED <<pc, date, deadline, buffer>> /\ now' = now
    <3>1. UNCHANGED reorderVars /\ AggregaStep
      BY <1>7 DEF Aggrega
    <3>2. now' = now
      BY <3>1, Zenon DEF AggregaStep, ReadPart, ReadInput, RetxPart, RetxHandle
    <3> QED
      BY <3>1, <3>2, Zenon DEF reorderVars, position
  <2> QED
    BY <1>2, <2>1
<1>8. CASE Lose \/ Stray \/ Finished \/ UNCHANGED linkVars
  <2>1. UNCHANGED reorderVars /\ now' = now
    BY <1>8, Zenon DEF Lose, Stray, RetxInvalid, Finished, linkVars
  <2> QED
    BY <1>2, <2>1, Zenon DEF reorderVars, position
<1> QED
  BY <1>3, <1>4, <1>5, <1>6, <1>7, <1>8 DEF Next

(* But for a packet that comes, the buffer only loses packets.             *)
LEMMA BufferShrinks ==
    ASSUME BufferTypes, Next, ~\E m \in up : Arrive(m)
    PROVE  /\ \A i \in 1..Len(buffer') : \E j \in 1..Len(buffer) : buffer'[i] = buffer[j]
           /\ \/ UNCHANGED <<clock, lastTs>>
              \/ clock' = NoClock /\ lastTs' = TsMod
<1>1. buffer \in Seq(Block) /\ Len(buffer) \in Nat
  BY DEF BufferTypes
<1>2. CASE PacketSend
  <2>1. buffer # <<>> /\ buffer' = Tail(buffer) /\ UNCHANGED <<clock, lastTs>>
    BY <1>2 DEF PacketSend, clocks
  <2>2. Len(buffer') = Len(buffer) - 1 /\ \A i \in 1..Len(buffer') : buffer'[i] = buffer[i + 1]
    BY <1>1, <2>1
  <2>3. \A i \in 1..Len(buffer') : i + 1 \in 1..Len(buffer)
    BY <1>1, <2>2
  <2> QED
    BY <2>1, <2>2, <2>3
<1>3. CASE RetxDuplicate
  <2>1. PICK k \in 1..Len(buffer) : buffer' = Without(buffer, k) /\ UNCHANGED <<clock, lastTs>>
    <3>1. Current \in 1..Len(buffer) /\ UNCHANGED <<clock, lastTs>>
          /\ buffer' = Without(buffer, Current)
      <4>1. Current \in Nat /\ Len(buffer) \in Nat
        BY <1>1, <1>3 DEF RetxDuplicate, Walk, Current, BufferTypes
      <4> QED
        BY <4>1, <1>3 DEF RetxDuplicate, Walk, SameNumber, InHorizon, Without, clocks
    <3> QED
      BY <3>1
  <2>2. Len(buffer') = Len(buffer) - 1
    BY <1>1, <2>1, Removed
  <2>3. \A i \in 1..k - 1 : buffer'[i] = buffer[i]
    BY <1>1, <2>1, Removed
  <2>4. \A i \in k..Len(buffer) - 1 : buffer'[i] = buffer[i + 1]
    BY <1>1, <2>1, Removed
  <2>5. ASSUME NEW i \in 1..Len(buffer') PROVE \E j \in 1..Len(buffer) : buffer'[i] = buffer[j]
    <3>1. CASE i \in 1..k - 1
      BY <1>1, <2>3, <3>1
    <3>2. CASE i \in k..Len(buffer) - 1
      <4>1. i + 1 \in 1..Len(buffer)
        BY <1>1, <3>2
      <4> QED
        BY <2>4, <3>2, <4>1
    <3> QED
      BY <1>1, <2>2, <2>5, <3>1, <3>2
  <2> QED
    BY <2>1, <2>5
<1>4. CASE UNCHANGED <<buffer, clock, lastTs>>
  BY <1>4
<1>5. CASE Reorder
  <2>1. CASE NothingDue \/ RetxNextPass \/ RetxFollows \/ Timeout \/ TimedOut \/ AllRead
    <3>1. UNCHANGED <<buffer, clock, lastTs>>
      BY <2>1, Zenon DEF NothingDue, RetxNextPass, RetxFollows, Timeout, TimedOut, AllRead,
                         position, clocks
    <3> QED
      BY <1>4, <3>1
  <2> QED
    BY <1>2, <1>3, <1>5, <2>1 DEF Reorder, ReorderLocal
<1>6. CASE Request
  BY <1>4, <1>6 DEF Request, RetxGap, clocks
<1>7. CASE Restart
  <2>1. buffer' = <<>> /\ clock' = NoClock /\ lastTs' = TsMod
    BY <1>7 DEF Restart, ReorderRestart, Started
  <2>2. Len(buffer') = 0
    BY <2>1
  <2> QED
    BY <2>1, <2>2
<1>8. CASE Aggrega \/ Lose \/ Stray \/ Tick \/ Finished
  <2>1. UNCHANGED <<buffer, clock, lastTs>>
    BY <1>8, Zenon DEF Aggrega, Lose, Stray, Tick, Finished, linkVars, reorderVars, position, clocks
  <2> QED
    BY <1>4, <2>1
<1> QED
  BY <1>5, <1>6, <1>7, <1>8 DEF Next

(* The stream does not get shorter.                                        *)
LEMMA FewBefore ==
    ASSUME nbIn \in Nat, nbIn' \in {nbIn, nbIn + 1}, FewStamps'
    PROVE  FewStamps
<1>1. PICK p \in Nat : p = Period
  BY AggregaAssumption DEF AggregaAssumption
<1>2. TsMod \in Nat
  BY ReorderAssumption DEF ReorderAssumption
<1>3. CASE nbIn' = nbIn
  BY <1>3 DEF FewStamps
<1>4. CASE nbIn' = nbIn + 1
  <2>1. nbIn * p \in Nat /\ (nbIn + 1) * p = nbIn * p + p
    BY SMTT(30)
  <2>2. PICK x \in Nat : x = nbIn * p
    BY <2>1
  <2>3. PICK y \in Nat : y = (nbIn + 1) * p
    BY <2>1, <2>2
  <2>4. y = x + p
    BY <2>1, <2>2, <2>3
  <2>5. 2 * y < TsMod
    BY <1>1, <1>4, <2>3 DEF FewStamps
  <2>6. 2 * x < TsMod
    BY <1>2, <2>4, <2>5
  <2> QED
    BY <1>1, <2>2, <2>6 DEF FewStamps
<1> QED
  BY <1>3, <1>4

(* A packet that comes is dated by when it was made; the others keep their *)
(* dates, and a program started again knows no clock.                      *)
LEMMA DatingStep ==
    ASSUME ~Slow, Dates, Links, BufferTypes, Punctual, UnderWay, Waiting, FewStamps,
           Learnt(clock), Stamped, Dating, [Next]_linkVars
    PROVE  Learnt(clock)' /\ Stamped' /\ Dating'
<1>1. nbIn \in Nat /\ now \in Nat /\ start \in Nat /\ MaxDelay \in Nat
  BY LinkAssumption DEF Dates, Punctual, LinkAssumption
<1>2. start' = start /\ nbIn' \in Nat /\ nbIn <= nbIn'
  <2>1. start' = start /\ nbIn' \in {nbIn, nbIn + 1}
    BY TimeSteps DEF linkVars, aggregaVars, config, ReadInput
  <2> QED
    BY <1>1, <2>1
<1>3. \A n : MadeAt(n)' = MadeAt(n)
  BY <1>2 DEF MadeAt
<1>4. CASE \E m \in up : Arrive(m)
  <2>1. PICK m \in up : Arrive(m)
    BY <1>4
  <2>2. PICK d \in Int : d = date' /\ PacketRecv(m, d)
    BY <2>1, <1>1 DEF Arrive, Receive, BufferTypes
  <2>3. d = now
    BY <2>1, <2>2 DEF Arrive, Receive, Waiting
  <2>4. m.id \in 1..nbIn
    BY DEF Links
  <2>5. ASSUME ~m.marker PROVE d - MadeAt(m.id) \in 0..MaxDelay
    <3>1. m.at \in Nat /\ m.at <= now /\ now <= m.at + MaxDelay /\ m.at = MadeAt(m.id)
      BY <2>5 DEF UnderWay
    <3> QED
      BY <1>1, <2>3, <3>1
  <2>6. nbIn' = nbIn
    BY <2>1 DEF Arrive, aggregaVars
  <2> QED
    BY <1>1, <1>2, <2>2, <2>4, <2>5, <2>6, RecvDates
<1>5. CASE ~(\E m \in up : Arrive(m)) /\ Next
  <2>1. /\ \A i \in 1..Len(buffer') : \E j \in 1..Len(buffer) : buffer'[i] = buffer[j]
        /\ \/ UNCHANGED <<clock, lastTs>>
           \/ clock' = NoClock /\ lastTs' = TsMod
    BY <1>5, BufferShrinks
  <2>2. Learnt(clock)'
    BY <1>2, <2>1 DEF Learnt, Lateness
  <2>3. Stamped'
    <3>1. CASE lastTs' = lastTs
      <4>1. PICK l \in 0..nbIn : lastTs = TsMod + l * Period
        BY DEF Stamped
      <4>2. l \in 0..nbIn'
        BY <1>1, <1>2
      <4> QED
        BY <3>1, <4>1, <4>2 DEF Stamped
    <3>2. CASE lastTs' = TsMod
      <4>1. TsMod = TsMod + 0 * Period
        BY ReorderAssumption, AggregaAssumption DEF ReorderAssumption, AggregaAssumption
      <4>2. 0 \in 0..nbIn'
        BY <1>2
      <4> QED
        BY <3>2, <4>1, <4>2 DEF Stamped
    <3> QED
      BY <2>1, <3>1, <3>2
  <2>4. ASSUME NEW i \in 1..Len(buffer')
        PROVE  /\ buffer'[i].id \in 1..nbIn'
               /\ ~buffer'[i].undated =>
                    buffer'[i].date - BufferLength - MadeAt(buffer'[i].id) \in 0..MaxDelay
    <3>1. PICK j \in 1..Len(buffer) : buffer'[i] = buffer[j]
      BY <2>1
    <3>2. /\ buffer[j].id \in 1..nbIn
          /\ ~buffer[j].undated =>
               buffer[j].date - BufferLength - MadeAt(buffer[j].id) \in 0..MaxDelay
      BY DEF Dating
    <3>3. \A x \in 1..nbIn : x \in 1..nbIn'
      BY <1>1, <1>2
    <3> QED
      BY <3>1, <3>2, <3>3
  <2> QED
    BY <1>3, <2>2, <2>3, <2>4 DEF Dating
<1>6. CASE UNCHANGED linkVars
  <2>1. UNCHANGED <<clock, lastTs, buffer, nbIn, start>>
    BY <1>6, Zenon DEF linkVars, reorderVars, aggregaVars, position, clocks, config
  <2> QED
    BY <1>3, <2>1 DEF Learnt, Lateness, Stamped, Dating
<1> QED
  BY <1>4, <1>5, <1>6

(* At first nothing was sent.                                              *)
LEMMA DateInvInit == Init => DateInv
<1> SUFFICES ASSUME Init PROVE DateInv
  OBVIOUS
<1>1. /\ now \in Nat /\ start = now /\ nbIn = 0 /\ sentAt = <<>> /\ up = {}
      /\ buffer = <<>> /\ pc = "send" /\ clock = NoClock /\ lastTs = TsMod
  BY AggregaAssumption DEF Init, AggregaInit, ReorderInit, Started, AggregaAssumption
<1>2. Punctual
  <2>1. start \in Nat
    BY <1>1
  <2>2. MadeAt(1) = start
    BY <2>1, MadeInTurn
  <2>3. nbIn + 1 = 1
    BY <1>1
  <2> QED
    BY <1>1, <2>2, <2>3 DEF Punctual
<1>3. UnderWay /\ Waiting
  BY <1>1 DEF UnderWay, Waiting
<1>4. Learnt(clock) /\ Dating
  <2>1. Len(buffer) = 0
    BY <1>1
  <2> QED
    BY <1>1, <2>1 DEF Learnt, Dating
<1>5. Stamped
  <2>1. TsMod = TsMod + 0 * Period /\ 0 \in 0..nbIn
    BY <1>1, ReorderAssumption, AggregaAssumption DEF ReorderAssumption, AggregaAssumption
  <2> QED
    BY <1>1, <2>1 DEF Stamped
<1> QED
  BY <1>2, <1>3, <1>4, <1>5 DEF DateInv

(* Every step keeps all of it.                                             *)
LEMMA DateInvStep ==
    ASSUME ~Slow, Dates, Links, BufferTypes, DateInv, [Next]_linkVars
    PROVE  DateInv'
<1>1. Punctual'
  BY PunctualStep DEF DateInv
<1>2. UnderWay'
  BY UnderWayStep DEF DateInv
<1>3. Waiting'
  BY WaitingStep DEF DateInv
<1>4. ASSUME FewStamps' PROVE FewStamps
  <2>1. nbIn \in Nat /\ nbIn' \in {nbIn, nbIn + 1}
    BY TimeSteps DEF Dates, linkVars, aggregaVars, ReadInput
  <2> QED
    BY <1>4, <2>1, FewBefore
<1>5. ASSUME FewStamps' PROVE Learnt(clock)' /\ Stamped' /\ Dating'
  BY <1>4, <1>5, DatingStep DEF DateInv
<1> QED
  BY <1>1, <1>2, <1>3, <1>5 DEF DateInv

(* So the packets are dated by when they were made, and the head, whose    *)
(* date is not over while reordertp waits, was made before the others.     *)
LEMMA DatedIsOnTime ==
    ASSUME Dates, BufferTypes, Sorted, DateInv, FewStamps
    PROVE  OnTime
<1>1. nbIn \in Nat /\ now \in Nat /\ start \in Nat /\ MaxDelay \in Nat /\ BufferLength \in Nat
      /\ buffer \in Seq(Block) /\ Len(buffer) \in Nat
  BY LinkAssumption, ReorderAssumption
     DEF Dates, DateInv, Punctual, BufferTypes, LinkAssumption, ReorderAssumption
<1>2. \A i \in 1..Len(buffer) : buffer[i].date \in Int /\ buffer[i].id \in 1..nbIn
  <2> TAKE i \in 1..Len(buffer)
  <2>1. buffer[i] \in Block
    BY <1>1
  <2>2. buffer[i].date \in Int
    BY <2>1 DEF Block
  <2>3. Dating
    BY DEF DateInv
  <2> QED
    BY <2>2, <2>3 DEF Dating
<1>3. ASSUME pc = "poll", buffer # <<>>
      PROVE  deadline # Never /\ now <= deadline /\ deadline <= Head(buffer).date
             /\ buffer[1].date >= now
  <2>1. deadline = Head(buffer).date /\ now <= deadline
    BY <1>3 DEF DateInv, Waiting
  <2>2. 1 \in 1..Len(buffer) /\ Head(buffer) = buffer[1]
    BY <1>1, <1>3
  <2>3. PICK h \in Int : h = buffer[1].date
    BY <1>2, <2>2
  <2>4. deadline = h /\ now <= h
    BY <2>1, <2>2, <2>3
  <2>5. deadline # Never /\ now <= deadline /\ deadline <= h /\ h >= now
    BY <1>1, <2>4 DEF Never
  <2> QED
    BY <2>2, <2>3, <2>5
<1>4. ASSUME Dated, NEW i \in 1..Len(buffer)
      PROVE  /\ buffer[i].date <= now + BufferLength + MaxDelay
             /\ pc = "poll" => buffer[i].date >= now - MaxDelay
  <2>1. \A k \in 1..Len(buffer) : ~buffer[k].undated
    BY <1>4 DEF Dated
  <2>2. \A k \in 1..Len(buffer) :
            buffer[k].date - BufferLength - MadeAt(buffer[k].id) \in 0..MaxDelay
    BY <2>1 DEF DateInv, Dating
  <2>3. PICK d \in Int : d = buffer[i].date
    BY <1>2
  <2>4. PICK n \in 1..nbIn : n = buffer[i].id
    BY <1>2
  <2>5. PICK t \in Int : t = MadeAt(n)
    <3>1. n \in Nat
      BY <1>1
    <3> QED
      BY <1>1, <3>1, MadeInTurn
  <2>6. d - BufferLength - t \in 0..MaxDelay
    BY <2>2, <2>3, <2>4, <2>5
  <2>7. t <= now
    BY <2>5 DEF DateInv, Punctual
  <2>8. d <= now + BufferLength + MaxDelay
    BY <1>1, <2>6, <2>7
  <2>9. ASSUME pc = "poll" PROVE d >= now - MaxDelay
    <3>1. 1 \in 1..Len(buffer) /\ buffer # <<>>
      BY <1>1
    <3>2. PICK h \in Int : h = buffer[1].date
      BY <1>2, <3>1
    <3>3. h >= now
      BY <1>3, <2>9, <3>1, <3>2
    <3>4. PICK a \in 1..nbIn : a = buffer[1].id
      BY <1>2, <3>1
    <3>5. a <= n
      <4>1. CASE i = 1
        BY <2>4, <3>4, <4>1
      <4>2. CASE i # 1
        BY <2>4, <3>1, <3>4, <4>2 DEF Sorted
      <4> QED
        BY <4>1, <4>2
    <3>6. PICK u \in Int : u = MadeAt(a)
      <4>1. a \in Nat
        BY <1>1
      <4> QED
        BY <1>1, <4>1, MadeInTurn
    <3>7. u <= t
      BY <1>1, <2>5, <3>5, <3>6, MadeInTurn
    <3>8. h - BufferLength - u \in 0..MaxDelay
      BY <2>2, <3>1, <3>2, <3>4, <3>6
    <3> QED
      BY <1>1, <2>6, <3>3, <3>7, <3>8
  <2> QED
    BY <2>3, <2>8, <2>9
<1> QED
  BY <1>3, <1>4 DEF OnTime

(***************************************************************************)
(* While nothing holds reordertp up, it is awake when the first packet of  *)
(* its buffer is due, however often it is killed and whatever is lost, and *)
(* no packet stays longer than the buffer is long: the clock it learns     *)
(* from the packets is never off by more than the links delay them.  It is *)
(* so until half the timestamps have been used.                            *)
(***************************************************************************)
THEOREM SentOnTime ==
    ASSUME ~Slow
    PROVE  Spec /\ []Near => [](FewStamps => OnTime)
<1> DEFINE I == LinkInv /\ DateInv
<1>1. Init => I
  BY LinkInvInit, DateInvInit
<1>2. I /\ Near' /\ [Next]_linkVars => I'
  BY LinkInvStep, DateInvStep DEF LinkInv, QueueInv, OrderInv
<1>3. I => (FewStamps => OnTime)
  BY DatedIsOnTime DEF LinkInv, QueueInv, OrderInv
<1> QED
  BY <1>1, <1>2, <1>3, PTL DEF Spec
=============================================================================
