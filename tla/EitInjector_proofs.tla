------------------------- MODULE EitInjector_proofs -------------------------
(***************************************************************************)
(* Proofs about multicat-eit playing a file: for every file, every size of *)
(* a chunk and every length that sections have, no audio or video packet   *)
(* is lost, doubled or out of its place; and as long as a section fits in  *)
(* a packet, sections are sent whole and a file played with -l goes on.    *)
(*                                                                         *)
(* What add_eit makes of a chunk, and which packets of a sequence are of a *)
(* kind, are recursive functions over the packets.  Counting is induction  *)
(* over the naturals for a set, Steps says that such functions exist, and  *)
(* OfIs and ReplaceIs say what they are; the rest follows from what one    *)
(* packet more does (OfAppend, InjectKeeps, InjectOne).                    *)
(*                                                                         *)
(* The invariant: what was sent, what is kept, what was read and what is   *)
(* left of the file make up the file (NothingMissing); what is kept and    *)
(* what the next read asks for make up a chunk (Turning); with sections of *)
(* one packet nothing is kept and the dates last as long as the file       *)
(* (InStep).                                                               *)
(***************************************************************************)
EXTENDS EitInjector, WellFoundedInduction, SequenceTheorems, TLAPS

(* EIT packets that are whole sections, numbered upwards from low on and    *)
(* below high.                                                              *)
NumberedBelow(packets, low, high) ==
    /\ \A k \in 1..Len(packets) : packets[k].part = 0 /\ packets[k].n \in low..high - 1
    /\ \A j, k \in 1..Len(packets) : j < k => packets[j].n < packets[k].n

(* What is left of the file.                                               *)
Rest == SubSeq(file, position + 1, Len(file))

(* Nothing is in a buffer when the loop turns, the next read and what is    *)
(* kept of the last one make up a chunk, and the loop ends when told to.    *)
Turning ==
    /\ at \in {"read", "end", "hung"} => buffer = <<>>
    /\ at # "crashed" => step + Len(shift) = ChunkPackets
    /\ at = "end" => b_die
    /\ loop => sent = <<>>

(* What was sent, what is kept, what was read and what is left of the file. *)
NothingMissing ==
    ~loop /\ at # "crashed" =>
      AvOf(sent) \o AvOf(shift) \o AvOf(buffer) \o AvOf(Rest) = AvOf(file)

(* With sections of one packet nothing is kept, and the file and its dates  *)
(* are read at the same pace.                                               *)
InStep ==
    OnePacket =>
      /\ shift = <<>> /\ step = ChunkPackets
      /\ position = Least(stamps * ChunkPackets, Len(file))
      /\ b_die /\ ~told => ~loop /\ position = Len(file)
      /\ NumberedBelow(EitOf(sent), 0, sections)

InjInv == InjTypeOK /\ Turning /\ NothingMissing /\ InStep

-----------------------------------------------------------------------------
(* Sequences.                                                              *)

(* A set of naturals that has 0 and, with any number, the next has them    *)
(* all.                                                                    *)
LEMMA Counting ==
    ASSUME NEW S, 0 \in S, \A m \in Nat : m \in S => m + 1 \in S
    PROVE  \A m \in Nat : m \in S
<1> DEFINE Less == OpToRel(<, Nat)
           R == Nat \ S
<1>1. \A x, y \in Nat : <<y, x>> \in Less <=> y < x
  BY DEF OpToRel
<1>2. IsWellFoundedOn(Less, Nat)
  BY NatLessThanWellFounded
<1> HIDE DEF Less
<1>3. SUFFICES ASSUME R # {} PROVE FALSE
  OBVIOUS
<1>4. PICK m \in R : \A n \in R : ~ (<<n, m>> \in Less)
  BY <1>2, <1>3, WFMin
<1>5. m \in Nat /\ m \notin S /\ \A n \in Nat : n < m => n \in S
  BY <1>1, <1>4
<1>6. m # 0 /\ m - 1 \in Nat /\ m - 1 < m
  BY <1>5
<1>7. m - 1 \in S
  BY <1>5, <1>6
<1>8. (m - 1) + 1 \in S
  BY <1>6, <1>7
<1> QED
  BY <1>5, <1>8

(* The values after each of n steps.                                       *)
Run(g, A, base, n, next) ==
    g \in [0..n -> A] /\ g[0] = base /\ \A k \in 1..n : g[k] = next[k][g[k-1]]

(* Taking a step for each of n items, from an initial value on, gives a    *)
(* value after each.                                                       *)
LEMMA Steps ==
    ASSUME NEW A, NEW base \in A, NEW n \in Nat, NEW next \in [1..n -> [A -> A]]
    PROVE  \E g : Run(g, A, base, n, next)
<1> DEFINE Done(m) == \E g \in [0..m -> A] :
                        g[0] = base /\ \A k \in 1..m : g[k] = next[k][g[k-1]]
           S == {m \in Nat : m <= n => Done(m)}
<1>1. 0 \in S
  <2> DEFINE g == [k \in 0..0 |-> base]
  <2>1. g \in [0..0 -> A] /\ g[0] = base
    OBVIOUS
  <2>2. \A k \in 1..0 : g[k] = next[k][g[k-1]]
    OBVIOUS
  <2> QED
    BY <2>1, <2>2
<1>2. ASSUME NEW m \in Nat, m \in S PROVE m + 1 \in S
  <2>1. CASE m + 1 <= n
    <3>1. PICK g \in [0..m -> A] : g[0] = base /\ \A k \in 1..m : g[k] = next[k][g[k-1]]
      BY <1>2, <2>1
    <3> DEFINE v == next[m+1][g[m]]
               h == [k \in 0..m+1 |-> IF k = m + 1 THEN v ELSE g[k]]
    <3>2. v \in A
      BY <2>1, <3>1
    <3> HIDE DEF v
    <3>3. h \in [0..m+1 -> A] /\ \A k \in 0..m : h[k] = g[k]
      BY <3>1, <3>2
    <3>4. h[0] = base /\ h[m+1] = v
      BY <3>1
    <3> HIDE DEF h
    <3>5. ASSUME NEW k \in 1..m+1 PROVE h[k] = next[k][h[k-1]]
      <4>1. CASE k = m + 1
        BY <3>3, <3>4, <4>1 DEF v
      <4>2. CASE k # m + 1
        <5>1. k \in 1..m /\ k \in 0..m /\ k - 1 \in 0..m
          BY <4>2
        <5> QED
          BY <3>1, <3>3, <5>1
      <4> QED
        BY <4>1, <4>2
    <3> QED
      BY <3>3, <3>4, <3>5
  <2>2. CASE ~(m + 1 <= n)
    BY <2>2
  <2> QED
    BY <2>1, <2>2
<1> HIDE DEF S
<1>3. n \in S
  BY <1>1, <1>2, Counting
<1> QED
  BY <1>3 DEF S, Run

(* What Of collects, packet by packet.                                     *)
Collects(g, kind, s, n) ==
    /\ g \in [0..n -> Seq(Packet)]
    /\ g[0] = <<>>
    /\ \A k \in 1..n : g[k] = IF s[k].kind = kind THEN Append(g[k-1], s[k]) ELSE g[k-1]
    /\ Of(kind, s) = g[n]

(* There are such values, and the last of them is what Of collects.        *)
LEMMA OfIs ==
    ASSUME NEW kind, NEW s \in Seq(Packet), NEW n, n = Len(s)
    PROVE  \E g : Collects(g, kind, s, n)
<1>1. n \in Nat
  OBVIOUS
<1>2. PICK A : A = Seq(Packet)
  OBVIOUS
<1>3. <<>> \in A /\ \A k \in 1..n, a \in A : Append(a, s[k]) \in A
  BY <1>1, <1>2
<1>4. PICK next : next = [k \in 1..n |-> [a \in A |-> IF s[k].kind = kind THEN Append(a, s[k]) ELSE a]]
  OBVIOUS
<1>5. next \in [1..n -> [A -> A]]
  BY <1>3, <1>4
<1>6. PICK g \in [0..n -> A] : g[0] = <<>> /\ \A k \in 1..n : g[k] = next[k][g[k-1]]
  <2>1. PICK base \in A : base = <<>>
    BY <1>3
  <2>2. \E g : Run(g, A, base, n, next)
    BY <1>1, <1>5, Steps
  <2> QED
    BY <2>1, <2>2 DEF Run
<1>7. ASSUME NEW k \in 1..n
      PROVE  g[k] = IF s[k].kind = kind THEN Append(g[k-1], s[k]) ELSE g[k-1]
  <2>1. k - 1 \in 0..n /\ g[k-1] \in A /\ g[k] = next[k][g[k-1]]
    BY <1>6
  <2> QED
    BY <1>4, <2>1
<1> DEFINE Body(f) == [k \in 0..n |-> IF k = 0 THEN <<>>
                         ELSE IF s[k].kind = kind THEN Append(f[k-1], s[k]) ELSE f[k-1]]
<1>8. \A f : f = Body(f) => f = g
  <2>1. SUFFICES ASSUME NEW f, f = Body(f) PROVE f = g
    OBVIOUS
  <2> DEFINE S == {m \in Nat : m <= n => f[m] = g[m]}
  <2>2. \A k \in 0..n : f[k] = IF k = 0 THEN <<>>
                         ELSE IF s[k].kind = kind THEN Append(f[k-1], s[k]) ELSE f[k-1]
    BY <2>1
  <2>3. 0 \in S
    BY <1>6, <2>2
  <2>4. ASSUME NEW m \in Nat, m \in S PROVE m + 1 \in S
    <3>1. CASE m + 1 <= n
      <4>1. f[m] = g[m] /\ m + 1 \in 1..n /\ m + 1 \in 0..n /\ (m + 1) - 1 = m
        BY <2>4, <3>1
      <4>2. g[m+1] = IF s[m+1].kind = kind THEN Append(g[m], s[m+1]) ELSE g[m]
        BY <1>7, <4>1
      <4>3. f[m+1] = IF s[m+1].kind = kind THEN Append(f[m], s[m+1]) ELSE f[m]
        BY <2>2, <4>1
      <4> QED
        BY <4>1, <4>2, <4>3
    <3>2. CASE ~(m + 1 <= n)
      BY <3>2
    <3> QED
      BY <3>1, <3>2
  <2> HIDE DEF S
  <2>5. \A m \in Nat : m \in S
    BY <2>3, <2>4, Counting
  <2>6. \A k \in 0..n : f[k] = g[k]
    BY <2>5 DEF S
  <2>7. f = [k \in 0..n |-> f[k]]
    BY <2>1
  <2>8. g = [k \in 0..n |-> g[k]]
    OBVIOUS
  <2> QED
    BY <2>6, <2>7, <2>8
<1>9. g = Body(g)
  <2>1. \A k \in 0..n : g[k] = IF k = 0 THEN <<>>
                         ELSE IF s[k].kind = kind THEN Append(g[k-1], s[k]) ELSE g[k-1]
    <3>1. SUFFICES ASSUME NEW k \in 0..n
                   PROVE  g[k] = IF k = 0 THEN <<>>
                         ELSE IF s[k].kind = kind THEN Append(g[k-1], s[k]) ELSE g[k-1]
      OBVIOUS
    <3>2. CASE k = 0
      BY <1>6, <3>2
    <3>3. CASE k # 0
      <4>1. k \in 1..n
        BY <3>3
      <4> QED
        BY <1>7, <3>3, <4>1
    <3> QED
      BY <3>2, <3>3
  <2>2. g = [k \in 0..n |-> g[k]]
    OBVIOUS
  <2> QED
    BY <2>1, <2>2
<1>10. (CHOOSE f : f = Body(f)) = g
  <2> HIDE DEF Body
  <2> QED
    BY <1>8, <1>9
<1>11. Of(kind, s) = g[n]
  BY <1>1, <1>10 DEF Of
<1> QED
  BY <1>2, <1>6, <1>7, <1>11 DEF Collects

(* Appending to the second of two sequences appends to both together.      *)
LEMMA AppendLast ==
    ASSUME NEW a \in Seq(Packet), NEW b \in Seq(Packet), NEW e \in Packet
    PROVE  Append(a \o b, e) = a \o Append(b, e)
<1>1. PICK x \in Seq(Packet) : x = a \o b
  BY ConcatProperties
<1>2. PICK y \in Seq(Packet) : y = Append(b, e)
  BY AppendProperties
<1>3. PICK l \in Seq(Packet) : l = Append(x, e)
  BY AppendProperties
<1>4. PICK r \in Seq(Packet) : r = a \o y
  BY ConcatProperties
<1>5. Len(x) = Len(a) + Len(b) /\ Len(l) = Len(a) + Len(b) + 1
  BY <1>1, <1>3
<1>6. Len(y) = Len(b) + 1 /\ Len(r) = Len(a) + Len(b) + 1
  BY <1>2, <1>4
<1>7. ASSUME NEW k \in 1..Len(l) PROVE l[k] = r[k]
  <2>1. CASE k = Len(l)
    <3>1. l[k] = e
      BY <1>3, <1>5, <2>1
    <3>2. k - Len(a) = Len(b) + 1 /\ y[Len(b)+1] = e
      BY <1>2, <1>5, <2>1
    <3> QED
      BY <1>4, <1>5, <1>6, <2>1, <3>1, <3>2
  <2>2. CASE k <= Len(a)
    BY <1>1, <1>3, <1>4, <1>5, <2>2
  <2>3. CASE k # Len(l) /\ ~(k <= Len(a))
    <3>1. k \in 1..Len(x) /\ k - Len(a) \in 1..Len(b)
      BY <1>5, <2>3
    <3>2. l[k] = x[k] /\ x[k] = b[k-Len(a)]
      BY <1>1, <1>3, <2>3, <3>1
    <3>3. r[k] = y[k-Len(a)] /\ y[k-Len(a)] = b[k-Len(a)]
      BY <1>2, <1>4, <1>5, <1>6, <2>3, <3>1
    <3> QED
      BY <3>2, <3>3
  <2> QED
    BY <2>1, <2>2, <2>3
<1>8. l = r
  BY <1>5, <1>6, <1>7, SeqEqual
<1> QED
  BY <1>1, <1>2, <1>3, <1>4, <1>8

(* What is collected of the beginning of a sequence is what is collected   *)
(* of the sequence so far.                                                 *)
LEMMA OfBeginning ==
    ASSUME NEW kind, NEW a, NEW c, NEW m \in Nat, NEW n \in Nat, m <= n,
           \A k \in 1..m : c[k] = a[k],
           NEW f, Collects(f, kind, a, m), NEW h, Collects(h, kind, c, n)
    PROVE  h[m] = f[m]
<1> DEFINE S == {k \in Nat : k <= m => h[k] = f[k]}
<1>1. 0 \in S
  BY DEF Collects
<1>2. ASSUME NEW k \in Nat, k \in S PROVE k + 1 \in S
  <2>1. CASE k + 1 <= m
    <3>1. k + 1 \in 1..m /\ k + 1 \in 1..n /\ (k + 1) - 1 = k /\ h[k] = f[k] /\ c[k+1] = a[k+1]
      BY <1>2, <2>1
    <3>2. f[k+1] = IF a[k+1].kind = kind THEN Append(f[k], a[k+1]) ELSE f[k]
      BY <3>1 DEF Collects
    <3>3. h[k+1] = IF c[k+1].kind = kind THEN Append(h[k], c[k+1]) ELSE h[k]
      BY <3>1 DEF Collects
    <3> QED
      BY <3>1, <3>2, <3>3
  <2>2. CASE ~(k + 1 <= m)
    BY <2>2
  <2> QED
    BY <2>1, <2>2
<1> HIDE DEF S
<1>3. m \in S
  BY <1>1, <1>2, Counting
<1> QED
  BY <1>3 DEF S

(* What is collected of a sequence of two parts is what is collected of    *)
(* each.                                                                   *)
LEMMA OfConcat ==
    ASSUME NEW kind, NEW a \in Seq(Packet), NEW b \in Seq(Packet)
    PROVE  Of(kind, a) \in Seq(Packet) /\ Of(kind, a \o b) = Of(kind, a) \o Of(kind, b)
<1>1. PICK c \in Seq(Packet) : c = a \o b
  BY ConcatProperties
<1>2. PICK m \in Nat, n \in Nat : m = Len(a) /\ n = Len(b)
  OBVIOUS
<1>3. /\ Len(c) = m + n
      /\ \A k \in 1..m : c[k] = a[k]
      /\ \A k \in 1..n : c[m+k] = b[k]
  BY <1>1, <1>2
<1>4. PICK f : Collects(f, kind, a, m)
  BY <1>2, OfIs
<1>5. PICK g : Collects(g, kind, b, n)
  BY <1>2, OfIs
<1>6. PICK h : Collects(h, kind, c, m + n)
  BY <1>3, OfIs
<1>7. h[m] = f[m]
  <2>1. m + n \in Nat /\ m <= m + n
    OBVIOUS
  <2> QED
    BY <1>3, <1>4, <1>6, <2>1, OfBeginning
<1>8. PICK d \in Seq(Packet) : d = f[m]
  BY <1>4 DEF Collects
<1>9. d \o <<>> = d
  BY ConcatEmptySeq
<1>10. h[m+n] = d \o g[n]
  <2> DEFINE S == {k \in Nat : k <= n => h[m+k] = d \o g[k]}
  <2>1. 0 \in S
    <3>1. m + 0 = m /\ g[0] = <<>>
      BY <1>5 DEF Collects
    <3> QED
      BY <1>7, <1>8, <1>9, <3>1
  <2>2. ASSUME NEW k \in Nat, k \in S PROVE k + 1 \in S
    <3>1. CASE k + 1 <= n
      <4>1. /\ k + 1 \in 1..n /\ (k + 1) - 1 = k /\ k \in 0..n /\ h[m+k] = d \o g[k]
            /\ m + (k + 1) \in 1..m+n /\ (m + (k + 1)) - 1 = m + k
        BY <2>2, <3>1
      <4>2. PICK p \in Packet : p = b[k+1]
        BY <1>2, <4>1
      <4>3. PICK e \in Seq(Packet) : e = g[k]
        BY <1>5, <4>1 DEF Collects
      <4>4. c[m+(k+1)] = p
        BY <1>3, <4>1, <4>2
      <4>5. h[m+(k+1)] = IF p.kind = kind THEN Append(d \o e, p) ELSE d \o e
        BY <1>6, <4>1, <4>3, <4>4 DEF Collects
      <4>6. g[k+1] = IF p.kind = kind THEN Append(e, p) ELSE e
        BY <1>5, <4>1, <4>2, <4>3 DEF Collects
      <4>7. Append(d \o e, p) = d \o Append(e, p)
        BY AppendLast
      <4>8. h[m+(k+1)] = d \o g[k+1]
        BY <4>5, <4>6, <4>7
      <4> QED
        BY <4>8
    <3>2. CASE ~(k + 1 <= n)
      BY <3>2
    <3> QED
      BY <3>1, <3>2
  <2> HIDE DEF S
  <2>3. n \in S
    BY <2>1, <2>2, Counting
  <2> QED
    BY <2>3 DEF S
<1> QED
  BY <1>1, <1>4, <1>5, <1>6, <1>8, <1>10 DEF Collects

(* Of packets of other kinds nothing is collected.                         *)
LEMMA OfOthers ==
    ASSUME NEW kind, NEW s \in Seq(Packet), \A k \in 1..Len(s) : s[k].kind # kind
    PROVE  Of(kind, s) = <<>>
<1>1. PICK n \in Nat : n = Len(s)
  OBVIOUS
<1>2. PICK g : Collects(g, kind, s, n)
  BY <1>1, OfIs
<1> DEFINE S == {k \in Nat : k <= n => g[k] = <<>>}
<1>3. 0 \in S
  BY <1>2 DEF Collects
<1>4. ASSUME NEW k \in Nat, k \in S PROVE k + 1 \in S
  <2>1. CASE k + 1 <= n
    <3>1. k + 1 \in 1..n /\ (k + 1) - 1 = k /\ g[k] = <<>>
      BY <1>4, <2>1
    <3>2. g[k+1] = g[k]
      BY <1>1, <1>2, <3>1 DEF Collects
    <3> QED
      BY <3>1, <3>2
  <2>2. CASE ~(k + 1 <= n)
    BY <2>2
  <2> QED
    BY <2>1, <2>2
<1> HIDE DEF S
<1>5. n \in S
  BY <1>3, <1>4, Counting
<1> QED
  BY <1>2, <1>5 DEF S, Collects

(* A packet more is collected if it is of the kind.                        *)
LEMMA OfAppend ==
    ASSUME NEW kind, NEW s \in Seq(Packet), NEW p \in Packet
    PROVE  Of(kind, Append(s, p)) = IF p.kind = kind THEN Append(Of(kind, s), p) ELSE Of(kind, s)
<1>1. PICK c \in Seq(Packet) : c = Append(s, p)
  BY AppendProperties
<1>2. PICK m \in Nat : m = Len(s)
  OBVIOUS
<1>3. Len(c) = m + 1 /\ c[m+1] = p /\ \A k \in 1..m : c[k] = s[k]
  BY <1>1, <1>2
<1>4. PICK f : Collects(f, kind, s, m)
  BY <1>2, OfIs
<1>5. PICK h : Collects(h, kind, c, m + 1)
  BY <1>3, OfIs
<1>6. h[m] = f[m]
  BY <1>3, <1>4, <1>5, OfBeginning
<1>7. m + 1 \in 1..m+1 /\ (m + 1) - 1 = m
  OBVIOUS
<1>8. h[m+1] = IF p.kind = kind THEN Append(f[m], p) ELSE f[m]
  BY <1>3, <1>5, <1>6, <1>7 DEF Collects
<1> QED
  BY <1>1, <1>4, <1>5, <1>8 DEF Collects

(* Of no packets nothing is collected.                                     *)
LEMMA OfNothing == ASSUME NEW kind PROVE Of(kind, <<>>) = <<>>
<1>1. PICK e : e = <<>>
  OBVIOUS
<1>2. e \in Seq(Packet) /\ Len(e) = 0
  BY <1>1
<1>3. \A k \in 1..Len(e) : e[k].kind # kind
  BY <1>2
<1>4. Of(kind, e) = <<>>
  BY <1>2, <1>3, OfOthers
<1> QED
  BY <1>1, <1>4

(* An EIT packet is one, of its section and with its part.                 *)
LEMMA EitPacket ==
    ASSUME NEW m \in Nat, NEW part \in Nat
    PROVE  /\ Eit(m, part) \in Packet
           /\ Eit(m, part).kind = "eit" /\ Eit(m, part).n = m /\ Eit(m, part).part = part
BY DEF Eit, Packet

-----------------------------------------------------------------------------
(* What add_eit makes of packets.                                          *)

Result == [out : Seq(Packet), made : Nat]
(* What is known of the entry: its sections have some bytes.               *)
EntryKnown == sections \in Nat /\ length \in [{0, 1} -> Nat \ {0}]

(* A section becomes EIT packets; they number its rest down to 0.          *)
LEMMA SectionPackets ==
    ASSUME EntryKnown, NEW n \in Nat
    PROVE  /\ output_psi_section(n) \in Seq(Packet)
           /\ \A k \in 1..Len(output_psi_section(n)) : output_psi_section(n)[k].kind = "eit"
           /\ nbPacket(length[n % 2]) = 1 /\ Needed(length[n % 2]) = 1 =>
                Len(output_psi_section(n)) = 1 /\ output_psi_section(n)[1] = Eit(n, 0)
<1>1. n % 2 \in {0, 1}
  OBVIOUS
<1>2. PICK bytes \in Nat \ {0} : bytes = length[n % 2]
  BY <1>1 DEF EntryKnown
<1>3. PICK a \in Nat, b \in Nat : a = nbPacket(bytes) /\ b = Needed(bytes) /\ a <= b
  <2>1. nbPacket(bytes) = (bytes + 187) \div 188
    BY DEF nbPacket, CeilDiv, TsSize
  <2>2. Needed(bytes) = (bytes + 184) \div 184
    BY DEF Needed, CeilDiv, TsPayload
  <2>3. (bytes + 187) \div 188 \in Nat /\ (bytes + 184) \div 184 \in Nat
    OBVIOUS
  <2>4. (bytes + 187) \div 188 <= (bytes + 184) \div 184
    OBVIOUS
  <2> QED
    BY <2>1, <2>2, <2>3, <2>4
<1> DEFINE s == [k \in 1..a |-> Eit(n, b - k)]
<1>4. output_psi_section(n) = s
  BY <1>2, <1>3 DEF output_psi_section
<1>5. ASSUME NEW k \in 1..a PROVE Eit(n, b - k) \in Packet /\ Eit(n, b - k).kind = "eit"
  <2>1. b - k \in Nat
    BY <1>3
  <2> QED
    BY <2>1 DEF Eit, Packet
<1>6. s \in Seq(Packet) /\ Len(s) = a
  BY <1>5, IsASeq
<1>7. \A k \in 1..Len(s) : s[k].kind = "eit"
  BY <1>5, <1>6
<1>8. a = 1 /\ b = 1 => Len(s) = 1 /\ s[1] = Eit(n, 0)
  BY <1>6
<1> QED
  BY <1>2, <1>3, <1>4, <1>6, <1>7, <1>8

(* One packet more keeps the audio and video packets.                      *)
LEMMA InjectKeeps ==
    ASSUME EntryKnown, NEW done \in Result, NEW p \in Packet
    PROVE  /\ Inject(done, p) \in Result
           /\ Of("av", Inject(done, p).out) =
                IF p.kind = "av" THEN Append(Of("av", done.out), p) ELSE Of("av", done.out)
<1>1. PICK d \in Seq(Packet), m \in Nat : d = done.out /\ m = done.made
  BY DEF Result
<1>2. CASE p.kind = "eit"
  <2>1. PICK t \in Seq(Packet) : t = output_psi_section(m) /\ \A k \in 1..Len(t) : t[k].kind = "eit"
    BY SectionPackets
  <2>2. Inject(done, p) = [out |-> d \o t, made |-> m + 1]
    BY <1>1, <1>2, <2>1 DEF Inject
  <2>3. d \o t \in Seq(Packet)
    BY ConcatProperties
  <2>4. Of("av", t) = <<>>
    <3>1. \A k \in 1..Len(t) : t[k].kind # "av"
      BY <2>1
    <3> QED
      BY <3>1, OfOthers
  <2>5. Of("av", d) \in Seq(Packet) /\ Of("av", d \o t) = Of("av", d) \o Of("av", t)
    BY OfConcat
  <2>6. Of("av", d \o t) = Of("av", d)
    BY <2>4, <2>5, ConcatEmptySeq
  <2> QED
    BY <1>1, <1>2, <2>2, <2>3, <2>6 DEF Result
<1>3. CASE p.kind = "bad"
  BY <1>3 DEF Inject
<1>4. CASE p.kind # "eit" /\ p.kind # "bad"
  <2>1. Inject(done, p) = [out |-> Append(d, p), made |-> m]
    BY <1>1, <1>4 DEF Inject, Result
  <2>2. Append(d, p) \in Seq(Packet)
    BY AppendProperties
  <2>3. Of("av", Append(d, p)) = IF p.kind = "av" THEN Append(Of("av", d), p) ELSE Of("av", d)
    BY OfAppend
  <2> QED
    BY <1>1, <2>1, <2>2, <2>3 DEF Result
<1> QED
  BY <1>2, <1>3, <1>4

(* What Replace makes, packet by packet.                                   *)
Injects(g, s, n) ==
    /\ g \in [0..n -> Result]
    /\ g[0] = [out |-> <<>>, made |-> sections]
    /\ \A k \in 1..n : g[k] = Inject(g[k-1], s[k])
    /\ Replace(s) = g[n]

(* There are such values, and the last of them is what Replace makes.      *)
LEMMA ReplaceIs ==
    ASSUME EntryKnown, NEW s \in Seq(Packet), NEW n, n = Len(s)
    PROVE  \E g : Injects(g, s, n)
<1>1. n \in Nat /\ \A k \in 1..n : s[k] \in Packet
  OBVIOUS
<1>2. PICK A : A = Result
  OBVIOUS
<1>3. PICK base \in A : base = [out |-> <<>>, made |-> sections]
  <2>1. <<>> \in Seq(Packet)
    OBVIOUS
  <2> QED
    BY <1>2, <2>1 DEF Result, EntryKnown
<1>4. PICK next : next = [k \in 1..n |-> [a \in A |-> Inject(a, s[k])]]
  OBVIOUS
<1>5. next \in [1..n -> [A -> A]]
  <2>1. \A k \in 1..n, a \in A : Inject(a, s[k]) \in A
    BY <1>1, <1>2, InjectKeeps
  <2> QED
    BY <1>4, <2>1
<1>6. PICK g \in [0..n -> A] : g[0] = base /\ \A k \in 1..n : g[k] = next[k][g[k-1]]
  <2>1. \E g : Run(g, A, base, n, next)
    BY <1>1, <1>5, Steps
  <2> QED
    BY <2>1 DEF Run
<1>7. ASSUME NEW k \in 1..n PROVE g[k] = Inject(g[k-1], s[k])
  <2>1. k - 1 \in 0..n /\ g[k-1] \in A /\ g[k] = next[k][g[k-1]]
    BY <1>1, <1>6
  <2> QED
    BY <1>4, <2>1
<1> DEFINE Body(f) == [k \in 0..n |-> IF k = 0 THEN [out |-> <<>>, made |-> sections]
                                      ELSE Inject(f[k-1], s[k])]
<1>8. \A f : f = Body(f) => f = g
  <2>1. SUFFICES ASSUME NEW f, f = Body(f) PROVE f = g
    OBVIOUS
  <2> DEFINE S == {m \in Nat : m <= n => f[m] = g[m]}
  <2>2. \A k \in 0..n : f[k] = IF k = 0 THEN base ELSE Inject(f[k-1], s[k])
    BY <1>3, <2>1
  <2>3. 0 \in S
    BY <1>1, <1>6, <2>2
  <2>4. ASSUME NEW m \in Nat, m \in S PROVE m + 1 \in S
    <3>1. CASE m + 1 <= n
      <4>1. f[m] = g[m] /\ m + 1 \in 1..n /\ m + 1 \in 0..n /\ (m + 1) - 1 = m /\ m + 1 # 0
        BY <1>1, <2>4, <3>1
      <4>2. g[m+1] = Inject(g[m], s[m+1])
        BY <1>7, <4>1
      <4>3. f[m+1] = Inject(f[m], s[m+1])
        BY <2>2, <4>1
      <4> QED
        BY <4>1, <4>2, <4>3
    <3>2. CASE ~(m + 1 <= n)
      BY <3>2
    <3> QED
      BY <3>1, <3>2
  <2> HIDE DEF S
  <2>5. \A m \in Nat : m \in S
    BY <2>3, <2>4, Counting
  <2>6. \A k \in 0..n : f[k] = g[k]
    BY <1>1, <2>5 DEF S
  <2>7. f = [k \in 0..n |-> f[k]]
    BY <2>1
  <2>8. g = [k \in 0..n |-> g[k]]
    OBVIOUS
  <2> QED
    BY <2>6, <2>7, <2>8
<1>9. g = Body(g)
  <2>1. ASSUME NEW k \in 0..n PROVE g[k] = Body(g)[k]
    <3>1. CASE k = 0
      BY <1>3, <1>6, <3>1
    <3>2. CASE k # 0
      <4>1. k \in 1..n
        BY <1>1, <3>2
      <4> QED
        BY <1>7, <3>2, <4>1
    <3> QED
      BY <3>1, <3>2
  <2>2. g = [k \in 0..n |-> g[k]]
    OBVIOUS
  <2> QED
    BY <2>1, <2>2
<1>10. (CHOOSE f : f = Body(f)) = g
  <2> HIDE DEF Body
  <2> QED
    BY <1>8, <1>9
<1>11. Replace(s) = g[n]
  BY <1>10 DEF Replace
<1> QED
  BY <1>2, <1>3, <1>6, <1>7, <1>11 DEF Injects

(* Whatever becomes of EIT packets and bad ones, the audio and video       *)
(* packets of a chunk stay, in their order.                                *)
LEMMA ReplaceKeeps ==
    ASSUME EntryKnown, NEW s \in Seq(Packet)
    PROVE  Replace(s) \in Result /\ AvOf(Replace(s).out) = AvOf(s)
<1>1. PICK n \in Nat : n = Len(s)
  OBVIOUS
<1>2. PICK g : Injects(g, s, n)
  BY <1>1, ReplaceIs
<1>3. PICK f : Collects(f, "av", s, n)
  BY <1>1, OfIs
<1> DEFINE S == {k \in Nat : k <= n => Of("av", g[k].out) = f[k]}
<1>4. 0 \in S
  BY <1>2, <1>3, OfNothing DEF Injects, Collects
<1>5. ASSUME NEW k \in Nat, k \in S PROVE k + 1 \in S
  <2>1. CASE k + 1 <= n
    <3>1. k + 1 \in 1..n /\ (k + 1) - 1 = k /\ k \in 0..n /\ Of("av", g[k].out) = f[k]
      BY <1>5, <2>1
    <3>2. PICK p \in Packet : p = s[k+1]
      BY <1>1, <3>1
    <3>3. PICK done \in Result : done = g[k] /\ g[k+1] = Inject(done, p)
      BY <1>2, <3>1, <3>2 DEF Injects
    <3>4. f[k+1] = IF p.kind = "av" THEN Append(f[k], p) ELSE f[k]
      BY <1>3, <3>1, <3>2 DEF Collects
    <3>5. Of("av", g[k+1].out) = f[k+1]
      BY <3>1, <3>3, <3>4, InjectKeeps
    <3> QED
      BY <3>5
  <2>2. CASE ~(k + 1 <= n)
    BY <2>2
  <2> QED
    BY <2>1, <2>2
<1> HIDE DEF S
<1>6. n \in S
  BY <1>4, <1>5, Counting
<1> QED
  BY <1>2, <1>3, <1>6 DEF S, Injects, Collects, AvOf

(* Numbers below some bound, with the next one.                            *)
LEMMA NumberedNext ==
    ASSUME NEW e \in Seq(Packet), NEW low \in Nat, NEW m \in Nat, low <= m, NumberedBelow(e, low, m)
    PROVE  /\ Eit(m, 0) \in Packet /\ Append(e, Eit(m, 0)) \in Seq(Packet)
           /\ NumberedBelow(Append(e, Eit(m, 0)), low, m + 1)
<1>1. PICK p \in Packet : p = Eit(m, 0) /\ p.part = 0 /\ p.n = m
  BY EitPacket
<1>2. PICK x \in Seq(Packet) : x = Append(e, p)
  BY AppendProperties
<1>3. PICK l \in Nat : l = Len(e)
  OBVIOUS
<1>4. Len(x) = l + 1 /\ x[l+1] = p /\ \A k \in 1..l : x[k] = e[k]
  BY <1>2, <1>3
<1>5. \A k \in 1..l + 1 : k = l + 1 \/ k \in 1..l
  BY <1>3
<1>6. /\ \A k \in 1..l : e[k].part = 0 /\ e[k].n \in low..m - 1
      /\ \A j, k \in 1..l : j < k => e[j].n < e[k].n
  BY <1>3 DEF NumberedBelow
<1>7. ASSUME NEW k \in 1..l + 1 PROVE x[k].part = 0 /\ x[k].n \in low..(m + 1) - 1
  <2>1. CASE k = l + 1
    BY <1>1, <1>4, <2>1
  <2>2. CASE k \in 1..l
    <3>1. x[k] = e[k] /\ e[k].part = 0 /\ e[k].n \in low..m - 1
      BY <1>4, <1>6, <2>2
    <3> QED
      BY <3>1
  <2> QED
    BY <1>5, <2>1, <2>2
<1>8. ASSUME NEW j \in 1..l + 1, NEW k \in 1..l + 1, j < k PROVE x[j].n < x[k].n
  <2>1. j \in 1..l
    BY <1>5, <1>8
  <2>2. x[j].n = e[j].n /\ e[j].n \in low..m - 1
    BY <1>4, <1>6, <2>1
  <2>3. CASE k = l + 1
    BY <1>1, <1>4, <2>2, <2>3
  <2>4. CASE k \in 1..l
    BY <1>4, <1>6, <1>8, <2>1, <2>4
  <2> QED
    BY <1>5, <2>3, <2>4
<1> QED
  BY <1>1, <1>2, <1>4, <1>7, <1>8 DEF NumberedBelow

(* A section of one packet takes the place of a packet, and its number is  *)
(* above those before it.                                                  *)
LEMMA InjectOne ==
    ASSUME EntryKnown, \A bytes \in {length[0], length[1]} : nbPacket(bytes) = 1 /\ Needed(bytes) = 1,
           NEW done \in Result, NEW p \in Packet, NEW low \in Nat, low <= done.made,
           NumberedBelow(EitOf(done.out), low, done.made)
    PROVE  /\ low <= Inject(done, p).made
           /\ NumberedBelow(EitOf(Inject(done, p).out), low, Inject(done, p).made)
           /\ Len(Inject(done, p).out) \in Len(done.out)..Len(done.out) + 1
<1>1. PICK d \in Seq(Packet), m \in Nat : d = done.out /\ m = done.made
  BY DEF Result
<1>2. PICK e \in Seq(Packet) : e = Of("eit", d) /\ NumberedBelow(e, low, m)
  <2>1. Of("eit", d) \in Seq(Packet)
    BY OfConcat
  <2> QED
    BY <1>1, <2>1 DEF EitOf
<1>3. CASE p.kind = "eit"
  <2>1. PICK q \in Packet : q = Eit(m, 0) /\ q.kind = "eit"
    BY EitPacket
  <2>2. PICK t \in Seq(Packet) : t = output_psi_section(m) /\ Len(t) = 1 /\ t[1] = q
    <3>1. m % 2 \in {0, 1}
      OBVIOUS
    <3>2. length[m % 2] \in {length[0], length[1]}
      BY <3>1
    <3> QED
      BY <2>1, <3>2, SectionPackets
  <2>3. Inject(done, p) = [out |-> d \o t, made |-> m + 1]
    BY <1>1, <1>3, <2>2 DEF Inject
  <2>4. d \o t = Append(d, q)
    <3>1. PICK x \in Seq(Packet) : x = d \o t
      BY ConcatProperties
    <3>2. PICK y \in Seq(Packet) : y = Append(d, q)
      BY AppendProperties
    <3>3. Len(x) = Len(d) + 1 /\ Len(y) = Len(d) + 1
      <4>1. Len(x) = Len(d) + Len(t)
        BY <3>1, ConcatProperties
      <4>2. Len(y) = Len(d) + 1
        BY <3>2, AppendProperties
      <4> QED
        BY <2>2, <4>1, <4>2
    <3>4. \A k \in 1..Len(x) : x[k] = y[k]
      BY <2>2, <3>1, <3>2, <3>3
    <3>5. x = y
      BY <3>3, <3>4, SeqEqual
    <3> QED
      BY <3>1, <3>2, <3>5
  <2>5. Of("eit", Append(d, q)) = Append(e, q)
    BY <1>2, <2>1, OfAppend
  <2>6. NumberedBelow(Append(e, q), low, m + 1)
    BY <1>1, <1>2, <2>1, NumberedNext
  <2>7. Len(Append(d, q)) = Len(d) + 1
    BY AppendProperties
  <2>8. Inject(done, p).made = m + 1 /\ Inject(done, p).out = Append(d, q)
    BY <2>3, <2>4
  <2>9. low <= m + 1
    BY <1>1
  <2>10. Len(d) \in Nat /\ Len(d) + 1 \in Len(d)..Len(d) + 1
    OBVIOUS
  <2>11. NumberedBelow(EitOf(Inject(done, p).out), low, Inject(done, p).made)
    BY <2>5, <2>6, <2>8 DEF EitOf
  <2>12. Len(Inject(done, p).out) \in Len(done.out)..Len(done.out) + 1
    BY <1>1, <2>7, <2>8, <2>10
  <2> QED
    BY <2>8, <2>9, <2>11, <2>12
<1>4. CASE p.kind = "bad"
  <2>1. Inject(done, p) = done
    BY <1>4 DEF Inject
  <2>2. PICK n \in Nat : n = Len(d)
    OBVIOUS
  <2>3. n \in n..n + 1
    OBVIOUS
  <2>4. Len(Inject(done, p).out) = n /\ Len(done.out) = n
    BY <1>1, <2>1, <2>2
  <2>5. low <= Inject(done, p).made
    BY <2>1
  <2>6. NumberedBelow(EitOf(Inject(done, p).out), low, Inject(done, p).made)
    BY <2>1
  <2> QED
    BY <2>3, <2>4, <2>5, <2>6
<1>5. CASE p.kind # "eit" /\ p.kind # "bad"
  <2>1. Inject(done, p) = [out |-> Append(d, p), made |-> m]
    BY <1>1, <1>5 DEF Inject, Result
  <2>2. Of("eit", Append(d, p)) = e
    BY <1>2, <1>5, OfAppend
  <2>3. Len(Append(d, p)) = Len(d) + 1
    BY AppendProperties
  <2> QED
    BY <1>1, <1>2, <2>1, <2>2, <2>3 DEF EitOf
<1> QED
  BY <1>3, <1>4, <1>5

(* Sections of one packet make no chunk longer, and they are numbered on   *)
(* from those made before.                                                 *)
LEMMA ReplaceOne ==
    ASSUME EntryKnown, \A bytes \in {length[0], length[1]} : nbPacket(bytes) = 1 /\ Needed(bytes) = 1,
           NEW s \in Seq(Packet)
    PROVE  /\ sections <= Replace(s).made
           /\ NumberedBelow(EitOf(Replace(s).out), sections, Replace(s).made)
           /\ Len(Replace(s).out) <= Len(s)
<1>1. PICK n \in Nat : n = Len(s)
  OBVIOUS
<1>2. PICK g : Injects(g, s, n)
  BY <1>1, ReplaceIs
<1> DEFINE Good(k) == /\ sections <= g[k].made
                      /\ NumberedBelow(EitOf(g[k].out), sections, g[k].made)
                      /\ Len(g[k].out) <= k
           S == {k \in Nat : k <= n => Good(k)}
<1>3. 0 \in S
  <2>3. NumberedBelow(<<>>, sections, sections)
    BY DEF NumberedBelow
  <2>4. g[0].out = <<>> /\ g[0].made = sections
    BY <1>2 DEF Injects
  <2>5. Good(0)
    BY <2>3, <2>4, OfNothing DEF EitOf, EntryKnown
  <2> QED
    BY <2>5
<1>4. ASSUME NEW k \in Nat, k \in S PROVE k + 1 \in S
  <2>1. CASE k + 1 <= n
    <3>1. k + 1 \in 1..n /\ (k + 1) - 1 = k /\ k \in 0..n /\ Good(k)
      BY <1>4, <2>1
    <3>2. PICK p \in Packet : p = s[k+1]
      BY <1>1, <3>1
    <3>3. PICK done \in Result : done = g[k] /\ g[k+1] = Inject(done, p)
      BY <1>2, <3>1, <3>2 DEF Injects
    <3>4. Inject(done, p) \in Result
      BY InjectKeeps
    <3>5. /\ sections <= g[k+1].made
          /\ NumberedBelow(EitOf(g[k+1].out), sections, g[k+1].made)
          /\ Len(g[k+1].out) \in Len(done.out)..Len(done.out) + 1
      BY <3>1, <3>3, InjectOne DEF EntryKnown
    <3>6. Len(done.out) \in Nat /\ Len(done.out) <= k
      BY <3>1, <3>3 DEF Result
    <3>7. Good(k + 1)
      BY <3>5, <3>6
    <3> QED
      BY <3>7
  <2>2. CASE ~(k + 1 <= n)
    BY <2>2
  <2> QED
    BY <2>1, <2>2
<1> HIDE DEF S
<1>5. n \in S
  BY <1>3, <1>4, Counting
<1> QED
  BY <1>1, <1>2, <1>5 DEF S, Injects

-----------------------------------------------------------------------------
(* Chunks.                                                                 *)

(* Filler adds no packet of another kind.                                  *)
LEMMA Filled ==
    ASSUME NEW s \in Seq(Packet), NEW n \in Nat
    PROVE  /\ FillTo(s, n) \in Seq(Packet)
           /\ Len(FillTo(s, n)) = IF Len(s) >= n THEN Len(s) ELSE n
           /\ AvOf(FillTo(s, n)) = AvOf(s) /\ EitOf(FillTo(s, n)) = EitOf(s)
<1>1. CASE Len(s) >= n
  BY <1>1 DEF FillTo
<1>2. CASE ~(Len(s) >= n)
  <2>1. PICK m \in Nat : m = n - Len(s)
    BY <1>2
  <2> DEFINE t == [k \in 1..m |-> Pad]
  <2>2. t \in Seq(Packet) /\ Len(t) = m
    <3>1. Pad \in Packet
      BY DEF Pad, Packet
    <3> QED
      BY <3>1, IsASeq
  <2>3. \A k \in 1..Len(t) : t[k].kind = "pad"
    BY <2>2 DEF Pad
  <2>4. FillTo(s, n) = s \o t
    BY <1>2, <2>1 DEF FillTo
  <2> HIDE DEF t
  <2>5. Of("av", t) = <<>> /\ Of("eit", t) = <<>>
    <3>1. \A k \in 1..Len(t) : t[k].kind # "av"
      BY <2>3
    <3>2. \A k \in 1..Len(t) : t[k].kind # "eit"
      BY <2>3
    <3> QED
      BY <2>2, <3>1, <3>2, OfOthers
  <2>6. ASSUME NEW kind, Of(kind, t) = <<>> PROVE Of(kind, s \o t) = Of(kind, s)
    <3>1. Of(kind, s) \in Seq(Packet) /\ Of(kind, s \o t) = Of(kind, s) \o Of(kind, t)
      BY <2>2, OfConcat
    <3> QED
      BY <2>6, <3>1, ConcatEmptySeq
  <2>7. s \o t \in Seq(Packet) /\ Len(s \o t) = Len(s) + m
    BY <2>2, ConcatProperties
  <2>8. Len(s) + m = n
    BY <2>1
  <2> QED
    BY <1>2, <2>4, <2>5, <2>6, <2>7, <2>8 DEF AvOf, EitOf
<1> QED
  BY <1>1, <1>2

(* What pf_Write writes: a chunk of the size asked for.                    *)
LEMMA WriteIs ==
    ASSUME sent \in Seq(Packet), NEW x \in Seq(Packet), Len(x) <= ChunkPackets, pf_Write(x)
    PROVE  /\ chunk' \in Seq(Packet) /\ Len(chunk') = ChunkPackets
           /\ sent' \in Seq(Packet)
           /\ loop => sent' = <<>>
           /\ ~loop => /\ AvOf(sent') = AvOf(sent) \o AvOf(x)
                       /\ EitOf(sent') = EitOf(sent) \o EitOf(x)
           /\ at' = IF b_die THEN "end" ELSE "read"
<1>1. ChunkPackets \in Nat
  BY InjectorAssumption DEF InjectorAssumption
<1>2. PICK c \in Seq(Packet) : c = FillTo(x, ChunkPackets) /\ AvOf(c) = AvOf(x) /\ EitOf(c) = EitOf(x)
  BY <1>1, Filled
<1>3. Len(c) = ChunkPackets
  <2>1. Len(x) \in Nat
    OBVIOUS
  <2> QED
    BY <1>1, <1>2, <2>1, Filled
<1>4. chunk' = c /\ sent' = IF loop THEN <<>> ELSE sent \o c
  BY <1>2 DEF pf_Write
<1>5. sent \o c \in Seq(Packet) /\ <<>> \in Seq(Packet)
  BY ConcatProperties
<1>6. AvOf(sent \o c) = AvOf(sent) \o AvOf(c) /\ EitOf(sent \o c) = EitOf(sent) \o EitOf(c)
  BY OfConcat DEF AvOf, EitOf
<1> QED
  BY <1>2, <1>3, <1>4, <1>5, <1>6 DEF pf_Write

Part(s, a, b) == SubSeq(s, a + 1, b)

(* A part of a sequence, item by item.                                     *)
LEMMA Slice ==
    ASSUME NEW s \in Seq(Packet), NEW a \in Nat, NEW b \in Nat, a <= b, b <= Len(s)
    PROVE  /\ Part(s, a, b) \in Seq(Packet) /\ Len(Part(s, a, b)) = b - a
           /\ \A k \in 1..b - a : Part(s, a, b)[k] = s[a + k]
<1>1. \A k \in a + 1..b : s[k] \in Packet
  OBVIOUS
<1>2. SubSeq(s, a + 1, b) \in Seq(Packet)
  BY <1>1, SubSeqProperties
<1>3. Len(SubSeq(s, a + 1, b)) = b - a
  BY <1>1, SubSeqProperties
<1>4. ASSUME NEW k \in 1..b - a PROVE SubSeq(s, a + 1, b)[k] = s[a + k]
  <2>1. SubSeq(s, a + 1, b)[k] = s[(a + 1) + k - 1] /\ (a + 1) + k - 1 = a + k
    BY <1>1, <1>4, SubSeqProperties
  <2> QED
    BY <2>1
<1> QED
  BY <1>2, <1>3, <1>4 DEF Part

(* Joining sequences is associative, said of the operator itself and of    *)
(* Joined, which the prover does not look into.                            *)
LEMMA Regroup ==
    ASSUME NEW a \in Seq(Packet), NEW b \in Seq(Packet), NEW c \in Seq(Packet)
    PROVE  (a \o b) \o c = a \o (b \o c)
BY ConcatAssociative

Joined(a, b) == a \o b

(* The same of Joined.                                                     *)
LEMMA Regrouped ==
    ASSUME NEW a \in Seq(Packet), NEW b \in Seq(Packet), NEW c \in Seq(Packet)
    PROVE  Joined(Joined(a, b), c) = Joined(a, Joined(b, c))
BY Regroup DEF Joined

(* Cutting a sequence cuts what is collected of it.                        *)
LEMMA Cut ==
    ASSUME NEW s \in Seq(Packet), NEW m \in 0..Len(s)
    PROVE  /\ SubSeq(s, 1, m) \in Seq(Packet) /\ SubSeq(s, m + 1, Len(s)) \in Seq(Packet)
           /\ Len(SubSeq(s, 1, m)) = m /\ Len(SubSeq(s, m + 1, Len(s))) = Len(s) - m
           /\ AvOf(SubSeq(s, 1, m)) \o AvOf(SubSeq(s, m + 1, Len(s))) = AvOf(s)
<1>1. PICK a : a = SubSeq(s, 1, m)
  OBVIOUS
<1>2. PICK b : b = SubSeq(s, m + 1, Len(s))
  OBVIOUS
<1>3. PICK l \in Nat : l = Len(s) /\ m \in Nat /\ m <= l
  OBVIOUS
<1>4. a \in Seq(Packet) /\ Len(a) = m /\ \A k \in 1..m : a[k] = s[k]
  BY <1>1, <1>3
<1>5. b \in Seq(Packet) /\ Len(b) = l - m /\ \A k \in 1..l - m : b[k] = s[m+k]
  BY <1>2, <1>3
<1>6. PICK c \in Seq(Packet) : c = a \o b
  BY <1>4, <1>5, ConcatProperties
<1>7. Len(c) = l /\ \A k \in 1..l : c[k] = s[k]
  <2>1. Len(c) = m + (l - m)
    BY <1>4, <1>5, <1>6, ConcatProperties
  <2>2. Len(c) = l
    BY <1>3, <2>1
  <2>3. ASSUME NEW k \in 1..l PROVE c[k] = s[k]
    <3>1. CASE k <= m
      BY <1>3, <1>4, <1>6, <3>1
    <3>2. CASE ~(k <= m)
      <4>1. k - m \in 1..l - m /\ m + (k - m) = k
        BY <1>3, <3>2
      <4>2. c[k] = b[k-m]
        BY <1>3, <1>4, <1>5, <1>6, <3>2, <4>1
      <4> QED
        BY <1>5, <4>1, <4>2
    <3> QED
      BY <3>1, <3>2
  <2> QED
    BY <2>2, <2>3
<1>8. c = s
  BY <1>3, <1>7, SeqEqual
<1>9. AvOf(a \o b) = AvOf(a) \o AvOf(b)
  BY <1>4, <1>5, OfConcat DEF AvOf
<1> QED
  BY <1>1, <1>2, <1>3, <1>4, <1>5, <1>6, <1>8, <1>9

(* Numbers below a bound are below a greater one.                          *)
LEMMA NumberedMore ==
    ASSUME NEW a \in Seq(Packet), NEW m \in Nat, NEW high \in Nat, m <= high, NumberedBelow(a, 0, m)
    PROVE  NumberedBelow(a, 0, high)
<1>1. \A n \in 0..m - 1 : n \in 0..high - 1
  OBVIOUS
<1> QED
  BY <1>1 DEF NumberedBelow

(* A number below another, and one that is not.                           *)
LEMMA BelowAndAbove ==
    ASSUME NEW low \in Nat, NEW m \in Nat, NEW high \in Nat, NEW u \in low..m - 1, NEW v \in m..high - 1
    PROVE  u < v
OBVIOUS

(* What numbers of one sequence and greater ones of another make.          *)
LEMMA NumberedConcat ==
    ASSUME NEW a \in Seq(Packet), NEW b \in Seq(Packet), NEW low \in Nat, NEW m \in Nat,
           NEW high \in Nat, low <= m, m <= high, NumberedBelow(a, low, m), NumberedBelow(b, m, high)
    PROVE  NumberedBelow(a \o b, low, high)
<1>1. PICK x \in Nat, y \in Nat : x = Len(a) /\ y = Len(b)
  OBVIOUS
<1>2. PICK c \in Seq(Packet) : c = a \o b
  BY ConcatProperties
<1>3. Len(c) = x + y /\ (\A k \in 1..x : c[k] = a[k]) /\ (\A k \in 1..y : c[x+k] = b[k])
  BY <1>1, <1>2
<1>4. /\ \A k \in 1..x : c[k].part = 0 /\ c[k].n \in low..m - 1
      /\ \A j, k \in 1..x : j < k => c[j].n < c[k].n
  BY <1>1, <1>3 DEF NumberedBelow
<1>5. /\ \A k \in 1..y : c[x+k].part = 0 /\ c[x+k].n \in m..high - 1
      /\ \A j, k \in 1..y : j < k => c[x+j].n < c[x+k].n
  BY <1>1, <1>3 DEF NumberedBelow
<1>6. \A k \in 1..x + y : k \in 1..x \/ (k - x \in 1..y /\ x + (k - x) = k)
  OBVIOUS
<1>7. ASSUME NEW k \in 1..x + y PROVE c[k].part = 0 /\ c[k].n \in low..high - 1
  <2>1. CASE k \in 1..x
    <3>1. c[k].part = 0 /\ c[k].n \in low..m - 1
      BY <1>4, <2>1
    <3> QED
      BY <3>1
  <2>2. CASE k - x \in 1..y /\ x + (k - x) = k
    <3>1. c[k].part = 0 /\ c[k].n \in m..high - 1
      BY <1>5, <2>2
    <3> QED
      BY <3>1
  <2> QED
    BY <1>6, <2>1, <2>2
<1>8. ASSUME NEW j \in 1..x + y, NEW k \in 1..x + y, j < k PROVE c[j].n < c[k].n
  <2>1. CASE k \in 1..x
    <3>1. j \in 1..x
      BY <1>8, <2>1
    <3> QED
      BY <1>4, <1>8, <2>1, <3>1
  <2>2. CASE k - x \in 1..y /\ x + (k - x) = k
    <3>1. c[k].n \in m..high - 1
      BY <1>5, <2>2
    <3>2. CASE j \in 1..x
      <4>1. c[j].n \in low..m - 1
        BY <1>4, <3>2
      <4> QED
        BY <3>1, <4>1, BelowAndAbove, Zenon
    <3>3. CASE j - x \in 1..y /\ x + (j - x) = j
      <4>1. j - x < k - x
        BY <1>8
      <4> QED
        BY <1>5, <2>2, <3>3, <4>1
    <3> QED
      BY <1>6, <3>2, <3>3
  <2> QED
    BY <1>6, <2>1, <2>2
<1> QED
  BY <1>2, <1>3, <1>7, <1>8 DEF NumberedBelow

(* There is a date for every chunk that is not yet read.                   *)
LEMMA DateLeft ==
    ASSUME NEW a \in Nat, NEW b \in Nat \ {0}
    PROVE  CeilDiv(a, b) \in Nat /\ \A s \in Nat : s * b < a => s < CeilDiv(a, b)
<1>1. PICK x \in Nat : x = a + b - 1
  OBVIOUS
<1>2. PICK q \in Nat, r \in Nat : q = x \div b /\ x = b * q + r /\ r < b
  <2>1. x \div b \in Nat /\ x % b \in Nat /\ x % b < b /\ x = b * (x \div b) + (x % b)
    OBVIOUS
  <2> QED
    BY <2>1
<1>3. CeilDiv(a, b) = q
  BY <1>1, <1>2 DEF CeilDiv
<1>4. ASSUME NEW s \in Nat, s * b < a PROVE s < q
  <2>1. SUFFICES ASSUME ~(s < q) PROVE FALSE
    OBVIOUS
  <2>2. PICK d \in Nat : s = q + d
    <3>1. s - q \in Nat /\ s = q + (s - q)
      BY <2>1
    <3> QED
      BY <3>1
  <2>3. s * b = b * q + d * b
    BY <2>2
  <2>4. d * b \in Nat /\ b * q \in Nat /\ s * b \in Nat
    OBVIOUS
  <2>5. s * b >= b * q
    BY <2>3, <2>4
  <2> QED
    BY <1>1, <1>2, <1>4, <2>4, <2>5
<1> QED
  BY <1>3, <1>4

-----------------------------------------------------------------------------
(* The invariant.                                                          *)

(* What InjectorAssumption says of the case at hand.                       *)
LEMMA Constants ==
    ASSUME given \in Cases
    PROVE  /\ ChunkPackets \in Nat \ {0} /\ TabSize \in Nat /\ MaxFile \in Nat
           /\ loop \in BOOLEAN /\ Lengths \subseteq Nat \ {0}
BY InjectorAssumption DEF InjectorAssumption, loop, Lengths

(* What the type invariant says of the entry of the shared table.          *)
LEMMA Entry ==
    ASSUME InjTypeOK
    PROVE  /\ EntryKnown
           /\ OnePacket => \A bytes \in {length[0], length[1]} : nbPacket(bytes) = 1 /\ Needed(bytes) = 1
<1>1. Lengths \subseteq Nat \ {0}
  BY Constants DEF InjTypeOK
<1>2. sections \in Nat /\ length \in [{0, 1} -> Lengths]
  BY DEF InjTypeOK
<1>3. EntryKnown
  BY <1>1, <1>2 DEF EntryKnown
<1>4. length[0] \in Lengths /\ length[1] \in Lengths
  BY <1>2
<1> QED
  BY <1>3, <1>4 DEF OnePacket

(* It holds at the start.                                                  *)
LEMMA InvInit == InjInit => InjInv
<1> SUFFICES ASSUME InjInit PROVE InjInv
  OBVIOUS
<1>1. /\ given \in Cases /\ at = "read" /\ position = 0 /\ stamps = 0
      /\ buffer = <<>> /\ shift = <<>> /\ step = ChunkPackets
      /\ sections = 0 /\ sent = <<>> /\ chunk = <<>>
      /\ b_die = FALSE /\ told = FALSE /\ length \in [{0, 1} -> Lengths]
  BY DEF InjInit
<1>2. PICK n \in 1..MaxFile : \E kinds \in [1..n -> given.kinds] :
         file = [k \in 1..n |-> FilePacket(kinds[k], k)]
  BY DEF InjInit
<1>12. PICK kinds : file = [k \in 1..n |-> FilePacket(kinds[k], k)]
  BY <1>2
<1>3. MaxFile \in Nat /\ ChunkPackets \in Nat \ {0}
  BY <1>1, Constants
<1>4. \A k \in 1..n : FilePacket(kinds[k], k) \in Packet
  <2>1. TAKE k \in 1..n
  <2>2. k \in Nat
    BY <1>3
  <2>3. Av(k) \in Packet /\ FileEit \in Packet /\ Bad \in Packet
    BY <2>2 DEF Av, FileEit, Eit, Bad, Packet
  <2> QED
    BY <2>3 DEF FilePacket
<1>5. file \in Seq(Packet) /\ Len(file) = n /\ n \in Nat
  <2>1. n \in Nat
    BY <1>3
  <2> QED
    BY <1>4, <1>12, <2>1, IsASeq
<1>6. LastStamp \in Nat
  BY <1>3, <1>5, DateLeft DEF LastStamp
<1>13. PICK e : e = <<>>
  OBVIOUS
<1>7. e \in Seq(Packet) /\ e = <<>> /\ Len(e) = 0
  BY <1>13
<1>8. InjTypeOK
  <2>1. /\ buffer \in Seq(Packet) /\ shift \in Seq(Packet) /\ sent \in Seq(Packet) /\ chunk \in Seq(Packet)
        /\ Len(buffer) = 0 /\ Len(shift) = 0 /\ Len(chunk) = 0
    BY <1>1, <1>7
  <2>2. position \in 0..Len(file) /\ stamps \in 0..LastStamp /\ step \in 0..ChunkPackets
    BY <1>1, <1>3, <1>5, <1>6
  <2>3. at = "read" /\ b_die \in BOOLEAN /\ told \in BOOLEAN /\ sections \in Nat
    BY <1>1
  <2>4. Len(shift) + Len(buffer) <= ChunkPackets
    BY <1>3, <2>1
  <2> QED
    BY <1>1, <1>5, <2>1, <2>2, <2>3, <2>4 DEF InjTypeOK
<1>9. Turning
  BY <1>1, <1>3, <1>7 DEF Turning
<1>10. NothingMissing
  <2>1. Rest = file
    <3>1. Rest = SubSeq(file, 1, Len(file))
      BY <1>1 DEF Rest
    <3> QED
      BY <1>5, <3>1, SubSeqFull
  <2>2. PICK f \in Seq(Packet) : f = AvOf(file)
    BY <1>5, OfConcat DEF AvOf
  <2>3. AvOf(e) = e
    BY <1>7, OfNothing DEF AvOf
  <2>4. e \o e = e /\ e \o f = f
    BY <1>7, ConcatEmptySeq
  <2> QED
    BY <1>1, <1>7, <2>1, <2>2, <2>3, <2>4 DEF NothingMissing
<1>11. InStep
  <2>1. 0 * ChunkPackets = 0
    BY <1>3
  <2>2. 0 = Least(0, Len(file))
    BY <1>5 DEF Least
  <2>3. NumberedBelow(<<>>, 0, 0)
    BY DEF NumberedBelow
  <2> QED
    BY <1>1, <2>1, <2>2, <2>3, OfNothing DEF InStep, EitOf
<1> QED
  BY <1>8, <1>9, <1>10, <1>11 DEF InjInv

(* What is read is the beginning of what is left.                          *)
LEMMA PieceIs ==
    ASSUME file \in Seq(Packet), ChunkPackets \in Nat, step \in 0..ChunkPackets, NEW p \in 0..Len(file)
    PROVE  /\ Piece(p) \in Seq(Packet) /\ Len(Piece(p)) <= step
           /\ p + Len(Piece(p)) = Least(p + step, Len(file))
           /\ p + Len(Piece(p)) \in 0..Len(file)
           /\ Piece(p) # <<>> <=> step > 0 /\ p < Len(file)
           /\ AvOf(Piece(p)) \o AvOf(SubSeq(file, p + Len(Piece(p)) + 1, Len(file)))
                = AvOf(SubSeq(file, p + 1, Len(file)))
<1>1. PICK l \in Nat, a \in Nat : l = Len(file) /\ a = p /\ a <= l
  OBVIOUS
<1>2. PICK u \in Nat : u = Least(a + step, l) /\ a <= u /\ u <= l /\ u - a <= step /\ (u = a <=> step = 0 \/ a = l)
  BY <1>1 DEF Least
<1>3. PICK d \in Nat : d = u - a /\ u = a + d
  <2>1. u - a \in Nat /\ u = a + (u - a)
    BY <1>2
  <2> QED
    BY <2>1
<1>4. PICK r : r = SubSeq(file, a + 1, l)
  OBVIOUS
<1>5. r \in Seq(Packet) /\ Len(r) = l - a /\ \A k \in 1..l - a : r[k] = file[a + k]
  BY <1>1, <1>4
<1>6. PICK x : x = Piece(p)
  OBVIOUS
<1>7. x = Part(file, a, u)
  BY <1>1, <1>2, <1>6 DEF Piece, Part
<1>8. x \in Seq(Packet) /\ Len(x) = d /\ \A k \in 1..d : x[k] = file[a + k]
  <2>1. u <= Len(file) /\ a <= u
    BY <1>1, <1>2
  <2>2. /\ Part(file, a, u) \in Seq(Packet) /\ Len(Part(file, a, u)) = u - a
        /\ \A k \in 1..u - a : Part(file, a, u)[k] = file[a + k]
    BY ONLY <2>1, Slice, file \in Seq(Packet), a \in Nat, u \in Nat
  <2> QED
    BY <1>3, <1>7, <2>2
<1>9. d \in 0..Len(r)
  BY <1>2, <1>3, <1>5
<1>10. SubSeq(r, 1, d) = x
  <2>1. PICK y : y = SubSeq(r, 1, d)
    OBVIOUS
  <2>2. y \in Seq(Packet) /\ Len(y) = d /\ \A k \in 1..d : y[k] = r[k]
    BY <1>5, <1>9, <2>1
  <2>3. \A k \in 1..d : k \in 1..l - a
    BY <1>2, <1>3
  <2>4. \A k \in 1..d : y[k] = x[k]
    BY <1>5, <1>8, <2>2, <2>3
  <2> QED
    BY <1>8, <2>1, <2>2, <2>4, SeqEqual
<1>11. SubSeq(r, d + 1, Len(r)) = SubSeq(file, u + 1, l)
  <2>1. PICK y : y = SubSeq(r, d + 1, Len(r))
    OBVIOUS
  <2>2. PICK z : z = SubSeq(file, u + 1, l)
    OBVIOUS
  <2>3. y \in Seq(Packet) /\ Len(y) = (l - a) - d /\ \A k \in 1..(l - a) - d : y[k] = r[d + k]
    BY <1>5, <1>9, <2>1
  <2>7. z = Part(file, u, l)
    BY <2>2 DEF Part
  <2>4. z \in Seq(Packet) /\ Len(z) = l - u /\ \A k \in 1..l - u : z[k] = file[u + k]
    <3>1. u <= l /\ l <= Len(file)
      BY <1>1, <1>2
    <3>2. /\ Part(file, u, l) \in Seq(Packet) /\ Len(Part(file, u, l)) = l - u
          /\ \A k \in 1..l - u : Part(file, u, l)[k] = file[u + k]
      BY ONLY <3>1, Slice, file \in Seq(Packet), l \in Nat, u \in Nat
    <3> QED
      BY <2>7, <3>2
  <2>5. (l - a) - d = l - u
    BY <1>3
  <2>6. ASSUME NEW k \in 1..l - u PROVE y[k] = z[k]
    <3>3. k \in Nat /\ k >= 1 /\ k <= l - u /\ l - u \in Int
      OBVIOUS
    <3>1. d + k \in 1..l - a /\ a + (d + k) = u + k
      BY <1>3, <3>3
    <3>2. r[d + k] = file[u + k]
      BY <1>5, <3>1
    <3> QED
      BY <2>3, <2>4, <2>5, <3>2
  <2> QED
    BY <2>1, <2>2, <2>3, <2>4, <2>5, <2>6, SeqEqual
<1>12. AvOf(SubSeq(r, 1, d)) \o AvOf(SubSeq(r, d + 1, Len(r))) = AvOf(r)
  BY <1>5, <1>9, Cut
<1>13. p + Len(Piece(p)) = u
  BY <1>1, <1>3, <1>6, <1>8
<1>14. AvOf(Piece(p)) \o AvOf(SubSeq(file, p + Len(Piece(p)) + 1, Len(file)))
         = AvOf(SubSeq(file, p + 1, Len(file)))
  BY <1>1, <1>4, <1>6, <1>10, <1>11, <1>12, <1>13
<1>15. Piece(p) # <<>> <=> d # 0
  BY <1>6, <1>8
<1>16. Piece(p) # <<>> <=> step > 0 /\ p < Len(file)
  BY <1>1, <1>2, <1>3, <1>15
<1> QED
  BY <1>1, <1>2, <1>3, <1>6, <1>8, <1>13, <1>14, <1>16

-----------------------------------------------------------------------------
(* The steps.                                                              *)

(* Which case it is does not change, nor what is defined by it.            *)
LEMMA SameCase ==
    ASSUME given' = given
    PROVE  /\ loop' = loop /\ Lengths' = Lengths
           /\ OnePacket' <=> OnePacket
BY DEF loop, Lengths, OnePacket

(* A step that leaves what is read, kept and sent as it is.                *)
LEMMA TellKeeps ==
    ASSUME InjInv, UNCHANGED <<given, file, position, stamps, buffer, shift, step, sections, sent, chunk>>,
           length' \in [{0, 1} -> Lengths], at' \in {at, "end", "hung"}, at # "crashed",
           at' # at => at = "read", at' = "end" => b_die',
           b_die' \in BOOLEAN, told' \in BOOLEAN, b_die => b_die', b_die' => b_die \/ told', told => told'
    PROVE  InjInv'
<1>1. InjTypeOK /\ Turning /\ NothingMissing /\ InStep
  BY DEF InjInv
<1>2. loop' = loop /\ Lengths' = Lengths /\ (OnePacket' <=> OnePacket)
  BY SameCase
<1>3. InjTypeOK'
  <2>1. LastStamp' = LastStamp
    BY DEF LastStamp
  <2> QED
    BY <1>1, <1>2, <2>1 DEF InjTypeOK
<1>4. Turning'
  BY <1>1, <1>2 DEF Turning
<1>5. NothingMissing'
  <2>1. Rest' = Rest
    BY DEF Rest
  <2>2. AvOf(sent)' = AvOf(sent) /\ AvOf(shift)' = AvOf(shift) /\ AvOf(buffer)' = AvOf(buffer)
        /\ AvOf(file)' = AvOf(file) /\ AvOf(Rest)' = AvOf(Rest)
    BY <2>1
  <2> QED
    BY <1>1, <1>2, <2>2 DEF NothingMissing
<1>6. InStep'
  <2>1. EitOf(sent)' = EitOf(sent)
    OBVIOUS
  <2> QED
    BY <1>1, <1>2, <2>1 DEF InStep
<1> QED
  BY <1>3, <1>4, <1>5, <1>6 DEF InjInv

(* A piece of the file is read, with its date.                             *)
LEMMA ReadKeeps ==
    ASSUME InjInv, at = "read", ~b_die, NEW p \in 0..Len(file), NEW a \in Nat, ReadFrom(p, a),
           UNCHANGED <<given, file, length, shift, step, sections, sent, chunk, told>>,
           ~loop => p = position, OnePacket => p = Least(a * ChunkPackets, Len(file))
    PROVE  InjInv'
<1>1. InjTypeOK /\ Turning /\ NothingMissing /\ InStep
  BY DEF InjInv
<1>2. loop' = loop /\ Lengths' = Lengths /\ (OnePacket' <=> OnePacket)
  BY SameCase
<1>3. /\ Piece(p) # <<>> /\ a < LastStamp /\ buffer' = Piece(p)
      /\ position' = p + Len(Piece(p)) /\ stamps' = a + 1
      /\ at' = "send" /\ b_die' = b_die
  BY DEF ReadFrom
<1>4. /\ file \in Seq(Packet) /\ shift \in Seq(Packet) /\ step \in 0..ChunkPackets
      /\ buffer = <<>> /\ step + Len(shift) = ChunkPackets
  BY <1>1 DEF InjTypeOK, Turning
<1>5. ChunkPackets \in Nat \ {0}
  BY <1>1, Constants DEF InjTypeOK
<1>6. /\ Piece(p) \in Seq(Packet) /\ Len(Piece(p)) <= step
      /\ position' = Least(p + step, Len(file))
      /\ position' \in 0..Len(file)
      /\ step > 0 /\ p < Len(file)
      /\ AvOf(Piece(p)) \o AvOf(SubSeq(file, position' + 1, Len(file))) = AvOf(SubSeq(file, p + 1, Len(file)))
  BY <1>3, <1>4, <1>5, PieceIs
<1>7. InjTypeOK'
  <2>1. LastStamp' = LastStamp
    BY DEF LastStamp
  <2>2. LastStamp \in Nat
    BY <1>4, <1>5, DateLeft DEF LastStamp
  <2>3. stamps' \in 0..LastStamp'
    BY <1>3, <2>1, <2>2
  <2>4. Len(shift') + Len(buffer') <= ChunkPackets
    <3>1. Len(shift) \in Nat /\ Len(Piece(p)) \in Nat
      BY <1>4, <1>6
    <3> QED
      BY <1>3, <1>4, <1>6, <3>1
  <2>5. position' \in 0..Len(file')
    BY <1>6
  <2>6. buffer' \in Seq(Packet)
    BY <1>3, <1>6
  <2> QED
    BY <1>1, <1>2, <1>3, <2>3, <2>4, <2>5, <2>6 DEF InjTypeOK
<1>8. Turning'
  BY <1>1, <1>2, <1>3 DEF Turning
<1>9. NothingMissing'
  <2>1. SUFFICES ASSUME ~loop
                 PROVE  AvOf(sent) \o AvOf(shift) \o AvOf(buffer') \o AvOf(Rest') = AvOf(file)
    BY <1>2 DEF NothingMissing
  <2>2. p = position
    BY <2>1
  <2>3. AvOf(sent) \o AvOf(shift) \o AvOf(buffer) \o AvOf(Rest) = AvOf(file)
    BY <1>1, <2>1 DEF NothingMissing
  <2>4. AvOf(buffer') \o AvOf(Rest') = AvOf(Rest)
    <3>1. Rest' = SubSeq(file, position' + 1, Len(file))
      BY DEF Rest
    <3> QED
      BY <1>3, <1>6, <2>2, <3>1 DEF Rest
  <2>5. PICK u \in Seq(Packet), v \in Seq(Packet) : u = AvOf(sent) /\ v = AvOf(shift)
    BY <1>1, OfConcat DEF InjTypeOK, AvOf
  <2>6. PICK x \in Seq(Packet), y \in Seq(Packet) : x = AvOf(buffer') /\ y = AvOf(Rest')
    <3>1. buffer' \in Seq(Packet) /\ Rest' \in Seq(Packet)
      <4>1. PICK k \in 0..Len(file) : k = position'
        BY <1>6
      <4>2. SubSeq(file, k + 1, Len(file)) \in Seq(Packet)
        BY <1>4, Cut
      <4> QED
        BY <1>3, <1>6, <4>1, <4>2 DEF Rest
    <3> QED
      BY <3>1, OfConcat DEF AvOf
  <2>7. AvOf(buffer) = <<>>
    BY <1>4, OfNothing DEF AvOf
  <2>8. ((u \o v) \o <<>>) \o (x \o y) = ((u \o v) \o x) \o y
    <3>1. PICK w \in Seq(Packet) : w = u \o v
      BY ConcatProperties
    <3>2. w \o <<>> = w
      BY ConcatEmptySeq
    <3>3. w \o (x \o y) = (w \o x) \o y
      BY Regroup
    <3> QED
      BY <3>1, <3>2, <3>3
  <2> QED
    BY <2>3, <2>4, <2>5, <2>6, <2>7, <2>8
<1>10. InStep'
  <2>1. SUFFICES ASSUME OnePacket PROVE /\ shift = <<>> /\ step = ChunkPackets
                                        /\ position' = Least(stamps' * ChunkPackets, Len(file))
                                        /\ b_die /\ ~told => ~loop /\ position' = Len(file)
                                        /\ NumberedBelow(EitOf(sent), 0, sections)
    BY <1>2, <1>3 DEF InStep
  <2>2. shift = <<>> /\ step = ChunkPackets /\ NumberedBelow(EitOf(sent), 0, sections)
    BY <1>1, <2>1 DEF InStep
  <2>3. PICK l \in Nat : l = Len(file)
    BY <1>4
  <2>4. PICK x \in Nat : x = a * ChunkPackets
    BY <1>5
  <2>5. (a + 1) * ChunkPackets = x + ChunkPackets
    BY <1>5, <2>4
  <2>6. p = x
    BY <1>6, <2>1, <2>3, <2>4 DEF Least
  <2>7. position' = Least(stamps' * ChunkPackets, Len(file))
    BY <1>3, <1>6, <2>2, <2>5, <2>6
  <2> QED
    BY <2>2, <2>7
<1> QED
  BY <1>7, <1>8, <1>9, <1>10 DEF InjInv

(* Nothing is read any more.                                               *)
LEMMA GiveUpKeeps ==
    ASSUME InjInv, at = "read", GiveUp, OnePacket => ~loop /\ position = Len(file),
           UNCHANGED <<given, file, length, position, shift, step, sections, sent, chunk, told>>
    PROVE  InjInv'
<1>1. InjTypeOK /\ Turning /\ NothingMissing /\ InStep
  BY DEF InjInv
<1>2. loop' = loop /\ Lengths' = Lengths /\ (OnePacket' <=> OnePacket)
  BY SameCase
<1>3. buffer' = buffer /\ b_die' = TRUE /\ at' = "send" /\ stamps' = stamps
  BY <1>1 DEF GiveUp, Turning
<1>4. InjTypeOK'
  <2>1. LastStamp' = LastStamp
    BY DEF LastStamp
  <2> QED
    BY <1>1, <1>2, <1>3, <2>1 DEF InjTypeOK
<1>5. Turning'
  BY <1>1, <1>2, <1>3 DEF Turning
<1>6. NothingMissing'
  <2>1. Rest' = Rest
    BY DEF Rest
  <2>2. AvOf(sent)' = AvOf(sent) /\ AvOf(shift)' = AvOf(shift) /\ AvOf(buffer)' = AvOf(buffer)
        /\ AvOf(file)' = AvOf(file) /\ AvOf(Rest)' = AvOf(Rest)
    BY <1>3, <2>1
  <2> QED
    BY <1>1, <1>2, <2>2 DEF NothingMissing
<1>7. InStep'
  <2>1. EitOf(sent)' = EitOf(sent)
    OBVIOUS
  <2> QED
    BY <1>1, <1>2, <1>3, <2>1 DEF InStep
<1> QED
  BY <1>4, <1>5, <1>6, <1>7 DEF InjInv

(* Every way file_Read ends.                                               *)
LEMMA FileReadKeeps == ASSUME InjInv, file_Read PROVE InjInv'
<1>1. InjTypeOK /\ Turning /\ NothingMissing /\ InStep
  BY DEF InjInv
<1>2. UNCHANGED <<given, file, length, shift, step, sections, sent, chunk, told>>
  BY DEF file_Read
<1>3. ChunkPackets \in Nat \ {0}
  BY <1>1, Constants DEF InjTypeOK
<1>4. /\ file \in Seq(Packet) /\ step \in 0..ChunkPackets /\ position \in 0..Len(file)
      /\ length \in [{0, 1} -> Lengths] /\ b_die \in BOOLEAN /\ told \in BOOLEAN /\ stamps \in Nat
  <2>1. LastStamp \in Nat
    BY <1>1, <1>3, DateLeft DEF LastStamp, InjTypeOK
  <2> QED
    BY <1>1, <2>1 DEF InjTypeOK
<1>5. Piece(position) # <<>> <=> step > 0 /\ position < Len(file)
  BY <1>3, <1>4, PieceIs
<1>6. OnePacket => step > 0 /\ position = Least(stamps * ChunkPackets, Len(file))
  BY <1>1, <1>3 DEF InStep
<1>7. PICK l \in Nat : l = Len(file)
  BY <1>4
<1>8. CASE ReadPiece
  BY <1>2, <1>4, <1>6, <1>8, ReadKeeps DEF ReadPiece
<1>9. CASE Rewind
  <2>1. at = "read" /\ ~b_die /\ Piece(position) = <<>> /\ loop
    BY <1>9 DEF Rewind
  <2>2. CASE step > 0 /\ ReadFrom(0, 0)
    <3>1. 0 \in 0..Len(file) /\ 0 = Least(0 * ChunkPackets, Len(file))
      BY <1>3, <1>7 DEF Least
    <3> QED
      BY <1>2, <2>1, <2>2, <3>1, ReadKeeps
  <2>3. CASE step = 0 /\ at' = "hung" /\ UNCHANGED <<buffer, position, stamps, b_die>>
    BY <1>2, <1>4, <2>1, <2>3, TellKeeps
  <2> QED
    BY <1>9, <2>2, <2>3 DEF Rewind
<1>10. CASE EndOfFile
  <2>1. at = "read" /\ Piece(position) = <<>> /\ ~loop /\ GiveUp /\ UNCHANGED position
    BY <1>10 DEF EndOfFile
  <2>2. OnePacket => position = Len(file)
    BY <1>4, <1>5, <1>6, <1>7, <2>1
  <2> QED
    BY <1>2, <2>1, <2>2, GiveUpKeeps
<1>11. CASE PrematureEnd
  <2>1. at = "read" /\ Piece(position) # <<>> /\ stamps = LastStamp /\ GiveUp /\ UNCHANGED position
    BY <1>11 DEF PrematureEnd
  <2>2. ~OnePacket
    <3>1. SUFFICES ASSUME OnePacket PROVE FALSE
      OBVIOUS
    <3>2. PICK x \in Nat : x = stamps * ChunkPackets
      BY <1>3, <1>4
    <3>3. x < l
      BY <1>5, <1>6, <1>7, <2>1, <3>1, <3>2 DEF Least
    <3>4. stamps < LastStamp
      BY <1>3, <1>4, <1>7, <3>2, <3>3, DateLeft DEF LastStamp
    <3> QED
      BY <1>4, <2>1, <3>4
  <2> QED
    BY <1>2, <2>1, <2>2, GiveUpKeeps
<1> QED
  BY <1>8, <1>9, <1>10, <1>11 DEF file_Read

(* A chunk is written, of what was kept and read; the rest is kept.        *)
LEMMA WriteKeeps ==
    ASSUME InjInv, at = "send", NEW x \in Seq(Packet), Len(x) <= ChunkPackets, NEW rest \in Seq(Packet),
           Len(rest) <= ChunkPackets, AvOf(x) \o AvOf(rest) = AvOf(Data),
           shift' = rest, step' = ChunkPackets - Len(rest), buffer' = <<>>, pf_Write(x), sections' \in Nat,
           UNCHANGED <<given, file, length, position, stamps, b_die, told>>,
           OnePacket => rest = <<>> /\ NumberedBelow(EitOf(sent'), 0, sections')
    PROVE  InjInv'
<1>1. InjTypeOK /\ Turning /\ NothingMissing /\ InStep
  BY DEF InjInv
<1>2. loop' = loop /\ Lengths' = Lengths /\ (OnePacket' <=> OnePacket)
  BY SameCase
<1>3. ChunkPackets \in Nat \ {0} /\ loop \in BOOLEAN
  BY <1>1, Constants DEF InjTypeOK
<1>4. sent \in Seq(Packet) /\ buffer \in Seq(Packet) /\ shift \in Seq(Packet) /\ file \in Seq(Packet)
      /\ position \in 0..Len(file) /\ b_die \in BOOLEAN
  BY <1>1 DEF InjTypeOK
<1>5. /\ chunk' \in Seq(Packet) /\ Len(chunk') = ChunkPackets
      /\ sent' \in Seq(Packet)
      /\ loop => sent' = <<>>
      /\ ~loop => AvOf(sent') = AvOf(sent) \o AvOf(x)
      /\ at' = IF b_die THEN "end" ELSE "read"
  BY <1>4, WriteIs
<1>6. PICK e : e = <<>>
  OBVIOUS
<1>7. e \in Seq(Packet) /\ Len(e) = 0 /\ buffer' = e
  BY <1>6
<1>8. Len(rest) \in Nat
  OBVIOUS
<1>9. InjTypeOK'
  <2>1. LastStamp' = LastStamp
    BY DEF LastStamp
  <2>2. Len(shift') + Len(buffer') <= ChunkPackets /\ step' \in 0..ChunkPackets
    BY <1>3, <1>7, <1>8
  <2> QED
    BY <1>1, <1>2, <1>5, <1>7, <2>1, <2>2 DEF InjTypeOK
<1>10. Turning'
  <2>1. step' + Len(shift') = ChunkPackets
    BY <1>3, <1>8
  <2> QED
    BY <1>2, <1>5, <2>1 DEF Turning
<1>11. NothingMissing'
  <2>1. SUFFICES ASSUME ~loop
                 PROVE  AvOf(sent') \o AvOf(rest) \o AvOf(buffer') \o AvOf(Rest') = AvOf(file)
    BY <1>2 DEF NothingMissing
  <2>2. Rest' = Rest
    BY DEF Rest
  <2>3. AvOf(sent) \o AvOf(shift) \o AvOf(buffer) \o AvOf(Rest) = AvOf(file)
    BY <1>1, <2>1 DEF NothingMissing
  <2>4. AvOf(Data) = AvOf(shift) \o AvOf(buffer)
    BY <1>4, OfConcat DEF AvOf, Data
  <2>5. PICK a \in Seq(Packet), b \in Seq(Packet), c \in Seq(Packet) :
           a = AvOf(sent) /\ b = AvOf(shift) /\ c = AvOf(buffer)
    BY <1>4, OfConcat DEF AvOf
  <2>6. PICK y \in Seq(Packet), z \in Seq(Packet) : y = AvOf(x) /\ z = AvOf(rest)
    BY OfConcat DEF AvOf
  <2>7. AvOf(buffer') = <<>>
    BY OfNothing DEF AvOf
  <2>8. (a \o y) \o z = (a \o b) \o c
    <3>1. Joined(y, z) = Joined(b, c)
      BY <2>4, <2>5, <2>6 DEF Joined
    <3>2. Joined(Joined(a, y), z) = Joined(a, Joined(y, z))
      BY ONLY a \in Seq(Packet), y \in Seq(Packet), z \in Seq(Packet), Regrouped
    <3>3. Joined(Joined(a, b), c) = Joined(a, Joined(b, c))
      BY ONLY a \in Seq(Packet), b \in Seq(Packet), c \in Seq(Packet), Regrouped
    <3> QED
      BY <3>1, <3>2, <3>3 DEF Joined
  <2>9. PICK w \in Seq(Packet) : w = (a \o y) \o z
    <3>1. PICK v \in Seq(Packet) : v = a \o y
      BY ConcatProperties
    <3>2. v \o z \in Seq(Packet)
      BY ConcatProperties
    <3> QED
      BY <3>1, <3>2
  <2>10. w \o <<>> = w
    BY ConcatEmptySeq
  <2>11. AvOf(sent') = a \o y
    BY <1>5, <2>1, <2>5, <2>6
  <2> QED
    BY <2>2, <2>3, <2>5, <2>6, <2>7, <2>8, <2>9, <2>10, <2>11
<1>12. InStep'
  <2>1. SUFFICES ASSUME OnePacket
                 PROVE  /\ shift' = <<>> /\ step' = ChunkPackets
                        /\ position = Least(stamps * ChunkPackets, Len(file))
                        /\ b_die /\ ~told => ~loop /\ position = Len(file)
                        /\ NumberedBelow(EitOf(sent'), 0, sections')
    BY <1>2 DEF InStep
  <2>2. rest = <<>> /\ Len(rest) = 0
    BY <2>1
  <2>3. step' = ChunkPackets
    BY <1>3, <2>2
  <2> QED
    BY <1>1, <2>1, <2>2, <2>3 DEF InStep
<1> QED
  BY <1>9, <1>10, <1>11, <1>12 DEF InjInv

(* What was kept and read fits in a chunk.                                 *)
LEMMA DataIs ==
    ASSUME InjInv, at = "send"
    PROVE  /\ Data \in Seq(Packet) /\ Len(Data) \in Nat /\ Len(Data) <= ChunkPackets
           /\ ChunkPackets \in Nat \ {0} /\ sent \in Seq(Packet) /\ EntryKnown
<1>1. InjTypeOK
  BY DEF InjInv
<1>2. /\ shift \in Seq(Packet) /\ buffer \in Seq(Packet) /\ Len(shift) + Len(buffer) <= ChunkPackets
      /\ sent \in Seq(Packet) /\ given \in Cases
  BY <1>1 DEF InjTypeOK
<1>3. shift \o buffer \in Seq(Packet) /\ Len(shift \o buffer) = Len(shift) + Len(buffer)
  BY <1>2, ConcatProperties
<1>4. PICK d \in Seq(Packet) : d = Data /\ Len(d) <= ChunkPackets
  BY <1>2, <1>3 DEF Data
<1>5. Len(d) \in Nat
  OBVIOUS
<1> QED
  BY <1>1, <1>2, <1>4, <1>5, Entry, Constants

(* The sections of a chunk are numbered on from those that were sent.      *)
LEMMA NumbersGoOn ==
    ASSUME InjInv, OnePacket, NEW x \in Seq(Packet), Len(x) <= ChunkPackets, pf_Write(x),
           sections' \in Nat, NEW made \in Nat, sections <= made, ~loop => sections' = made,
           NumberedBelow(EitOf(x), sections, made)
    PROVE  NumberedBelow(EitOf(sent'), 0, sections')
<1>1. InjTypeOK /\ InStep
  BY DEF InjInv
<1>2. sent \in Seq(Packet) /\ sections \in Nat /\ loop \in BOOLEAN
  BY <1>1, Constants DEF InjTypeOK
<1>3. /\ loop => sent' = <<>>
      /\ ~loop => EitOf(sent') = EitOf(sent) \o EitOf(x)
  BY <1>2, WriteIs
<1>4. CASE loop
  <2>1. EitOf(sent') = <<>>
    BY <1>3, <1>4, OfNothing DEF EitOf
  <2>2. NumberedBelow(<<>>, 0, sections')
    BY DEF NumberedBelow
  <2> QED
    BY <2>1, <2>2
<1>5. CASE ~loop
  <2>1. PICK a \in Seq(Packet), b \in Seq(Packet) : a = EitOf(sent) /\ b = EitOf(x)
    BY <1>2, OfConcat DEF EitOf
  <2>2. NumberedBelow(a, 0, sections)
    BY <1>1, <2>1 DEF InStep
  <2>3. NumberedBelow(a \o b, 0, made)
    BY <1>2, <2>1, <2>2, NumberedConcat
  <2> QED
    BY <1>3, <1>5, <2>1, <2>3
<1> QED
  BY <1>2, <1>4, <1>5

(* A chunk with EIT packets: it grows, it does not, or packetTab overruns. *)
LEMMA SendInjectedKeeps ==
    ASSUME InjInv, at = "send", SendInjected, buffer' = <<>>,
           UNCHANGED <<given, file, length, position, stamps, b_die, told>>
    PROVE  InjInv'
<1>1. InjTypeOK /\ Turning /\ NothingMissing /\ InStep
  BY DEF InjInv
<1>2. loop' = loop /\ Lengths' = Lengths /\ (OnePacket' <=> OnePacket)
  BY SameCase
<1>3. PICK d \in Seq(Packet), l \in Nat :
        /\ d = Data /\ l = Len(d) /\ l <= ChunkPackets
  BY DataIs
<1>4. ChunkPackets \in Nat \ {0} /\ sent \in Seq(Packet) /\ EntryKnown /\ loop \in BOOLEAN /\ sections \in Nat
  BY <1>1, DataIs, Constants DEF InjTypeOK
<1>5. PICK new \in Result : new = Replace(d) /\ AvOf(new.out) = AvOf(d)
  BY <1>3, <1>4, ReplaceKeeps
<1>6. /\ SendGrown(new) \/ SendSame(new) \/ Overrun(new)
      /\ sections' = IF loop THEN new.made % 2 ELSE new.made
  BY <1>3, <1>5 DEF SendInjected
<1>7. PICK out \in Seq(Packet), made \in Nat, m \in Nat : out = new.out /\ made = new.made /\ m = Len(out)
  BY DEF Result
<1>8. sections' \in Nat /\ (~loop => sections' = made)
  BY <1>6, <1>7
<1>9. OnePacket => sections <= made /\ NumberedBelow(EitOf(out), sections, made) /\ m <= l
  BY <1>1, <1>3, <1>4, <1>5, <1>7, ReplaceOne, Entry
<1>10. ASSUME at' = "crashed", UNCHANGED <<step, sent, chunk>>, shift' \in Seq(Packet), OnePacket => shift' = shift
       PROVE  InjInv'
  <2>1. LastStamp' = LastStamp
    BY DEF LastStamp
  <2>2. <<>> \in Seq(Packet)
    OBVIOUS
  <2>3. InjTypeOK'
    BY <1>1, <1>2, <1>8, <1>10, <2>1, <2>2 DEF InjTypeOK
  <2>4. Turning'
    BY <1>1, <1>2, <1>10 DEF Turning
  <2>5. NothingMissing'
    BY <1>10 DEF NothingMissing
  <2>6. ASSUME OnePacket PROVE NumberedBelow(EitOf(sent'), 0, sections')
    <3>1. NumberedBelow(EitOf(sent), 0, sections) /\ (loop => sent = <<>>)
      BY <1>1, <2>6 DEF InStep, Turning
    <3>2. CASE loop
      <4>1. EitOf(sent') = <<>>
        BY <1>10, <3>1, <3>2, OfNothing DEF EitOf
      <4>2. NumberedBelow(<<>>, 0, sections')
        BY DEF NumberedBelow
      <4> QED
        BY <4>1, <4>2
    <3>3. CASE ~loop
      <4>1. sections <= sections'
        BY <1>8, <1>9, <2>6, <3>3
      <4>2. PICK a \in Seq(Packet) : a = EitOf(sent)
        BY <1>4, OfConcat DEF EitOf
      <4>3. NumberedBelow(a, 0, sections')
        BY <1>4, <1>8, <3>1, <4>1, <4>2, NumberedMore
      <4> QED
        BY <1>10, <4>2, <4>3
    <3> QED
      BY <1>4, <3>2, <3>3
  <2>7. InStep'
    BY <1>1, <1>2, <1>10, <2>6 DEF InStep
  <2> QED
    BY <2>3, <2>4, <2>5, <2>7 DEF InjInv
<1>11. CASE SendGrown(new)
  <2>1. l < m /\ shift' = SubSeq(out, l + 1, m)
    BY <1>3, <1>7, <1>11 DEF SendGrown
  <2>2. ~OnePacket
    BY <1>9, <2>1
  <2>3. PICK x \in Seq(Packet), rest \in Seq(Packet) :
          /\ x = SubSeq(out, 1, l) /\ rest = SubSeq(out, l + 1, m)
          /\ Len(x) = l /\ AvOf(x) \o AvOf(rest) = AvOf(out)
    <3>1. l \in 0..Len(out)
      BY <1>7, <2>1
    <3> QED
      BY <1>7, <3>1, Cut
  <2>4. CASE Len(shift') <= ChunkPackets
    <3>1. step' = ChunkPackets - Len(rest) /\ pf_Write(x) /\ Len(rest) <= ChunkPackets /\ shift' = rest
      BY <1>3, <1>7, <1>11, <2>1, <2>3, <2>4 DEF SendGrown
    <3> QED
      BY <1>3, <1>5, <1>7, <1>8, <2>2, <2>3, <3>1, WriteKeeps
  <2>5. CASE ~(Len(shift') <= ChunkPackets)
    <3>1. at' = "crashed" /\ UNCHANGED <<step, sent, chunk>>
      BY <1>11, <2>5 DEF SendGrown
    <3>2. shift' \in Seq(Packet)
      BY <2>1, <2>3
    <3> QED
      BY <1>10, <2>2, <3>1, <3>2
  <2> QED
    BY <2>4, <2>5
<1>12. CASE SendSame(new)
  <2>1. m <= l /\ shift' = <<>> /\ step' = ChunkPackets /\ pf_Write(FillTo(out, l))
    BY <1>3, <1>7, <1>12 DEF SendSame
  <2>2. PICK x \in Seq(Packet) :
          /\ x = FillTo(out, l) /\ AvOf(x) = AvOf(out) /\ EitOf(x) = EitOf(out)
    BY Filled
  <2>3. Len(x) = l
    BY <1>7, <2>1, <2>2, Filled
  <2>4. PICK e : e = <<>>
    OBVIOUS
  <2>5. e \in Seq(Packet) /\ Len(e) = 0
    BY <2>4
  <2>6. AvOf(x) \o AvOf(e) = AvOf(Data)
    <3>1. PICK a \in Seq(Packet) : a = AvOf(x)
      BY OfConcat DEF AvOf
    <3>2. a \o <<>> = a /\ AvOf(e) = <<>>
      BY <2>4, ConcatEmptySeq, OfNothing DEF AvOf
    <3> QED
      BY <1>3, <1>5, <1>7, <2>2, <3>1, <3>2
  <2>7. step' = ChunkPackets - Len(e)
    BY <1>4, <2>1, <2>5
  <2>8. OnePacket => NumberedBelow(EitOf(sent'), 0, sections')
    BY <1>3, <1>8, <1>9, <2>1, <2>2, <2>3, NumbersGoOn
  <2>9. Len(e) <= ChunkPackets /\ shift' = e /\ pf_Write(x) /\ Len(x) <= ChunkPackets
    BY <1>3, <1>4, <2>1, <2>2, <2>3, <2>4, <2>5
  <2> QED
    BY <1>8, <2>4, <2>5, <2>6, <2>7, <2>8, <2>9, WriteKeeps
<1>13. CASE Overrun(new)
  <2>1. at' = "crashed" /\ UNCHANGED <<shift, step, sent, chunk>>
    BY <1>13 DEF Overrun
  <2>2. shift' \in Seq(Packet)
    BY <1>1, <2>1 DEF InjTypeOK
  <2> QED
    BY <1>10, <2>1, <2>2
<1> QED
  BY <1>6, <1>11, <1>12, <1>13

(* Every way a turn sends.                                                 *)
LEMMA SendKeeps == ASSUME InjInv, Send PROVE InjInv'
<1>1. InjTypeOK /\ Turning /\ NothingMissing /\ InStep
  BY DEF InjInv
<1>2. at = "send" /\ buffer' = <<>> /\ UNCHANGED <<given, file, length, position, stamps, b_die, told>>
  BY DEF Send
<1>3. PICK d \in Seq(Packet), l \in Nat : d = Data /\ l = Len(d) /\ l <= ChunkPackets
  BY <1>2, DataIs
<1>4. ChunkPackets \in Nat \ {0} /\ sections \in Nat
  BY <1>1, <1>2, DataIs DEF InjTypeOK
<1>5. PICK e : e = <<>>
  OBVIOUS
<1>6. e \in Seq(Packet) /\ Len(e) = 0
  BY <1>5
<1>7. CASE SendNothing
  <2>1. Data = <<>> /\ at' = (IF b_die THEN "end" ELSE "read") /\ UNCHANGED <<shift, step, sections, sent, chunk>>
    BY <1>7 DEF SendNothing
  <2>2. buffer = <<>>
    <3>1. shift \in Seq(Packet) /\ buffer \in Seq(Packet)
      BY <1>1 DEF InjTypeOK
    <3> QED
      BY <2>1, <3>1, ConcatEqualIffEmpty DEF Data
  <2>3. loop' = loop /\ Lengths' = Lengths /\ (OnePacket' <=> OnePacket)
    BY <1>2, SameCase
  <2>4. InjTypeOK'
    <3>1. LastStamp' = LastStamp
      BY <1>2 DEF LastStamp
    <3> QED
      BY <1>1, <1>2, <2>1, <2>2, <2>3, <3>1 DEF InjTypeOK
  <2>5. Turning'
    BY <1>1, <1>2, <2>1, <2>3 DEF Turning, InjTypeOK
  <2>6. NothingMissing'
    <3>1. Rest' = Rest
      BY <1>2 DEF Rest
    <3>2. AvOf(sent)' = AvOf(sent) /\ AvOf(shift)' = AvOf(shift) /\ AvOf(buffer)' = AvOf(buffer)
          /\ AvOf(file)' = AvOf(file) /\ AvOf(Rest)' = AvOf(Rest)
      BY <1>2, <2>1, <2>2, <3>1
    <3> QED
      BY <1>1, <1>2, <2>3, <3>2 DEF NothingMissing
  <2>7. InStep'
    <3>1. EitOf(sent)' = EitOf(sent)
      BY <2>1
    <3> QED
      BY <1>1, <1>2, <2>1, <2>3, <3>1 DEF InStep
  <2> QED
    BY <2>4, <2>5, <2>6, <2>7 DEF InjInv
<1>8. CASE SendAsRead
  <2>1. ~HasEit(d) /\ shift' = <<>> /\ step' = ChunkPackets /\ pf_Write(d) /\ UNCHANGED sections
    BY <1>3, <1>8 DEF SendAsRead
  <2>2. EitOf(d) = <<>>
    <3>1. \A k \in 1..Len(d) : d[k].kind # "eit"
      BY <2>1 DEF HasEit
    <3> QED
      BY <3>1, OfOthers DEF EitOf
  <2>3. NumberedBelow(EitOf(d), sections, sections)
    BY <2>2 DEF NumberedBelow
  <2>4. OnePacket => NumberedBelow(EitOf(sent'), 0, sections')
    BY <1>3, <1>4, <2>1, <2>3, NumbersGoOn
  <2>5. AvOf(d) \o AvOf(e) = AvOf(Data)
    <3>1. PICK a \in Seq(Packet) : a = AvOf(d)
      BY OfConcat DEF AvOf
    <3>2. a \o <<>> = a /\ AvOf(e) = <<>>
      BY <1>5, ConcatEmptySeq, OfNothing DEF AvOf
    <3> QED
      BY <1>3, <3>1, <3>2
  <2>6. step' = ChunkPackets - Len(e) /\ Len(e) <= ChunkPackets /\ Len(d) <= ChunkPackets /\ shift' = e
        /\ sections' \in Nat
    BY <1>3, <1>4, <1>5, <1>6, <2>1
  <2> QED
    BY <1>2, <1>5, <1>6, <2>1, <2>4, <2>5, <2>6, WriteKeeps
<1>9. CASE SendInjected
  BY <1>2, <1>9, SendInjectedKeeps
<1> QED
  BY <1>7, <1>8, <1>9 DEF Send

(* Every step keeps it.                                                    *)
LEMMA InvNext == InjInv /\ [InjNext]_injVars => InjInv'
<1> SUFFICES ASSUME InjInv, [InjNext]_injVars PROVE InjInv'
  OBVIOUS
<1>1. InjTypeOK /\ Turning
  BY DEF InjInv
<1>2. length \in [{0, 1} -> Lengths] /\ b_die \in BOOLEAN /\ told \in BOOLEAN
  BY <1>1 DEF InjTypeOK
<1>3. CASE file_Read
  BY <1>3, FileReadKeeps
<1>4. CASE Send
  BY <1>4, SendKeeps
<1>5. CASE Leave
  BY <1>2, <1>5, TellKeeps DEF Leave
<1>6. CASE SigHandler
  BY <1>1, <1>2, <1>6, TellKeeps DEF SigHandler
<1>7. CASE Publish
  BY <1>2, <1>7, TellKeeps DEF Publish
<1>8. CASE UNCHANGED injVars
  <2>1. UNCHANGED <<given, file, position, stamps, buffer, shift, step, sections, sent, chunk>>
        /\ UNCHANGED <<length, at, b_die, told>>
    BY <1>8 DEF injVars
  <2>2. CASE at # "crashed" /\ (at = "end" => b_die)
    BY <1>2, <2>1, <2>2, TellKeeps
  <2>3. CASE at = "crashed"
    <3>1. loop' = loop /\ Lengths' = Lengths /\ (OnePacket' <=> OnePacket)
      BY <2>1, SameCase
    <3>2. InjTypeOK'
      <4>1. LastStamp' = LastStamp
        BY <2>1 DEF LastStamp
      <4> QED
        BY <1>1, <2>1, <3>1, <4>1 DEF InjTypeOK
    <3>3. Turning'
      BY <1>1, <2>1, <3>1 DEF Turning
    <3>4. NothingMissing'
      BY <2>1, <2>3 DEF NothingMissing
    <3>5. InStep'
      <4>1. EitOf(sent)' = EitOf(sent)
        BY <2>1
      <4> QED
        BY <2>1, <3>1, <4>1 DEF InStep, InjInv
    <3> QED
      BY <3>2, <3>3, <3>4, <3>5 DEF InjInv
  <2>4. at = "end" => b_die
    BY <1>1 DEF Turning
  <2> QED
    BY <2>2, <2>3, <2>4
<1> QED
  BY <1>3, <1>4, <1>5, <1>6, <1>7, <1>8 DEF InjNext

(* So it always holds.                                                     *)
LEMMA InvAlways == InjSpec => []InjInv
<1>1. InjInit => InjInv
  BY InvInit
<1>2. InjInv /\ [InjNext]_injVars => InjInv'
  BY InvNext
<1> QED
  BY <1>1, <1>2, PTL DEF InjSpec

-----------------------------------------------------------------------------
(* The theorems.                                                           *)

(* Whatever the file, the sections and the signals: every variable has its *)
(* type, what is kept and what is read fit in a chunk, and every chunk     *)
(* written has the size asked for.                                         *)
THEOREM InjectorTypeCorrect == InjSpec => []InjTypeOK
<1>1. InjInv => InjTypeOK
  BY DEF InjInv
<1> QED
  BY <1>1, InvAlways, PTL

(* The shift of add_eit loses, doubles and reorders no audio or video      *)
(* packet of a file that is played once, however many packets the          *)
(* sections have; with sections of one packet the whole file is sent.      *)
THEOREM NothingIsLost == InjSpec => []NothingLost
<1>1. InjInv => NothingLost
  <2> SUFFICES ASSUME InjInv, ~loop, at # "crashed"
               PROVE  /\ OnePacket /\ at = "end" /\ ~told => AvOf(sent) = AvOf(file)
                      /\ AvOf(sent) \o AvOf(shift) \o AvOf(buffer)
                           \o AvOf(SubSeq(file, position + 1, Len(file))) = AvOf(file)
    BY DEF NothingLost
  <2>1. AvOf(sent) \o AvOf(shift) \o AvOf(buffer) \o AvOf(Rest) = AvOf(file)
    BY DEF InjInv, NothingMissing
  <2>2. ASSUME OnePacket, at = "end", ~told PROVE AvOf(sent) = AvOf(file)
    <3>1. shift = <<>> /\ buffer = <<>> /\ position = Len(file)
      BY <2>2 DEF InjInv, InStep, Turning
    <3>2. AvOf(shift) = <<>> /\ AvOf(buffer) = <<>>
      BY <3>1, OfNothing DEF AvOf
    <3>3. PICK l \in Nat : l = Len(file)
      BY DEF InjInv, InjTypeOK
    <3>4. PICK r : r = Rest
      OBVIOUS
    <3>5. r = Part(file, l, l)
      BY <3>1, <3>3, <3>4 DEF Rest, Part
    <3>6. r \in Seq(Packet) /\ Len(r) = l - l
      <4>1. file \in Seq(Packet)
        BY DEF InjInv, InjTypeOK
      <4>2. l <= l /\ l <= Len(file)
        BY <3>3
      <4>3. Part(file, l, l) \in Seq(Packet) /\ Len(Part(file, l, l)) = l - l
        BY ONLY <4>1, <4>2, l \in Nat, Slice
      <4> QED
        BY <3>5, <4>3
    <3>7. r = <<>>
      BY <3>6
    <3>8. AvOf(Rest) = <<>>
      BY <3>4, <3>7, OfNothing DEF AvOf
    <3>9. PICK a \in Seq(Packet) : a = AvOf(sent)
      BY OfConcat DEF InjInv, InjTypeOK, AvOf
    <3>10. a \o <<>> = a
      BY ConcatEmptySeq
    <3> QED
      BY <2>1, <3>2, <3>8, <3>9, <3>10
  <2> QED
    BY <2>1, <2>2 DEF Rest
<1> QED
  BY <1>1, InvAlways, PTL

(* As long as no section needs a second packet, the EIT packets that are   *)
(* sent are the sections that add_eit made, each once and in their order.  *)
THEOREM SectionsAreWhole == InjSpec => []SectionsWhole
<1>1. InjInv => SectionsWhole
  <2> SUFFICES ASSUME InjInv, OnePacket PROVE SectionsJoin
    BY DEF SectionsWhole
  <2>1. PICK s \in Seq(Packet) : s = EitOf(sent)
    BY OfConcat DEF InjInv, InjTypeOK, EitOf
  <2>2. NumberedBelow(s, 0, sections)
    BY <2>1 DEF InjInv, InStep
  <2>3. PICK l \in Nat : l = Len(s)
    OBVIOUS
  <2>4. ASSUME NEW k \in 1..l - 1
        PROVE  IF s[k].part = 0 THEN s[k+1].n # s[k].n ELSE s[k+1] = Eit(s[k].n, s[k].part - 1)
    <3>1. k \in 1..l /\ k + 1 \in 1..l /\ k < k + 1
      BY <2>3, <2>4
    <3>2. s[k].part = 0 /\ s[k].n < s[k+1].n /\ s[k].n \in Int
      BY <2>2, <2>3, <3>1 DEF NumberedBelow
    <3>3. s[k].n # s[k+1].n
      BY <3>2
    <3> QED
      BY <3>2, <3>3
  <2> QED
    BY <2>1, <2>3, <2>4 DEF SectionsJoin
<1> QED
  BY <1>1, InvAlways, PTL

(* With -l, sections of one packet and a packetTab that has room for a     *)
(* chunk, only a signal ends the program: it neither ends by itself, since *)
(* the file and its dates are used up together, nor crashes or hangs.      *)
THEOREM LoopGoesOn ==
    ASSUME ChunkPackets <= TabSize
    PROVE  InjSpec => [](OnePacket => GoesOn)
<1> DEFINE Running == OnePacket => at \notin {"hung", "crashed"}
<1>1. InjInit => Running
  BY DEF InjInit
<1>2. InjInv /\ Running /\ [InjNext]_injVars => Running'
  <2> SUFFICES ASSUME InjInv, Running, [InjNext]_injVars PROVE Running'
    OBVIOUS
  <2>1. InjTypeOK /\ InStep
    BY DEF InjInv
  <2>2. given' = given
    BY DEF InjNext, injVars, file_Read, Send, Leave, SigHandler, Publish
  <2>3. SUFFICES ASSUME OnePacket PROVE at' \notin {"hung", "crashed"}
    BY <2>2, SameCase
  <2>4. at \notin {"hung", "crashed"}
    BY <2>3
  <2>5. ChunkPackets \in Nat \ {0} /\ TabSize \in Nat
    BY <2>1, Constants DEF InjTypeOK
  <2>6. step = ChunkPackets
    BY <2>1, <2>3 DEF InStep
  <2>7. CASE file_Read
    BY <2>5, <2>6, <2>7 DEF file_Read, ReadPiece, Rewind, EndOfFile, PrematureEnd, GiveUp, ReadFrom
  <2>8. CASE Send
    <3>1. at = "send"
      BY <2>8 DEF Send
    <3>2. CASE SendNothing
      BY <3>2 DEF SendNothing
    <3>3. CASE SendAsRead
      BY <3>3 DEF SendAsRead, pf_Write
    <3>4. CASE SendInjected
      <4>1. PICK d \in Seq(Packet) : d = Data /\ Len(d) \in Nat /\ Len(d) <= ChunkPackets
        BY <3>1, DataIs
      <4>2. PICK new \in Result : new = Replace(d)
        BY <2>1, <4>1, Entry, ReplaceKeeps
      <4>3. Len(new.out) <= Len(d) /\ Len(new.out) \in Nat
        BY <2>1, <2>3, <4>2, Entry, ReplaceOne DEF Result
      <4>4. SendGrown(new) \/ SendSame(new) \/ Overrun(new)
        BY <3>4, <4>1, <4>2 DEF SendInjected
      <4>5. ~SendGrown(new)
        BY <4>1, <4>3 DEF SendGrown
      <4>6. ~Overrun(new)
        BY <2>5, <4>1, <4>3 DEF Overrun
      <4> QED
        BY <4>4, <4>5, <4>6 DEF SendSame, pf_Write
    <3> QED
      BY <2>8, <3>2, <3>3, <3>4 DEF Send
  <2>9. CASE Leave
    BY <2>9 DEF Leave
  <2>10. CASE SigHandler
    BY <2>4, <2>10 DEF SigHandler
  <2>11. CASE Publish
    BY <2>4, <2>11 DEF Publish
  <2>12. CASE UNCHANGED injVars
    BY <2>4, <2>12 DEF injVars
  <2> QED
    BY <2>7, <2>8, <2>9, <2>10, <2>11, <2>12 DEF InjNext
<1>3. InjInv /\ Running => (OnePacket => GoesOn)
  BY DEF InjInv, InStep, GoesOn
<1> HIDE DEF Running
<1> QED
  BY <1>1, <1>2, <1>3, InvAlways, PTL DEF InjSpec
=============================================================================
