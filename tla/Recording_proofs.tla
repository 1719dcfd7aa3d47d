--------------------------- MODULE Recording_proofs ---------------------------
(***************************************************************************)
(* Proofs about recordings: chunk and stamp at the same place of the two   *)
(* files belong together, whatever happens to the recorders: stopped,      *)
(* killed, out of disk or cut from power, between any two writes; what has *)
(* its stamp is kept, as are the files that were changed last; a date is   *)
(* found; what multicat_validate says is so; and a player sends chunks in  *)
(* their order and pace, and all of them while it follows a recorder that  *)
(* nothing disturbs.                                                       *)
(*                                                                         *)
(* The argument: the stamps in the buffer continue those of the file, so   *)
(* what a file and the buffer hold together ("Stamps") is as long as the   *)
(* file of chunks, but for the chunk whose stamp is not yet made.  Of the  *)
(* two, what a failure leaves are beginnings, which are paired if the      *)
(* wholes were; and CheckFileSizes makes them equally long again before    *)
(* anything is appended.  The files have an order, in which the cleaning   *)
(* counts those before each, and so it takes an end of it.                 *)
(*                                                                         *)
(* The stamps of a file grow, so halving finds a date in them: Bisect is a *)
(* recursive function, which exists since what is to be found is such a    *)
(* function (SearchExists), and any such function finds it, since halves   *)
(* are shorter (SearchFinds).                                              *)
(*                                                                         *)
(* A player of a file has a place and a clock: what it has still to read   *)
(* is later than what it has read, and its clock is only ever set back.    *)
(* A player of a directory has a constant delay.  While nothing disturbs   *)
(* the recorder, its chunks are in the file of their date, in order        *)
(* (Whole); no stamp stays in the buffer for long (InTime); and the files  *)
(* are as old as their names say, so that none of the last is cleaned away *)
(* (Aged).  Hence the chunk a player that follows reads next always has    *)
(* its stamp on disk (Placed).                                             *)
(***************************************************************************)
EXTENDS Recording, SequenceTheorems, FiniteSetTheorems, WellFoundedInduction, TLAPS

PairOfFiles == [ts : Seq(Nat), aux : Seq(Nat), tsTorn : BOOLEAN, auxTorn : BOOLEAN,
                linked : BOOLEAN, mtime : Nat]

RecTypes ==
    /\ now \in Nat \ {0} /\ given \in Cases
    /\ dates \in Seq(Nat) /\ held \in Seq(Nat) /\ nextFlush \in Nat
    /\ DOMAIN disk \subseteq Nat /\ disk \in [DOMAIN disk -> PairOfFiles]
    /\ rec \in {"down", "idle", "stamp"} /\ recFile \in Nat \union {NoFile}

DatesGrow ==
    /\ \A c \in 1..Chunk : dates[c] \in 1..now
    /\ \A b, c \in 1..Chunk : b < c => dates[b] < dates[c]

(* The stamps made so far are before this date. *)
Limit == IF Chunk = 0 THEN 1 ELSE IF rec = "stamp" THEN dates[Chunk] ELSE dates[Chunk] + 1

(* Chunks ts and stamps st of file n are paired, when the dates of the     *)
(* chunks received are ds and no stamp has reached the limit.              *)
Sound(n, ts, st, ds, limit) ==
    /\ ts \in Seq(0..Len(ds)) /\ st \in Seq(Nat)
    /\ \A k \in 1..Least(Len(ts), Len(st)) : ts[k] # Garbled /\ st[k] = ds[ts[k]]
    /\ \A j, k \in 1..Len(st) : j < k => st[j] < st[k]
    /\ \A k \in 1..Len(st) : st[k] < limit
    /\ mode = "dir" => \A k \in 1..Len(st) : st[k] \div Rotate = n

FilesSound == \A n \in DOMAIN disk : Sound(n, disk[n].ts, Stamps(n), dates, Limit)

OpenFile ==
    /\ rec = "down" => recFile = NoFile
    /\ recFile = NoFile => held = <<>>
    /\ mode # "dir" /\ rec # "down" => recFile = 0
    /\ recFile # NoFile =>
          /\ recFile \in DOMAIN disk /\ ~disk[recFile].tsTorn
          /\ Len(disk[recFile].ts) = Len(Stamps(recFile)) + (IF rec = "stamp" THEN 1 ELSE 0)
    /\ rec = "stamp" =>
          /\ Chunk > 0 /\ recFile # NoFile
          /\ Last(disk[recFile].ts) = Chunk
          /\ mode = "dir" => dates[Chunk] \div Rotate = recFile

RecInv == RecTypes /\ DatesGrow /\ FilesSound /\ OpenFile

-----------------------------------------------------------------------------

(* The beginning of a sequence.                                            *)
LEMMA FirstIs ==
    ASSUME NEW S, NEW s \in Seq(S), NEW n \in 0..Len(s)
    PROVE  /\ First(s, n) \in Seq(S) /\ Len(First(s, n)) = n
           /\ \A k \in 1..n : First(s, n)[k] = s[k]
<1>1. /\ SubSeq(s, 1, n) \in Seq(S)
      /\ Len(SubSeq(s, 1, n)) = IF 1 <= n THEN n - 1 + 1 ELSE 0
      /\ \A i \in 1..n - 1 + 1 : SubSeq(s, 1, n)[i] = s[1 + i - 1]
  <2>1. 1 \in 1..Len(s) + 1 /\ n \in 1 - 1..Len(s)
    OBVIOUS
  <2>2. \A i \in 1..n : i \in 1..Len(s) /\ s[i] \in S
    OBVIOUS
  <2> QED
    BY <2>1, <2>2, SubSeqProperties
<1> QED
  BY <1>1 DEF First

(* What is paired stays so when its end is cut off.                        *)
LEMMA SoundCut ==
    ASSUME NEW n, NEW ts, NEW st, NEW ds \in Seq(Nat), NEW limit, Sound(n, ts, st, ds, limit),
           NEW a \in 0..Len(ts), NEW b \in 0..Len(st)
    PROVE  Sound(n, First(ts, a), First(st, b), ds, limit)
<1> DEFINE x == First(ts, a)
           y == First(st, b)
<1>1. ts \in Seq(0..Len(ds)) /\ st \in Seq(Nat) /\ Len(ts) \in Nat /\ Len(st) \in Nat
  BY DEF Sound
<1>2. x \in Seq(0..Len(ds)) /\ Len(x) = a /\ \A k \in 1..a : x[k] = ts[k]
  BY <1>1, FirstIs
<1>3. y \in Seq(Nat) /\ Len(y) = b /\ \A k \in 1..b : y[k] = st[k]
  BY <1>1, FirstIs
<1> HIDE DEF x, y
<1>4. \A k \in 1..Least(a, b) : k \in 1..a /\ k \in 1..b /\ k \in 1..Least(Len(ts), Len(st))
  BY <1>1 DEF Least
<1>5. \A k \in 1..b : k \in 1..Len(st)
  BY <1>1
<1>6. \A k \in 1..Least(Len(x), Len(y)) : x[k] # Garbled /\ y[k] = ds[x[k]]
  BY <1>2, <1>3, <1>4 DEF Sound
<1>7. /\ \A j, k \in 1..Len(y) : j < k => y[j] < y[k]
      /\ \A k \in 1..Len(y) : y[k] < limit
      /\ mode = "dir" => \A k \in 1..Len(y) : y[k] \div Rotate = n
  BY <1>3, <1>5 DEF Sound
<1> QED
  BY <1>2, <1>3, <1>6, <1>7 DEF Sound, x, y

(* And when more chunks are received.                                      *)
LEMMA SoundLater ==
    ASSUME NEW n, NEW ts, NEW st, NEW ds \in Seq(Nat), NEW limit \in Int,
           Sound(n, ts, st, ds, limit), NEW es \in Seq(Nat), Len(ds) <= Len(es),
           \A k \in 1..Len(ds) : es[k] = ds[k], NEW later \in Int, limit <= later
    PROVE  Sound(n, ts, st, es, later)
<1>1. ts \in Seq(0..Len(ds)) /\ st \in Seq(Nat) /\ Len(ts) \in Nat /\ Len(st) \in Nat
      /\ Len(ds) \in Nat /\ Len(es) \in Nat
  BY DEF Sound
<1>2. ts \in Seq(0..Len(es))
  <2>1. 0..Len(ds) \subseteq 0..Len(es)
    BY <1>1
  <2> QED
    BY <1>1, <2>1, SeqMonotonic
<1>3. \A k \in 1..Least(Len(ts), Len(st)) : ts[k] # Garbled /\ st[k] = es[ts[k]]
  <2> TAKE k \in 1..Least(Len(ts), Len(st))
  <2>1. ts[k] # Garbled /\ st[k] = ds[ts[k]]
    BY DEF Sound
  <2>2. k \in 1..Len(ts)
    BY <1>1 DEF Least
  <2>3. ts[k] \in 1..Len(ds)
    <3>1. ts[k] \in 0..Len(ds)
      BY <1>1, <2>2, ElementOfSeq
    <3> QED
      BY <1>1, <2>1, <3>1 DEF Garbled
  <2> QED
    BY <2>1, <2>3
<1>4. \A k \in 1..Len(st) : st[k] < later
  BY <1>1 DEF Sound
<1> QED
  BY <1>1, <1>2, <1>3, <1>4 DEF Sound

(* A chunk that has no stamp yet.                                          *)
LEMMA SoundChunk ==
    ASSUME NEW n, NEW ts, NEW st, NEW ds \in Seq(Nat), NEW limit, Sound(n, ts, st, ds, limit),
           Len(st) <= Len(ts), NEW c \in 0..Len(ds)
    PROVE  Sound(n, Append(ts, c), st, ds, limit)
<1> DEFINE x == Append(ts, c)
<1>1. ts \in Seq(0..Len(ds)) /\ st \in Seq(Nat) /\ Len(ts) \in Nat /\ Len(st) \in Nat
  BY DEF Sound
<1>2. x \in Seq(0..Len(ds)) /\ Len(x) = Len(ts) + 1 /\ \A k \in 1..Len(ts) : x[k] = ts[k]
  BY <1>1, AppendProperties
<1> HIDE DEF x
<1>3. \A k \in 1..Least(Len(x), Len(st)) : k \in 1..Len(ts) /\ k \in 1..Least(Len(ts), Len(st))
  BY <1>1, <1>2 DEF Least
<1>4. \A k \in 1..Least(Len(x), Len(st)) : x[k] # Garbled /\ st[k] = ds[x[k]]
  BY <1>2, <1>3 DEF Sound
<1> QED
  BY <1>1, <1>2, <1>4 DEF Sound, x

(* The stamp of the last chunk, or one too many.                           *)
LEMMA SoundStamp ==
    ASSUME NEW n, NEW ts, NEW st, NEW ds \in Seq(Nat), NEW limit \in Int,
           Sound(n, ts, st, ds, limit), NEW d \in Nat, NEW later \in Int, limit <= d, d < later,
           \/ Len(ts) <= Len(st)
           \/ Len(ts) = Len(st) + 1 /\ ts[Len(ts)] # Garbled /\ d = ds[ts[Len(ts)]],
           mode = "dir" => d \div Rotate = n
    PROVE  Sound(n, ts, Append(st, d), ds, later)
<1> DEFINE y == Append(st, d)
<1>1. ts \in Seq(0..Len(ds)) /\ st \in Seq(Nat) /\ Len(ts) \in Nat /\ Len(st) \in Nat
  BY DEF Sound
<1>2. y \in Seq(Nat) /\ Len(y) = Len(st) + 1 /\ y[Len(st) + 1] = d
      /\ \A k \in 1..Len(st) : y[k] = st[k]
  BY <1>1, AppendProperties
<1> HIDE DEF y
<1>3. \A k \in 1..Len(y) : k \in 1..Len(st) \/ k = Len(st) + 1
  BY <1>1, <1>2
<1>4. \A k \in 1..Least(Len(ts), Len(y)) : ts[k] # Garbled /\ y[k] = ds[ts[k]]
  <2> TAKE k \in 1..Least(Len(ts), Len(y))
  <2>1. CASE k \in 1..Len(st)
    <3>1. k \in 1..Least(Len(ts), Len(st))
      BY <1>1, <1>2, <2>1 DEF Least
    <3> QED
      BY <1>2, <2>1, <3>1 DEF Sound
  <2>2. CASE k = Len(st) + 1
    <3>1. k <= Len(ts)
      BY <1>1, <1>2 DEF Least
    <3>2. k = Len(ts)
      BY <1>1, <2>2, <3>1
    <3> QED
      BY <1>1, <1>2, <2>2, <3>2
  <2>3. k \in 1..Len(y)
    BY <1>1, <1>2 DEF Least
  <2> QED
    BY <1>3, <2>1, <2>2, <2>3
<1>5. \A k \in 1..Len(st) : st[k] < limit /\ st[k] < d /\ st[k] < later
  <2> TAKE k \in 1..Len(st)
  <2>1. st[k] < limit /\ st[k] \in Nat
    BY <1>1 DEF Sound
  <2> QED
    BY <2>1
<1>6. \A j, k \in 1..Len(y) : j < k => y[j] < y[k]
  <2> TAKE j, k \in 1..Len(y)
  <2> HAVE j < k
  <2>1. j \in 1..Len(st)
    BY <1>1, <1>2
  <2>2. CASE k \in 1..Len(st)
    BY <1>2, <2>1, <2>2 DEF Sound
  <2>3. CASE k = Len(st) + 1
    BY <1>2, <1>5, <2>1, <2>3
  <2> QED
    BY <1>3, <2>2, <2>3
<1>7. \A k \in 1..Len(y) : y[k] < later
  BY <1>2, <1>3, <1>5
<1>8. mode = "dir" => \A k \in 1..Len(y) : y[k] \div Rotate = n
  BY <1>2, <1>3 DEF Sound
<1> QED
  BY <1>1, <1>2, <1>4, <1>6, <1>7, <1>8 DEF Sound, y

-----------------------------------------------------------------------------

LEMMA WithIs ==
    ASSUME NEW d, NEW n, NEW f
    PROVE  /\ DOMAIN With(d, n, f) = DOMAIN d \union {n}
           /\ With(d, n, f)[n] = [f EXCEPT !.mtime = ChangedAt(d, n, f)]
           /\ \A k \in DOMAIN d : k # n => With(d, n, f)[k] = d[k]
BY DEF With

(* A file that gets a date keeps its chunks and stamps.                    *)
LEMMA TouchedIs ==
    ASSUME NEW f \in PairOfFiles, NEW m
    PROVE  LET g == [f EXCEPT !.mtime = m]
           IN  g.ts = f.ts /\ g.aux = f.aux /\ g.tsTorn = f.tsTorn /\ g.linked = f.linked
BY DEF PairOfFiles

LEMMA WithTyped ==
    ASSUME NEW d, DOMAIN d \subseteq Nat, d \in [DOMAIN d -> PairOfFiles], now \in Nat,
           NEW n \in Nat, NEW f \in PairOfFiles
    PROVE  /\ DOMAIN With(d, n, f) \subseteq Nat
           /\ With(d, n, f) \in [DOMAIN With(d, n, f) -> PairOfFiles]
<1> DEFINE e == With(d, n, f)
<1>1. DOMAIN e = DOMAIN d \union {n} /\ DOMAIN e \subseteq Nat
  BY DEF With
<1>2. e = [k \in DOMAIN e |-> IF k = n THEN [f EXCEPT !.mtime = ChangedAt(d, n, f)] ELSE d[k]]
  BY <1>1 DEF With
<1>3. [f EXCEPT !.mtime = ChangedAt(d, n, f)] \in PairOfFiles
  <2>1. ChangedAt(d, n, f) \in Nat
    BY DEF ChangedAt, PairOfFiles
  <2> QED
    BY <2>1 DEF PairOfFiles
<1> HIDE DEF e
<1>4. \A k \in DOMAIN e : (IF k = n THEN [f EXCEPT !.mtime = ChangedAt(d, n, f)] ELSE d[k]) \in PairOfFiles
  BY <1>1, <1>3
<1>5. e \in [DOMAIN e -> PairOfFiles]
  BY <1>2, <1>4, Zenon
<1> QED
  BY <1>1, <1>5 DEF e

(* The types of what is in a file, and of what the buffer adds to it.      *)
LEMMA StampsTyped ==
    ASSUME RecTypes, NEW n \in DOMAIN disk
    PROVE  /\ disk[n] \in PairOfFiles /\ disk[n].ts \in Seq(Nat) /\ disk[n].aux \in Seq(Nat)
           /\ n = recFile => Stamps(n) = disk[n].aux \o held
           /\ n # recFile => Stamps(n) = disk[n].aux
           /\ Stamps(n) \in Seq(Nat)
           /\ Len(disk[n].aux) \in 0..Len(Stamps(n))
           /\ First(Stamps(n), Len(disk[n].aux)) = disk[n].aux
<1>1. disk[n] \in PairOfFiles
  BY DEF RecTypes
<1>2. disk[n].ts \in Seq(Nat) /\ disk[n].aux \in Seq(Nat) /\ held \in Seq(Nat)
  BY <1>1 DEF RecTypes, PairOfFiles
<1>3. PICK a \in Seq(Nat) : a = disk[n].aux
  BY <1>2
<1>4. CASE n = recFile
  <2>1. Stamps(n) = a \o held
    BY <1>3, <1>4 DEF Stamps
  <2>2. a \o held \in Seq(Nat) /\ Len(a \o held) = Len(a) + Len(held) /\ Len(a) \in Nat /\ Len(held) \in Nat
    BY <1>2, ConcatProperties
  <2>3. SubSeq(a \o held, 1, Len(a)) = SubSeq(a, 1, Len(a))
    BY <1>2, <2>2, SubSeqOfConcat1
  <2>4. SubSeq(a, 1, Len(a)) = a
    BY SubSeqFull
  <2> QED
    BY <1>1, <1>2, <1>3, <1>4, <2>1, <2>2, <2>3, <2>4 DEF First
<1>5. CASE n # recFile
  <2>1. Stamps(n) = a \o <<>>
    BY <1>3, <1>5 DEF Stamps
  <2>2. a \o <<>> = a
    BY ConcatEmptySeq
  <2>3. SubSeq(a, 1, Len(a)) = a /\ Len(a) \in Nat
    BY SubSeqFull
  <2> QED
    BY <1>1, <1>2, <1>3, <1>5, <2>1, <2>2, <2>3 DEF First
<1> QED
  BY <1>4, <1>5

(* Without its buffer a file is paired too.                                *)
LEMMA SoundOnDisk ==
    ASSUME RecTypes, FilesSound, NEW n \in DOMAIN disk
    PROVE  Sound(n, disk[n].ts, disk[n].aux, dates, Limit)
<1>1. Sound(n, disk[n].ts, Stamps(n), dates, Limit) /\ dates \in Seq(Nat)
  BY DEF FilesSound, RecTypes
<1>2. PICK ts, aux, st : ts = disk[n].ts /\ aux = disk[n].aux /\ st = Stamps(n)
  OBVIOUS
<1>3. /\ ts \in Seq(Nat) /\ Len(ts) \in 0..Len(ts) /\ Len(aux) \in 0..Len(st)
      /\ First(st, Len(aux)) = aux
  BY <1>2, StampsTyped
<1>4. First(ts, Len(ts)) = ts
  BY <1>3, SubSeqFull DEF First
<1>5. Sound(n, First(ts, Len(ts)), First(st, Len(aux)), dates, Limit)
  BY <1>1, <1>2, <1>3, SoundCut
<1> QED
  BY <1>2, <1>3, <1>4, <1>5

(* A file that CheckFileSizes cut, or an empty one.                        *)
LEMMA OpenedIs ==
    ASSUME RecTypes, FilesSound, NEW n \in Nat
    PROVE  LET f == OpenForWriting(n)
           IN  /\ f \in PairOfFiles /\ ~f.tsTorn /\ Len(f.ts) = Len(f.aux)
               /\ Sound(n, f.ts, f.aux, dates, Limit)
               /\ f.linked
               /\ Here(n) /\ mode # "truncate" => f = CheckFileSizes(disk[n])
<1> DEFINE f == OpenForWriting(n)
<1>1. CASE Here(n) /\ mode # "truncate"
  <2>1. n \in DOMAIN disk /\ f = CheckFileSizes(disk[n])
    BY <1>1 DEF Here, OpenForWriting
  <2>2. disk[n] \in PairOfFiles /\ disk[n].ts \in Seq(Nat) /\ disk[n].aux \in Seq(Nat)
    BY <2>1, StampsTyped
  <2>3. PICK ts \in Seq(Nat), aux \in Seq(Nat) : ts = disk[n].ts /\ aux = disk[n].aux
    BY <2>2
  <2>4. PICK k \in Nat : k = Least(Len(ts), Len(aux)) /\ k \in 0..Len(ts) /\ k \in 0..Len(aux)
    BY DEF Least
  <2>5. f = [disk[n] EXCEPT !.ts = First(ts, k), !.aux = First(aux, k),
                            !.tsTorn = FALSE, !.auxTorn = FALSE]
    BY <2>1, <2>3, <2>4 DEF CheckFileSizes
  <2>6. First(ts, k) \in Seq(Nat) /\ Len(First(ts, k)) = k
    BY <2>4, FirstIs
  <2>7. First(aux, k) \in Seq(Nat) /\ Len(First(aux, k)) = k
    BY <2>4, FirstIs
  <2>8. Sound(n, ts, aux, dates, Limit) /\ dates \in Seq(Nat)
    BY <2>1, <2>3, SoundOnDisk DEF RecTypes
  <2>9. Sound(n, First(ts, k), First(aux, k), dates, Limit)
    BY <2>4, <2>8, SoundCut
  <2> HIDE DEF f
  <2>10. f \in PairOfFiles /\ ~f.tsTorn /\ f.ts = First(ts, k) /\ f.aux = First(aux, k)
    BY <2>2, <2>5, <2>6, <2>7 DEF PairOfFiles
  <2>11. f.linked
    BY <1>1, <2>2, <2>5 DEF Here, PairOfFiles
  <2> QED
    BY <2>1, <2>6, <2>7, <2>9, <2>10, <2>11 DEF f
<1>2. CASE ~(Here(n) /\ mode # "truncate")
  <2>1. f = NoChunks
    BY <1>2 DEF OpenForWriting
  <2>2. NoChunks \in PairOfFiles /\ NoChunks.ts = <<>> /\ NoChunks.aux = <<>> /\ ~NoChunks.tsTorn
        /\ NoChunks.linked
    BY EmptySeq DEF NoChunks, PairOfFiles
  <2>3. Sound(n, <<>>, <<>>, dates, Limit)
    <3>1. <<>> \in Seq(0..Len(dates)) /\ <<>> \in Seq(Nat) /\ Len(<<>>) = 0
      BY EmptySeq
    <3>2. Least(0, 0) = 0
      BY DEF Least
    <3> QED
      BY <3>1, <3>2 DEF Sound
  <2> QED
    BY <1>2, <2>1, <2>2, <2>3
<1> QED
  BY <1>1, <1>2

LEMMA RecInvInit == Init => RecInv
<1> SUFFICES ASSUME Init PROVE RecInv
  OBVIOUS
<1>1. /\ now = 1 /\ given \in Cases /\ disk = <<>> /\ dates = <<>> /\ rec = "down"
      /\ recFile = NoFile /\ held = <<>> /\ nextFlush = 0
  BY DEF Init, RecInit
<1>2. <<>> \in Seq(Nat) /\ Len(<<>>) = 0 /\ DOMAIN disk = {}
  BY <1>1, EmptySeq
<1>3. disk \in [DOMAIN disk -> PairOfFiles]
  BY <1>1, <1>2
<1> QED
  BY <1>1, <1>2, <1>3 DEF RecInv, RecTypes, DatesGrow, FilesSound, OpenFile, Chunk

(* Dates are told apart from the limit.                                    *)
LEMMA LimitIs ==
    ASSUME RecTypes, DatesGrow
    PROVE  /\ Chunk \in Nat /\ Chunk = Len(dates) /\ Limit \in Nat
           /\ rec = "stamp" /\ Chunk > 0 => Limit = dates[Chunk] /\ dates[Chunk] \in 1..now
           /\ rec # "stamp" => Limit <= now + 1 /\ (NewChunk => Limit <= now)
<1>1. Chunk \in Nat /\ Chunk = Len(dates)
  BY DEF RecTypes, Chunk
<1>2. now \in Nat \ {0} /\ (Chunk > 0 => dates[Chunk] \in 1..now)
  BY <1>1 DEF RecTypes, DatesGrow
<1> QED
  BY <1>1, <1>2 DEF Limit, NewChunk

(* The mode stays.                                                         *)
LEMMA FilesSoundNext ==
    ASSUME given' = given,
           \A n \in DOMAIN disk' : Sound(n, disk'[n].ts, Stamps(n)', dates', Limit')
    PROVE  FilesSound'
<1>1. mode' = mode
  BY DEF mode
<1> SUFFICES ASSUME NEW n \in DOMAIN disk'
             PROVE  Sound(n, disk[n].ts, Stamps(n), dates, Limit)'
  BY DEF FilesSound
<1>2. PICK ts, st, ds, l : ts = disk'[n].ts /\ st = Stamps(n)' /\ ds = dates' /\ l = Limit'
  OBVIOUS
<1>3. Sound(n, ts, st, ds, l)
  BY <1>2
<1> QED
  BY <1>1, <1>2, <1>3 DEF Sound

(* A recorder that goes down, with a last change of its file or none.      *)
LEMMA DownKeepsInv ==
    ASSUME RecInv, Down, dates' \in Seq(Nat), DatesGrow', Len(dates) <= Len(dates'),
           \A k \in 1..Len(dates) : dates'[k] = dates[k], Limit <= Limit',
           \/ disk' = disk
           \/ /\ recFile # NoFile
              /\ \E f \in PairOfFiles :
                    disk' = With(disk, recFile, f) /\ Sound(recFile, f.ts, f.aux, dates', Limit')
    PROVE  RecInv'
<1>1. RecTypes /\ FilesSound /\ DatesGrow /\ OpenFile
  BY DEF RecInv
<1>2. /\ rec' = "down" /\ recFile' = NoFile /\ held' = <<>> /\ nextFlush' = 0
      /\ now' = now /\ given' = given
  BY DEF Down
<1>3. now \in Nat /\ DOMAIN disk \subseteq Nat /\ disk \in [DOMAIN disk -> PairOfFiles]
      /\ (recFile # NoFile => recFile \in Nat)
  BY <1>1 DEF RecTypes
<1>4. DOMAIN disk' \subseteq Nat /\ disk' \in [DOMAIN disk' -> PairOfFiles]
  <2>1. CASE disk' = disk
    BY <1>3, <2>1
  <2>2. ASSUME NEW f \in PairOfFiles, recFile # NoFile, disk' = With(disk, recFile, f)
        PROVE  DOMAIN disk' \subseteq Nat /\ disk' \in [DOMAIN disk' -> PairOfFiles]
    <3>1. /\ DOMAIN With(disk, recFile, f) \subseteq Nat
          /\ With(disk, recFile, f) \in [DOMAIN With(disk, recFile, f) -> PairOfFiles]
      BY <1>3, <2>2, WithTyped
    <3> QED
      BY <2>2, <3>1
  <2> QED
    BY <2>1, <2>2
<1>5. RecTypes'
  BY <1>1, <1>2, <1>4, EmptySeq DEF RecTypes
<1>6. Limit \in Int /\ Limit' \in Int /\ dates \in Seq(Nat)
  <2>1. Limit \in Int
    BY <1>1, LimitIs
  <2>2. Limit' \in Int
    <3>1. Chunk' \in Nat /\ (Chunk' > 0 => dates'[Chunk'] \in Nat)
      BY DEF Chunk
    <3> QED
      BY <3>1 DEF Limit
  <2> QED
    BY <1>1, <2>1, <2>2 DEF RecTypes
<1>7. \A n \in DOMAIN disk' : Sound(n, disk'[n].ts, disk'[n].aux, dates', Limit')
  <2> TAKE n \in DOMAIN disk'
  <2>1. ASSUME n \in DOMAIN disk, disk'[n] = disk[n]
        PROVE  Sound(n, disk'[n].ts, disk'[n].aux, dates', Limit')
    <3>1. Sound(n, disk[n].ts, disk[n].aux, dates, Limit)
      BY <1>1, <2>1, SoundOnDisk
    <3>0. disk[n].ts \in Seq(Nat) /\ disk[n].aux \in Seq(Nat)
      BY <1>1, <2>1, StampsTyped
    <3>2. PICK ts, aux, es \in Seq(Nat), limit, later \in Int :
             /\ ts = disk[n].ts /\ aux = disk[n].aux /\ es = dates'
             /\ limit = Limit /\ later = Limit'
      BY <1>6, <3>0
    <3>3. Sound(n, ts, aux, dates, limit) /\ limit <= later
          /\ Len(dates) <= Len(es) /\ \A k \in 1..Len(dates) : es[k] = dates[k]
      BY <3>1, <3>2
    <3>4. Sound(n, ts, aux, es, later)
      BY <1>6, <3>3, SoundLater
    <3> QED
      BY <2>1, <3>2, <3>4
  <2>2. CASE disk' = disk
    BY <2>1, <2>2
  <2>3. ASSUME NEW f \in PairOfFiles, recFile # NoFile, disk' = With(disk, recFile, f),
               Sound(recFile, f.ts, f.aux, dates', Limit')
        PROVE  Sound(n, disk'[n].ts, disk'[n].aux, dates', Limit')
    <3>0. PICK e : e = With(disk, recFile, f)
      OBVIOUS
    <3>1. /\ DOMAIN disk' = DOMAIN disk \union {recFile}
          /\ disk'[recFile] = [f EXCEPT !.mtime = ChangedAt(disk, recFile, f)]
          /\ \A k \in DOMAIN disk : k # recFile => disk'[k] = disk[k]
      <4>1. /\ DOMAIN e = DOMAIN disk \union {recFile}
            /\ e[recFile] = [f EXCEPT !.mtime = ChangedAt(disk, recFile, f)]
            /\ \A k \in DOMAIN disk : k # recFile => e[k] = disk[k]
        BY <3>0 DEF With
      <4>2. disk' = e
        BY <2>3, <3>0
      <4> QED
        BY <4>1, <4>2
    <3>2. disk'[recFile].ts = f.ts /\ disk'[recFile].aux = f.aux
      BY <1>3, <3>1, TouchedIs
    <3>3. CASE n = recFile
      BY <2>3, <3>2, <3>3
    <3>4. CASE n # recFile
      BY <2>1, <3>1, <3>4
    <3> QED
      BY <3>3, <3>4
  <2> QED
    BY <2>2, <2>3
<1>8. FilesSound'
  <2>1. \A n \in DOMAIN disk' : Stamps(n)' = disk'[n].aux
    <3> TAKE n \in DOMAIN disk'
    <3>1. PICK aux \in Seq(Nat) : aux = disk'[n].aux
      BY <1>4 DEF PairOfFiles
    <3>2. aux \o <<>> = aux
      BY ConcatEmptySeq
    <3> QED
      BY <1>2, <3>1, <3>2 DEF Stamps
  <2>2. \A n \in DOMAIN disk' : Sound(n, disk'[n].ts, Stamps(n)', dates', Limit')
    BY <1>7, <2>1
  <2> QED
    BY <1>2, <2>2, FilesSoundNext
<1>9. OpenFile'
  BY <1>2 DEF OpenFile, mode
<1> QED
  BY <1>5, <1>8, <1>9 DEF RecInv

LEMMA StopKeepsInv ==
    ASSUME RecInv, RecStop
    PROVE  RecInv'
<1>1. RecTypes /\ FilesSound /\ DatesGrow /\ OpenFile
  BY DEF RecInv
<1>2. Down /\ dates' = dates /\ rec = "idle" /\ rec' = "down" /\ now' = now
  BY DEF RecStop, Down
<1>3. DatesGrow' /\ Limit' = Limit /\ Limit \in Nat
  BY <1>1, <1>2, LimitIs DEF DatesGrow, Limit, Chunk
<1>4. dates \in Seq(Nat) /\ Len(dates) \in Nat
  BY <1>1 DEF RecTypes
<1>5. CASE recFile = NoFile
  <2>1. disk' = disk
    BY <1>5 DEF RecStop
  <2> QED
    BY <1>2, <1>3, <1>4, <2>1, DownKeepsInv
<1>6. CASE recFile # NoFile
  <2> DEFINE f == Flushed(disk[recFile], held)
  <2>1. recFile \in DOMAIN disk
    BY <1>1, <1>6 DEF OpenFile
  <2>2. disk[recFile] \in PairOfFiles /\ Stamps(recFile) = disk[recFile].aux \o held
        /\ Stamps(recFile) \in Seq(Nat)
    BY <1>1, <2>1, StampsTyped
  <2>3. PICK st \in Seq(Nat) : st = Stamps(recFile)
    BY <2>2
  <2>4. f = [disk[recFile] EXCEPT !.aux = st]
    BY <2>2, <2>3 DEF Flushed
  <2>5. f \in PairOfFiles /\ f.ts = disk[recFile].ts /\ f.aux = st
    BY <2>2, <2>4 DEF PairOfFiles
  <2>6. disk' = With(disk, recFile, f)
    BY <1>6 DEF RecStop
  <2>7. Sound(recFile, disk[recFile].ts, Stamps(recFile), dates, Limit)
    BY <1>1, <2>1 DEF FilesSound
  <2>8. Sound(recFile, f.ts, f.aux, dates', Limit')
    BY <1>2, <1>3, <2>3, <2>5, <2>7
  <2> HIDE DEF f
  <2> QED
    BY <1>2, <1>3, <1>4, <1>6, <2>5, <2>6, <2>8, DownKeepsInv
<1> QED
  BY <1>5, <1>6

LEMMA KilledKeepsInv ==
    ASSUME RecInv, Killed
    PROVE  RecInv'
<1>1. RecTypes /\ DatesGrow
  BY DEF RecInv
<1>2. Down /\ dates' = dates /\ disk' = disk /\ rec' = "down" /\ now' = now
  BY DEF Killed, Down
<1>3. dates \in Seq(Nat) /\ Len(dates) \in Nat
  BY <1>1 DEF RecTypes
<1>4. DatesGrow'
  BY <1>1, <1>2 DEF DatesGrow, Chunk
<1>5. Limit <= Limit'
  BY <1>1, <1>2, <1>3, LimitIs DEF Limit, Chunk
<1> QED
  BY <1>2, <1>3, <1>4, <1>5, DownKeepsInv

LEMMA PowerCutKeepsInv ==
    ASSUME RecInv, PowerCut
    PROVE  RecInv'
<1>1. RecTypes /\ FilesSound /\ DatesGrow /\ OpenFile
  BY DEF RecInv
<1>2. Down /\ dates' = dates /\ rec' = "down" /\ now' = now /\ recFile # NoFile
  BY DEF PowerCut, Down
<1>3. dates \in Seq(Nat) /\ Len(dates) \in Nat
  BY <1>1 DEF RecTypes
<1>4. DatesGrow'
  BY <1>1, <1>2 DEF DatesGrow, Chunk
<1>5. Limit <= Limit' /\ Limit \in Int /\ Limit' \in Int
  BY <1>1, <1>2, <1>3, LimitIs DEF Limit, Chunk
<1>6. recFile \in DOMAIN disk
  BY <1>1, <1>2 DEF OpenFile
<1>7. PICK f \in PairOfFiles : f = disk[recFile]
  BY <1>1, <1>6, StampsTyped
<1>8. PICK n \in 0..Len(disk[recFile].ts), k \in 0..Len(disk[recFile].aux), torn, auxTorn \in BOOLEAN :
         disk' = With(disk, recFile,
                      [disk[recFile] EXCEPT !.ts = First(@, n), !.aux = First(@, k),
                                            !.tsTorn = torn, !.auxTorn = auxTorn])
  BY Zenon DEF PowerCut
<1>9. PICK ts \in Seq(Nat), aux \in Seq(Nat) : ts = f.ts /\ aux = f.aux
  BY DEF PairOfFiles
<1> DEFINE g == [f EXCEPT !.ts = First(ts, n), !.aux = First(aux, k), !.tsTorn = torn, !.auxTorn = auxTorn]
<1>10. disk' = With(disk, recFile, g)
  <2>1. disk' = With(disk, recFile, [f EXCEPT !.ts = First(f.ts, n), !.aux = First(f.aux, k),
                                              !.tsTorn = torn, !.auxTorn = auxTorn])
    BY <1>7, <1>8
  <2> QED
    BY <1>9, <2>1
<1>11. First(ts, n) \in Seq(Nat) /\ First(aux, k) \in Seq(Nat)
  BY <1>7, <1>8, <1>9, FirstIs
<1>12. g \in PairOfFiles /\ g.ts = First(ts, n) /\ g.aux = First(aux, k)
  BY <1>11 DEF PairOfFiles
<1>13. Sound(recFile, ts, aux, dates, Limit)
  BY <1>1, <1>6, <1>7, <1>9, SoundOnDisk
<1>14. Sound(recFile, First(ts, n), First(aux, k), dates, Limit)
  BY <1>3, <1>7, <1>8, <1>9, <1>13, SoundCut
<1>15. Sound(recFile, First(ts, n), First(aux, k), dates', Limit')
  <2>1. PICK x, y \in Seq(Nat), l, m \in Int :
           x = First(ts, n) /\ y = First(aux, k) /\ l = Limit /\ m = Limit'
    BY <1>5, <1>11
  <2>2. Sound(recFile, x, y, dates, l) /\ l <= m
    BY <1>5, <1>14, <2>1
  <2>3. Sound(recFile, x, y, dates, m)
    BY <1>3, <2>2, SoundLater
  <2> QED
    BY <1>2, <2>1, <2>3
<1> HIDE DEF g
<1>16. Sound(recFile, g.ts, g.aux, dates', Limit')
  BY <1>12, <1>15
<1> QED
  BY <1>2, <1>3, <1>4, <1>5, <1>10, <1>12, <1>16, DownKeepsInv

-----------------------------------------------------------------------------

(* Flushing the beginning of the buffer, and appending to it.              *)
LEMMA FlushedFirst ==
    ASSUME NEW S, NEW a \in Seq(S), NEW h \in Seq(S), NEW n \in 0..Len(h)
    PROVE  /\ a \o First(h, n) \in Seq(S)
           /\ Len(a) + n \in 0..Len(a \o h)
           /\ a \o First(h, n) = First(a \o h, Len(a) + n)
<1>1. First(h, n) \in Seq(S) /\ Len(First(h, n)) = n /\ \A k \in 1..n : First(h, n)[k] = h[k]
  BY FirstIs
<1>2. PICK b \in Seq(S) : b = First(h, n)
  BY <1>1
<1>3. /\ a \o b \in Seq(S) /\ Len(a \o b) = Len(a) + n
      /\ \A i \in 1..Len(a) + n : (a \o b)[i] = IF i <= Len(a) THEN a[i] ELSE b[i - Len(a)]
  <2>1. /\ a \o b \in Seq(S) /\ Len(a \o b) = Len(a) + Len(b)
        /\ \A i \in 1..Len(a) + Len(b) : (a \o b)[i] = IF i <= Len(a) THEN a[i] ELSE b[i - Len(a)]
    BY ConcatProperties
  <2>2. Len(b) = n
    BY <1>1, <1>2
  <2> QED
    BY <2>1, <2>2
<1>4. /\ a \o h \in Seq(S) /\ Len(a \o h) = Len(a) + Len(h)
      /\ \A i \in 1..Len(a) + Len(h) : (a \o h)[i] = IF i <= Len(a) THEN a[i] ELSE h[i - Len(a)]
  BY ConcatProperties
<1>5. Len(a) \in Nat /\ Len(h) \in Nat /\ Len(a) + n \in 0..Len(a) + Len(h)
  OBVIOUS
<1>6. PICK c \in Seq(S), d \in Seq(S) : c = a \o b /\ d = a \o h
  BY <1>3, <1>4
<1>7. /\ First(d, Len(a) + n) \in Seq(S) /\ Len(First(d, Len(a) + n)) = Len(a) + n
      /\ \A k \in 1..Len(a) + n : First(d, Len(a) + n)[k] = d[k]
  <2>1. Len(a) + n \in 0..Len(d)
    BY <1>4, <1>5, <1>6
  <2> QED
    BY <2>1, FirstIs
<1>8. PICK e \in Seq(S) : e = First(d, Len(a) + n)
  BY <1>7
<1>9. \A i \in 1..Len(c) : c[i] = e[i]
  <2> TAKE i \in 1..Len(c)
  <2>1. i \in 1..Len(a) + n /\ i \in 1..Len(a) + Len(h)
    BY <1>3, <1>5, <1>6
  <2>2. e[i] = IF i <= Len(a) THEN a[i] ELSE h[i - Len(a)]
    BY <1>4, <1>6, <1>7, <1>8, <2>1
  <2>3. c[i] = IF i <= Len(a) THEN a[i] ELSE b[i - Len(a)]
    BY <1>3, <1>6, <2>1
  <2>4. i > Len(a) => i - Len(a) \in 1..n
    BY <1>5, <2>1
  <2> QED
    BY <1>1, <1>2, <1>5, <2>1, <2>2, <2>3, <2>4
<1>10. c = e
  BY <1>3, <1>6, <1>7, <1>8, <1>9, SeqEqual
<1> QED
  BY <1>2, <1>3, <1>4, <1>5, <1>6, <1>8, <1>10

LEMMA FlushedAppend ==
    ASSUME NEW S, NEW a \in Seq(S), NEW h \in Seq(S), NEW e \in S
    PROVE  a \o Append(h, e) = Append(a \o h, e) /\ Append(h, e) \in Seq(S)
<1>1. <<e>> \in Seq(S) /\ a \o h \in Seq(S) /\ Append(h, e) \in Seq(S)
  BY ConcatProperties
<1>2. Append(h, e) = h \o <<e>>
  BY AppendIsConcat
<1>3. a \o (h \o <<e>>) = (a \o h) \o <<e>>
  BY <1>1, ConcatAssociative
<1>4. Append(a \o h, e) = (a \o h) \o <<e>>
  BY <1>1, AppendIsConcat
<1> QED
  BY <1>1, <1>2, <1>3, <1>4

(* One more chunk is received.                                             *)
LEMMA Received ==
    ASSUME RecTypes, DatesGrow, NewChunk, dates' = Append(dates, now), now' = now
    PROVE  /\ dates' \in Seq(Nat) /\ Len(dates') = Len(dates) + 1 /\ Chunk' = Chunk + 1
           /\ \A k \in 1..Len(dates) : dates'[k] = dates[k]
           /\ dates'[Chunk + 1] = now
           /\ DatesGrow'
<1>1. dates \in Seq(Nat) /\ Len(dates) \in Nat /\ now \in Nat \ {0} /\ Chunk = Len(dates)
  BY DEF RecTypes, Chunk
<1>2. /\ dates' \in Seq(Nat) /\ Len(dates') = Len(dates) + 1
      /\ \A k \in 1..Len(dates) : dates'[k] = dates[k]
      /\ dates'[Len(dates) + 1] = now
  BY <1>1, AppendProperties
<1>3. Chunk' = Len(dates) + 1
  BY <1>2 DEF Chunk
<1>4. \A c \in 1..Len(dates) : dates[c] \in 1..now /\ dates[c] < now
  <2> TAKE c \in 1..Len(dates)
  <2>1. dates[c] \in 1..now /\ dates[Len(dates)] \in 1..now
    BY <1>1 DEF DatesGrow
  <2>2. dates[Len(dates)] < now
    BY <1>1 DEF NewChunk
  <2>3. c < Len(dates) => dates[c] < dates[Len(dates)]
    BY <1>1 DEF DatesGrow
  <2> QED
    BY <1>1, <2>1, <2>2, <2>3
<1>5. \A c \in 1..Chunk' : dates'[c] \in 1..now'
  BY <1>1, <1>2, <1>3, <1>4
<1>6. \A b, c \in 1..Chunk' : b < c => dates'[b] < dates'[c]
  <2> TAKE b, c \in 1..Chunk'
  <2> HAVE b < c
  <2>1. b \in 1..Len(dates)
    BY <1>1, <1>3
  <2>2. CASE c \in 1..Len(dates)
    BY <1>1, <1>2, <2>1, <2>2 DEF DatesGrow
  <2>3. CASE c = Len(dates) + 1
    BY <1>2, <1>4, <2>1, <2>3
  <2> QED
    BY <1>1, <1>3, <2>2, <2>3
<1>7. DatesGrow'
  BY <1>5, <1>6 DEF DatesGrow
<1> QED
  BY <1>1, <1>2, <1>3, <1>7

LEMMA NumberNowIs ==
    ASSUME now \in Nat \ {0}
    PROVE  mode = "dir" => NumberNow = now \div Rotate
BY DEF NumberNow, GetDirFile

LEMMA DiskFullKeepsInv ==
    ASSUME RecInv, DiskFull
    PROVE  RecInv'
<1>1. RecTypes /\ FilesSound /\ DatesGrow /\ OpenFile
  BY DEF RecInv
<1>2. Down /\ rec = "idle" /\ rec' = "down" /\ now' = now /\ recFile # NoFile
  BY DEF DiskFull, Down
<1>3. dates \in Seq(Nat) /\ Len(dates) \in Nat /\ now \in Nat \ {0} /\ held \in Seq(Nat)
  BY <1>1 DEF RecTypes
<1>4. recFile \in DOMAIN disk /\ Len(disk[recFile].ts) = Len(Stamps(recFile))
  BY <1>1, <1>2 DEF OpenFile, RecTypes
<1>5. PICK f : f = disk[recFile]
  OBVIOUS
<1>6. f \in PairOfFiles
  BY <1>1, <1>4, <1>5, StampsTyped
<1>7. PICK ts \in Seq(Nat), aux \in Seq(Nat) : ts = f.ts /\ aux = f.aux
  BY <1>6 DEF PairOfFiles
<1>8. PICK st \in Seq(Nat) : st = aux \o held /\ st = Stamps(recFile)
  BY <1>1, <1>4, <1>5, <1>7, StampsTyped
<1>9. Sound(recFile, ts, st, dates, Limit) /\ Len(ts) = Len(st) /\ Len(st) \in Nat
  BY <1>1, <1>4, <1>5, <1>7, <1>8 DEF FilesSound
<1>10. Limit \in Nat /\ Limit <= now + 1 /\ (NewChunk => Limit <= now)
  BY <1>1, <1>2, LimitIs
<1> DEFINE Left(torn, auxTorn) ==
      LET stamps == IF torn THEN Append(held, now) ELSE held IN
      /\ torn => NewChunk /\ NumberNow = recFile
      /\ dates' = IF torn THEN Append(dates, now) ELSE dates
      /\ \E n \in 0..Len(stamps) :
            disk' = With(disk, recFile, [Flushed(disk[recFile], First(stamps, n))
                                            EXCEPT !.tsTorn = torn, !.auxTorn = auxTorn])
<1>11. \E torn, auxTorn \in BOOLEAN : Left(torn, auxTorn)
  BY Zenon DEF DiskFull
<1>12. ASSUME NEW torn \in BOOLEAN, NEW auxTorn \in BOOLEAN, NEW stamps \in Seq(Nat),
              NEW n \in 0..Len(stamps),
              disk' = With(disk, recFile, [Flushed(disk[recFile], First(stamps, n))
                                              EXCEPT !.tsTorn = torn, !.auxTorn = auxTorn]),
              dates' \in Seq(Nat), DatesGrow', Len(dates) <= Len(dates'),
              \A k \in 1..Len(dates) : dates'[k] = dates[k], Limit <= Limit',
              Sound(recFile, ts, aux \o stamps, dates', Limit')
       PROVE  RecInv'
  <2> DEFINE g == [Flushed(f, First(stamps, n)) EXCEPT !.tsTorn = torn, !.auxTorn = auxTorn]
  <2>1. disk' = With(disk, recFile, g)
    BY <1>5, <1>12
  <2>2. /\ aux \o First(stamps, n) \in Seq(Nat)
        /\ Len(aux) + n \in 0..Len(aux \o stamps)
        /\ aux \o First(stamps, n) = First(aux \o stamps, Len(aux) + n)
    BY FlushedFirst, SMTT(30)
  <2>3. PICK x, y \in Seq(Nat), m \in Nat :
           /\ x = aux \o First(stamps, n) /\ y = aux \o stamps /\ m = Len(aux) + n
           /\ m \in 0..Len(y) /\ x = First(y, m)
    <3>1. aux \o stamps \in Seq(Nat)
      BY ConcatProperties
    <3>2. Len(aux) + n \in Nat
      OBVIOUS
    <3> QED
      BY <2>2, <3>1, <3>2
  <2>4. g \in PairOfFiles /\ g.ts = ts /\ g.aux = x
    BY <1>6, <1>7, <2>3 DEF Flushed, PairOfFiles
  <2>5. First(ts, Len(ts)) = ts /\ Len(ts) \in 0..Len(ts)
    BY SubSeqFull DEF First
  <2>6. Sound(recFile, ts, y, dates', Limit')
    BY <1>12, <2>3
  <2>7. PICK es \in Seq(Nat) : es = dates'
    BY <1>12
  <2>11. PICK l : l = Limit'
    OBVIOUS
  <2>8. Sound(recFile, ts, y, es, l)
    BY <2>6, <2>7, <2>11
  <2>9. Sound(recFile, First(ts, Len(ts)), First(y, m), es, l)
    BY <2>3, <2>5, <2>8, SoundCut
  <2>10. Sound(recFile, g.ts, g.aux, dates', Limit')
    BY <2>3, <2>4, <2>5, <2>7, <2>9, <2>11
  <2> HIDE DEF g
  <2> QED
    BY <1>2, <1>12, <2>1, <2>4, <2>10, DownKeepsInv
<1>13. ASSUME NEW auxTorn \in BOOLEAN, Left(TRUE, auxTorn) PROVE RecInv'
  <2>1. NewChunk /\ NumberNow = recFile /\ dates' = Append(dates, now)
    BY <1>13
  <2>2. /\ dates' \in Seq(Nat) /\ Len(dates') = Len(dates) + 1 /\ Chunk' = Chunk + 1
        /\ \A k \in 1..Len(dates) : dates'[k] = dates[k]
        /\ dates'[Chunk + 1] = now
        /\ DatesGrow'
    BY <1>1, <1>2, <2>1, Received
  <2>3. Limit' = now + 1 /\ Limit <= now
    BY <1>1, <1>2, <1>3, <1>10, <2>1, <2>2, LimitIs DEF Limit
  <2>4. PICK es \in Seq(Nat) : es = dates'
    BY <2>2
  <2>5. PICK l \in Int : l = Limit /\ l <= now
    BY <1>10, <2>3
  <2>6. Sound(recFile, ts, st, es, l)
    <3>1. Sound(recFile, ts, st, dates, l) /\ Len(dates) <= Len(es) /\ now \in Int
          /\ \A k \in 1..Len(dates) : es[k] = dates[k]
      BY <1>3, <1>9, <2>2, <2>4, <2>5
    <3> QED
      BY <1>3, <3>1, SoundLater
  <2>7. mode = "dir" => now \div Rotate = recFile
    BY <1>3, <2>1, NumberNowIs
  <2>8. Sound(recFile, ts, Append(st, now), es, now + 1)
    <3>1. PICK m \in Int : m = now + 1 /\ now < m
      BY <1>3
    <3>2. now \in Nat /\ Len(ts) <= Len(st)
      BY <1>3, <1>9
    <3>3. Sound(recFile, ts, Append(st, now), es, m)
      BY <2>5, <2>6, <2>7, <3>1, <3>2, SoundStamp
    <3> QED
      BY <3>1, <3>3
  <2>9. aux \o Append(held, now) = Append(st, now) /\ Append(held, now) \in Seq(Nat)
    <3>1. PICK h \in Seq(Nat), d \in Nat : h = held /\ d = now
      BY <1>3
    <3>2. aux \o Append(h, d) = Append(aux \o h, d) /\ Append(h, d) \in Seq(Nat)
      BY FlushedAppend
    <3>3. st = aux \o h
      BY <1>8, <3>1
    <3> QED
      BY <3>1, <3>2, <3>3
  <2>10. Sound(recFile, ts, aux \o Append(held, now), dates', Limit')
    <3>1. PICK y : y = Append(st, now) /\ y = aux \o Append(held, now)
      BY <2>9
    <3>2. Sound(recFile, ts, y, dates', Limit')
      BY <2>3, <2>4, <2>8, <3>1
    <3> QED
      BY <3>1, <3>2
  <2>11. PICK n \in 0..Len(Append(held, now)) :
            disk' = With(disk, recFile, [Flushed(disk[recFile], First(Append(held, now), n))
                                            EXCEPT !.tsTorn = TRUE, !.auxTorn = auxTorn])
    BY <1>13
  <2>12. Len(dates) <= Len(dates') /\ Limit <= Limit'
    BY <1>3, <1>10, <2>2, <2>3
  <2> QED
    BY <1>12, <2>2, <2>9, <2>10, <2>11, <2>12
<1>14. ASSUME NEW auxTorn \in BOOLEAN, Left(FALSE, auxTorn) PROVE RecInv'
  <2>1. dates' = dates
    BY <1>14
  <2>2. DatesGrow' /\ Limit' = Limit
    BY <1>1, <1>2, <2>1 DEF DatesGrow, Limit, Chunk
  <2>3. PICK n \in 0..Len(held) :
            disk' = With(disk, recFile, [Flushed(disk[recFile], First(held, n))
                                            EXCEPT !.tsTorn = FALSE, !.auxTorn = auxTorn])
    BY <1>14
  <2>4. Sound(recFile, ts, aux \o held, dates', Limit')
    BY <1>8, <1>9, <2>1, <2>2
  <2> QED
    <3>1. /\ dates' \in Seq(Nat) /\ Len(dates) <= Len(dates') /\ Limit <= Limit'
          /\ \A k \in 1..Len(dates) : dates'[k] = dates[k]
      BY <1>3, <1>10, <2>1, <2>2
    <3>2. FALSE \in BOOLEAN
      OBVIOUS
    <3> QED
      BY <1>3, <1>12, <2>2, <2>3, <2>4, <3>1, <3>2
<1> HIDE DEF Left
<1> QED
  BY <1>11, <1>13, <1>14

-----------------------------------------------------------------------------

(* The buffer of an open file is empty when it is opened.                  *)
LEMMA EmptyBuffer ==
    ASSUME NEW n \in DOMAIN disk', disk' \in [DOMAIN disk' -> PairOfFiles],
           n = recFile' => held' = <<>>
    PROVE  Stamps(n)' = disk'[n].aux
<1>1. PICK aux \in Seq(Nat) : aux = disk'[n].aux
  BY DEF PairOfFiles
<1>2. aux \o <<>> = aux
  BY ConcatEmptySeq
<1> QED
  BY <1>1, <1>2 DEF Stamps

LEMMA StartKeepsInv ==
    ASSUME RecInv, RecStart
    PROVE  RecInv'
<1>1. RecTypes /\ FilesSound /\ DatesGrow /\ OpenFile
  BY DEF RecInv
<1>2. /\ rec = "down" /\ rec' = "idle" /\ nextFlush' = 0 /\ held' = <<>>
      /\ UNCHANGED <<now, given, dates>>
      /\ recFile = NoFile /\ mode' = mode
  BY <1>1 DEF RecStart, OpenFile, mode
<1>3. now \in Nat /\ DOMAIN disk \subseteq Nat /\ disk \in [DOMAIN disk -> PairOfFiles]
  BY <1>1 DEF RecTypes
<1>4. DatesGrow' /\ Limit' = Limit
  BY <1>1, <1>2 DEF DatesGrow, Limit, Chunk
<1>5. CASE mode = "dir"
  <2>1. disk' = disk /\ recFile' = NoFile
    BY <1>2, <1>5 DEF RecStart
  <2>2. RecTypes'
    BY <1>1, <1>2, <2>1, EmptySeq DEF RecTypes
  <2>3. \A n \in DOMAIN disk' : Sound(n, disk'[n].ts, Stamps(n)', dates', Limit')
    <3> TAKE n \in DOMAIN disk'
    <3>1. Sound(n, disk[n].ts, disk[n].aux, dates, Limit)
      BY <1>1, <2>1, SoundOnDisk
    <3>2. Stamps(n)' = disk'[n].aux
      BY <1>2, <1>3, <2>1, EmptyBuffer
    <3> QED
      BY <1>2, <1>4, <2>1, <3>1, <3>2
  <2>4. OpenFile'
    BY <1>2, <1>5, <2>1 DEF OpenFile
  <2> QED
    BY <1>2, <1>4, <2>2, <2>3, <2>4, FilesSoundNext DEF RecInv
<1>6. CASE mode # "dir"
  <2>1. PICK f : f = OpenForWriting(0) /\ disk' = With(disk, 0, f) /\ recFile' = 0
    BY <1>6 DEF RecStart
  <2>2. /\ f \in PairOfFiles /\ ~f.tsTorn /\ Len(f.ts) = Len(f.aux)
        /\ Sound(0, f.ts, f.aux, dates, Limit)
    BY <1>1, <2>1, OpenedIs
  <2>3. PICK e : e = With(disk, 0, f)
    OBVIOUS
  <2>4. /\ DOMAIN e = DOMAIN disk \union {0}
        /\ e[0] = [f EXCEPT !.mtime = ChangedAt(disk, 0, f)]
        /\ \A k \in DOMAIN disk : k # 0 => e[k] = disk[k]
    BY <2>3 DEF With
  <2>5. DOMAIN e \subseteq Nat /\ e \in [DOMAIN e -> PairOfFiles]
    BY <1>3, <2>2, <2>3, WithTyped
  <2>6. disk' = e
    BY <2>1, <2>3
  <2>7. e[0].ts = f.ts /\ e[0].aux = f.aux /\ e[0].tsTorn = f.tsTorn
    BY <1>3, <2>2, <2>4, TouchedIs
  <2>8. RecTypes'
    BY <1>1, <1>2, <2>1, <2>5, <2>6, EmptySeq DEF RecTypes
  <2>9. \A n \in DOMAIN disk' : Sound(n, disk'[n].ts, disk'[n].aux, dates', Limit')
    <3> TAKE n \in DOMAIN disk'
    <3>1. CASE n = 0
      BY <1>2, <1>4, <2>2, <2>6, <2>7, <3>1
    <3>2. CASE n # 0
      <4>1. n \in DOMAIN disk /\ disk'[n] = disk[n]
        BY <2>4, <2>6, <3>2
      <4>2. Sound(n, disk[n].ts, disk[n].aux, dates, Limit)
        BY <1>1, <4>1, SoundOnDisk
      <4> QED
        BY <1>2, <1>4, <4>1, <4>2
    <3> QED
      BY <3>1, <3>2
  <2>10. \A n \in DOMAIN disk' : Stamps(n)' = disk'[n].aux
    BY <1>2, <2>5, <2>6, EmptyBuffer
  <2>11. FilesSound'
    BY <1>2, <2>9, <2>10, FilesSoundNext
  <2>12. OpenFile'
    <3>1. /\ 0 \in DOMAIN disk' /\ ~disk'[0].tsTorn
          /\ Len(disk'[0].ts) = Len(Stamps(0)')
      BY <2>2, <2>4, <2>6, <2>7, <2>10
    <3>2. Len(f.ts) \in Nat
      BY <2>2 DEF PairOfFiles
    <3> QED
      BY <1>2, <1>6, <2>1, <2>6, <2>7, <3>1, <3>2 DEF OpenFile, NoFile
  <2> QED
    BY <1>4, <2>8, <2>11, <2>12 DEF RecInv
<1> QED
  BY <1>5, <1>6

(* The file before the new one, if there is another, is flushed.           *)
LEMMA ClosedIs ==
    ASSUME RecTypes, OpenFile, NEW n
    PROVE  /\ DOMAIN Closed(n) = DOMAIN disk
           /\ Closed(n) \in [DOMAIN disk -> PairOfFiles]
           /\ \A k \in DOMAIN disk : Closed(n)[k].ts = disk[k].ts /\ Closed(n)[k].linked = disk[k].linked
           /\ \A k \in DOMAIN disk : k # n => Closed(n)[k].aux = Stamps(k)
<1>1. now \in Nat /\ DOMAIN disk \subseteq Nat /\ disk \in [DOMAIN disk -> PairOfFiles]
  BY DEF RecTypes
<1>2. CASE recFile \in {n, NoFile}
  <2>1. Closed(n) = disk
    BY <1>2 DEF Closed
  <2>2. \A k \in DOMAIN disk : k # n => Stamps(k) = disk[k].aux
    <3> TAKE k \in DOMAIN disk
    <3> HAVE k # n
    <3>1. k # recFile
      BY <1>1, <1>2 DEF NoFile
    <3> QED
      BY <3>1, StampsTyped
  <2> QED
    BY <1>1, <2>1, <2>2
<1>3. CASE recFile \notin {n, NoFile}
  <2>1. recFile \in DOMAIN disk
    BY <1>3 DEF OpenFile
  <2>2. disk[recFile] \in PairOfFiles /\ Stamps(recFile) = disk[recFile].aux \o held
        /\ Stamps(recFile) \in Seq(Nat)
    BY <2>1, StampsTyped
  <2>3. PICK st \in Seq(Nat) : st = Stamps(recFile)
    BY <2>2
  <2>4. PICK f : f = [disk[recFile] EXCEPT !.aux = st]
    OBVIOUS
  <2>5. f \in PairOfFiles /\ f.ts = disk[recFile].ts /\ f.aux = st /\ f.linked = disk[recFile].linked
    BY <2>2, <2>4 DEF PairOfFiles
  <2>6. Closed(n) = With(disk, recFile, f)
    BY <1>3, <2>2, <2>3, <2>4 DEF Closed, Flushed
  <2>7. PICK e : e = With(disk, recFile, f)
    OBVIOUS
  <2>8. /\ DOMAIN e = DOMAIN disk
        /\ e[recFile] = [f EXCEPT !.mtime = ChangedAt(disk, recFile, f)]
        /\ \A k \in DOMAIN disk : k # recFile => e[k] = disk[k]
    BY <2>1, <2>7 DEF With
  <2>9. e \in [DOMAIN disk -> PairOfFiles]
    <3>1. With(disk, recFile, f) \in [DOMAIN With(disk, recFile, f) -> PairOfFiles]
      BY <1>1, <2>1, <2>5, WithTyped
    <3> QED
      BY <2>7, <2>8, <3>1
  <2>10. e[recFile].ts = f.ts /\ e[recFile].aux = f.aux /\ e[recFile].linked = f.linked
    BY <1>1, <2>5, <2>8, TouchedIs
  <2>11. \A k \in DOMAIN disk : k # recFile => Stamps(k) = disk[k].aux
    BY StampsTyped
  <2>12. \A k \in DOMAIN disk :
            e[k].ts = disk[k].ts /\ e[k].aux = Stamps(k) /\ e[k].linked = disk[k].linked
    BY <2>3, <2>5, <2>8, <2>10, <2>11
  <2>13. Closed(n) = e
    BY <2>6, <2>7
  <2> QED
    BY <2>8, <2>9, <2>12, <2>13
<1> QED
  BY <1>2, <1>3

(* The file that is written to has as many stamps as chunks.               *)
LEMMA TargetIs ==
    ASSUME RecInv, rec = "idle", NEW n \in Nat
    PROVE  LET f == Target(n)
               st == IF n = recFile THEN Stamps(n) ELSE f.aux
           IN  /\ f \in PairOfFiles /\ ~f.tsTorn /\ Len(f.ts) = Len(st)
               /\ Sound(n, f.ts, st, dates, Limit)
               /\ n = recFile => n \in DOMAIN disk /\ f = disk[n]
<1>1. RecTypes /\ FilesSound /\ OpenFile
  BY DEF RecInv
<1>2. CASE n = recFile
  <2>1. n \in DOMAIN disk /\ ~disk[n].tsTorn /\ Target(n) = disk[n]
        /\ Len(disk[n].ts) = Len(Stamps(n)) + 0
    BY <1>1, <1>2 DEF OpenFile, Target, NoFile
  <2>2. disk[n] \in PairOfFiles /\ Stamps(n) \in Seq(Nat)
    BY <1>1, <2>1, StampsTyped
  <2>3. Sound(n, disk[n].ts, Stamps(n), dates, Limit)
    BY <1>1, <2>1 DEF FilesSound
  <2>4. Len(disk[n].ts) = Len(Stamps(n))
    BY <2>1, <2>2
  <2> QED
    BY <1>2, <2>1, <2>2, <2>3, <2>4
<1>3. CASE n # recFile
  BY <1>1, <1>3, OpenedIs DEF Target
<1> QED
  BY <1>2, <1>3

LEMMA WriteChunkKeepsInv ==
    ASSUME RecInv, WriteChunk
    PROVE  RecInv'
<1>1. RecTypes /\ FilesSound /\ DatesGrow /\ OpenFile
  BY DEF RecInv
<1>2. /\ rec = "idle" /\ rec' = "stamp" /\ NewChunk /\ dates' = Append(dates, now)
      /\ UNCHANGED <<now, given, nextFlush>> /\ mode' = mode
  BY DEF WriteChunk, mode
<1>3. now \in Nat \ {0} /\ DOMAIN disk \subseteq Nat /\ disk \in [DOMAIN disk -> PairOfFiles]
      /\ held \in Seq(Nat) /\ dates \in Seq(Nat) /\ Chunk \in Nat /\ Chunk = Len(dates)
  BY <1>1 DEF RecTypes, Chunk
<1>4. /\ dates' \in Seq(Nat) /\ Len(dates') = Chunk + 1 /\ Chunk' = Chunk + 1
      /\ \A k \in 1..Len(dates) : dates'[k] = dates[k]
      /\ dates'[Chunk + 1] = now
      /\ DatesGrow'
  BY <1>1, <1>2, <1>3, Received
<1>5. Limit \in Nat /\ Limit <= now /\ Limit' = now
  <2>1. Limit \in Nat /\ Limit <= now
    BY <1>1, <1>2, LimitIs
  <2>2. Limit' = now
    BY <1>2, <1>3, <1>4 DEF Limit
  <2> QED
    BY <2>1, <2>2
<1>6. PICK n : n = NumberNow
  OBVIOUS
<1>7. n \in Nat /\ (mode = "dir" => n = now \div Rotate) /\ (mode # "dir" => n = 0 /\ n = recFile)
  <2>1. CASE mode = "dir"
    <3>1. now \div Rotate \in Nat
      <4>1. PICK a \in Nat, b \in Nat \ {0} : a = now /\ b = Rotate
        BY <1>3, RotateAssumption DEF RotateAssumption
      <4>2. PICK q \in Int : q = a \div b
        BY <4>1
      <4>3. q >= 0
        BY <4>1, <4>2, SMTT(30)
      <4> QED
        BY <4>1, <4>2, <4>3
    <3> QED
      BY <1>3, <1>6, <2>1, <3>1, NumberNowIs
  <2>2. CASE mode # "dir"
    BY <1>1, <1>2, <1>6, <2>2 DEF NumberNow, OpenFile
  <2> QED
    BY <2>1, <2>2
<1>8. PICK f, st : f = Target(n) /\ st = IF n = recFile THEN Stamps(n) ELSE f.aux
  OBVIOUS
<1>9. /\ f \in PairOfFiles /\ ~f.tsTorn /\ Len(f.ts) = Len(st)
      /\ Sound(n, f.ts, st, dates, Limit)
      /\ n = recFile => n \in DOMAIN disk /\ f = disk[n]
  BY <1>2, <1>7, <1>8, TargetIs
<1>10. PICK d : d = Closed(n)
  OBVIOUS
<1>11. /\ DOMAIN d = DOMAIN disk /\ d \in [DOMAIN disk -> PairOfFiles]
       /\ \A k \in DOMAIN disk : d[k].ts = disk[k].ts
       /\ \A k \in DOMAIN disk : k # n => d[k].aux = Stamps(k)
  BY <1>1, <1>10, ClosedIs
<1>12. PICK g : g = [f EXCEPT !.ts = Append(@, Chunk + 1)]
  OBVIOUS
<1>13. /\ disk' = With(d, n, g) /\ recFile' = n
       /\ held' = IF n = recFile THEN held ELSE <<>>
  BY <1>6, <1>8, <1>9, <1>10, <1>12 DEF WriteChunk
<1>14. PICK ts \in Seq(Nat), aux \in Seq(Nat) : ts = f.ts /\ aux = f.aux
  BY <1>9 DEF PairOfFiles
<1>15. Append(ts, Chunk + 1) \in Seq(Nat) /\ Len(Append(ts, Chunk + 1)) = Len(ts) + 1
       /\ Append(ts, Chunk + 1)[Len(ts) + 1] = Chunk + 1
  BY <1>3, AppendProperties
<1>16. g \in PairOfFiles /\ g.ts = Append(ts, Chunk + 1) /\ g.aux = aux /\ ~g.tsTorn
  BY <1>9, <1>12, <1>14, <1>15 DEF PairOfFiles
<1>17. PICK e : e = With(d, n, g)
  OBVIOUS
<1>18. /\ DOMAIN e = DOMAIN disk \union {n}
       /\ e[n] = [g EXCEPT !.mtime = ChangedAt(d, n, g)]
       /\ \A k \in DOMAIN disk : k # n => e[k] = d[k]
  BY <1>11, <1>17 DEF With
<1>19. DOMAIN e \subseteq Nat /\ e \in [DOMAIN e -> PairOfFiles]
  <2>1. DOMAIN d \subseteq Nat /\ d \in [DOMAIN d -> PairOfFiles] /\ now \in Nat
    BY <1>3, <1>11
  <2>2. DOMAIN With(d, n, g) \subseteq Nat /\ With(d, n, g) \in [DOMAIN With(d, n, g) -> PairOfFiles]
    BY <1>7, <1>16, <2>1, WithTyped
  <2> QED
    BY <1>17, <2>2
<1>20. e[n].ts = g.ts /\ e[n].aux = g.aux /\ e[n].tsTorn = g.tsTorn
  BY <1>3, <1>16, <1>18, TouchedIs
<1>21. disk' = e
  BY <1>13, <1>17
<1>22. RecTypes'
  <2>1. held' \in Seq(Nat)
    BY <1>3, <1>13, EmptySeq
  <2>2. recFile' \in Nat \union {NoFile}
    BY <1>7, <1>13
  <2> QED
    BY <1>1, <1>2, <1>4, <1>19, <1>21, <2>1, <2>2 DEF RecTypes
<1>23. Stamps(n)' = st /\ st \in Seq(Nat)
  <2>1. CASE n = recFile
    <3>1. Stamps(n) = disk[n].aux \o held
      BY <1>1, <1>9, <2>1, StampsTyped
    <3>2. Stamps(n)' = disk'[n].aux \o held'
      BY <1>13 DEF Stamps
    <3>3. disk'[n].aux = disk[n].aux /\ held' = held
      BY <1>9, <1>13, <1>14, <1>16, <1>20, <1>21, <2>1
    <3> QED
      BY <1>1, <1>8, <1>9, <2>1, <3>1, <3>2, <3>3, StampsTyped
  <2>2. CASE n # recFile
    <3>1. n \in DOMAIN disk' /\ disk' \in [DOMAIN disk' -> PairOfFiles] /\ held' = <<>>
      BY <1>13, <1>18, <1>19, <1>21, <2>2
    <3>2. Stamps(n)' = disk'[n].aux
      BY <3>1, EmptyBuffer
    <3> QED
      BY <1>8, <1>14, <1>16, <1>20, <1>21, <2>2, <3>2
  <2> QED
    BY <2>1, <2>2
<1>24. \A k \in DOMAIN disk' : Sound(k, disk'[k].ts, Stamps(k)', dates', Limit')
  <2>1. PICK es \in Seq(Nat), l, m \in Int :
           es = dates' /\ l = Limit /\ m = now /\ l <= m /\ m = Limit' /\ Len(es) = Chunk + 1
    BY <1>3, <1>4, <1>5
  <2>2. Len(dates) <= Len(es) /\ \A k \in 1..Len(dates) : es[k] = dates[k]
    BY <1>3, <1>4, <2>1
  <2>3. Sound(n, Append(ts, Chunk + 1), st, es, m)
    <3>1. Sound(n, ts, st, dates, l)
      BY <1>9, <1>14, <2>1
    <3>2. Sound(n, ts, st, es, m)
      BY <1>3, <2>1, <2>2, <3>1, SoundLater
    <3>3. Len(st) <= Len(ts) /\ Chunk + 1 \in 0..Len(es)
      BY <1>3, <1>9, <1>14, <2>1
    <3> QED
      BY <3>2, <3>3, SoundChunk
  <2>4. Sound(n, disk'[n].ts, Stamps(n)', dates', Limit')
    BY <1>16, <1>20, <1>21, <1>23, <2>1, <2>3
  <2>5. ASSUME NEW k \in DOMAIN disk, k # n
        PROVE  Sound(k, disk'[k].ts, Stamps(k)', dates', Limit')
    <3>1. disk'[k].ts = disk[k].ts /\ disk'[k].aux = Stamps(k) /\ k \in DOMAIN disk'
      BY <1>11, <1>18, <1>21, <2>5
    <3>2. Stamps(k)' = disk'[k].aux
      <4>1. disk' \in [DOMAIN disk' -> PairOfFiles] /\ k # recFile'
        BY <1>13, <1>19, <1>21, <2>5
      <4> QED
        BY <3>1, <4>1, EmptyBuffer
    <3>3. PICK x, y : x = disk[k].ts /\ y = Stamps(k)
      OBVIOUS
    <3>4. Sound(k, x, y, dates, l)
      BY <1>1, <2>1, <2>5, <3>3 DEF FilesSound
    <3>5. Sound(k, x, y, es, m)
      BY <1>3, <2>1, <2>2, <3>4, SoundLater
    <3> QED
      BY <2>1, <3>1, <3>2, <3>3, <3>5
  <2> QED
    BY <1>18, <1>21, <2>4, <2>5
<1>25. FilesSound'
  BY <1>2, <1>24, FilesSoundNext
<1>26. OpenFile'
  <2>1. recFile' = n /\ n # NoFile
    BY <1>7, <1>13 DEF NoFile
  <2>2. n \in DOMAIN disk' /\ ~disk'[n].tsTorn /\ disk'[n].ts = Append(ts, Chunk + 1)
    BY <1>16, <1>18, <1>20, <1>21
  <2>3. Len(disk'[n].ts) = Len(Stamps(n)') + 1
    BY <1>9, <1>14, <1>15, <1>23, <2>2
  <2>4. Last(disk'[n].ts) = Chunk'
    BY <1>4, <1>15, <2>2 DEF Last
  <2>5. mode = "dir" => dates'[Chunk'] \div Rotate = n
    BY <1>4, <1>7
  <2>6. Chunk' > 0
    BY <1>3, <1>4
  <2>7. Stamps(recFile)' = Stamps(n)'
    BY <2>1 DEF Stamps
  <2> QED
    BY <1>2, <1>7, <2>1, <2>2, <2>3, <2>4, <2>5, <2>6, <2>7 DEF OpenFile
<1> QED
  BY <1>4, <1>22, <1>25, <1>26 DEF RecInv

LEMMA WriteStampKeepsInv ==
    ASSUME RecInv, WriteStamp
    PROVE  RecInv'
<1>1. RecTypes /\ FilesSound /\ DatesGrow /\ OpenFile
  BY DEF RecInv
<1>2. /\ rec = "stamp" /\ rec' = "idle" /\ UNCHANGED <<now, given, dates, recFile>>
      /\ mode' = mode /\ Chunk' = Chunk
  BY DEF WriteStamp, mode, Chunk
<1>3. now \in Nat \ {0} /\ DOMAIN disk \subseteq Nat /\ disk \in [DOMAIN disk -> PairOfFiles]
      /\ held \in Seq(Nat) /\ dates \in Seq(Nat) /\ Chunk \in Nat /\ Chunk = Len(dates)
  BY <1>1 DEF RecTypes, Chunk
<1>4. /\ Chunk > 0 /\ recFile # NoFile /\ recFile \in DOMAIN disk /\ ~disk[recFile].tsTorn
      /\ Len(disk[recFile].ts) = Len(Stamps(recFile)) + 1
      /\ Last(disk[recFile].ts) = Chunk
      /\ mode = "dir" => dates[Chunk] \div Rotate = recFile
  BY <1>1, <1>2 DEF OpenFile
<1>5. PICK d \in Nat : d = dates[Chunk]
  BY <1>3, <1>4
<1>6. Limit = d /\ Limit' = d + 1 /\ DatesGrow'
  <2>1. Limit = d /\ Limit' = d + 1
    BY <1>2, <1>3, <1>4, <1>5 DEF Limit
  <2>2. DatesGrow'
    BY <1>1, <1>2 DEF DatesGrow
  <2> QED
    BY <2>1, <2>2
<1>7. PICK f, st : f = disk[recFile] /\ st = Stamps(recFile)
  OBVIOUS
<1>8. f \in PairOfFiles /\ st = f.aux \o held /\ st \in Seq(Nat)
  BY <1>1, <1>4, <1>7, StampsTyped
<1>9. PICK ts \in Seq(Nat), aux \in Seq(Nat) : ts = f.ts /\ aux = f.aux
  BY <1>8 DEF PairOfFiles
<1>10. Append(held, d) \in Seq(Nat) /\ aux \o Append(held, d) = Append(st, d) /\ Append(st, d) \in Seq(Nat)
  <2>1. PICK h \in Seq(Nat) : h = held
    BY <1>3
  <2>2. aux \o Append(h, d) = Append(aux \o h, d) /\ Append(h, d) \in Seq(Nat)
    BY FlushedAppend
  <2>3. st = aux \o h
    BY <1>8, <1>9, <2>1
  <2>4. Append(st, d) \in Seq(Nat)
    BY <1>8, AppendProperties
  <2> QED
    BY <2>1, <2>2, <2>3, <2>4
<1>11. Sound(recFile, ts, Append(st, d), dates, d + 1)
  <2>1. Sound(recFile, ts, st, dates, d)
    BY <1>1, <1>4, <1>6, <1>7, <1>9 DEF FilesSound
  <2>2. Len(ts) = Len(st) + 1 /\ Len(st) \in Nat
    BY <1>4, <1>7, <1>8, <1>9
  <2>3. ts[Len(ts)] = Chunk /\ Chunk # Garbled
    BY <1>3, <1>4, <1>7, <1>9 DEF Last, Garbled
  <2>4. mode = "dir" => d \div Rotate = recFile
    BY <1>4, <1>5
  <2>5. PICK l \in Int, m \in Int : l = d /\ m = d + 1 /\ l <= d /\ d < m
    OBVIOUS
  <2>6. Sound(recFile, ts, Append(st, d), dates, m)
    BY <1>3, <1>5, <2>1, <2>2, <2>3, <2>4, <2>5, SoundStamp
  <2> QED
    BY <2>5, <2>6
<1>12. \A k \in DOMAIN disk : k # recFile => Sound(k, disk[k].ts, disk[k].aux, dates, d + 1)
  <2> TAKE k \in DOMAIN disk
  <2> HAVE k # recFile
  <2>1. PICK x, y : x = disk[k].ts /\ y = disk[k].aux
    OBVIOUS
  <2>2. Sound(k, x, y, dates, d)
    BY <1>1, <1>6, <2>1, SoundOnDisk
  <2>3. PICK m \in Int : m = d + 1 /\ d <= m
    OBVIOUS
  <2>4. Sound(k, x, y, dates, m)
    BY <1>3, <2>2, <2>3, SoundLater
  <2> QED
    BY <2>1, <2>3, <2>4
<1>13. nextFlush' \in Nat
  BY <1>1, <1>5, RecorderAssumption DEF WriteStamp, RecTypes, RecorderAssumption
<1>14. ASSUME disk' = disk, held' = Append(held, d) PROVE RecInv'
  <2>1. RecTypes'
    BY <1>1, <1>2, <1>10, <1>13, <1>14 DEF RecTypes
  <2>2. Stamps(recFile)' = Append(st, d)
    BY <1>2, <1>7, <1>9, <1>10, <1>14 DEF Stamps
  <2>3. \A k \in DOMAIN disk' : Sound(k, disk'[k].ts, Stamps(k)', dates', Limit')
    <3> TAKE k \in DOMAIN disk'
    <3>1. CASE k = recFile
      BY <1>2, <1>6, <1>7, <1>9, <1>11, <1>14, <2>2, <3>1 DEF Stamps
    <3>2. CASE k # recFile
      <4>1. Stamps(k)' = disk'[k].aux
        BY <1>2, <1>3, <1>14, <3>2, EmptyBuffer
      <4> QED
        BY <1>2, <1>6, <1>12, <1>14, <3>2, <4>1
    <3> QED
      BY <3>1, <3>2
  <2>4. FilesSound'
    BY <1>2, <2>3, FilesSoundNext
  <2>5. OpenFile'
    <3>1. Len(disk'[recFile].ts) = Len(Append(st, d)) + 0
      BY <1>4, <1>7, <1>8, <1>14, AppendProperties
    <3> QED
      BY <1>1, <1>2, <1>4, <1>14, <2>2, <3>1 DEF OpenFile
  <2> QED
    BY <1>6, <2>1, <2>4, <2>5 DEF RecInv
<1>15. ASSUME disk' = With(disk, recFile, Flushed(disk[recFile], Append(held, d))), held' = <<>>
       PROVE  RecInv'
  <2>1. PICK g : g = [f EXCEPT !.aux = Append(st, d)]
    OBVIOUS
  <2>2. disk' = With(disk, recFile, g)
    BY <1>7, <1>9, <1>10, <1>15, <2>1 DEF Flushed
  <2>3. g \in PairOfFiles /\ g.ts = ts /\ g.aux = Append(st, d) /\ g.tsTorn = f.tsTorn
    BY <1>8, <1>9, <1>10, <2>1 DEF PairOfFiles
  <2>4. PICK e : e = With(disk, recFile, g)
    OBVIOUS
  <2>5. /\ DOMAIN e = DOMAIN disk
        /\ e[recFile] = [g EXCEPT !.mtime = ChangedAt(disk, recFile, g)]
        /\ \A k \in DOMAIN disk : k # recFile => e[k] = disk[k]
    BY <1>4, <2>4 DEF With
  <2>6. DOMAIN e \subseteq Nat /\ e \in [DOMAIN e -> PairOfFiles]
    <3>1. recFile \in Nat /\ now \in Nat
      BY <1>3, <1>4
    <3> QED
      BY <1>3, <2>3, <2>4, <3>1, WithTyped
  <2>7. disk' = e
    BY <2>2, <2>4
  <2>8. e[recFile].ts = g.ts /\ e[recFile].aux = g.aux /\ e[recFile].tsTorn = g.tsTorn
    BY <1>3, <2>3, <2>5, TouchedIs
  <2>9. RecTypes'
    BY <1>1, <1>2, <1>13, <1>15, <2>6, <2>7, EmptySeq DEF RecTypes
  <2>10. \A k \in DOMAIN disk' : Stamps(k)' = disk'[k].aux
    BY <1>15, <2>6, <2>7, EmptyBuffer
  <2>11. \A k \in DOMAIN disk' : Sound(k, disk'[k].ts, disk'[k].aux, dates', Limit')
    BY <1>2, <1>6, <1>11, <1>12, <2>3, <2>5, <2>7, <2>8
  <2>12. FilesSound'
    BY <1>2, <2>10, <2>11, FilesSoundNext
  <2>13. OpenFile'
    <3>1. Len(disk'[recFile].ts) = Len(Append(st, d)) + 0
      BY <1>4, <1>7, <1>8, <1>9, <2>3, <2>7, <2>8, AppendProperties
    <3>2. Stamps(recFile)' = Append(st, d)
      BY <1>2, <1>4, <2>3, <2>5, <2>7, <2>8, <2>10
    <3>3. recFile \in DOMAIN disk' /\ ~disk'[recFile].tsTorn
      BY <1>4, <1>7, <2>3, <2>5, <2>7, <2>8
    <3> QED
      BY <1>1, <1>2, <1>4, <3>1, <3>2, <3>3 DEF OpenFile
  <2> QED
    BY <1>6, <2>9, <2>12, <2>13 DEF RecInv
<1>16. \/ disk' = disk /\ held' = Append(held, d)
       \/ disk' = With(disk, recFile, Flushed(disk[recFile], Append(held, d))) /\ held' = <<>>
  BY <1>5 DEF WriteStamp
<1> QED
  BY <1>14, <1>15, <1>16

(* A file that is removed keeps its contents for who has it open.          *)
LEMMA ExpireKeepsInv ==
    ASSUME RecInv, Expire(Wanted)
    PROVE  RecInv'
<1>1. RecTypes /\ FilesSound /\ DatesGrow /\ OpenFile
  BY DEF RecInv
<1>2. /\ UNCHANGED <<now, given, dates, rec, recFile, held, nextFlush>>
      /\ mode' = mode /\ Chunk' = Chunk
  BY DEF Expire, mode, Chunk
<1>3. disk' = [n \in DOMAIN disk |-> [disk[n] EXCEPT !.linked = @ /\ n \notin Expired(Wanted)]]
  BY DEF Expire
<1>4. \A n \in DOMAIN disk : disk[n] \in PairOfFiles
  BY <1>1 DEF RecTypes
<1>5. DOMAIN disk' = DOMAIN disk
      /\ \A n \in DOMAIN disk :
            /\ disk'[n] \in PairOfFiles
            /\ disk'[n].ts = disk[n].ts /\ disk'[n].aux = disk[n].aux /\ disk'[n].tsTorn = disk[n].tsTorn
  <2>1. DOMAIN disk' = DOMAIN disk
    BY <1>3
  <2> SUFFICES ASSUME NEW n \in DOMAIN disk
               PROVE  /\ disk'[n] \in PairOfFiles
                      /\ disk'[n].ts = disk[n].ts /\ disk'[n].aux = disk[n].aux
                      /\ disk'[n].tsTorn = disk[n].tsTorn
    BY <2>1
  <2>2. disk'[n] = [disk[n] EXCEPT !.linked = disk[n].linked /\ n \notin Expired(Wanted)]
    BY <1>3
  <2>3. disk[n] \in PairOfFiles
    BY <1>4
  <2>4. PICK b \in BOOLEAN : b <=> disk[n].linked /\ n \notin Expired(Wanted)
    <3>1. (disk[n].linked /\ n \notin Expired(Wanted)) \in BOOLEAN
      OBVIOUS
    <3> QED
      BY <3>1, Zenon
  <2>5. disk'[n] = [disk[n] EXCEPT !.linked = b]
    BY <2>2, <2>4, Zenon
  <2> QED
    BY <2>3, <2>5 DEF PairOfFiles
<1>6. RecTypes'
  <2>1. disk' \in [DOMAIN disk' -> PairOfFiles]
    BY <1>3, <1>5
  <2> QED
    BY <1>1, <1>2, <1>5, <2>1 DEF RecTypes
<1>7. \A n \in DOMAIN disk : Stamps(n)' = Stamps(n)
  BY <1>2, <1>5 DEF Stamps
<1>8. DatesGrow' /\ Limit' = Limit
  BY <1>1, <1>2 DEF DatesGrow, Limit
<1>9. FilesSound'
  BY <1>1, <1>2, <1>5, <1>7, <1>8, FilesSoundNext DEF FilesSound
<1>10. OpenFile'
  <2>1. recFile # NoFile => Stamps(recFile)' = Stamps(recFile)
    BY <1>1, <1>7, <1>2 DEF OpenFile, Stamps
  <2> QED
    BY <1>1, <1>2, <1>5, <2>1 DEF OpenFile
<1> QED
  BY <1>6, <1>8, <1>9, <1>10 DEF RecInv

-----------------------------------------------------------------------------

(* The other steps leave the recorder and its files alone.                 *)
LEMMA RecSteps ==
    ASSUME [Next]_vars
    PROVE  \/ RecStart \/ WriteChunk \/ WriteStamp \/ RecStop
           \/ Killed \/ DiskFull \/ PowerCut
           \/ Expire(Wanted)
           \/ now' = now + 1 /\ UNCHANGED recVars
           \/ UNCHANGED <<now, recVars>>
<1>1. CASE Tick
  BY <1>1 DEF Tick
<1>2. CASE Record
  BY <1>2 DEF Record, RecorderStep, RecorderFault
<1>3. CASE Clean
  BY <1>3 DEF Clean
<1>4. CASE Play
  BY <1>4 DEF Play
<1>5. CASE Watch
  BY <1>5 DEF Watch
<1>6. CASE UNCHANGED vars
  BY <1>6 DEF vars
<1> QED
  BY <1>1, <1>2, <1>3, <1>4, <1>5, <1>6 DEF Next

LEMMA SameKeepsInv ==
    ASSUME RecInv, UNCHANGED recVars, now' \in {now, now + 1}
    PROVE  RecInv'
<1>1. RecTypes /\ FilesSound /\ DatesGrow /\ OpenFile
  BY DEF RecInv
<1>2. UNCHANGED <<given, disk, dates, rec, recFile, held, nextFlush>> /\ mode' = mode /\ Chunk' = Chunk
  BY DEF recVars, mode, Chunk
<1>3. now \in Nat \ {0} /\ now' \in Nat \ {0} /\ now <= now'
  BY <1>1 DEF RecTypes
<1>4. RecTypes'
  BY <1>1, <1>2, <1>3 DEF RecTypes
<1>5. DatesGrow'
  BY <1>1, <1>2, <1>3 DEF DatesGrow
<1>6. Limit' = Limit /\ \A n \in DOMAIN disk : Stamps(n)' = Stamps(n)
  BY <1>2 DEF Limit, Stamps
<1>7. FilesSound'
  BY <1>1, <1>2, <1>6, FilesSoundNext DEF FilesSound
<1>8. OpenFile'
  BY <1>1, <1>2 DEF OpenFile, Stamps
<1> QED
  BY <1>4, <1>5, <1>7, <1>8 DEF RecInv

LEMMA RecInvStep == RecInv /\ [Next]_vars => RecInv'
<1> SUFFICES ASSUME RecInv, [Next]_vars PROVE RecInv'
  OBVIOUS
<1>1. (now' = now + 1 /\ UNCHANGED recVars) \/ UNCHANGED <<now, recVars>> => RecInv'
  BY SameKeepsInv
<1> QED
  BY <1>1, RecSteps, StartKeepsInv, WriteChunkKeepsInv, WriteStampKeepsInv, StopKeepsInv,
     KilledKeepsInv, DiskFullKeepsInv, PowerCutKeepsInv, ExpireKeepsInv

(* What is paired with the buffer is paired in the files.                  *)
LEMMA RecInvPaired == RecInv => Paired
<1> SUFFICES ASSUME RecInv PROVE Paired
  OBVIOUS
<1>1. RecTypes /\ FilesSound /\ DatesGrow /\ OpenFile
  BY DEF RecInv
<1>2. ASSUME NEW n \in DOMAIN disk
      PROVE  /\ \A k \in 1..Least(Len(disk[n].ts), Len(Stamps(n))) :
                   disk[n].ts[k] # Garbled /\ Stamps(n)[k] = dates[disk[n].ts[k]]
             /\ \A j, k \in DOMAIN disk[n].aux : j < k => disk[n].aux[j] < disk[n].aux[k]
             /\ mode = "dir" => \A k \in DOMAIN disk[n].aux : disk[n].aux[k] \div Rotate = n
  <2>1. Sound(n, disk[n].ts, Stamps(n), dates, Limit)
    BY <1>1, <1>2 DEF FilesSound
  <2>2. Sound(n, disk[n].ts, disk[n].aux, dates, Limit)
    BY <1>1, <1>2, SoundOnDisk
  <2>3. DOMAIN disk[n].aux = 1..Len(disk[n].aux)
    BY <1>1, <1>2, StampsTyped, LenProperties
  <2> QED
    BY <2>1, <2>2, <2>3 DEF Sound
<1>3. recFile # NoFile =>
        Len(disk[recFile].ts) = Len(Stamps(recFile)) + (IF rec = "stamp" THEN 1 ELSE 0)
  BY <1>1 DEF OpenFile
<1> QED
  BY <1>2, <1>3 DEF Paired

(***************************************************************************)
(* A chunk and a stamp at the same place of the two files of a recording   *)
(* belong together, and the stamps grow, whatever happens to the recorders *)
(* and however often: CheckFileSizes repairs what they leave.              *)
(***************************************************************************)
THEOREM ChunksArePaired == Spec => []Paired
<1>1. Init => RecInv
  BY RecInvInit
<1>2. RecInv /\ [Next]_vars => RecInv'
  BY RecInvStep
<1>3. RecInv => Paired
  BY RecInvPaired
<1> QED
  BY <1>1, <1>2, <1>3, PTL DEF Spec

-----------------------------------------------------------------------------

(* More of a file is stamped when it has as many chunks and stamps, and    *)
(* the same chunks.                                                        *)
LEMMA SafeGrows ==
    ASSUME NEW f \in PairOfFiles, NEW g \in PairOfFiles,
           Least(Len(f.ts), Len(f.aux)) <= Least(Len(g.ts), Len(g.aux)),
           \A k \in 1..Least(Len(f.ts), Len(f.aux)) : g.ts[k] = f.ts[k]
    PROVE  IsPrefix(Safe(f), Safe(g))
<1>1. PICK s, t, a, b \in Seq(Nat) : s = f.ts /\ t = g.ts /\ a = f.aux /\ b = g.aux
  BY DEF PairOfFiles
<1>2. PICK m, n \in Nat : /\ m = Least(Len(s), Len(a)) /\ m \in 0..Len(s)
                          /\ n = Least(Len(t), Len(b)) /\ n \in 0..Len(t)
  <2>1. Len(s) \in Nat /\ Len(a) \in Nat /\ Len(t) \in Nat /\ Len(b) \in Nat
    BY LenProperties
  <2>2. Least(Len(s), Len(a)) \in 0..Len(s) /\ Least(Len(t), Len(b)) \in 0..Len(t)
    BY <2>1 DEF Least
  <2>3. Least(Len(s), Len(a)) \in Nat /\ Least(Len(t), Len(b)) \in Nat
    BY <2>1, <2>2
  <2> QED
    BY <2>2, <2>3
<1>3. m <= n /\ \A k \in 1..m : t[k] = s[k]
  BY <1>1, <1>2
<1>4. First(s, m) \in Seq(Nat) /\ Len(First(s, m)) = m /\ \A k \in 1..m : First(s, m)[k] = s[k]
  BY <1>2, FirstIs
<1>5. First(t, n) \in Seq(Nat) /\ Len(First(t, n)) = n /\ \A k \in 1..n : First(t, n)[k] = t[k]
  BY <1>2, FirstIs
<1>6. PICK x, y \in Seq(Nat) : x = First(s, m) /\ y = First(t, n)
  BY <1>4, <1>5
<1>7. /\ First(y, m) \in Seq(Nat) /\ Len(First(y, m)) = m
      /\ \A k \in 1..m : First(y, m)[k] = y[k]
  <2>1. m \in 0..Len(y)
    BY <1>3, <1>5, <1>6
  <2> QED
    BY <2>1, FirstIs
<1>8. SubSeq(x, 1, Len(x)) = x /\ Len(x) = m
  BY <1>4, <1>6, SubSeqFull
<1>9. x = First(y, m)
  <2>1. PICK z \in Seq(Nat) : z = First(y, m)
    BY <1>7
  <2>2. Len(z) = Len(x) /\ \A k \in 1..Len(x) : x[k] = z[k]
    <3>1. Len(z) = m /\ Len(x) = m /\ m <= n
      BY <1>3, <1>7, <1>8, <2>1
    <3>2. ASSUME NEW k \in 1..m PROVE x[k] = z[k]
      <4>1. k \in 1..n
        BY <1>2, <3>1, <3>2
      <4>2. x[k] = s[k] /\ t[k] = s[k] /\ z[k] = y[k]
        BY <1>3, <1>4, <1>6, <1>7, <2>1, <3>2
      <4>3. y[k] = t[k]
        BY <1>5, <1>6, <4>1
      <4> QED
        BY <4>2, <4>3
    <3> QED
      BY <3>1, <3>2
  <2>3. x = z
    BY <2>2, SeqEqual
  <2> QED
    BY <2>1, <2>3
<1>10. IsPrefix(x, y)
  BY <1>2, <1>3, <1>5, <1>6, <1>8, <1>9 DEF IsPrefix, First
<1> QED
  BY <1>1, <1>2, <1>6, <1>10 DEF Safe

(* What a step does to a file: the name stays, and what is stamped.        *)
StillNamed(n) == n \in DOMAIN disk' /\ (disk[n].linked => disk'[n].linked)
StillStamped(n) == Here(n) => IsPrefix(Safe(disk[n]), Safe(disk'[n]))

LEMMA SameStays ==
    ASSUME RecTypes, disk' = disk, NEW n \in DOMAIN disk
    PROVE  StillNamed(n) /\ StillStamped(n)
<1>1. disk[n] \in PairOfFiles
  BY DEF RecTypes
<1>2. PICK m \in Int : m = Least(Len(disk[n].ts), Len(disk[n].aux))
  BY <1>1 DEF Least, PairOfFiles
<1>3. m <= m
  OBVIOUS
<1>4. IsPrefix(Safe(disk[n]), Safe(disk[n]))
  BY <1>1, <1>2, <1>3, SafeGrows
<1> QED
  BY <1>4 DEF StillNamed, StillStamped

(* CheckFileSizes leaves what is stamped.                                  *)
LEMMA CheckedStays ==
    ASSUME NEW f \in PairOfFiles
    PROVE  LET g == CheckFileSizes(f) IN
           /\ Least(Len(g.ts), Len(g.aux)) = Least(Len(f.ts), Len(f.aux))
           /\ \A k \in 1..Least(Len(f.ts), Len(f.aux)) : g.ts[k] = f.ts[k]
<1> DEFINE g == CheckFileSizes(f)
<1>1. PICK s, a \in Seq(Nat) : s = f.ts /\ a = f.aux
  BY DEF PairOfFiles
<1>2. PICK m \in Nat : m = Least(Len(s), Len(a)) /\ m \in 0..Len(s) /\ m \in 0..Len(a)
  BY DEF Least
<1>3. First(s, m) \in Seq(Nat) /\ Len(First(s, m)) = m /\ \A k \in 1..m : First(s, m)[k] = s[k]
  BY <1>2, FirstIs
<1>4. First(a, m) \in Seq(Nat) /\ Len(First(a, m)) = m
  BY <1>2, FirstIs
<1>5. g = [f EXCEPT !.ts = First(s, m), !.aux = First(a, m), !.tsTorn = FALSE, !.auxTorn = FALSE]
  BY <1>1, <1>2 DEF CheckFileSizes
<1> HIDE DEF g
<1>6. g.ts = First(s, m) /\ g.aux = First(a, m)
  BY <1>5 DEF PairOfFiles
<1>7. Least(m, m) = m
  BY DEF Least
<1> QED
  BY <1>1, <1>2, <1>3, <1>4, <1>6, <1>7 DEF g

LEMMA StartStays ==
    ASSUME RecInv, RecStart, NEW n \in DOMAIN disk
    PROVE  StillNamed(n) /\ (mode # "truncate" => StillStamped(n))
<1>1. RecTypes /\ FilesSound /\ now \in Nat /\ disk[n] \in PairOfFiles
  BY DEF RecInv, RecTypes
<1>2. CASE mode = "dir"
  BY <1>1, <1>2, SameStays DEF RecStart
<1>3. CASE mode # "dir"
  <2>1. PICK f : f = OpenForWriting(0) /\ disk' = With(disk, 0, f)
    BY <1>3 DEF RecStart
  <2>2. f \in PairOfFiles /\ f.linked /\ (Here(0) /\ mode # "truncate" => f = CheckFileSizes(disk[0]))
    BY <1>1, <2>1, OpenedIs
  <2>3. PICK e : e = With(disk, 0, f)
    OBVIOUS
  <2>4. /\ DOMAIN e = DOMAIN disk \union {0}
        /\ e[0] = [f EXCEPT !.mtime = ChangedAt(disk, 0, f)]
        /\ \A k \in DOMAIN disk : k # 0 => e[k] = disk[k]
    BY <2>3 DEF With
  <2>5. disk' = e
    BY <2>1, <2>3
  <2>6. e[0] \in PairOfFiles /\ e[0].ts = f.ts /\ e[0].aux = f.aux /\ e[0].linked = f.linked
    <3>1. e \in [DOMAIN e -> PairOfFiles]
      BY <1>1, <2>2, <2>3, WithTyped DEF RecTypes
    <3>2. PICK g, m : g = e[0] /\ g = [f EXCEPT !.mtime = m]
      BY <2>4
    <3>3. g.ts = f.ts /\ g.aux = f.aux /\ g.linked = f.linked
      BY <2>2, <3>2 DEF PairOfFiles
    <3> QED
      BY <2>4, <3>1, <3>2, <3>3
  <2>7. StillNamed(n)
    BY <2>2, <2>4, <2>5, <2>6 DEF StillNamed
  <2>8. ASSUME Here(n), mode # "truncate" PROVE IsPrefix(Safe(disk[n]), Safe(disk'[n]))
    <3>0. PICK m \in Int : m = Least(Len(disk[n].ts), Len(disk[n].aux))
      BY <1>1 DEF Least, PairOfFiles
    <3>1. CASE n = 0
      <4>1. f = CheckFileSizes(disk[n])
        BY <2>2, <2>8, <3>1
      <4>2. Least(Len(f.ts), Len(f.aux)) = m /\ \A k \in 1..m : f.ts[k] = disk[n].ts[k]
        BY <1>1, <3>0, <4>1, CheckedStays
      <4>3. m <= m
        OBVIOUS
      <4> QED
        BY <1>1, <2>5, <2>6, <3>0, <3>1, <4>2, <4>3, SafeGrows
    <3>2. CASE n # 0
      <4>1. disk'[n] = disk[n] /\ m <= m
        BY <2>4, <2>5, <3>2
      <4> QED
        BY <1>1, <3>0, <4>1, SafeGrows
    <3> QED
      BY <3>1, <3>2
  <2> QED
    BY <2>7, <2>8 DEF StillStamped
<1> QED
  BY <1>2, <1>3

(* A file that gets longer, and keeps its name.                            *)
LEMMA GrownStays ==
    ASSUME NEW n \in DOMAIN disk, n \in DOMAIN disk',
           disk[n] \in PairOfFiles, disk'[n] \in PairOfFiles,
           disk[n].linked => disk'[n].linked,
           Least(Len(disk[n].ts), Len(disk[n].aux)) <= Least(Len(disk'[n].ts), Len(disk'[n].aux)),
           \A k \in 1..Least(Len(disk[n].ts), Len(disk[n].aux)) : disk'[n].ts[k] = disk[n].ts[k]
    PROVE  StillNamed(n) /\ StillStamped(n)
<1>1. PICK f, g \in PairOfFiles : f = disk[n] /\ g = disk'[n]
  OBVIOUS
<1>2. IsPrefix(Safe(f), Safe(g))
  BY <1>1, SafeGrows
<1> QED
  BY <1>1, <1>2 DEF StillNamed, StillStamped

(* More chunks, the first of them the same, and more stamps.               *)
LEMMA LeastGrows ==
    ASSUME NEW a \in Nat, NEW b \in Nat, NEW c \in Nat, NEW d \in Nat, a <= c, b <= d
    PROVE  /\ Least(a, b) \in 0..a /\ Least(a, b) \in 0..b
           /\ Least(a, b) <= Least(c, d)
BY DEF Least

LEMMA WriteChunkStays ==
    ASSUME RecInv, WriteChunk, NEW k \in DOMAIN disk
    PROVE  StillNamed(k) /\ (mode # "truncate" => StillStamped(k))
<1>1. RecTypes /\ FilesSound /\ OpenFile /\ rec = "idle" /\ now \in Nat \ {0}
      /\ DOMAIN disk \subseteq Nat /\ disk[k] \in PairOfFiles /\ Chunk \in Nat
  BY DEF RecInv, RecTypes, WriteChunk, Chunk
<1>2. RecTypes'
  BY WriteChunkKeepsInv DEF RecInv
<1>3. PICK n : n = recFile'
  OBVIOUS
<1>4. n \in Nat
  <2>1. n \in Nat \union {NoFile} /\ rec' = "stamp" /\ OpenFile'
    BY <1>2, <1>3, WriteChunkKeepsInv DEF RecTypes, RecInv, WriteChunk
  <2> QED
    BY <1>3, <2>1 DEF OpenFile
<1>5. PICK f : f = Target(n)
  OBVIOUS
<1>6. f \in PairOfFiles /\ ~f.tsTorn /\ (n = recFile => f = disk[n])
  BY <1>1, <1>4, <1>5, TargetIs
<1>7. PICK d : d = Closed(n)
  OBVIOUS
<1>8. DOMAIN d = DOMAIN disk /\ d[k].ts = disk[k].ts /\ d[k].linked = disk[k].linked
      /\ (k # n => d[k].aux = Stamps(k))
  BY <1>1, <1>7, ClosedIs
<1>9. PICK g : g = [f EXCEPT !.ts = Append(@, Chunk + 1)]
  OBVIOUS
<1>10. PICK e : e = With(d, n, g)
  OBVIOUS
<1>11. disk' = e
  BY <1>3, <1>5, <1>6, <1>7, <1>9, <1>10 DEF WriteChunk
<1>12. e[n] = [g EXCEPT !.mtime = ChangedAt(d, n, g)] /\ (k # n => e[k] = d[k]) /\ k \in DOMAIN e
  BY <1>8, <1>10 DEF With
<1>13. disk'[k] \in PairOfFiles
  BY <1>2, <1>11, <1>12 DEF RecTypes
<1>14. PICK ts, aux \in Seq(Nat) : ts = disk[k].ts /\ aux = disk[k].aux
  BY <1>1 DEF PairOfFiles
<1>15. PICK a, b \in Nat : a = Len(ts) /\ b = Len(aux)
  OBVIOUS
<1>16. CASE k # n
  <2>1. disk'[k].ts = ts /\ disk'[k].linked = disk[k].linked /\ disk'[k].aux = Stamps(k)
    BY <1>8, <1>11, <1>12, <1>14, <1>16
  <2>2. Len(aux) \in 0..Len(Stamps(k)) /\ Stamps(k) \in Seq(Nat)
    BY <1>1, <1>14, StampsTyped
  <2>3. PICK l \in Nat : l = Len(disk'[k].aux) /\ b <= l
    BY <1>15, <2>1, <2>2
  <2>4. Least(a, b) <= Least(a, l)
    BY <1>15, <2>3 DEF Least
  <2>5. StillNamed(k) /\ StillStamped(k)
    BY <1>1, <1>11, <1>12, <1>13, <1>14, <1>15, <2>1, <2>3, <2>4, GrownStays
  <2> QED
    BY <2>5
<1>17. CASE k = n
  <2>1. PICK fs, fa \in Seq(Nat) : fs = f.ts /\ fa = f.aux
    BY <1>6 DEF PairOfFiles
  <2>2. PICK app \in Seq(Nat) : app = Append(fs, Chunk + 1)
    <3>1. PICK c \in Nat : c = Chunk + 1
      BY <1>1
    <3>2. Append(fs, c) \in Seq(Nat)
      BY AppendProperties
    <3> QED
      BY <3>1, <3>2
  <2>3. Len(app) = Len(fs) + 1 /\ \A j \in 1..Len(fs) : app[j] = fs[j]
    BY <2>2, AppendProperties
  <2>4. g \in PairOfFiles /\ g.ts = app /\ g.aux = fa /\ g.linked = f.linked
    BY <1>6, <1>9, <2>1, <2>2 DEF PairOfFiles
  <2>5. disk'[k].ts = app /\ disk'[k].aux = fa /\ disk'[k].linked = f.linked
    <3>1. PICK m : e[n] = [g EXCEPT !.mtime = m]
      BY <1>12
    <3>2. e[n].ts = app /\ e[n].aux = fa /\ e[n].linked = f.linked
      BY <2>4, <3>1, TouchedIs
    <3> QED
      BY <1>11, <1>17, <3>2
  <2>6. disk[k].linked => f.linked
    <3>1. CASE n = recFile
      BY <1>6, <1>17, <3>1
    <3>2. CASE n # recFile
      BY <1>1, <1>4, <1>5, <3>2, OpenedIs DEF Target
    <3> QED
      BY <3>1, <3>2
  <2>7. StillNamed(k)
    BY <1>11, <1>12, <2>5, <2>6 DEF StillNamed
  <2>8. ASSUME Here(k), mode # "truncate" PROVE StillStamped(k)
    <3>1. Least(Len(fs), Len(fa)) = Least(a, b) /\ \A j \in 1..Least(a, b) : fs[j] = ts[j]
      <4>1. CASE n = recFile
        BY <1>6, <1>14, <1>15, <1>17, <2>1, <4>1
      <4>2. CASE n # recFile
        <5>1. f = CheckFileSizes(disk[k])
          BY <1>1, <1>4, <1>5, <1>17, <2>8, <4>2, OpenedIs DEF Target
        <5> QED
          BY <1>1, <1>14, <1>15, <2>1, <5>1, CheckedStays
      <4> QED
        BY <4>1, <4>2
    <3>2. PICK c, l \in Nat : c = Len(fs) /\ l = Len(fa)
      OBVIOUS
    <3>3. Least(c, l) <= Least(c + 1, l) /\ Least(c, l) \in 0..c /\ Least(c, l) = Least(a, b)
      BY <3>1, <3>2 DEF Least
    <3>4. \A j \in 1..Least(a, b) : app[j] = ts[j]
      <4> TAKE j \in 1..Least(a, b)
      <4>1. j \in 1..c
        BY <3>2, <3>3
      <4> QED
        BY <2>3, <3>1, <3>2, <4>1
    <3>5. Least(a, b) <= Least(Len(app), Len(fa))
      BY <2>3, <3>2, <3>3
    <3> QED
      BY <1>1, <1>11, <1>12, <1>13, <1>14, <1>15, <2>5, <2>6, <3>4, <3>5, GrownStays
  <2> QED
    BY <2>7, <2>8 DEF StillStamped
<1> QED
  BY <1>16, <1>17

LEMMA WriteStampStays ==
    ASSUME RecInv, WriteStamp, NEW k \in DOMAIN disk
    PROVE  StillNamed(k) /\ StillStamped(k)
<1>1. RecTypes /\ OpenFile /\ now \in Nat /\ disk[k] \in PairOfFiles /\ held \in Seq(Nat)
  BY DEF RecInv, RecTypes
<1>2. CASE disk' = disk
  BY <1>1, <1>2, SameStays
<1>3. CASE disk' # disk
  <2>1. rec = "stamp" /\ Chunk > 0 /\ recFile \in DOMAIN disk /\ dates \in Seq(Nat)
    BY <1>1 DEF WriteStamp, OpenFile, RecTypes
  <2>2. PICK x \in Nat : x = dates[Chunk]
    BY <2>1 DEF Chunk
  <2>3. PICK h \in Seq(Nat) : h = Append(held, x)
    BY <1>1, <2>2, AppendProperties
  <2>4. PICK f \in PairOfFiles : f = disk[recFile]
    BY <1>1, <2>1 DEF RecTypes
  <2>5. PICK ts, aux \in Seq(Nat) : ts = f.ts /\ aux = f.aux
    BY DEF PairOfFiles
  <2>6. aux \o h \in Seq(Nat) /\ Len(aux \o h) = Len(aux) + Len(h)
    BY ConcatProperties
  <2>7. PICK g : g = [f EXCEPT !.aux = aux \o h]
    OBVIOUS
  <2>8. g \in PairOfFiles /\ g.ts = ts /\ g.aux = aux \o h /\ g.linked = f.linked
    BY <2>5, <2>6, <2>7 DEF PairOfFiles
  <2>9. disk' = With(disk, recFile, g)
    BY <1>3, <2>2, <2>3, <2>4, <2>5, <2>7 DEF WriteStamp, Flushed
  <2>10. PICK e : e = With(disk, recFile, g)
    OBVIOUS
  <2>11. k \in DOMAIN e /\ e[recFile] = [g EXCEPT !.mtime = ChangedAt(disk, recFile, g)] /\ (k # recFile => e[k] = disk[k])
    BY <2>10 DEF With
  <2>12. disk' = e
    BY <2>9, <2>10
  <2>13. CASE k = recFile
    <3>1. disk'[k] \in PairOfFiles /\ disk'[k].ts = ts /\ disk'[k].aux = aux \o h
          /\ disk'[k].linked = f.linked
      <4>1. PICK m : e[recFile] = [g EXCEPT !.mtime = m]
        BY <2>11
      <4>2. e[recFile].ts = ts /\ e[recFile].aux = aux \o h /\ e[recFile].linked = f.linked
        BY <2>8, <4>1, TouchedIs
      <4>3. e \in [DOMAIN e -> PairOfFiles]
        BY <1>1, <2>1, <2>8, <2>10, WithTyped DEF RecTypes
      <4> QED
        BY <2>11, <2>12, <2>13, <4>2, <4>3
    <3>2. PICK a, b, c \in Nat : a = Len(ts) /\ b = Len(aux) /\ c = Len(h)
      OBVIOUS
    <3>3. Least(a, b) <= Least(a, b + c)
      BY DEF Least
    <3>4. Least(Len(ts), Len(aux)) <= Least(Len(ts), Len(aux \o h))
      BY <2>6, <3>2, <3>3
    <3>5. disk[k].ts = ts /\ disk[k].aux = aux /\ disk[k].linked = f.linked
      BY <2>4, <2>5, <2>13
    <3> QED
      BY <1>1, <2>11, <2>12, <3>1, <3>4, <3>5, GrownStays
  <2>14. CASE k # recFile
    <3>1. disk'[k] = disk[k] /\ k \in DOMAIN disk'
      BY <2>11, <2>12, <2>14
    <3>2. PICK m \in Int : m = Least(Len(disk[k].ts), Len(disk[k].aux))
      BY <1>1 DEF Least, PairOfFiles
    <3>3. m <= m
      OBVIOUS
    <3> QED
      BY <1>1, <3>1, <3>2, <3>3, GrownStays
  <2> QED
    BY <2>13, <2>14
<1> QED
  BY <1>2, <1>3

(* Files that are removed keep what is stamped for who has them open.      *)
LEMMA ExpireStays ==
    ASSUME RecInv, Expire(Wanted), NEW n \in DOMAIN disk
    PROVE  StillStamped(n)
<1>1. disk[n] \in PairOfFiles
  BY DEF RecInv, RecTypes
<1>2. disk'[n].ts = disk[n].ts /\ disk'[n].aux = disk[n].aux
  <2>1. disk'[n] = [disk[n] EXCEPT !.linked = @ /\ n \notin Expired(Wanted)]
    BY DEF Expire
  <2>2. PICK f \in PairOfFiles : f = disk[n]
    BY <1>1
  <2>3. disk'[n] = [f EXCEPT !.linked = f.linked /\ n \notin Expired(Wanted)]
    BY <2>1, <2>2
  <2> QED
    BY <2>2, <2>3 DEF PairOfFiles
<1>3. PICK s, a \in Seq(Nat) : s = disk[n].ts /\ a = disk[n].aux
  BY <1>1 DEF PairOfFiles
<1>4. Safe(disk'[n]) = Safe(disk[n])
  BY <1>2 DEF Safe
<1>5. PICK m \in Int : m = Least(Len(disk[n].ts), Len(disk[n].aux))
  BY <1>3 DEF Least
<1>6. m <= m
  OBVIOUS
<1>7. IsPrefix(Safe(disk[n]), Safe(disk[n]))
  BY <1>1, <1>5, <1>6, SafeGrows
<1> QED
  BY <1>4, <1>7 DEF StillStamped

LEMMA StampedStep == RecInv /\ [Next]_vars => StampedStays
<1> SUFFICES ASSUME RecInv, [Next]_vars, mode # "truncate", faults' = faults,
                    NEW n \in DOMAIN disk
             PROVE  StillStamped(n)
  BY DEF StampedStays, StillStamped
<1>1. ~RecStop /\ ~Killed /\ ~DiskFull /\ ~PowerCut
  BY DEF RecStop, Killed, DiskFull, PowerCut, Happens
<1>2. RecTypes
  BY DEF RecInv
<1>3. disk' = disk => StillStamped(n)
  BY <1>2, SameStays
<1>4. UNCHANGED recVars \/ UNCHANGED <<now, recVars>> => disk' = disk
  BY DEF recVars
<1> QED
  BY <1>1, <1>3, <1>4, RecSteps, StartStays, WriteChunkStays, WriteStampStays, ExpireStays

(***************************************************************************)
(* What has its stamp on disk stays in the file, whichever program goes on *)
(* with it or repairs it, unless a fault happens or the recorder is to     *)
(* overwrite the file.                                                     *)
(***************************************************************************)
THEOREM StampedIsKept == Spec => [][StampedStays]_vars
<1>1. Init => RecInv
  BY RecInvInit
<1>2. RecInv /\ [Next]_vars => RecInv'
  BY RecInvStep
<1>3. RecInv /\ [Next]_vars => [StampedStays]_vars
  BY StampedStep
<1> QED
  BY <1>1, <1>2, <1>3, PTL DEF Spec

-----------------------------------------------------------------------------

(* There are only as many files as recorders have begun.                   *)
FewFiles == IsFiniteSet(DOMAIN disk)

LEMMA FewFilesStep == RecInv /\ FewFiles /\ [Next]_vars => FewFiles'
<1> SUFFICES ASSUME RecInv, FewFiles, [Next]_vars PROVE FewFiles'
  OBVIOUS
<1>1. RecTypes /\ OpenFile
  BY DEF RecInv
<1>2. ASSUME NEW d, DOMAIN d = DOMAIN disk, NEW n, NEW f, disk' = With(d, n, f) PROVE FewFiles'
  <2>1. DOMAIN disk' = DOMAIN disk \union {n}
    BY <1>2 DEF With
  <2> QED
    BY <2>1, FS_AddElement DEF FewFiles
<1>3. ASSUME DOMAIN disk' = DOMAIN disk PROVE FewFiles'
  BY <1>3 DEF FewFiles
<1>4. CASE RecStart
  BY <1>2, <1>3, <1>4 DEF RecStart
<1>5. CASE WriteChunk
  <2>1. DOMAIN Closed(NumberNow) = DOMAIN disk
    BY <1>1, ClosedIs
  <2>2. PICK f : disk' = With(Closed(NumberNow), NumberNow, f)
    BY <1>5 DEF WriteChunk
  <2> QED
    BY <1>2, <2>1, <2>2
<1>6. CASE WriteStamp
  <2>1. disk' = disk \/ \E f : disk' = With(disk, recFile, f)
    BY <1>6 DEF WriteStamp
  <2> QED
    BY <1>2, <1>3, <2>1
<1>7. CASE RecStop
  <2>1. disk' = disk \/ disk' = With(disk, recFile, Flushed(disk[recFile], held))
    BY <1>7 DEF RecStop
  <2> QED
    BY <1>2, <1>3, <2>1
<1>8. CASE DiskFull
  <2>1. \E f : disk' = With(disk, recFile, f)
    BY <1>8, Zenon DEF DiskFull
  <2> QED
    BY <1>2, <2>1
<1>9. CASE PowerCut
  <2>1. \E f : disk' = With(disk, recFile, f)
    BY <1>9, Zenon DEF PowerCut
  <2> QED
    BY <1>2, <2>1
<1>10. CASE Killed
  BY <1>3, <1>10 DEF Killed
<1>11. CASE Expire(Wanted)
  <2>1. DOMAIN disk' = DOMAIN disk
    BY <1>11 DEF Expire
  <2> QED
    BY <1>3, <2>1
<1>12. UNCHANGED recVars \/ UNCHANGED <<now, recVars>> => FewFiles'
  BY <1>3 DEF recVars
<1> QED
  BY <1>4, <1>5, <1>6, <1>7, <1>8, <1>9, <1>10, <1>11, <1>12, RecSteps

(* Nothing but the cleaning removes a name.                                *)
LEMMA WithNamed ==
    ASSUME RecTypes, recFile \in DOMAIN disk, NEW f, disk' = With(disk, recFile, f),
           \A m : [f EXCEPT !.mtime = m].linked = disk[recFile].linked,
           NEW n \in DOMAIN disk
    PROVE  StillNamed(n)
<1>1. PICK e : e = With(disk, recFile, f)
  OBVIOUS
<1>2. n \in DOMAIN e /\ e[recFile] = [f EXCEPT !.mtime = ChangedAt(disk, recFile, f)] /\ (n # recFile => e[n] = disk[n])
  BY <1>1 DEF With
<1>3. disk' = e
  BY <1>1
<1>4. CASE n = recFile
  BY <1>2, <1>3, <1>4 DEF StillNamed
<1>5. CASE n # recFile
  BY <1>2, <1>3, <1>5 DEF StillNamed
<1> QED
  BY <1>4, <1>5

LEMMA NamesStay ==
    ASSUME RecInv, [Next]_vars, ~Expire(Wanted), NEW n \in DOMAIN disk
    PROVE  StillNamed(n)
<1>1. RecTypes /\ OpenFile
  BY DEF RecInv
<1>2. disk' = disk => StillNamed(n)
  BY <1>1, SameStays
<1>3. recFile # NoFile => recFile \in DOMAIN disk /\ disk[recFile] \in PairOfFiles
  BY <1>1 DEF OpenFile, RecTypes
<1>4. CASE RecStop
  <2>1. CASE recFile = NoFile
    BY <1>2, <1>4, <2>1 DEF RecStop
  <2>2. CASE recFile # NoFile
    <3>1. disk' = With(disk, recFile, Flushed(disk[recFile], held))
      BY <1>4, <2>2 DEF RecStop
    <3>2. \A m : [Flushed(disk[recFile], held) EXCEPT !.mtime = m].linked = disk[recFile].linked
      BY <1>3, <2>2 DEF Flushed, PairOfFiles
    <3> QED
      BY <1>1, <1>3, <2>2, <3>1, <3>2, WithNamed
  <2> QED
    BY <2>1, <2>2
<1>5. CASE DiskFull
  <2>1. recFile # NoFile /\ \E st, torn, auxTorn :
           disk' = With(disk, recFile, [Flushed(disk[recFile], st)
                                           EXCEPT !.tsTorn = torn, !.auxTorn = auxTorn])
    BY <1>5, Zenon DEF DiskFull
  <2>2. PICK st, torn, auxTorn :
           disk' = With(disk, recFile, [Flushed(disk[recFile], st)
                                           EXCEPT !.tsTorn = torn, !.auxTorn = auxTorn])
    BY <2>1
  <2>3. PICK f : f = [Flushed(disk[recFile], st) EXCEPT !.tsTorn = torn, !.auxTorn = auxTorn]
    OBVIOUS
  <2>4. \A m : [f EXCEPT !.mtime = m].linked = disk[recFile].linked
    BY <1>3, <2>1, <2>3 DEF Flushed, PairOfFiles
  <2>5. disk' = With(disk, recFile, f)
    BY <2>2, <2>3
  <2> QED
    BY <1>1, <1>3, <2>1, <2>4, <2>5, WithNamed
<1>6. CASE PowerCut
  <2>1. recFile # NoFile /\ \E ts, aux, torn, auxTorn :
           disk' = With(disk, recFile, [disk[recFile] EXCEPT !.ts = ts, !.aux = aux,
                                                             !.tsTorn = torn, !.auxTorn = auxTorn])
    BY <1>6, Zenon DEF PowerCut
  <2>2. PICK ts, aux, torn, auxTorn :
           disk' = With(disk, recFile, [disk[recFile] EXCEPT !.ts = ts, !.aux = aux,
                                                             !.tsTorn = torn, !.auxTorn = auxTorn])
    BY <2>1
  <2>3. PICK f : f = [disk[recFile] EXCEPT !.ts = ts, !.aux = aux,
                                           !.tsTorn = torn, !.auxTorn = auxTorn]
    OBVIOUS
  <2>4. \A m : [f EXCEPT !.mtime = m].linked = disk[recFile].linked
    BY <1>3, <2>1, <2>3 DEF PairOfFiles
  <2>5. disk' = With(disk, recFile, f)
    BY <2>2, <2>3
  <2> QED
    BY <1>1, <1>3, <2>1, <2>4, <2>5, WithNamed
<1>7. Killed \/ UNCHANGED recVars \/ UNCHANGED <<now, recVars>> => disk' = disk
  BY DEF Killed, recVars
<1> QED
  BY <1>2, <1>4, <1>5, <1>6, <1>7, RecSteps, StartStays, WriteChunkStays, WriteStampStays

-----------------------------------------------------------------------------

(* Of two finite sets the larger one is not mapped one-to-one.             *)
LEMMA OneToOne ==
    ASSUME NEW S, IsFiniteSet(S), NEW T, IsFiniteSet(T), NEW r \in [S -> T],
           \A x, y \in S : x # y => r[x] # r[y]
    PROVE  Cardinality(S) <= Cardinality(T)
<1>1. Cardinality(S) \in Nat /\ Cardinality(T) \in Nat
  BY FS_CardinalityType
<1> QED
  BY <1>1, FS_PigeonHole

LEMMA FewerThan ==
    ASSUME NEW S, IsFiniteSet(S), NEW T \in SUBSET S, NEW x \in S, x \notin T
    PROVE  /\ Cardinality(S) \in Nat /\ Cardinality(T) \in Nat
           /\ Cardinality(T) < Cardinality(S)
<1>1. IsFiniteSet(T) /\ Cardinality(T) <= Cardinality(S) /\ Cardinality(T) # Cardinality(S)
  BY FS_Subset
<1> QED
  BY <1>1, FS_CardinalityType

(* The files are in an order, and each has its place in it.                *)
LEMMA PlacesDiffer ==
    ASSUME RecTypes, FewFiles
    PROVE  /\ IsFiniteSet(Names)
           /\ \A n \in Names : Cardinality(Older(n)) \in 0..Cardinality(Names) - 1
           /\ \A n, k \in Names : n \in Older(k) => Cardinality(Older(n)) < Cardinality(Older(k))
           /\ \A n, k \in Names : n # k => n \in Older(k) \/ k \in Older(n)
<1>1. Names \in SUBSET DOMAIN disk /\ DOMAIN disk \subseteq Nat
      /\ \A n \in Names : disk[n].mtime \in Nat /\ n \in Nat
  BY DEF Names, RecTypes, PairOfFiles
<1>2. IsFiniteSet(Names)
  BY <1>1, FS_Subset DEF FewFiles
<1>3. \A n \in Names : Older(n) \in SUBSET Names /\ n \notin Older(n)
  BY <1>1 DEF Older
<1>4. \A n \in Names : Cardinality(Older(n)) \in 0..Cardinality(Names) - 1
  <2> TAKE n \in Names
  <2>1. /\ Cardinality(Names) \in Nat /\ Cardinality(Older(n)) \in Nat
        /\ Cardinality(Older(n)) < Cardinality(Names)
    BY <1>2, <1>3, FewerThan
  <2> QED
    BY <2>1
<1>5. \A n, k \in Names : n \in Older(k) => Cardinality(Older(n)) < Cardinality(Older(k))
  <2> TAKE n, k \in Names
  <2> HAVE n \in Older(k)
  <2>1. Older(n) \in SUBSET Older(k)
    BY <1>1 DEF Older
  <2>2. IsFiniteSet(Older(k))
    BY <1>2, <1>3, FS_Subset
  <2> QED
    BY <1>3, <2>1, <2>2, FewerThan
<1>6. \A n, k \in Names : n # k => n \in Older(k) \/ k \in Older(n)
  BY <1>1 DEF Older
<1> QED
  BY <1>2, <1>4, <1>5, <1>6

(* The places are all the numbers below the number of files: those that    *)
(* are cleaned away take the first ones, and those that stay the last.     *)
LEMMA WantedStay ==
    ASSUME RecTypes, FewFiles, Expired(Wanted) # {}
    PROVE  Cardinality(Names \ Expired(Wanted)) = Wanted
<1>1. PICK c, w \in Nat : c = Cardinality(Names) /\ w = Wanted
  BY PlacesDiffer, FS_CardinalityType, RecordingAssumption DEF RecordingAssumption
<1>2. PICK E, K \in SUBSET Names : E = Expired(Wanted) /\ K = Names \ E
  BY DEF Expired
<1>3. PICK r : r = [n \in Names |-> Cardinality(Older(n))]
  OBVIOUS
<1>4. /\ \A n \in Names : r[n] \in 0..c - 1
      /\ \A n, k \in Names : n # k => r[n] # r[k]
      /\ \A n \in Names : n \in E <=> r[n] < c - w
  <2>1. \A n \in Names : r[n] \in 0..c - 1
    BY <1>1, <1>3, PlacesDiffer
  <2>2. ASSUME NEW n \in Names, NEW k \in Names, n # k PROVE r[n] # r[k]
    <3>1. r[n] < r[k] \/ r[k] < r[n]
      BY <1>3, <2>2, PlacesDiffer
    <3> QED
      BY <2>1, <3>1
  <2>3. \A n \in Names : n \in E <=> r[n] < c - w
    BY <1>1, <1>2, <1>3 DEF Expired
  <2> QED
    BY <2>1, <2>2, <2>3
<1>5. w < c
  BY <1>1, <1>2, <1>4
<1>6. IsFiniteSet(E) /\ IsFiniteSet(K) /\ Cardinality(E) \in Nat /\ Cardinality(K) \in Nat
  BY <1>2, PlacesDiffer, FS_Subset, FS_CardinalityType
<1>7. Cardinality(E) <= c - w
  <2>1. IsFiniteSet(0..c - w - 1) /\ Cardinality(0..c - w - 1) = c - w
    <3>1. PICK b \in Int : b = c - w - 1 /\ b >= 0
      BY <1>5
    <3>2. IsFiniteSet(0..b) /\ Cardinality(0..b) = b - 0 + 1
      BY <3>1, FS_Interval
    <3> QED
      BY <3>1, <3>2
  <2>2. PICK s : s = [n \in E |-> r[n]]
    OBVIOUS
  <2>3. s \in [E -> 0..c - w - 1] /\ \A x, y \in E : x # y => s[x] # s[y]
    BY <1>4, <2>2
  <2> QED
    BY <1>6, <2>1, <2>3, OneToOne
<1>8. Cardinality(K) <= w
  <2>1. IsFiniteSet(c - w..c - 1) /\ Cardinality(c - w..c - 1) = w
    <3>1. PICK a, b \in Int : a = c - w /\ b = c - 1
      OBVIOUS
    <3>2. IsFiniteSet(a..b) /\ Cardinality(a..b) = IF a > b THEN 0 ELSE b - a + 1
      BY FS_Interval
    <3> QED
      BY <3>1, <3>2
  <2>2. PICK s : s = [n \in K |-> r[n]]
    OBVIOUS
  <2>3. s \in [K -> c - w..c - 1] /\ \A x, y \in K : x # y => s[x] # s[y]
    BY <1>2, <1>4, <2>2
  <2> QED
    BY <1>6, <2>1, <2>3, OneToOne
<1>9. c = Cardinality(E) + Cardinality(K)
  <2>1. E \union K = Names /\ E \intersect K = {}
    BY <1>2
  <2>2. Cardinality(E \union K) = Cardinality(E) + Cardinality(K) - Cardinality(E \intersect K)
    BY <1>6, FS_Union
  <2>3. Cardinality({}) = 0
    BY FS_EmptySet
  <2>4. PICK x, y \in Nat : x = Cardinality(E) /\ y = Cardinality(K)
    BY <1>6
  <2>5. Cardinality(Names) = x + y - 0
    BY <2>1, <2>2, <2>3, <2>4, Zenon
  <2> QED
    BY <1>1, <2>4, <2>5
<1>10. Cardinality(K) = w
  BY <1>5, <1>6, <1>7, <1>8, <1>9
<1> QED
  BY <1>1, <1>2, <1>10

LEMMA NewestStep == RecInv /\ FewFiles /\ [Next]_vars => NewestStay
<1> SUFFICES ASSUME RecInv, FewFiles, [Next]_vars, Names' # Names, Names' \subseteq Names
             PROVE  /\ Cardinality(Names') = Wanted
                    /\ \A n \in Names \ Names', k \in Names' : disk[n].mtime <= disk[k].mtime
  BY DEF NewestStay
<1>1. RecTypes
  BY DEF RecInv
<1>2. Expire(Wanted)
  <2>1. SUFFICES ASSUME ~Expire(Wanted) PROVE Names \subseteq Names'
    OBVIOUS
  <2>2. \A n \in DOMAIN disk : StillNamed(n)
    BY <2>1, NamesStay
  <2> QED
    BY <2>2 DEF StillNamed, Names
<1>3. Names' = Names \ Expired(Wanted)
  <2>1. DOMAIN disk' = DOMAIN disk
        /\ \A n \in DOMAIN disk : disk'[n] = [disk[n] EXCEPT !.linked = @ /\ n \notin Expired(Wanted)]
    BY <1>2 DEF Expire
  <2>2. ASSUME NEW n \in DOMAIN disk
        PROVE  disk'[n].linked <=> disk[n].linked /\ n \notin Expired(Wanted)
    <3>1. PICK f \in PairOfFiles : f = disk[n]
      BY <1>1 DEF RecTypes
    <3>2. disk'[n] = [f EXCEPT !.linked = f.linked /\ n \notin Expired(Wanted)]
      BY <2>1, <3>1
    <3>3. disk'[n].linked = (f.linked /\ n \notin Expired(Wanted))
      BY <3>2 DEF PairOfFiles
    <3> QED
      BY <3>1, <3>3
  <2>3. \A n : n \in Names' <=> n \in DOMAIN disk /\ disk'[n].linked
    BY <2>1 DEF Names
  <2>4. \A n : n \in Names <=> n \in DOMAIN disk /\ disk[n].linked
    BY DEF Names
  <2> QED
    BY <2>2, <2>3, <2>4
<1>4. Cardinality(Names') = Wanted
  <2>1. Expired(Wanted) # {}
    BY <1>2 DEF Expire
  <2> QED
    BY <1>1, <1>3, <2>1, WantedStay
<1>5. ASSUME NEW n \in Names \ Names', NEW k \in Names' PROVE disk[n].mtime <= disk[k].mtime
  <2>1. n \in Names /\ k \in Names /\ n \in Expired(Wanted) /\ k \notin Expired(Wanted)
    BY <1>3, <1>5
  <2>2. PICK a, b \in Nat : a = disk[n].mtime /\ b = disk[k].mtime
    BY <1>1, <2>1 DEF Names, RecTypes, PairOfFiles
  <2>3. SUFFICES ASSUME b < a PROVE FALSE
    BY <2>2
  <2>4. k \in Older(n)
    BY <2>1, <2>2, <2>3 DEF Older
  <2>5. PICK p, q, c, w \in Int : p = Cardinality(Older(n)) /\ q = Cardinality(Older(k))
                                   /\ c = Cardinality(Names) /\ w = Wanted /\ q < p
    <3>1. Cardinality(Names) \in Int
      BY <1>1, PlacesDiffer, FS_CardinalityType
    <3>2. Cardinality(Older(n)) \in Int /\ Cardinality(Older(k)) \in Int
      BY <1>1, <2>1, PlacesDiffer
    <3>3. Cardinality(Older(k)) < Cardinality(Older(n))
      BY <1>1, <2>1, <2>4, PlacesDiffer
    <3> QED
      BY <3>1, <3>2, <3>3, RecordingAssumption DEF RecordingAssumption
  <2>6. p < c - w /\ ~(q < c - w)
    BY <2>1, <2>5 DEF Expired
  <2> QED
    BY <2>5, <2>6
<1> QED
  BY <1>4, <1>5

(***************************************************************************)
(* Cleaning leaves as many files as are wanted, and never takes one that   *)
(* was changed later than one it leaves; nothing else takes a file.  With  *)
(* what is said above: what is recorded is kept.                           *)
(***************************************************************************)
THEOREM RecordedIsKept == Spec => Kept
<1>1. Init => RecInv /\ FewFiles
  <2>1. ASSUME Init PROVE FewFiles
    <3>1. disk = <<>>
      BY <2>1, Zenon DEF Init, RecInit
    <3>2. DOMAIN disk = {}
      BY <3>1
    <3> QED
      BY <3>2, FS_EmptySet DEF FewFiles
  <2> QED
    BY <2>1, RecInvInit
<1>2. RecInv /\ FewFiles /\ [Next]_vars => (RecInv /\ FewFiles)'
  BY RecInvStep, FewFilesStep
<1>3. RecInv /\ FewFiles /\ [Next]_vars => [NewestStay]_vars
  BY NewestStep
<1>4. Spec => [][NewestStay]_vars
  BY <1>1, <1>2, <1>3, PTL DEF Spec
<1> QED
  BY <1>4, StampedIsKept DEF Kept
-----------------------------------------------------------------------------
(* The lookup.                                                             *)

Offsets(aux) == (0..Len(aux)) \X (0..Len(aux))

(* The function that Bisect defines.                                       *)
Searches(aux, wanted, search) ==
    search = [i \in Offsets(aux) |->
                LET mid == (i[1] + i[2]) \div 2 IN
                IF mid <= i[1] THEN i[2]
                ELSE search[IF aux[mid + 1] >= wanted THEN <<i[1], mid>> ELSE <<mid, i[2]>>]]

(* r is the first offset after lo, but for hi, that has no earlier stamp.  *)
Found(aux, wanted, lo, hi, r) ==
    /\ r \in lo + 1..hi
    /\ r = hi \/ aux[r + 1] >= wanted
    /\ \A k \in lo + 1..r - 1 : aux[k + 1] < wanted

Growing(aux) ==
    /\ aux \in Seq(Nat)
    /\ \A j, k \in 1..Len(aux) : j < k => aux[j] < aux[k]

(* Numbers from 0 on, if there are any, have a least.                      *)
LEMMA LeastNumber ==
    ASSUME NEW S \in SUBSET Nat, S # {}
    PROVE  \E m \in S : \A n \in S : m <= n
<1> DEFINE Less == OpToRel(<, Nat)
<1>1. \A x, y \in Nat : <<y, x>> \in Less <=> y < x
  BY DEF OpToRel
<1>2. IsWellFoundedOn(Less, Nat)
  BY NatLessThanWellFounded
<1> HIDE DEF Less
<1>3. PICK m \in S : \A n \in S : ~ (<<n, m>> \in Less)
  BY <1>2, WFMin
<1>4. ASSUME NEW n \in S PROVE m <= n
  <2>1. n \in Nat /\ m \in Nat /\ ~(n < m)
    BY <1>1, <1>3
  <2> QED
    BY <2>1
<1> QED
  BY <1>4

(* The two offsets and the one between them.                               *)
LEMMA Middle ==
    ASSUME NEW lo \in Nat, NEW hi \in Nat
    PROVE  /\ (lo + hi) \div 2 \in Nat
           /\ (lo + hi) \div 2 <= lo <=> hi <= lo + 1
           /\ (lo + hi) \div 2 > lo => (lo + hi) \div 2 < hi
OBVIOUS

(* What is found in a half is what is found in the whole.                  *)
LEMMA FoundInHalf ==
    ASSUME NEW aux, Growing(aux), NEW wanted \in Int, NEW lo \in 0..Len(aux), NEW hi \in 0..Len(aux),
           NEW mid \in Nat, lo < mid, mid < hi, NEW r
    PROVE  /\ aux[mid + 1] >= wanted /\ Found(aux, wanted, lo, mid, r) => Found(aux, wanted, lo, hi, r)
           /\ ~(aux[mid + 1] >= wanted) /\ Found(aux, wanted, mid, hi, r) => Found(aux, wanted, lo, hi, r)
<1>1. Len(aux) \in Nat /\ \A k \in 1..Len(aux) : aux[k] \in Nat
  BY DEF Growing
<1>2. mid + 1 \in 1..Len(aux) /\ aux[mid + 1] \in Nat
  BY <1>1
<1>3. CASE aux[mid + 1] >= wanted
  BY <1>1, <1>3 DEF Found
<1>4. CASE ~(aux[mid + 1] >= wanted)
  <2> SUFFICES ASSUME Found(aux, wanted, mid, hi, r) PROVE Found(aux, wanted, lo, hi, r)
    BY <1>4
  <2>1. r \in mid + 1..hi /\ r \in Nat
    BY DEF Found
  <2>2. \A k \in lo + 1..mid : aux[k + 1] < wanted
    <3> SUFFICES ASSUME NEW k \in lo + 1..mid PROVE aux[k + 1] < wanted
      OBVIOUS
    <3>1. k + 1 \in 1..Len(aux) /\ aux[k + 1] \in Nat
      BY <1>1
    <3>2. CASE k = mid
      BY <1>2, <1>4, <3>2
    <3>3. CASE k # mid
      <4>1. aux[k + 1] < aux[mid + 1]
        BY <1>2, <3>1, <3>3 DEF Growing
      <4> QED
        BY <1>2, <1>4, <3>1, <4>1
    <3> QED
      BY <3>2, <3>3
  <2>3. \A k \in mid + 1..r - 1 : aux[k + 1] < wanted
    BY DEF Found
  <2>4. \A k \in lo + 1..r - 1 : aux[k + 1] < wanted
    BY <2>1, <2>2, <2>3
  <2> QED
    BY <2>1, <2>4 DEF Found
<1> QED
  BY <1>3, <1>4

(* There is one such offset.                                               *)
LEMMA OneFound ==
    ASSUME NEW aux, Growing(aux), NEW wanted \in Int, NEW lo \in 0..Len(aux), NEW hi \in 0..Len(aux),
           lo < hi
    PROVE  /\ \E r : Found(aux, wanted, lo, hi, r)
           /\ \A r, s : Found(aux, wanted, lo, hi, r) /\ Found(aux, wanted, lo, hi, s) => r = s
<1>1. Len(aux) \in Nat /\ \A k \in 1..Len(aux) : aux[k] \in Nat
  BY DEF Growing
<1>2. \E r : Found(aux, wanted, lo, hi, r)
  <2> DEFINE R == {r \in lo + 1..hi : r = hi \/ aux[r + 1] >= wanted}
  <2>1. hi \in R /\ R \in SUBSET Nat
    OBVIOUS
  <2>2. PICK r \in R : \A n \in R : r <= n
    BY <2>1, LeastNumber
  <2>3. \A k \in lo + 1..r - 1 : aux[k + 1] < wanted
    <3> SUFFICES ASSUME NEW k \in lo + 1..r - 1 PROVE aux[k + 1] < wanted
      OBVIOUS
    <3>1. k \notin R
      BY <2>2
    <3>2. k \in lo + 1..hi /\ k # hi
      BY <2>2
    <3>3. ~(aux[k + 1] >= wanted)
      BY <3>1, <3>2
    <3>4. aux[k + 1] \in Nat
      BY <1>1, <3>2
    <3> QED
      BY <3>3, <3>4
  <2> QED
    BY <2>2, <2>3 DEF Found
<1>3. ASSUME NEW r, NEW s, Found(aux, wanted, lo, hi, r), Found(aux, wanted, lo, hi, s), r < s
      PROVE  FALSE
  <2>1. r \in lo + 1..hi /\ s \in lo + 1..hi
    BY <1>3 DEF Found
  <2>2. r \in lo + 1..s - 1 /\ r # hi
    BY <1>3, <2>1
  <2>3. aux[r + 1] < wanted /\ aux[r + 1] >= wanted
    BY <1>3, <2>2 DEF Found
  <2>4. aux[r + 1] \in Nat
    BY <1>1, <2>1, <2>2
  <2> QED
    BY <2>3, <2>4
<1>4. ASSUME NEW r, NEW s, Found(aux, wanted, lo, hi, r), Found(aux, wanted, lo, hi, s)
      PROVE  r = s
  <2>1. r \in Int /\ s \in Int
    BY <1>4 DEF Found
  <2>2. ~(r < s) /\ ~(s < r)
    BY <1>3, <1>4
  <2> QED
    BY <2>1, <2>2
<1> QED
  BY <1>2, <1>4

(* A search at two offsets.                                                *)
LEMMA SearchIs ==
    ASSUME NEW aux, NEW wanted, NEW search, Searches(aux, wanted, search),
           NEW lo \in 0..Len(aux), NEW hi \in 0..Len(aux), NEW mid \in Nat, mid = (lo + hi) \div 2
    PROVE  search[<<lo, hi>>] =
             IF mid <= lo THEN hi
             ELSE search[IF aux[mid + 1] >= wanted THEN <<lo, mid>> ELSE <<mid, hi>>]
<1>1. <<lo, hi>> \in Offsets(aux)
  BY DEF Offsets
<1> DEFINE Value(i) ==
             LET m == (i[1] + i[2]) \div 2 IN
             IF m <= i[1] THEN i[2]
             ELSE search[IF aux[m + 1] >= wanted THEN <<i[1], m>> ELSE <<m, i[2]>>]
<1>2. search = [i \in Offsets(aux) |-> Value(i)]
  BY DEF Searches
<1>3. search[<<lo, hi>>] = Value(<<lo, hi>>)
  <2> HIDE DEF Value
  <2> QED
    BY <1>1, <1>2
<1> QED
  BY <1>3

(* The function exists: it is what is found.                               *)
LEMMA SearchExists ==
    ASSUME NEW aux, Growing(aux), NEW wanted \in Int
    PROVE  \E search : Searches(aux, wanted, search)
<1> DEFINE At(lo, hi) == IF hi <= lo THEN hi ELSE CHOOSE r : Found(aux, wanted, lo, hi, r)
           g == [i \in Offsets(aux) |-> At(i[1], i[2])]
           Value(i) ==
             LET mid == (i[1] + i[2]) \div 2 IN
             IF mid <= i[1] THEN i[2]
             ELSE g[IF aux[mid + 1] >= wanted THEN <<i[1], mid>> ELSE <<mid, i[2]>>]
<1>1. ASSUME NEW lo \in 0..Len(aux), NEW hi \in 0..Len(aux), lo < hi
      PROVE  Found(aux, wanted, lo, hi, At(lo, hi))
  BY <1>1, OneFound
<1>2. ASSUME NEW lo \in 0..Len(aux), NEW hi \in 0..Len(aux)
      PROVE  g[<<lo, hi>>] = At(lo, hi)
  <2>1. <<lo, hi>> \in Offsets(aux)
    BY DEF Offsets
  <2> HIDE DEF At
  <2> QED
    BY <2>1
<1>3. ASSUME NEW lo \in 0..Len(aux), NEW hi \in 0..Len(aux)
      PROVE  At(lo, hi) = Value(<<lo, hi>>)
  <2>1. Len(aux) \in Nat
    BY DEF Growing
  <2>2. PICK mid : mid = (lo + hi) \div 2
    OBVIOUS
  <2>3. mid \in Nat /\ (mid <= lo <=> hi <= lo + 1) /\ (mid > lo => mid < hi)
    BY <2>1, <2>2, Middle
  <2>4. Value(<<lo, hi>>) =
          IF mid <= lo THEN hi
          ELSE g[IF aux[mid + 1] >= wanted THEN <<lo, mid>> ELSE <<mid, hi>>]
    <3> HIDE DEF g
    <3> QED
      BY <2>2
  <2> HIDE DEF g, Value
  <2>5. CASE hi <= lo
    BY <2>3, <2>4, <2>5
  <2>6. CASE hi = lo + 1
    <3>1. Found(aux, wanted, lo, hi, At(lo, hi))
      BY <1>1, <2>6
    <3>2. At(lo, hi) = hi
      BY <2>6, <3>1 DEF Found
    <3> QED
      BY <2>3, <2>4, <2>6, <3>2
  <2>7. CASE hi > lo + 1
    <3>1. lo < hi /\ lo < mid /\ mid < hi /\ mid \in 0..Len(aux)
      BY <2>1, <2>3, <2>7
    <3>2. Found(aux, wanted, lo, hi, At(lo, hi))
      BY <1>1, <3>1
    <3>3. CASE aux[mid + 1] >= wanted
      <4>1. Value(<<lo, hi>>) = At(lo, mid)
        <5>1. Value(<<lo, hi>>) = g[<<lo, mid>>]
          BY <2>3, <2>4, <3>1, <3>3
        <5> QED
          BY <1>2, <3>1, <5>1
      <4>2. Found(aux, wanted, lo, mid, At(lo, mid))
        BY <1>1, <3>1
      <4>3. Found(aux, wanted, lo, hi, At(lo, mid))
        BY <3>1, <3>3, <4>2, FoundInHalf
      <4> HIDE DEF At
      <4> QED
        BY <3>1, <3>2, <4>1, <4>3, OneFound
    <3>4. CASE ~(aux[mid + 1] >= wanted)
      <4>1. Value(<<lo, hi>>) = At(mid, hi)
        <5>1. Value(<<lo, hi>>) = g[<<mid, hi>>]
          BY <2>3, <2>4, <3>1, <3>4
        <5> QED
          BY <1>2, <3>1, <5>1
      <4>2. Found(aux, wanted, mid, hi, At(mid, hi))
        BY <1>1, <3>1
      <4>3. Found(aux, wanted, lo, hi, At(mid, hi))
        BY <3>1, <3>4, <4>2, FoundInHalf
      <4> HIDE DEF At
      <4> QED
        BY <3>1, <3>2, <4>1, <4>3, OneFound
    <3> QED
      BY <3>3, <3>4
  <2> QED
    BY <2>1, <2>5, <2>6, <2>7
<1>4. \A i \in Offsets(aux) : At(i[1], i[2]) = Value(i)
  <2> SUFFICES ASSUME NEW i \in Offsets(aux) PROVE At(i[1], i[2]) = Value(i)
    OBVIOUS
  <2> HIDE DEF At, Value
  <2>1. i = <<i[1], i[2]>> /\ i[1] \in 0..Len(aux) /\ i[2] \in 0..Len(aux)
    BY DEF Offsets
  <2> QED
    BY <1>3, <2>1
<1>5. g = [i \in Offsets(aux) |-> Value(i)]
  <2> HIDE DEF At, Value
  <2> QED
    BY <1>4
<1>6. Searches(aux, wanted, g)
  <2> HIDE DEF g
  <2> QED
    BY <1>5 DEF Searches
<1> QED
  BY <1>6

(* Such a function finds it: the halves are shorter.                       *)
LEMMA SearchFinds ==
    ASSUME NEW aux, Growing(aux), NEW wanted \in Int, NEW search, Searches(aux, wanted, search)
    PROVE  \A lo, hi \in 0..Len(aux) : lo < hi => Found(aux, wanted, lo, hi, search[<<lo, hi>>])
<1> DEFINE Missed(w) == \E lo, hi \in 0..Len(aux) :
             lo < hi /\ hi - lo = w /\ ~Found(aux, wanted, lo, hi, search[<<lo, hi>>])
           S == {w \in Nat : Missed(w)}
<1>1. Len(aux) \in Nat
  BY DEF Growing
<1>2. ASSUME NEW w \in S, \A n \in S : w <= n
      PROVE  FALSE
  <2>1. PICK lo \in 0..Len(aux), hi \in 0..Len(aux) :
          lo < hi /\ hi - lo = w /\ ~Found(aux, wanted, lo, hi, search[<<lo, hi>>])
    OBVIOUS
  <2>2. ASSUME NEW a \in 0..Len(aux), NEW b \in 0..Len(aux), a < b, b - a < hi - lo
        PROVE  Found(aux, wanted, a, b, search[<<a, b>>])
    <3>1. b - a \in Nat /\ ~(w <= b - a)
      BY <1>1, <2>1, <2>2
    <3>2. b - a \notin S
      BY <1>2, <3>1
    <3> QED
      BY <2>2, <3>1, <3>2
  <2> HIDE DEF S, Missed
  <2>3. PICK mid : mid = (lo + hi) \div 2
    OBVIOUS
  <2>4. mid \in Nat /\ (mid <= lo <=> hi <= lo + 1) /\ (mid > lo => mid < hi)
    BY <1>1, <2>3, Middle
  <2>5. search[<<lo, hi>>] =
          IF mid <= lo THEN hi
          ELSE search[IF aux[mid + 1] >= wanted THEN <<lo, mid>> ELSE <<mid, hi>>]
    <3>1. mid \in Nat
      BY <2>4
    <3> QED
      BY <2>3, <3>1, SearchIs, SMTT(20)
  <2>6. CASE mid <= lo
    <3>1. hi = lo + 1 /\ search[<<lo, hi>>] = hi
      BY <2>1, <2>4, <2>5, <2>6
    <3>2. Found(aux, wanted, lo, hi, hi)
      BY <1>1, <3>1 DEF Found
    <3> QED
      BY <2>1, <3>1, <3>2
  <2>7. CASE mid > lo
    <3>1. mid \in 0..Len(aux) /\ lo < mid /\ mid < hi /\ mid - lo < hi - lo /\ hi - mid < hi - lo
      BY <1>1, <2>1, <2>4, <2>7
    <3>2. CASE aux[mid + 1] >= wanted
      <4>1. search[<<lo, hi>>] = search[<<lo, mid>>]
        BY <2>4, <2>5, <3>1, <3>2
      <4>2. Found(aux, wanted, lo, mid, search[<<lo, mid>>])
        BY <2>2, <3>1
      <4> QED
        BY <2>1, <3>1, <3>2, <4>1, <4>2, FoundInHalf
    <3>3. CASE ~(aux[mid + 1] >= wanted)
      <4>1. search[<<lo, hi>>] = search[<<mid, hi>>]
        BY <2>4, <2>5, <3>1, <3>3
      <4>2. Found(aux, wanted, mid, hi, search[<<mid, hi>>])
        BY <2>2, <3>1
      <4> QED
        BY <2>1, <3>1, <3>3, <4>1, <4>2, FoundInHalf
    <3> QED
      BY <3>2, <3>3
  <2> QED
    BY <2>4, <2>6, <2>7
<1>3. S = {}
  <2>1. S \in SUBSET Nat
    OBVIOUS
  <2> HIDE DEF S
  <2> QED
    BY <1>2, <2>1, LeastNumber
<1> SUFFICES ASSUME NEW lo \in 0..Len(aux), NEW hi \in 0..Len(aux), lo < hi
             PROVE  Found(aux, wanted, lo, hi, search[<<lo, hi>>])
  OBVIOUS
<1>4. hi - lo \in Nat
  BY <1>1
<1>5. hi - lo \notin S
  BY <1>3
<1> QED
  BY <1>4, <1>5

(* LookupAuxFile stops at the first chunk, but for the file's first, that  *)
(* has no earlier stamp, or at the end.                                    *)
LEMMA BisectFinds ==
    ASSUME NEW aux, Growing(aux), aux # <<>>, NEW wanted \in Int
    PROVE  Found(aux, wanted, 0, Len(aux), Bisect(aux, wanted))
<1> DEFINE f == CHOOSE search : Searches(aux, wanted, search)
<1>1. Searches(aux, wanted, f)
  BY SearchExists
<1>2. Bisect(aux, wanted) = f[<<0, Len(aux)>>]
  BY DEF Bisect, Searches, Offsets
<1> HIDE DEF f
<1>3. Len(aux) \in Nat /\ 0 < Len(aux)
  BY EmptySeq DEF Growing
<1>4. 0 \in 0..Len(aux) /\ Len(aux) \in 0..Len(aux)
  BY <1>3
<1> QED
  BY <1>1, <1>2, <1>3, <1>4, SearchFinds

(* It is the number of earlier stamps, or 1 if there is none.              *)
LEMMA BisectCounts ==
    ASSUME NEW aux, Growing(aux), aux # <<>>, NEW wanted \in Int
    PROVE  Bisect(aux, wanted) = Max({1, Cardinality({k \in DOMAIN aux : aux[k] < wanted})})
<1> DEFINE Earlier == {k \in DOMAIN aux : aux[k] < wanted}
<1>1. PICK r : r = Bisect(aux, wanted) /\ Found(aux, wanted, 0, Len(aux), r)
  BY BisectFinds
<1>2. /\ DOMAIN aux = 1..Len(aux) /\ Len(aux) \in Nat
      /\ \A k \in 1..Len(aux) : aux[k] \in Nat
  BY DEF Growing
<1>3. /\ r \in 1..Len(aux)
      /\ r = Len(aux) \/ aux[r + 1] >= wanted
      /\ \A k \in 1..r - 1 : aux[k + 1] < wanted
  BY <1>1, <1>2 DEF Found
<1>4. r \in Nat /\ 1 <= r /\ r <= Len(aux) /\ Len(aux) \in Nat
  <2>1. r \in 1..Len(aux)
    BY <1>3
  <2> QED
    BY <1>2, <2>1
<1>5. \A k \in 1..Len(aux) : k > r => ~(aux[k] < wanted)
  <2> SUFFICES ASSUME NEW k \in 1..Len(aux), k > r PROVE ~(aux[k] < wanted)
    OBVIOUS
  <2>1. r # Len(aux) /\ r + 1 \in 1..Len(aux)
    BY <1>4
  <2>2. aux[r + 1] >= wanted /\ aux[r + 1] \in Nat /\ aux[k] \in Nat
    BY <1>2, <1>3, <2>1
  <2>3. aux[r + 1] <= aux[k]
    <3>1. CASE k = r + 1
      BY <2>2, <3>1
    <3>2. CASE k # r + 1
      <4>1. r + 1 < k
        BY <1>3, <3>2
      <4>2. aux[r + 1] < aux[k]
        BY <2>1, <4>1 DEF Growing
      <4> QED
        BY <2>2, <4>2
    <3> QED
      BY <3>1, <3>2
  <2> QED
    BY <2>2, <2>3
<1>6. ASSUME NEW n \in Nat, Cardinality(Earlier) = n, n <= r, n # r => r = 1
      PROVE  Max({1, Cardinality(Earlier)}) = r
  <2>1. \A x \in {1, n} : (\A y \in {1, n} : x >= y) <=> x = r
    BY <1>3, <1>6
  <2>2. r \in {1, n}
    BY <1>6
  <2>3. Max({1, n}) = r
    BY <2>1, <2>2 DEF Max
  <2> QED
    BY <1>6, <2>3
<1>7. ASSUME r = 1 PROVE Max({1, Cardinality(Earlier)}) = r
  <2>1. Earlier \subseteq {1}
    BY <1>2, <1>5, <1>7
  <2>2. Earlier = {} \/ Earlier = {1}
    BY <2>1
  <2>3. Cardinality({}) = 0 /\ Cardinality({1}) = 1
    BY FS_EmptySet, FS_Singleton
  <2> HIDE DEF Earlier
  <2>4. Cardinality(Earlier) \in {0, 1}
    BY <2>2, <2>3
  <2> QED
    BY <1>6, <1>7, <2>4
<1>8. ASSUME r # 1 PROVE Max({1, Cardinality(Earlier)}) = r
  <2>1. \A k \in 2..r : aux[k] < wanted
    <3> SUFFICES ASSUME NEW k \in 2..r PROVE aux[k] < wanted
      OBVIOUS
    <3>1. k - 1 \in 1..r - 1 /\ (k - 1) + 1 = k
      BY <1>3
    <3> QED
      BY <1>3, <3>1
  <2>2. aux[1] < wanted
    <3>1. 1 \in 1..Len(aux) /\ 2 \in 1..Len(aux) /\ 2 \in 2..r
      BY <1>4, <1>8
    <3>2. aux[1] < aux[2] /\ aux[2] < wanted
      BY <2>1, <3>1 DEF Growing
    <3> QED
      BY <1>2, <3>1, <3>2
  <2>3. \A k \in 1..r : aux[k] < wanted
    BY <1>3, <2>1, <2>2
  <2>4. Earlier = 1..r
    <3>1. \A k \in 1..Len(aux) : k \in Earlier <=> k \in 1..r
      BY <1>2, <1>4, <1>5, <2>3
    <3>2. Earlier \subseteq 1..Len(aux) /\ 1..r \subseteq 1..Len(aux)
      BY <1>2, <1>4
    <3> HIDE DEF Earlier
    <3> QED
      BY <3>1, <3>2
  <2>5. Cardinality(1..r) = r
    BY <1>3, FS_Interval
  <2> HIDE DEF Earlier
  <2>6. Cardinality(Earlier) = r /\ r \in Nat /\ r <= r
    BY <1>4, <2>4, <2>5
  <2> QED
    BY <1>6, <2>6, Zenon
<1> QED
  BY <1>1, <1>7, <1>8 DEF Earlier

(* What lasts prints of a file of several chunks leads offsets to the last *)
(* of them.                                                                *)
LEMMA LastIsFound ==
    ASSUME NEW aux, Growing(aux), Len(aux) > 1
    PROVE  offsets(aux, lasts(aux)) = Len(aux) - 1
<1>1. /\ Len(aux) \in Nat /\ 1 \in 1..Len(aux) /\ Len(aux) \in 1..Len(aux) /\ aux # <<>>
      /\ \A k \in 1..Len(aux) : aux[k] \in Nat
  BY EmptySeq DEF Growing
<1>2. PICK a, b \in Nat : a = aux[1] /\ b = aux[Len(aux)] /\ a < b
  BY <1>1 DEF Growing
<1>3. Head(aux) = a /\ Last(aux) = b
  BY <1>1, <1>2 DEF Last, Growing
<1>4. lasts(aux) = b - a
  BY <1>3 DEF lasts
<1>5. offsets(aux, lasts(aux)) = Bisect(aux, b)
  <2>1. b - a # 0 /\ ~(b - a < 0) /\ b - a >= 0 /\ (b - a) + a = b /\ ~(b < 0)
    BY <1>2
  <2>2. offsets(aux, b - a) = LookupAuxFile(aux, b - a, FALSE)
    BY <2>1 DEF offsets
  <2>3. LookupAuxFile(aux, b - a, FALSE) = Bisect(aux, b)
    BY <1>1, <1>3, <2>1 DEF LookupAuxFile
  <2> QED
    BY <1>4, <2>2, <2>3
<1>6. PICK r : r = Bisect(aux, b) /\ Found(aux, b, 0, Len(aux), r)
  BY <1>1, BisectFinds
<1>7. r \in 1..Len(aux) /\ (r = Len(aux) \/ aux[r + 1] >= b)
  BY <1>1, <1>6 DEF Found
<1>8. \A k \in 1..r - 1 : aux[k + 1] < b
  BY <1>6 DEF Found
<1>9. ~(r < Len(aux) - 1)
  <2> SUFFICES ASSUME r < Len(aux) - 1 PROVE FALSE
    OBVIOUS
  <2>1. r \in 1..Len(aux)
    BY <1>7
  <2>2. r # Len(aux) /\ r + 1 \in 1..Len(aux) /\ r + 1 < Len(aux)
    BY <1>1, <2>1
  <2>3. aux[r + 1] < b
    BY <1>1, <1>2, <2>2 DEF Growing
  <2>4. aux[r + 1] >= b /\ aux[r + 1] \in Nat
    BY <1>1, <1>7, <2>2
  <2> QED
    BY <1>2, <2>3, <2>4
<1>10. r # Len(aux)
  <2> SUFFICES ASSUME r = Len(aux) PROVE FALSE
    OBVIOUS
  <2>1. r - 1 \in 1..r - 1 /\ (r - 1) + 1 = Len(aux)
    BY <1>1
  <2>2. aux[Len(aux)] < b
    BY <1>8, <2>1
  <2> QED
    BY <1>2, <2>2
<1>11. r = Len(aux) - 1
  <2>1. r \in 1..Len(aux)
    BY <1>7
  <2> QED
    BY <1>1, <1>9, <1>10, <2>1
<1> QED
  BY <1>5, <1>6, <1>11

(***************************************************************************)
(* However a recording was interrupted and resumed, LookupAuxFile finds    *)
(* the chunk of any date in it by halves: the first that is not before the *)
(* date, but never the file's first.  And what lasts prints leads offsets  *)
(* to the last chunk.                                                      *)
(***************************************************************************)
THEOREM LookupIsRight == Spec => []LookupFinds
<1>1. RecTypes /\ Paired => LookupFinds
  <2> SUFFICES ASSUME RecTypes, Paired, NEW n \in DOMAIN disk, disk[n].aux # <<>>
               PROVE  /\ \A date \in 1..now :
                            LookupAuxFile(disk[n].aux, date, TRUE)
                              = Max({1, Cardinality({k \in DOMAIN disk[n].aux : disk[n].aux[k] < date})})
                      /\ Len(disk[n].aux) > 1
                           => offsets(disk[n].aux, lasts(disk[n].aux)) = Len(disk[n].aux) - 1
    BY DEF LookupFinds
  <2>1. PICK aux \in Seq(Nat) : aux = disk[n].aux
    BY StampsTyped
  <2>2. Growing(aux) /\ aux # <<>>
    <3>1. \A j, k \in DOMAIN aux : j < k => aux[j] < aux[k]
      BY <2>1 DEF Paired
    <3> QED
      BY <2>1, <3>1 DEF Growing
  <2>3. ASSUME NEW date \in 1..now
        PROVE  LookupAuxFile(aux, date, TRUE)
                 = Max({1, Cardinality({k \in DOMAIN aux : aux[k] < date})})
    <3>1. date \in Int /\ ~(date < 0) /\ date + 0 = date
      BY DEF RecTypes
    <3>2. LookupAuxFile(aux, date, TRUE) = Bisect(aux, date)
      BY <2>2, <3>1 DEF LookupAuxFile
    <3> QED
      BY <2>2, <3>1, <3>2, BisectCounts
  <2> QED
    BY <2>1, <2>2, <2>3, LastIsFound
<1>2. RecInv => LookupFinds
  BY <1>1, RecInvPaired DEF RecInv
<1>3. Init => RecInv
  BY RecInvInit
<1>4. RecInv /\ [Next]_vars => RecInv'
  BY RecInvStep
<1> QED
  BY <1>2, <1>3, <1>4, PTL DEF Spec

(***************************************************************************)
(* Dates, stamps and places that stay what they were.                      *)
(***************************************************************************)

(* Nothing that was received is forgotten, and no file.                    *)
Later ==
    /\ given' = given /\ now' \in Nat /\ now <= now'
    /\ dates' \in Seq(Nat) /\ Chunk' = Len(dates') /\ Chunk <= Chunk'
    /\ \A c \in 1..Chunk : dates'[c] = dates[c]
    /\ DOMAIN disk \subseteq DOMAIN disk'

(* Every step keeps what was received.                                     *)
LEMMA LaterStep ==
    ASSUME RecInv, [Next]_vars
    PROVE  Later
<1>1. RecTypes /\ DatesGrow
  BY DEF RecInv
<1>2. dates \in Seq(Nat) /\ now \in Nat \ {0} /\ Chunk = Len(dates) /\ Chunk \in Nat
  BY <1>1 DEF RecTypes, Chunk
<1>3. DOMAIN disk \subseteq DOMAIN disk'
  <2>1. CASE Expire(Wanted)
    BY <2>1 DEF Expire
  <2>2. CASE ~Expire(Wanted)
    BY <2>2, NamesStay DEF StillNamed
  <2> QED
    BY <2>1, <2>2
<1>4. Chunk' = Len(dates')
  BY DEF Chunk
<1>5. ASSUME given' = given, now' \in {now, now + 1}, dates' = dates PROVE Later
  BY <1>2, <1>3, <1>4, <1>5 DEF Later
<1>6. ASSUME given' = given, now' = now, dates' = Append(dates, now), NewChunk PROVE Later
  <2>1. /\ dates' \in Seq(Nat) /\ Len(dates') = Len(dates) + 1
        /\ \A k \in 1..Len(dates) : dates'[k] = dates[k]
    BY <1>1, <1>6, Received
  <2> QED
    BY <1>2, <1>3, <1>4, <1>6, <2>1 DEF Later
<1>7. CASE RecStart
  BY <1>5, <1>7 DEF RecStart
<1>8. CASE WriteChunk
  BY <1>6, <1>8 DEF WriteChunk
<1>9. CASE WriteStamp
  BY <1>5, <1>9 DEF WriteStamp
<1>10. CASE RecStop \/ Killed \/ PowerCut
  BY <1>5, <1>10 DEF RecStop, Killed, PowerCut, Down
<1>11. CASE DiskFull
  <2>1. given' = given /\ now' = now
    BY <1>11 DEF DiskFull, Down
  <2>2. PICK torn \in BOOLEAN : /\ torn => NewChunk
                                /\ dates' = IF torn THEN Append(dates, now) ELSE dates
    BY <1>11, Zenon DEF DiskFull
  <2> QED
    BY <1>5, <1>6, <2>1, <2>2
<1>12. CASE Expire(Wanted)
  BY <1>5, <1>12 DEF Expire
<1>13. CASE UNCHANGED recVars /\ now' \in {now, now + 1}
  BY <1>5, <1>13 DEF recVars
<1> QED
  BY <1>7, <1>8, <1>9, <1>10, <1>11, <1>12, <1>13, RecSteps

(* Where a lookup ends: at a stamp, or nowhere.                            *)
LEMMA LookupTyped ==
    ASSUME NEW aux, Growing(aux), NEW pos \in Int
    PROVE  /\ LookupAuxFile(aux, pos, TRUE) \in {NotFound} \union (1..Len(aux))
           /\ LookupAuxFile(aux, pos, FALSE) \in {NotFound} \union (1..Len(aux))
           /\ pos >= 0 /\ aux # <<>> => LookupAuxFile(aux, pos, TRUE) = Bisect(aux, pos)
<1>1. CASE aux = <<>>
  BY <1>1 DEF LookupAuxFile
<1>2. CASE aux # <<>>
  <2>1. aux \in Seq(Nat) /\ Len(aux) \in Nat \ {0} /\ \A k \in 1..Len(aux) : aux[k] \in Nat
    BY <1>2, EmptySeq DEF Growing
  <2>2. Head(aux) \in Nat /\ Last(aux) \in Nat
    <3>1. Head(aux) = aux[1] /\ Last(aux) = aux[Len(aux)]
      BY <1>2, <2>1 DEF Last
    <3> QED
      BY <2>1, <3>1
  <2>3. ASSUME NEW w \in Int PROVE (IF w < 0 THEN NotFound ELSE Bisect(aux, w)) \in {NotFound} \union (1..Len(aux))
    <3>1. PICK r : r = Bisect(aux, w) /\ Found(aux, w, 0, Len(aux), r)
      BY <1>2, BisectFinds
    <3>2. r \in 1..Len(aux)
      BY <2>1, <3>1 DEF Found
    <3> QED
      BY <3>1, <3>2
  <2>4. CASE pos < 0
    <3>1. /\ LookupAuxFile(aux, pos, TRUE)
               = IF pos + Last(aux) < 0 THEN NotFound ELSE Bisect(aux, pos + Last(aux))
          /\ LookupAuxFile(aux, pos, FALSE)
               = IF pos + Last(aux) < 0 THEN NotFound ELSE Bisect(aux, pos + Last(aux))
      BY <1>2, <2>4 DEF LookupAuxFile
    <3>2. pos + Last(aux) \in Int /\ ~(pos >= 0)
      BY <2>2, <2>4
    <3> QED
      BY <2>3, <3>1, <3>2
  <2>5. CASE pos >= 0
    <3>1. ~(pos < 0) /\ pos + 0 = pos
      BY <2>5
    <3>2. LookupAuxFile(aux, pos, TRUE) = IF pos < 0 THEN NotFound ELSE Bisect(aux, pos)
      BY <1>2, <2>5, <3>1 DEF LookupAuxFile
    <3>3. LookupAuxFile(aux, pos, FALSE)
            = IF pos + Head(aux) < 0 THEN NotFound ELSE Bisect(aux, pos + Head(aux))
      BY <1>2, <2>5, <3>1 DEF LookupAuxFile
    <3>4. pos + Head(aux) \in Int
      BY <2>2
    <3> QED
      BY <2>3, <3>1, <3>2, <3>3, <3>4
  <2>6. pos < 0 \/ pos >= 0
    OBVIOUS
  <2> QED
    BY <1>2, <2>4, <2>5, <2>6, Zenon
<1> QED
  BY <1>1, <1>2

(* Stamps on disk grow.                                                    *)
LEMMA AuxGrows ==
    ASSUME RecInv, NEW n \in DOMAIN disk
    PROVE  Growing(disk[n].aux)
<1>1. RecTypes /\ Paired
  BY RecInvPaired DEF RecInv
<1>2. PICK aux \in Seq(Nat) : aux = disk[n].aux
  BY <1>1, StampsTyped
<1>3. \A j, k \in DOMAIN aux : j < k => aux[j] < aux[k]
  BY <1>1, <1>2 DEF Paired
<1> QED
  BY <1>2, <1>3 DEF Growing

(* A place in a directory is after a stamp of a file that is there.        *)
LEMMA DirPlaceIs ==
    ASSUME RecInv, NEW wanted \in Int
    PROVE  LET p == DirPlace(wanted)
               w == GetDirFile(wanted, now)
           IN  /\ p.ts = p.aux /\ p.ts \in {NotFound} \union Nat /\ p.file \in {w, w + 1}
               /\ p.ts # NotFound =>
                    /\ p.file \in DOMAIN disk /\ Here(p.file)
                    /\ disk[p.file].aux # <<>> /\ p.ts \in 1..Len(disk[p.file].aux)
                    /\ wanted > 0 => p.ts = Bisect(disk[p.file].aux, wanted)
                    /\ wanted > 0 /\ p.file = w + 1 => ~Here(w) \/ disk[w].aux = <<>>
<1>1. ASSUME NEW n, NEW k, k = LookupDirAuxFile(n, wanted)
      PROVE  /\ k \in {NotFound} \union Nat
             /\ k # NotFound =>
                  /\ n \in DOMAIN disk /\ Here(n)
                  /\ disk[n].aux # <<>> /\ k \in 1..Len(disk[n].aux)
                  /\ wanted > 0 => k = Bisect(disk[n].aux, wanted)
             /\ k = NotFound /\ wanted > 0 => ~Here(n) \/ disk[n].aux = <<>>
  <2>1. CASE ~Here(n)
    BY <1>1, <2>1 DEF LookupDirAuxFile
  <2>2. CASE Here(n)
    <3>1. n \in DOMAIN disk /\ k = LookupAuxFile(disk[n].aux, wanted, TRUE)
      BY <1>1, <2>2 DEF Here, LookupDirAuxFile
    <3>2. PICK aux : aux = disk[n].aux /\ Growing(aux)
      BY <3>1, AuxGrows
    <3>3. /\ k \in {NotFound} \union (1..Len(aux))
          /\ wanted > 0 /\ aux # <<>> => k = Bisect(aux, wanted)
      <4>1. wanted > 0 => wanted >= 0
        OBVIOUS
      <4>2. k = LookupAuxFile(aux, wanted, TRUE)
        BY <3>1, <3>2
      <4> QED
        BY <3>2, <4>1, <4>2, LookupTyped, Zenon
    <3>4. aux = <<>> => k = NotFound
      BY <3>1, <3>2 DEF LookupAuxFile
    <3>5. Len(aux) \in Nat
      BY <3>2 DEF Growing
    <3>6. wanted > 0 /\ aux # <<>> => k # NotFound
      <4>1. ASSUME aux # <<>> PROVE Bisect(aux, wanted) # NotFound
        <5>1. PICK r : r = Bisect(aux, wanted) /\ Found(aux, wanted, 0, Len(aux), r)
          BY <3>2, <4>1, BisectFinds
        <5> QED
          BY <3>5, <5>1 DEF Found, NotFound
      <4> QED
        BY <3>3, <4>1
    <3>7. k \in {NotFound} \union Nat /\ (k # NotFound => k \in 1..Len(aux))
      BY <3>3, <3>5
    <3> QED
      BY <2>2, <3>1, <3>2, <3>3, <3>4, <3>6, <3>7, Zenon
  <2> QED
    BY <2>1, <2>2
<1>2. PICK w : w = GetDirFile(wanted, now)
  OBVIOUS
<1>3. CASE LookupDirAuxFile(w, wanted) # NotFound
  <2>1. DirPlace(wanted) = Place(w, LookupDirAuxFile(w, wanted))
    BY <1>2, <1>3 DEF DirPlace
  <2>2. w # w + 1
    <3>1. w \in Int
      <4>1. PICK r \in Nat \ {0}, t \in Nat : r = Rotate /\ t = now
        BY RotateAssumption DEF RotateAssumption, RecInv, RecTypes
      <4>2. wanted \div r \in Int /\ (wanted + t) \div r \in Int
        BY <4>1
      <4> QED
        BY <1>2, <4>1, <4>2 DEF GetDirFile
    <3> QED
      BY <3>1
  <2> QED
    BY <1>1, <1>2, <1>3, <2>1, <2>2 DEF Place
<1>4. CASE LookupDirAuxFile(w, wanted) = NotFound
  <2>1. DirPlace(wanted) = Place(w + 1, LookupDirAuxFile(w + 1, wanted))
    BY <1>2, <1>4 DEF DirPlace
  <2> QED
    BY <1>1, <1>2, <1>4, <2>1 DEF Place
<1> QED
  BY <1>3, <1>4

(***************************************************************************)
(* multicat_validate.                                                      *)
(***************************************************************************)

(* What the validator knows: a stamp that was read, and while it sleeps    *)
(* that it is near.                                                        *)
Places == [file : Int, ts : Int, aux : Int]
CheckInv ==
    /\ check \in {"off", "read", "check", "sleep", "refused", "ended"} /\ vfd \in Places
    /\ stamp \in Nat \union {Uninitialised} /\ vstc \in Int /\ vdelay \in Int /\ b_status \in BOOLEAN
    /\ check \in {"read", "check", "sleep"} => vfd.file \in DOMAIN disk /\ vfd.aux >= 0
    /\ check \in {"check", "sleep"} /\ stamp # Uninitialised => vstc = stamp
    /\ check = "sleep" => b_status /\ Ahead <= Tolerance

(* With such knowledge what the validator says is true.                    *)
LEMMA CheckTruthful == RecInv /\ CheckInv => Truthful
<1> SUFFICES ASSUME RecInv, CheckInv, check \in {"check", "sleep"}, ~ValBusy, stamp # Uninitialised
             PROVE  IF b_status
                    THEN vstc - (now - vdelay) \in 1..Tolerance
                    ELSE \A k \in DOMAIN dates : dates[k] > stamp => dates[k] - (now - vdelay) > Tolerance
  BY DEF Truthful
<1>1. now \in Int /\ vstc \in Int /\ vdelay \in Int /\ Tolerance \in Int /\ vstc = stamp
      /\ dates \in Seq(Nat)
  BY ValidateAssumption DEF CheckInv, RecInv, RecTypes, ValidateAssumption
<1>2. PICK a \in Int : a = Ahead /\ a = vstc - (now - vdelay)
  BY <1>1 DEF Ahead
<1>3. CASE check = "sleep"
  <2>1. b_status /\ a <= Tolerance /\ ~(a <= 0)
    BY <1>2, <1>3 DEF CheckInv, ValBusy
  <2>2. a \in 1..Tolerance
    BY <1>1, <2>1
  <2> QED
    BY <1>2, <2>1, <2>2
<1>4. CASE check = "check"
  <2>1. ~b_status /\ ~(a <= Tolerance)
    BY <1>2, <1>4 DEF ValBusy, Near
  <2>2. \A k \in DOMAIN dates : dates[k] \in Nat
    BY <1>1
  <2>3. \A k \in DOMAIN dates : dates[k] > stamp => dates[k] - (now - vdelay) > Tolerance
    BY <1>1, <1>2, <2>1, <2>2
  <2> QED
    BY <2>1, <2>3
<1> QED
  BY <1>3, <1>4

(* It starts without a stamp.                                              *)
LEMMA CheckInvInit == Init => CheckInv
<1> SUFFICES ASSUME Init PROVE CheckInv
  OBVIOUS
<1>1. /\ check = "off" /\ vfd = [file |-> 0, ts |-> 0, aux |-> 0]
      /\ vstc = 0 /\ vdelay = 0 /\ stamp = Uninitialised /\ b_status = FALSE
  BY DEF Init, ValInit, Place
<1>2. vfd \in Places
  BY <1>1 DEF Places
<1>3. vstc \in Int /\ vdelay \in Int
  BY <1>1
<1>4. b_status \in BOOLEAN
  BY <1>1
<1>5. check \notin {"read", "check", "sleep"} /\ check # "sleep"
      /\ check \in {"off", "read", "check", "sleep", "refused", "ended"}
  BY <1>1
<1> QED
  BY <1>1, <1>2, <1>3, <1>5, <1>4, Zenon DEF CheckInv

(* It reads stamps of a file that is there, and sleeps only after a check. *)
LEMMA CheckInvStep == RecInv /\ CheckInv /\ [Next]_vars => CheckInv'
<1> SUFFICES ASSUME RecInv, CheckInv, [Next]_vars PROVE CheckInv'
  OBVIOUS
<1>1. Later /\ RecTypes
  BY LaterStep DEF RecInv
<1>2. now \in Nat /\ now' \in Nat /\ now <= now' /\ DOMAIN disk \subseteq DOMAIN disk'
  BY <1>1 DEF Later, RecTypes
<1>3. CASE UNCHANGED valVars
  <2>1. UNCHANGED <<check, vfd, vstc, vdelay, stamp, b_status>>
    BY <1>3 DEF valVars
  <2>2. check = "sleep" => Ahead' <= Tolerance
    <3>1. vstc \in Int /\ vdelay \in Int /\ Tolerance \in Nat
      BY ValidateAssumption DEF CheckInv, ValidateAssumption
    <3>2. check = "sleep" => vstc - (now - vdelay) <= Tolerance
      BY DEF CheckInv, Ahead
    <3>3. Ahead' = vstc - (now' - vdelay)
      BY <2>1 DEF Ahead
    <3>4. \A a, b, v, d, t \in Int : a <= b /\ v - (a - d) <= t => v - (b - d) <= t
      OBVIOUS
    <3>5. now \in Int /\ now' \in Int /\ Tolerance \in Int
      BY <1>2, <3>1
    <3> QED
      BY <1>2, <3>1, <3>2, <3>3, <3>4, <3>5
  <2>3. check \in {"read", "check", "sleep"} => vfd.file \in DOMAIN disk'
    BY <1>2 DEF CheckInv
  <2> QED
    BY <2>1, <2>2, <2>3 DEF CheckInv
<1>4. ASSUME NEW i_pos \in Positions, Validate(i_pos), UNCHANGED <<now, recVars>> PROVE CheckInv'
  <2>1. PICK wanted : wanted = IF i_pos <= 0 THEN now + i_pos ELSE i_pos
    OBVIOUS
  <2>2. wanted \in Int
    BY <1>2, <2>1, PlayerAssumption DEF PlayerAssumption
  <2>3. /\ vfd' = DirPlace(wanted)
        /\ check' = IF vfd'.ts = NotFound THEN "refused" ELSE "read"
        /\ vdelay' = now - wanted
        /\ UNCHANGED <<vstc, stamp, b_status>>
    BY <1>4, <2>1 DEF Validate
  <2>4. PICK p : p = DirPlace(wanted)
    OBVIOUS
  <2>5. PICK w \in Int : p.file \in {w, w + 1} /\ w = GetDirFile(wanted, now)
    <3>1. GetDirFile(wanted, now) \in Int
      <4>1. PICK r \in Nat \ {0}, t \in Nat : r = Rotate /\ t = now
        BY <1>1, RotateAssumption DEF RotateAssumption, RecTypes
      <4>2. wanted \div r \in Int /\ (wanted + t) \div r \in Int
        BY <2>2, <4>1
      <4> QED
        BY <4>1, <4>2 DEF GetDirFile
    <3> QED
      BY <2>2, <2>4, <3>1, DirPlaceIs
  <2>6. /\ p.ts = p.aux /\ p.ts \in {NotFound} \union Nat
        /\ p.ts # NotFound => p.file \in DOMAIN disk
    BY <2>2, <2>4, DirPlaceIs
  <2>7. p \in Places
    <3>1. p = [file |-> p.file, ts |-> p.ts, aux |-> p.aux]
      BY <2>4 DEF DirPlace, Place
    <3>2. p.file \in Int /\ p.ts \in Int /\ p.aux \in Int
      BY <2>5, <2>6 DEF NotFound
    <3> QED
      BY <3>1, <3>2 DEF Places
  <2>8. vdelay' \in Int
    BY <1>2, <2>2, <2>3
  <2>9. p.ts # NotFound => p.aux >= 0
    BY <2>6
  <2> QED
    BY <1>2, <2>3, <2>4, <2>6, <2>7, <2>8, <2>9 DEF CheckInv
<1>5. ASSUME Stamp, UNCHANGED <<now, recVars>> PROVE CheckInv'
  <2>1. PICK aux : aux = disk[vfd.file].aux
    OBVIOUS
  <2>2. vfd.file \in DOMAIN disk /\ vfd.aux \in Nat /\ vfd \in Places /\ UNCHANGED <<vdelay, b_status>>
    BY <1>5 DEF CheckInv, Stamp, Places
  <2>3. aux \in Seq(Nat)
    BY <1>1, <2>1, <2>2, StampsTyped
  <2>4. CASE vfd.aux < Len(aux)
    <3>1. /\ stamp' = aux[vfd.aux + 1] /\ vfd' = [vfd EXCEPT !.aux = @ + 1]
          /\ vstc' = stamp' /\ check' = "check"
      BY <1>5, <2>1, <2>4 DEF Stamp
    <3>2. aux[vfd.aux + 1] \in Nat
      BY <2>2, <2>3, <2>4
    <3>3. vfd' \in Places /\ vfd'.file = vfd.file /\ vfd'.aux >= 0
      BY <2>2, <3>1 DEF Places
    <3> QED
      BY <1>2, <2>2, <3>1, <3>2, <3>3 DEF CheckInv
  <2>5. CASE ~(vfd.aux < Len(aux)) /\ Here(vfd.file + 1)
    <3>1. /\ vfd' = Place(vfd.file + 1, 0)
          /\ vstc' \in IF stamp = Uninitialised THEN {0, now, now + Rotate} ELSE {stamp}
          /\ check' = "check" /\ stamp' = stamp
      BY <1>5, <2>1, <2>5 DEF Stamp
    <3>2. vfd' \in Places /\ vfd'.file \in DOMAIN disk /\ vfd'.aux = 0
      BY <2>2, <2>5, <3>1 DEF Places, Place, Here
    <3>3. vstc' \in Int /\ (stamp # Uninitialised => vstc' = stamp)
      BY <1>2, <3>1, RotateAssumption DEF CheckInv, RotateAssumption
    <3> QED
      BY <1>2, <2>2, <3>1, <3>2, <3>3 DEF CheckInv
  <2>6. CASE ~(vfd.aux < Len(aux)) /\ ~Here(vfd.file + 1)
    <3>1. check' = "ended" /\ UNCHANGED <<vfd, vstc, stamp>>
      BY <1>5, <2>1, <2>6 DEF Stamp
    <3> QED
      BY <2>2, <3>1 DEF CheckInv
  <2> QED
    BY <2>4, <2>5, <2>6
<1>6. ASSUME HandleSTC, UNCHANGED <<now, recVars>> PROVE CheckInv'
  <2>1. /\ check = "check" /\ b_status' = Near
        /\ check' = IF Near THEN "sleep" ELSE "check"
        /\ UNCHANGED <<vfd, vstc, vdelay, stamp>> /\ now' = now
    BY <1>6 DEF HandleSTC
  <2>2. Ahead' = Ahead /\ b_status' \in BOOLEAN
    BY <2>1 DEF Ahead, Near
  <2>3. Near => Ahead <= Tolerance
    BY DEF Near
  <2> QED
    BY <1>2, <2>1, <2>2, <2>3 DEF CheckInv
<1>7. ASSUME Slept PROVE CheckInv'
  <2>1. check = "sleep" /\ check' = "read" /\ UNCHANGED <<vfd, vstc, vdelay, stamp, b_status>>
    BY <1>7 DEF Slept
  <2> QED
    BY <1>2, <2>1 DEF CheckInv
<1>8. CASE Watch
  BY <1>4, <1>5, <1>6, <1>7, <1>8 DEF Watch, ValidateStart, ValidateStep
<1> QED
  BY <1>3, <1>8 DEF Next, vars, Tick, Record, Clean, Play

(***************************************************************************)
(* multicat_validate tells the truth: it says 1 only while the chunk it    *)
(* waits for is no farther away than is tolerated, and 0 only while the    *)
(* recording has no later chunk that is as near.                           *)
(***************************************************************************)
THEOREM ValidatorIsTruthful == Spec => []Truthful
<1>1. Init => RecInv /\ CheckInv
  BY RecInvInit, CheckInvInit
<1>2. RecInv /\ CheckInv /\ [Next]_vars => (RecInv /\ CheckInv)'
  BY RecInvStep, CheckInvStep
<1>3. RecInv /\ CheckInv => Truthful
  BY CheckTruthful
<1> QED
  BY <1>1, <1>2, <1>3, PTL DEF Spec

(***************************************************************************)
(* The stamps of a recording in one file.                                  *)
(***************************************************************************)

-----------------------------------------------------------------------------
(* No date is at or beyond the limit that was before it already.           *)
LEMMA LimitGrows ==
    ASSUME RecInv, [Next]_vars
    PROVE  Limit \in Nat /\ Limit' \in Nat /\ Limit <= Limit'
<1>1. RecInv' /\ RecTypes /\ DatesGrow /\ OpenFile
  BY RecInvStep DEF RecInv
<1>2. Limit \in Nat /\ Limit' \in Nat /\ Chunk \in Nat
  <2>1. ASSUME RecTypes', DatesGrow' PROVE Limit' \in Nat
    <3>1. now' \in Nat /\ Chunk' \in Nat /\ \A c \in 1..Chunk' : dates'[c] \in 1..now'
      BY <2>1 DEF RecTypes, DatesGrow, Chunk
    <3> QED
      BY <3>1 DEF Limit
  <2>2. RecTypes' /\ DatesGrow'
    BY <1>1 DEF RecInv
  <2> QED
    BY <1>1, <2>1, <2>2, LimitIs
<1> SUFFICES Limit <= Limit'
  BY <1>2
<1>3. \A c \in 1..Chunk : dates[c] \in Nat
  BY <1>1 DEF DatesGrow, RecTypes
<1>4. ASSUME dates' = dates, rec' = "stamp" => rec = "stamp" PROVE Limit <= Limit'
  <2>1. Chunk' = Chunk
    BY <1>4 DEF Chunk
  <2> QED
    BY <1>2, <1>3, <1>4, <2>1 DEF Limit
<1>5. ASSUME dates' = Append(dates, now), now' = now, NewChunk, rec # "stamp" PROVE Limit <= Limit'
  <2>1. Chunk' = Chunk + 1 /\ dates'[Chunk + 1] = now
    BY <1>1, <1>5, Received
  <2>2. Limit <= now /\ now \in Nat
    BY <1>1, <1>5, LimitIs DEF RecTypes
  <2>3. Limit' >= now
    BY <1>2, <2>1, <2>2 DEF Limit
  <2> QED
    BY <1>2, <2>2, <2>3
<1>6. CASE RecStart
  BY <1>4, <1>6 DEF RecStart
<1>7. CASE WriteChunk
  BY <1>5, <1>7 DEF WriteChunk
<1>8. CASE WriteStamp
  BY <1>4, <1>8 DEF WriteStamp
<1>9. CASE RecStop \/ Killed \/ PowerCut
  BY <1>4, <1>9 DEF RecStop, Killed, PowerCut, Down
<1>10. CASE DiskFull
  <2>1. rec = "idle" /\ rec' = "down" /\ now' = now
    BY <1>10 DEF DiskFull, Down
  <2>2. PICK torn \in BOOLEAN : /\ torn => NewChunk
                                /\ dates' = IF torn THEN Append(dates, now) ELSE dates
    BY <1>10, Zenon DEF DiskFull
  <2> QED
    BY <1>4, <1>5, <2>1, <2>2
<1>11. CASE Expire(Wanted)
  BY <1>4, <1>11 DEF Expire
<1>12. CASE UNCHANGED recVars
  BY <1>4, <1>12 DEF recVars
<1> QED
  BY <1>2, <1>6, <1>7, <1>8, <1>9, <1>10, <1>11, <1>12, RecSteps

(* What is new in a sequence is not before the limit.                      *)
Continues(st, new, limit) ==
    /\ new \in Seq(Nat)
    /\ \A k \in 1..Len(new) : (k <= Len(st) /\ new[k] = st[k]) \/ new[k] >= limit

(* A stamp of the limit or later continues what is before it.              *)
LEMMA ContinuesAppended ==
    ASSUME NEW st \in Seq(Nat), NEW limit \in Nat, NEW e \in Nat, limit <= e
    PROVE  Continues(st, st, limit) /\ Continues(st, Append(st, e), limit)
<1>1. /\ Append(st, e) \in Seq(Nat) /\ Len(Append(st, e)) = Len(st) + 1 /\ Len(st) \in Nat
      /\ \A k \in 1..Len(st) : Append(st, e)[k] = st[k]
      /\ Append(st, e)[Len(st) + 1] = e
  BY AppendProperties
<1>2. PICK new \in Seq(Nat) : new = Append(st, e)
  BY <1>1
<1>3. \A k \in 1..Len(new) : (k <= Len(st) /\ new[k] = st[k]) \/ new[k] >= limit
  <2> TAKE k \in 1..Len(new)
  <2>1. k \in 1..Len(st) \/ k = Len(st) + 1
    BY <1>1, <1>2
  <2> QED
    BY <1>1, <1>2, <2>1
<1> QED
  BY <1>2, <1>3 DEF Continues

(* So does what is left when the end is cut off.                           *)
LEMMA ContinuesCut ==
    ASSUME NEW st, NEW new, NEW limit, Continues(st, new, limit), NEW n \in 0..Len(new)
    PROVE  Continues(st, First(new, n), limit)
<1>1. new \in Seq(Nat) /\ Len(new) \in Nat
  BY DEF Continues
<1>2. PICK s \in Seq(Nat) : s = First(new, n) /\ Len(s) = n /\ \A k \in 1..n : s[k] = new[k]
  BY <1>1, FirstIs
<1>3. \A k \in 1..n : (k <= Len(st) /\ s[k] = st[k]) \/ s[k] >= limit
  <2> TAKE k \in 1..n
  <2>1. k \in 1..Len(new)
    BY <1>1
  <2> QED
    BY <1>2, <2>1 DEF Continues
<1> QED
  BY <1>2, <1>3 DEF Continues

(* The recording in a file is gone on with, cut, or made new: what it has  *)
(* then and had not at the same place is later.                            *)
LEMMA StampsStep ==
    ASSUME RecInv, [Next]_vars, mode # "dir", 0 \in DOMAIN disk
    PROVE  Continues(Stamps(0), Stamps(0)', Limit)
<1>1. /\ RecTypes /\ FilesSound /\ DatesGrow /\ OpenFile
      /\ RecTypes' /\ 0 \in DOMAIN disk'
  BY RecInvStep, LaterStep DEF RecInv, Later
<1>2. /\ now \in Nat \ {0} /\ dates \in Seq(Nat) /\ Chunk = Len(dates) /\ held \in Seq(Nat)
      /\ DOMAIN disk \subseteq Nat /\ disk \in [DOMAIN disk -> PairOfFiles]
      /\ disk' \in [DOMAIN disk' -> PairOfFiles] /\ Limit \in Nat
  BY <1>1, LimitGrows DEF RecTypes, Chunk
<1>3. PICK f : f = disk[0] /\ f \in PairOfFiles
  BY <1>1, <1>2
<1>4. PICK aux \in Seq(Nat) : aux = f.aux
  BY <1>3 DEF PairOfFiles
<1>5. PICK st \in Seq(Nat) : /\ st = Stamps(0) /\ Len(aux) \in 0..Len(st) /\ First(st, Len(aux)) = aux
                             /\ 0 = recFile => st = aux \o held
                             /\ 0 # recFile => st = aux
  BY <1>1, <1>3, <1>4, StampsTyped
<1>6. /\ Continues(st, st, Limit)
      /\ \A n \in 0..Len(st) : Continues(st, First(st, n), Limit)
      /\ \A n \in 0..Len(aux) : Continues(st, First(aux, n), Limit)
      /\ Continues(st, aux, Limit)
  <2>1. Continues(st, st, Limit)
    BY <1>2, ContinuesAppended
  <2>2. \A n \in 0..Len(st) : Continues(st, First(st, n), Limit)
    BY <2>1, ContinuesCut
  <2>3. Continues(st, aux, Limit)
    BY <1>5, <2>2
  <2>4. \A n \in 0..Len(aux) : Continues(st, First(aux, n), Limit)
    BY <2>3, ContinuesCut
  <2> QED
    BY <2>1, <2>2, <2>3, <2>4
<1>7. ASSUME recFile' # 0 \/ held' = <<>>, Continues(st, disk'[0].aux, Limit)
      PROVE  Continues(Stamps(0), Stamps(0)', Limit)
  <2>1. 0 = recFile' => held' = <<>>
    BY <1>7
  <2>2. Stamps(0)' = disk'[0].aux
    BY <1>1, <1>2, <2>1, EmptyBuffer
  <2> QED
    BY <1>5, <1>7, <2>2
<1>8. rec # "down" => recFile = 0
  BY <1>1 DEF OpenFile
<1>9. ASSUME NEW g \in PairOfFiles, disk' = With(disk, 0, g) PROVE disk'[0].aux = g.aux
  <2>1. PICK e : e = With(disk, 0, g)
    OBVIOUS
  <2>2. PICK m : e[0] = [g EXCEPT !.mtime = m]
    BY <2>1 DEF With
  <2>3. e[0].aux = g.aux
    BY <1>9, <2>2, TouchedIs
  <2> QED
    BY <1>9, <2>1, <2>3
<1>10. CASE RecStart
  <2>1. held' = <<>> /\ recFile = NoFile /\ disk' = With(disk, 0, OpenForWriting(0))
    BY <1>1, <1>10 DEF RecStart, OpenFile
  <2>2. PICK g \in PairOfFiles : g = OpenForWriting(0)
    BY <1>1, OpenedIs
  <2>3. g = CheckFileSizes(f) \/ g = NoChunks
    BY <1>3, <2>2 DEF OpenForWriting
  <2>4. Continues(st, g.aux, Limit)
    <3>1. CASE g = CheckFileSizes(f)
      <4>1. PICK n \in 0..Len(aux) : g = [f EXCEPT !.ts = First(f.ts, n), !.aux = First(f.aux, n),
                                                 !.tsTorn = FALSE, !.auxTorn = FALSE]
        <5>1. Least(Len(f.ts), Len(f.aux)) \in 0..Len(aux)
          BY <1>3, <1>4 DEF Least, PairOfFiles
        <5> QED
          BY <3>1, <5>1 DEF CheckFileSizes
      <4>2. g.aux = First(aux, n)
        BY <1>3, <1>4, <4>1 DEF PairOfFiles
      <4> QED
        BY <1>6, <4>2
    <3>2. CASE g = NoChunks
      <4>1. g.aux = <<>> /\ <<>> \in Seq(Nat) /\ Len(<<>>) = 0
        BY <3>2, EmptySeq DEF NoChunks
      <4> QED
        BY <4>1 DEF Continues
    <3> QED
      BY <2>3, <3>1, <3>2
  <2> QED
    BY <1>7, <1>9, <2>1, <2>2, <2>4
<1>11. CASE WriteChunk
  <2>1. recFile = 0 /\ NumberNow = 0 /\ recFile' = 0 /\ held' = held
    <3>1. rec = "idle"
      BY <1>11 DEF WriteChunk
    <3>2. NumberNow = recFile /\ recFile = 0
      BY <1>8, <3>1 DEF NumberNow
    <3> QED
      BY <1>11, <3>2 DEF WriteChunk
  <2>2. PICK c : disk' = With(Closed(0), 0, [Target(0) EXCEPT !.ts = Append(@, c)])
    BY <1>11, <2>1 DEF WriteChunk
  <2>3. Closed(0) = disk /\ Target(0) = f
    BY <1>3, <2>1 DEF Closed, Target
  <2>4. PICK g, e : g = [f EXCEPT !.ts = Append(@, c)] /\ e = With(disk, 0, g)
    OBVIOUS
  <2>5. e[0] = [g EXCEPT !.mtime = ChangedAt(disk, 0, g)] /\ disk' = e
    BY <2>2, <2>3, <2>4 DEF With
  <2>6. e[0].aux = aux
    BY <1>3, <1>4, <2>4, <2>5 DEF PairOfFiles
  <2>7. Stamps(0)' = aux \o held
    BY <2>1, <2>5, <2>6 DEF Stamps
  <2> QED
    BY <1>5, <1>6, <2>1, <2>7
<1>12. CASE WriteStamp
  <2>1. recFile = 0 /\ recFile' = 0 /\ Chunk > 0
    BY <1>1, <1>8, <1>12 DEF WriteStamp, OpenFile
  <2>2. PICK d \in Nat : d = dates[Chunk] /\ Limit = d
    BY <1>1, <1>2, <1>12, <2>1, LimitIs DEF WriteStamp, DatesGrow
  <2>3. PICK stamps \in Seq(Nat) : stamps = Append(held, d) /\ aux \o stamps = Append(st, d)
    <3>1. aux \o held = st
      BY <1>5, <2>1
    <3>2. Append(held, d) \in Seq(Nat) /\ aux \o Append(held, d) = Append(aux \o held, d)
      BY <1>2, FlushedAppend
    <3> QED
      BY <3>1, <3>2
  <2>4. Continues(st, aux \o stamps, Limit)
    BY <1>2, <2>2, <2>3, ContinuesAppended
  <2>5. CASE disk' = disk /\ held' = stamps
    <3>1. Stamps(0)' = aux \o stamps
      BY <1>3, <1>4, <2>1, <2>5 DEF Stamps
    <3> QED
      BY <1>5, <2>4, <3>1
  <2>6. CASE disk' = With(disk, 0, Flushed(disk[0], stamps)) /\ held' = <<>>
    <3>1. PICK g : g = Flushed(f, stamps)
      OBVIOUS
    <3>2. g \in PairOfFiles /\ g.aux = aux \o stamps
      <4>1. aux \o stamps \in Seq(Nat)
        BY ConcatProperties
      <4> QED
        BY <1>3, <1>4, <3>1, <4>1 DEF Flushed, PairOfFiles
    <3> QED
      BY <1>3, <1>7, <1>9, <2>4, <2>6, <3>1, <3>2
  <2> QED
    BY <1>12, <2>1, <2>2, <2>3, <2>5, <2>6 DEF WriteStamp
<1>13. CASE RecStop
  <2>1. recFile = 0 /\ held' = <<>> /\ disk' = With(disk, 0, Flushed(f, held))
    BY <1>3, <1>8, <1>13 DEF RecStop, Down, NoFile
  <2>2. PICK g : g = Flushed(f, held)
    OBVIOUS
  <2>3. g \in PairOfFiles /\ g.aux = st
    <3>1. aux \o held = st /\ st \in Seq(Nat)
      BY <1>5, <2>1
    <3> QED
      BY <1>3, <1>4, <2>2, <3>1 DEF Flushed, PairOfFiles
  <2> QED
    BY <1>6, <1>7, <1>9, <2>1, <2>2, <2>3
<1>14. CASE Killed
  <2>1. held' = <<>> /\ disk' = disk
    BY <1>14 DEF Killed, Down
  <2> QED
    BY <1>3, <1>4, <1>6, <1>7, <2>1
<1>15. CASE DiskFull
  <2>1. recFile = 0 /\ held' = <<>> /\ rec # "stamp"
    BY <1>8, <1>15 DEF DiskFull, Down
  <2>2. PICK torn \in BOOLEAN, auxTorn \in BOOLEAN :
          LET stamps == IF torn THEN Append(held, now) ELSE held IN
          /\ torn => NewChunk /\ NumberNow = recFile
          /\ dates' = IF torn THEN Append(dates, now) ELSE dates
          /\ \E n \in 0..Len(stamps) :
                disk' = With(disk, recFile, [Flushed(disk[recFile], First(stamps, n))
                                                EXCEPT !.tsTorn = torn, !.auxTorn = auxTorn])
    BY <1>15, Zenon DEF DiskFull
  <2>3. PICK stamps : stamps = IF torn THEN Append(held, now) ELSE held
    OBVIOUS
  <2>4. PICK n \in 0..Len(stamps) :
          /\ torn => NewChunk
          /\ disk' = With(disk, recFile, [Flushed(disk[recFile], First(stamps, n))
                                                EXCEPT !.tsTorn = torn, !.auxTorn = auxTorn])
    BY <2>2, <2>3, Zenon
  <2>5. stamps \in Seq(Nat) /\ Continues(st, aux \o stamps, Limit)
    <3>1. CASE torn
      <4>1. Limit <= now /\ now \in Nat
        BY <1>1, <1>2, <2>1, <2>3, <2>4, <3>1, LimitIs
      <4>2. stamps \in Seq(Nat) /\ aux \o stamps = Append(st, now)
        <5>1. aux \o held = st /\ stamps = Append(held, now)
          BY <1>5, <2>1, <2>3, <3>1
        <5>2. Append(held, now) \in Seq(Nat) /\ aux \o Append(held, now) = Append(aux \o held, now)
          <6>1. held \in Seq(Nat) /\ now \in Nat /\ aux \in Seq(Nat)
            BY <1>2, <4>1
          <6> QED
            BY <6>1, FlushedAppend
        <5> QED
          BY <5>1, <5>2
      <4> QED
        BY <1>2, <4>1, <4>2, ContinuesAppended
    <3>2. CASE ~torn
      BY <1>2, <1>5, <1>6, <2>1, <2>3, <2>4, <3>2
    <3> QED
      BY <3>1, <3>2
  <2>6. /\ aux \o First(stamps, n) \in Seq(Nat)
        /\ Len(aux) + n \in 0..Len(aux \o stamps)
        /\ aux \o First(stamps, n) = First(aux \o stamps, Len(aux) + n)
    <3>1. n \in 0..Len(stamps) /\ stamps \in Seq(Nat)
      BY <2>4, <2>5
    <3> QED
      BY <3>1, FlushedFirst
  <2>7. Continues(st, aux \o First(stamps, n), Limit)
    BY <2>5, <2>6, ContinuesCut
  <2>8. PICK a \in Seq(Nat) : a = aux \o First(stamps, n)
    BY <2>6
  <2>9. PICK g : g = [Flushed(f, First(stamps, n)) EXCEPT !.tsTorn = torn, !.auxTorn = auxTorn]
    OBVIOUS
  <2>10. g \in PairOfFiles /\ g.aux = a
    <3>1. Flushed(f, First(stamps, n)) = [f EXCEPT !.aux = a]
      BY <1>4, <2>8 DEF Flushed
    <3> QED
      BY <1>3, <2>3, <2>4, <2>8, <2>9, <3>1 DEF PairOfFiles
  <2> QED
    BY <1>3, <1>7, <1>9, <2>1, <2>3, <2>4, <2>7, <2>8, <2>9, <2>10
<1>16. CASE PowerCut
  <2>1. recFile = 0 /\ held' = <<>>
    BY <1>8, <1>16 DEF PowerCut, Down
  <2>2. PICK m \in 0..Len(disk[recFile].ts), k \in 0..Len(disk[recFile].aux), torn, auxTorn \in BOOLEAN :
          disk' = With(disk, recFile, [disk[recFile] EXCEPT !.ts = First(@, m), !.aux = First(@, k),
                                          !.tsTorn = torn, !.auxTorn = auxTorn])
    BY <1>16, Zenon DEF PowerCut
  <2>3. PICK g : /\ g = [f EXCEPT !.ts = First(@, m), !.aux = First(@, k),
                                  !.tsTorn = torn, !.auxTorn = auxTorn]
                 /\ disk' = With(disk, 0, g) /\ m \in 0..Len(f.ts) /\ k \in 0..Len(f.aux)
    BY <1>3, <2>1, <2>2
  <2>4. k \in 0..Len(aux) /\ First(aux, k) \in Seq(Nat) /\ First(f.ts, m) \in Seq(Nat)
    <3>1. f.ts \in Seq(Nat)
      BY <1>3 DEF PairOfFiles
    <3> QED
      BY <1>4, <2>3, <3>1, FirstIs
  <2>5. g \in PairOfFiles /\ g.aux = First(aux, k)
    BY <1>3, <1>4, <2>2, <2>3, <2>4 DEF PairOfFiles
  <2> QED
    BY <1>6, <1>7, <1>9, <2>1, <2>2, <2>3, <2>4, <2>5
<1>17. CASE UNCHANGED recVars
  <2>1. Stamps(0)' = Stamps(0)
    BY <1>17 DEF recVars, Stamps
  <2> QED
    BY <1>5, <1>6, <2>1
<1>18. CASE Expire(Wanted)
  <2>1. disk'[0].aux = aux /\ recFile' = recFile /\ held' = held
    BY <1>1, <1>3, <1>4, <1>18 DEF Expire, PairOfFiles
  <2>2. Stamps(0)' = Stamps(0)
    BY <1>3, <1>4, <2>1 DEF Stamps
  <2> QED
    BY <1>5, <1>6, <2>2
<1> QED
  BY <1>10, <1>11, <1>12, <1>13, <1>14, <1>15, <1>16, <1>17, <1>18, RecSteps

(***************************************************************************)
(* The player.                                                             *)
(***************************************************************************)

-----------------------------------------------------------------------------
(* The player: the two files are read at the same place, so the stamp read *)
(* is the chunk's.                                                         *)
InHand == play \in {"delay", "sleep", "send"}
PlayInv ==
    /\ play \in {"off", "test", "read", "delay", "sleep", "send", "refused", "ended"}
    /\ fd \in Places /\ stc \in Int /\ first \in Int /\ delay \in Int
    /\ base \in [stc : Int, wall : Int] /\ wake \in Int
    /\ sent \in Seq([chunk : Nat, due : Int, at : Int])
    /\ \A k \in 1..Len(sent) : sent[k].chunk <= Chunk
    /\ play = "off" => base = Unset /\ sent = <<>>
    /\ Playing => fd.file \in DOMAIN disk /\ fd.ts = fd.aux /\ fd.ts >= 0
    /\ InHand => chunk \in 0..Chunk /\ (chunk # Garbled => stc = dates[chunk])

(* It starts with nothing sent.                                            *)
LEMMA PlayInvInit == Init => PlayInv
<1> SUFFICES ASSUME Init PROVE PlayInv
  OBVIOUS
<1>1. /\ play = "off" /\ fd = [file |-> 0, ts |-> 0, aux |-> 0]
      /\ stc = 0 /\ first = 0 /\ delay = 0 /\ base = Unset /\ wake = 0 /\ sent = <<>>
  BY DEF Init, PlayInit
<1>2. fd \in Places /\ base \in [stc : Int, wall : Int]
  BY <1>1 DEF Places, Unset
<1>3. sent \in Seq([chunk : Nat, due : Int, at : Int]) /\ Len(sent) = 0
  BY <1>1, EmptySeq
<1>4. stc \in Int /\ first \in Int /\ delay \in Int /\ wake \in Int
  BY <1>1
<1>5. /\ play \in {"off", "test", "read", "delay", "sleep", "send", "refused", "ended"}
      /\ ~Playing /\ ~InHand
  BY <1>1 DEF Playing, InHand
<1> QED
  BY <1>1, <1>2, <1>3, <1>4, <1>5 DEF PlayInv

(* What the player does between reading a chunk and sending or dropping it.*)
Waits == Sleep \/ Awake \/ NoSleep

(* The steps of the player change nothing else, and those of others leave  *)
(* it as it is.                                                            *)
LEMMA PlaySteps ==
    ASSUME [Next]_vars
    PROVE  \/ UNCHANGED playVars
           \/ /\ UNCHANGED <<now, recVars>>
              /\ \/ \E i_pos \in Positions : dir_InitRead(i_pos) \/ file_InitRead(i_pos)
                 \/ Loop \/ ReadChunk \/ FileEnds \/ NextFile \/ Waits \/ Drop \/ Send \/ Signal
<1>1. CASE Play
  BY <1>1 DEF Play, PlayerStart, PlayerStep, Waits
<1> QED
  BY <1>1 DEF Next, vars, Tick, Record, Clean, Watch

(* What the delay does.                                                    *)
LEMMA WaitsIs ==
    ASSUME Waits
    PROVE  /\ UNCHANGED <<fd, chunk, stc, first, delay, b_die, told, sent>>
           /\ Playing /\ InHand /\ Playing' /\ InHand' /\ play' \in {"sleep", "send"}
           /\ \/ /\ play = "delay" /\ Early > 0 /\ play' = "sleep"
                 /\ wake' = now + Early /\ base' = base
              \/ /\ play = "sleep" /\ wake <= now /\ play' = "send" /\ UNCHANGED <<base, wake>>
              \/ /\ play = "delay" /\ Early <= 0 /\ play' = "send" /\ wake' = now
                 /\ mode = "dir" => ~TooLate /\ base' = base
                 /\ mode # "dir" => base' = IF base = Unset \/ TooLate
                                            THEN [stc |-> stc, wall |-> now] ELSE base
<1>1. CASE Sleep
  BY <1>1 DEF Sleep, Playing, InHand
<1>2. CASE Awake
  BY <1>2 DEF Awake, Playing, InHand
<1>3. CASE NoSleep
  BY <1>3 DEF NoSleep, Playing, InHand
<1> QED
  BY <1>1, <1>2, <1>3 DEF Waits

(* The files of the date and of the one after it.                          *)
LEMMA DirFileTyped ==
    ASSUME RecTypes, NEW wanted \in Int
    PROVE  /\ GetDirFile(wanted, now) \in Int
           /\ wanted > 0 => GetDirFile(wanted, now) = wanted \div Rotate
<1>1. PICK r \in Nat \ {0}, t \in Nat : r = Rotate /\ t = now
  BY RotateAssumption DEF RotateAssumption, RecTypes
<1>2. wanted \div r \in Int /\ (wanted + t) \div r \in Int
  BY <1>1
<1> QED
  BY <1>1, <1>2 DEF GetDirFile

(* A chunk that is read has its own date.                                  *)
LEMMA ReadIs ==
    ASSUME RecInv, PlayInv, ReadChunk
    PROVE  /\ chunk' \in 0..Chunk /\ stc' \in Nat
           /\ chunk' # Garbled => stc' = dates[chunk']
           /\ fd' = Place(fd.file, fd.ts + 1)
           /\ fd.file \in DOMAIN disk /\ fd.ts \in Nat
           /\ fd.ts + 1 \in 1..Len(disk[fd.file].aux)
           /\ stc' = disk[fd.file].aux[fd.ts + 1]
<1>1. RecTypes /\ FilesSound
  BY DEF RecInv
<1>2. /\ fd.file \in DOMAIN disk /\ fd.ts = fd.aux /\ fd.ts \in Nat
      /\ fd = [file |-> fd.file, ts |-> fd.ts, aux |-> fd.aux]
  BY DEF ReadChunk, PlayInv, Playing, Places
<1>3. PICK ts, aux, k : ts = disk[fd.file].ts /\ aux = disk[fd.file].aux /\ k = fd.ts
  OBVIOUS
<1>4. Sound(fd.file, ts, aux, dates, Limit)
  BY <1>1, <1>2, <1>3, SoundOnDisk
<1>5. /\ ts \in Seq(0..Len(dates)) /\ aux \in Seq(Nat) /\ Len(ts) \in Nat /\ Len(aux) \in Nat
      /\ dates \in Seq(Nat) /\ Chunk = Len(dates) /\ Len(dates) \in Nat /\ k \in Nat
  BY <1>1, <1>2, <1>3, <1>4 DEF Sound, RecTypes, Chunk
<1>6. /\ chunk' = IF k < Len(ts) THEN ts[k + 1] ELSE Garbled
      /\ stc' = aux[k + 1] /\ fd' = [fd EXCEPT !.ts = @ + 1, !.aux = @ + 1]
      /\ k < Len(aux)
  BY <1>2, <1>3 DEF ReadChunk, HasStamp, Opened
<1>7. fd' = Place(fd.file, fd.ts + 1)
  BY <1>2, <1>6 DEF Place
<1>8. k + 1 \in 1..Len(aux) /\ stc' \in Nat
  BY <1>5, <1>6
<1>9. CASE k < Len(ts)
  <2>1. k + 1 \in 1..Len(ts) /\ k + 1 \in 1..Least(Len(ts), Len(aux))
    BY <1>5, <1>6, <1>9 DEF Least
  <2>2. ts[k + 1] \in 0..Len(dates)
    BY <1>5, <2>1, ElementOfSeq
  <2>3. aux[k + 1] = dates[ts[k + 1]]
    BY <1>4, <2>1 DEF Sound
  <2> QED
    BY <1>2, <1>3, <1>5, <1>6, <1>7, <1>8, <1>9, <2>2, <2>3
<1>10. CASE ~(k < Len(ts))
  BY <1>2, <1>3, <1>5, <1>6, <1>7, <1>8, <1>10 DEF Garbled
<1> QED
  BY <1>9, <1>10

(* Where a player starts.                                                  *)
LEMMA StartIs ==
    ASSUME RecInv, NEW i_pos \in Int, dir_InitRead(i_pos) \/ file_InitRead(i_pos)
    PROVE  /\ play = "off" /\ play' \in {"refused", "test"}
           /\ fd' \in Places /\ stc' \in Int /\ first' = stc' /\ delay' \in Int
           /\ UNCHANGED <<chunk, base, wake, b_die, told, sent>>
           /\ mode = "dir" /\ play' = "test" =>
                /\ stc' > 0 /\ delay' = now - stc' /\ fd' = DirPlace(stc') /\ fd'.ts # NotFound
           /\ mode # "dir" => stc' = 0
           /\ mode # "dir" /\ play' = "test" => fd'.file = 0
           /\ play' = "test" => fd'.file \in DOMAIN disk /\ fd'.ts = fd'.aux /\ fd'.ts >= 0
<1>1. RecTypes /\ now \in Int
  BY DEF RecInv, RecTypes
<1>2. CASE dir_InitRead(i_pos)
  <2>1. PICK wanted \in Int : wanted = IF i_pos <= 0 THEN i_pos + now ELSE i_pos
    BY <1>1
  <2>2. PICK place : place = IF wanted <= 0 THEN Place(0, NotFound) ELSE DirPlace(wanted)
    OBVIOUS
  <2>3. play = "off" /\ mode = "dir" /\ StartAt(place, wanted, now - wanted)
    BY <1>2, <2>1, <2>2 DEF dir_InitRead
  <2>4. /\ play' = IF place.ts = NotFound THEN "refused" ELSE "test"
        /\ fd' = place /\ stc' = wanted /\ first' = wanted /\ delay' = now - wanted
        /\ UNCHANGED <<chunk, base, wake, b_die, told, sent>>
    BY <2>3 DEF StartAt
  <2>5. CASE wanted <= 0
    <3>1. place.ts = NotFound /\ place \in Places
      BY <2>2, <2>5 DEF Place, NotFound, Places
    <3> QED
      BY <1>1, <2>1, <2>3, <2>4, <3>1
  <2>6. CASE ~(wanted <= 0)
    <3>1. place = DirPlace(wanted) /\ wanted > 0
      BY <2>2, <2>6
    <3>2. PICK w \in Int : w = GetDirFile(wanted, now)
      BY <1>1, DirFileTyped
    <3>3. /\ place.ts = place.aux /\ place.ts \in {NotFound} \union Nat /\ place.file \in {w, w + 1}
          /\ place.ts # NotFound => place.file \in DOMAIN disk
      BY <3>1, <3>2, DirPlaceIs
    <3>4. place = [file |-> place.file, ts |-> place.ts, aux |-> place.aux]
      BY <3>1 DEF DirPlace, Place
    <3>5. place.file \in Int /\ place.ts \in Int /\ (place.ts # NotFound => place.ts >= 0)
      BY <3>3 DEF NotFound
    <3>6. place \in Places
      BY <3>3, <3>4, <3>5 DEF Places
    <3> QED
      BY <1>1, <2>1, <2>3, <2>4, <3>1, <3>3, <3>5, <3>6
  <2> QED
    BY <2>5, <2>6
<1>3. CASE file_InitRead(i_pos)
  <2>1. PICK n : n = IF i_pos = 0 THEN 0 ELSE LookupAuxFile(disk[0].aux, i_pos, FALSE)
    OBVIOUS
  <2>2. play = "off" /\ mode # "dir" /\ 0 \in DOMAIN disk /\ StartAt(Place(0, n), 0, 0)
    BY <1>3, <2>1 DEF file_InitRead, Here
  <2>3. /\ play' = IF n = NotFound THEN "refused" ELSE "test"
        /\ fd' = Place(0, n) /\ stc' = 0 /\ first' = 0 /\ delay' = 0
        /\ UNCHANGED <<chunk, base, wake, b_die, told, sent>>
    BY <2>2 DEF StartAt, Place
  <2>4. n = NotFound \/ n \in Nat
    <3>1. PICK aux : aux = disk[0].aux /\ Growing(aux)
      BY <2>2, AuxGrows
    <3>2. LookupAuxFile(aux, i_pos, FALSE) \in {NotFound} \union (1..Len(aux))
      BY <3>1, LookupTyped, Zenon
    <3>3. Len(aux) \in Nat
      BY <3>1 DEF Growing
    <3>4. PICK m : m = LookupAuxFile(aux, i_pos, FALSE) /\ m = LookupAuxFile(disk[0].aux, i_pos, FALSE)
      BY <3>1
    <3>5. m = NotFound \/ m \in Nat
      <4>1. m \in {NotFound} \union (1..Len(aux))
        BY <3>2, <3>4, Zenon
      <4> QED
        BY <3>3, <4>1
    <3>6. n = 0 \/ n = m
      BY <2>1, <3>4, Zenon
    <3> QED
      BY <3>5, <3>6
  <2>5. fd' \in Places /\ fd'.file = 0 /\ fd'.ts = n /\ fd'.aux = n
    BY <2>3, <2>4 DEF Place, Places, NotFound
  <2> QED
    BY <2>2, <2>3, <2>4, <2>5
<1> QED
  BY <1>2, <1>3

(* How far the clock is from the stamps, for a player of a file; the two   *)
(* dates are integers, and so is what is between them.                     *)
Offset == base.wall - base.stc
LEMMA OffsetTyped == PlayInv => Offset \in Int /\ base.wall \in Int /\ base.stc \in Int
BY DEF PlayInv, Offset

(* What was sent is chunks with the times of each.                         *)
LEMMA SentTyped ==
    ASSUME PlayInv, NEW k \in 1..Len(sent)
    PROVE  /\ sent[k].chunk \in Nat /\ sent[k].due \in Int /\ sent[k].at \in Int
           /\ sent[k].chunk <= Chunk
<1>1. sent \in Seq([chunk : Nat, due : Int, at : Int]) /\ sent[k].chunk <= Chunk
  BY DEF PlayInv
<1>2. PICK s : s = sent[k] /\ s \in [chunk : Nat, due : Int, at : Int]
  BY <1>1, ElementOfSeq
<1>3. s.chunk \in Nat /\ s.due \in Int /\ s.at \in Int
  BY <1>2
<1> QED
  BY <1>1, <1>2, <1>3

(* Send adds one of them.                                                  *)
LEMMA SentIs ==
    ASSUME PlayInv, Send, now \in Int
    PROVE  /\ sent' \in Seq([chunk : Nat, due : Int, at : Int]) /\ Len(sent') = Len(sent) + 1
           /\ Len(sent) \in Nat
           /\ \A k \in 1..Len(sent) : sent'[k] = sent[k]
           /\ sent'[Len(sent) + 1] = [chunk |-> chunk, due |-> wake, at |-> now]
<1>1. sent \in Seq([chunk : Nat, due : Int, at : Int]) /\ chunk \in Nat /\ wake \in Int
  <2>1. InHand
    BY DEF Send, InHand
  <2>2. chunk \in 0..Chunk
    BY <2>1 DEF PlayInv
  <2> QED
    BY <2>2 DEF PlayInv
<1>2. PICK s : s = [chunk |-> chunk, due |-> wake, at |-> now]
  OBVIOUS
<1>3. s \in [chunk : Nat, due : Int, at : Int]
  BY <1>1, <1>2
<1>4. sent' = Append(sent, s)
  BY <1>2 DEF Send
<1> QED
  BY <1>1, <1>2, <1>4, <1>3, AppendProperties

(* All of the steps keep that: the two places are moved together.          *)
LEMMA PlayInvStep == RecInv /\ PlayInv /\ [Next]_vars => PlayInv'
<1> SUFFICES ASSUME RecInv, PlayInv, [Next]_vars PROVE PlayInv'
  OBVIOUS
<1>1. Later /\ RecTypes /\ Chunk \in Nat
  BY LaterStep DEF RecInv, Later, RecTypes, Chunk
<1>2. /\ DOMAIN disk \subseteq DOMAIN disk' /\ Chunk' \in Nat /\ Chunk <= Chunk'
      /\ \A c \in 1..Chunk : dates'[c] = dates[c]
  BY <1>1 DEF Later
<1>3. /\ InHand => chunk \in 0..Chunk' /\ (chunk # Garbled => stc = dates'[chunk])
      /\ \A k \in 1..Len(sent) : sent[k].chunk <= Chunk'
      /\ Playing => fd.file \in DOMAIN disk'
  <2>1. InHand => chunk \in 0..Chunk' /\ (chunk # Garbled => stc = dates'[chunk])
    BY <1>1, <1>2 DEF PlayInv, Garbled
  <2>2. \A k \in 1..Len(sent) : sent[k].chunk <= Chunk'
    <3> TAKE k \in 1..Len(sent)
    <3>1. sent[k].chunk \in Nat /\ sent[k].chunk <= Chunk
      BY SentTyped
    <3> QED
      BY <1>1, <1>2, <3>1
  <2> QED
    BY <1>2, <2>1, <2>2 DEF PlayInv
<1>4. CASE UNCHANGED playVars
  <2>1. UNCHANGED <<play, fd, chunk, stc, first, delay, base, wake, sent>>
    BY <1>4 DEF playVars
  <2> QED
    BY <1>3, <2>1 DEF PlayInv, Playing, InHand
<1>5. ASSUME UNCHANGED <<now, recVars>>,
             NEW i_pos \in Positions, dir_InitRead(i_pos) \/ file_InitRead(i_pos)
      PROVE  PlayInv'
  <2>1. i_pos \in Int
    BY PlayerAssumption DEF PlayerAssumption
  <2>2. /\ play = "off" /\ play' \in {"refused", "test"}
        /\ fd' \in Places /\ stc' \in Int /\ first' = stc' /\ delay' \in Int
        /\ UNCHANGED <<base, wake, sent>>
        /\ play' = "test" => fd'.file \in DOMAIN disk /\ fd'.ts = fd'.aux /\ fd'.ts >= 0
    BY <1>5, <2>1, StartIs
  <2> QED
    BY <1>2, <1>3, <2>2 DEF PlayInv, Playing, InHand
<1>6. ASSUME UNCHANGED <<now, recVars>> PROVE UNCHANGED <<disk, dates>> /\ Chunk' = Chunk
  BY <1>6 DEF recVars, Chunk
<1>7. CASE UNCHANGED <<now, recVars>> /\ Loop
  <2>1. play = "test" /\ play' \in {"ended", "read"}
        /\ UNCHANGED <<fd, stc, first, delay, base, wake, sent>>
    BY <1>7 DEF Loop
  <2> QED
    BY <1>3, <2>1 DEF PlayInv, Playing, InHand
<1>8. CASE UNCHANGED <<now, recVars>> /\ ReadChunk
  <2>1. play = "read" /\ play' = "delay" /\ UNCHANGED <<delay, base, wake, sent>>
        /\ first' = IF first = 0 THEN stc' ELSE first
    BY <1>8 DEF ReadChunk
  <2>2. /\ chunk' \in 0..Chunk /\ stc' \in Nat /\ (chunk' # Garbled => stc' = dates[chunk'])
        /\ fd' = Place(fd.file, fd.ts + 1) /\ fd.file \in DOMAIN disk /\ fd.ts \in Nat
    BY <1>8, ReadIs
  <2>3. fd' \in Places /\ fd'.file = fd.file /\ fd'.ts = fd'.aux /\ fd'.ts >= 0
    <3>1. fd.file \in Int
      BY DEF PlayInv, Places
    <3> QED
      BY <2>2, <3>1 DEF Places, Place
  <2>4. first' \in Int
    BY <2>1, <2>2 DEF PlayInv
  <2>5. chunk' \in 0..Chunk' /\ (chunk' # Garbled => stc' = dates'[chunk']) /\ fd'.file \in DOMAIN disk'
    BY <1>6, <1>8, <2>2, <2>3
  <2> QED
    BY <1>3, <2>1, <2>2, <2>3, <2>4, <2>5 DEF PlayInv, InHand
<1>9. CASE UNCHANGED <<now, recVars>> /\ FileEnds
  <2>1. play = "read" /\ play' = "test" /\ UNCHANGED <<fd, stc, first, delay, base, wake, sent>>
    BY <1>9 DEF FileEnds
  <2> QED
    BY <1>3, <2>1 DEF PlayInv, Playing, InHand
<1>10. CASE UNCHANGED <<now, recVars>> /\ NextFile
  <2>1. play = "read" /\ UNCHANGED <<stc, first, delay, base, wake, sent>>
    BY <1>10 DEF NextFile
  <2>2. CASE Here(fd.file + 1)
    <3>1. fd' = Place(fd.file + 1, 0) /\ play' = "read"
      BY <1>10, <2>1, <2>2 DEF NextFile
    <3>2. fd.file \in Int /\ fd.file + 1 \in DOMAIN disk
      BY <2>2 DEF PlayInv, Places, Here
    <3>3. fd' \in Places /\ fd'.file \in DOMAIN disk /\ fd'.ts = fd'.aux /\ fd'.ts >= 0
      BY <3>1, <3>2 DEF Places, Place
    <3> QED
      BY <1>2, <1>3, <2>1, <3>1, <3>3 DEF PlayInv, InHand
  <2>3. CASE ~Here(fd.file + 1)
    <3>1. play' = "ended" /\ fd' = fd
      BY <1>10, <2>3 DEF NextFile
    <3> QED
      BY <1>3, <2>1, <3>1 DEF PlayInv, Playing, InHand
  <2> QED
    BY <2>2, <2>3
<1>11. CASE UNCHANGED <<now, recVars>> /\ Send
  <2>1. now \in Int
    BY <1>1 DEF RecTypes
  <2>2. play = "send" /\ play' = "test" /\ UNCHANGED <<fd, stc, first, delay, base, wake>>
    BY <1>11 DEF Send
  <2>3. chunk \in 0..Chunk
    BY <2>2 DEF PlayInv, InHand
  <2>4. /\ sent' \in Seq([chunk : Nat, due : Int, at : Int])
        /\ Len(sent') = Len(sent) + 1 /\ Len(sent) \in Nat
        /\ \A k \in 1..Len(sent) : sent'[k] = sent[k]
        /\ sent'[Len(sent) + 1] = [chunk |-> chunk, due |-> wake, at |-> now]
    BY <1>11, <2>1, SentIs
  <2>5. \A k \in 1..Len(sent') : sent'[k].chunk <= Chunk'
    <3> TAKE k \in 1..Len(sent')
    <3>1. k \in 1..Len(sent) \/ k = Len(sent) + 1
      BY <2>4
    <3>2. chunk <= Chunk'
      BY <1>1, <1>2, <2>3
    <3>3. CASE k \in 1..Len(sent)
      BY <1>3, <2>4, <3>3
    <3>4. CASE k = Len(sent) + 1
      <4>1. sent'[k].chunk = chunk
        BY <2>4, <3>4
      <4> QED
        BY <3>2, <4>1
    <3> QED
      BY <3>1, <3>3, <3>4
  <2> QED
    BY <1>3, <2>2, <2>4, <2>5 DEF PlayInv, Playing, InHand
<1>12. CASE UNCHANGED <<now, recVars>> /\ Drop
  <2>1. play = "delay" /\ play' = "test" /\ UNCHANGED <<fd, stc, first, delay, base, wake, sent>>
    BY <1>12 DEF Drop
  <2> QED
    BY <1>3, <2>1 DEF PlayInv, Playing, InHand
<1>13. CASE UNCHANGED <<now, recVars>> /\ Signal
  <2>1. UNCHANGED <<play, fd, chunk, stc, first, delay, base, wake, sent>>
    BY <1>13 DEF Signal
  <2> QED
    BY <1>3, <2>1 DEF PlayInv, Playing, InHand
<1>14. CASE UNCHANGED <<now, recVars>> /\ Waits
  <2>1. /\ UNCHANGED <<fd, chunk, stc, first, delay, sent>>
        /\ Playing /\ InHand /\ play' \in {"sleep", "send"}
        /\ base' = base \/ base' = [stc |-> stc, wall |-> now]
        /\ wake' \in {wake, now, now + Early}
    BY <1>14, WaitsIs
  <2>2. now \in Int /\ Early \in Int
    <3>1. now \in Int /\ stc \in Int /\ delay \in Int
      BY <1>1 DEF RecTypes, PlayInv
    <3> QED
      BY <3>1, OffsetTyped DEF Early
  <2>3. base' \in [stc : Int, wall : Int] /\ wake' \in Int
    BY <2>1, <2>2 DEF PlayInv
  <2> QED
    BY <1>3, <2>1, <2>3 DEF PlayInv
<1> QED
  BY <1>4, <1>5, <1>7, <1>8, <1>9, <1>10, <1>11, <1>12, <1>13, <1>14, PlaySteps

(* Time passes only with Tick, while the player leaves all as it is.       *)
LEMMA TimeStill ==
    ASSUME [Next]_vars, UNCHANGED playVars
    PROVE  \/ now' = now
           \/ now' = now + 1 /\ (given.slow \/ ~Busy)
<1>1. CASE Tick
  BY <1>1 DEF Tick
<1>2. CASE ~Tick
  BY <1>2 DEF Next, Record, RecorderStep, RecorderFault, Clean, Play, Watch, vars, RecStart, WriteChunk, WriteStamp,
              RecStop, Killed, DiskFull, PowerCut, Down, Expire
<1> QED
  BY <1>1, <1>2

(* A chunk is sent after its delay, and but for a slow program at once.    *)
Prompt(s) == s.due <= s.at /\ (~given.slow => s.at = s.due)
Delays ==
    /\ play = "send" => wake <= now
    /\ ~given.slow => (play = "sleep" => now <= wake) /\ (play = "send" => now = wake)
    /\ \A k \in 1..Len(sent) : Prompt(sent[k])

(* Time does not pass while a program that is not slow has work to do.     *)
LEMMA DelaysStep ==
    ASSUME RecInv, PlayInv, Delays, [Next]_vars
    PROVE  Delays'
<1>1. Later /\ now \in Int /\ wake \in Int /\ stc \in Int /\ delay \in Int
  BY LaterStep DEF RecInv, RecTypes, PlayInv
<1>2. given' = given
  BY <1>1 DEF Later
<1>3. ASSUME sent' = sent PROVE \A k \in 1..Len(sent') : Prompt(sent[k])'
  BY <1>2, <1>3 DEF Delays, Prompt
<1>4. CASE UNCHANGED playVars
  <2>1. UNCHANGED <<play, wake, sent>>
    BY <1>4 DEF playVars
  <2>2. now' = now \/ (now' = now + 1 /\ (given.slow \/ ~Busy))
    BY <1>4, TimeStill
  <2>3. CASE now' = now
    BY <1>2, <1>3, <2>1, <2>3 DEF Delays
  <2>4. CASE now' = now + 1 /\ given.slow
    BY <1>1, <1>2, <1>3, <2>1, <2>4 DEF Delays
  <2>5. CASE now' = now + 1 /\ ~Busy
    <3>1. play # "send" /\ (play = "sleep" => now < wake)
      BY <1>1, <2>5 DEF Busy
    <3> QED
      BY <1>1, <1>2, <1>3, <2>1, <2>5, <3>1 DEF Delays
  <2> QED
    BY <2>2, <2>3, <2>4, <2>5
<1>5. CASE UNCHANGED <<now, recVars>> /\ Waits
  <2>1. /\ sent' = sent /\ now' = now /\ play' \in {"sleep", "send"}
        /\ \/ Early > 0 /\ play' = "sleep" /\ wake' = now + Early
           \/ play = "sleep" /\ wake <= now /\ play' = "send" /\ wake' = wake
           \/ play' = "send" /\ wake' = now
    BY <1>5, WaitsIs
  <2>2. Early \in Int
    BY <1>1, OffsetTyped DEF Early
  <2> QED
    BY <1>1, <1>2, <1>3, <2>1, <2>2 DEF Delays
<1>6. CASE UNCHANGED <<now, recVars>> /\ Send
  <2>1. play = "send" /\ play' = "test"
    BY <1>6 DEF Send
  <2>2. /\ Len(sent') = Len(sent) + 1 /\ Len(sent) \in Nat
        /\ \A k \in 1..Len(sent) : sent'[k] = sent[k]
        /\ sent'[Len(sent) + 1] = [chunk |-> chunk, due |-> wake, at |-> now]
    BY <1>1, <1>6, SentIs
  <2>3. Prompt([chunk |-> chunk, due |-> wake, at |-> now])
    BY <2>1 DEF Delays, Prompt
  <2>4. \A k \in 1..Len(sent') : Prompt(sent'[k])
    <3> TAKE k \in 1..Len(sent')
    <3>1. k \in 1..Len(sent) \/ k = Len(sent) + 1
      BY <2>2
    <3> QED
      BY <2>2, <2>3, <3>1 DEF Delays
  <2>5. \A k \in 1..Len(sent') : Prompt(sent[k])'
    BY <1>2, <2>4 DEF Prompt
  <2> QED
    BY <2>1, <2>5 DEF Delays
<1>7. ASSUME NEW i_pos \in Positions, dir_InitRead(i_pos) \/ file_InitRead(i_pos)
      PROVE  Delays'
  <2>1. i_pos \in Int
    BY PlayerAssumption DEF PlayerAssumption
  <2>2. play' \in {"refused", "test"} /\ sent' = sent
    BY <1>7, <2>1, StartIs
  <2> QED
    BY <1>3, <2>2 DEF Delays
<1>8. CASE Loop \/ ReadChunk \/ FileEnds \/ NextFile \/ Drop
  <2>1. sent' = sent /\ play' \notin {"sleep", "send"}
    BY <1>8 DEF Loop, ReadChunk, FileEnds, NextFile, Drop
  <2> QED
    BY <1>3, <2>1 DEF Delays
<1>9. CASE UNCHANGED <<now, recVars>> /\ Signal
  <2>1. UNCHANGED <<play, wake, sent, now>>
    BY <1>9 DEF Signal
  <2> QED
    BY <1>2, <1>3, <2>1 DEF Delays
<1> QED
  BY <1>4, <1>5, <1>6, <1>7, <1>8, <1>9, PlaySteps

(* The delay of a chunk of a directory is over when the player is due to   *)
(* send it, or a little later.                                             *)
InStep(s) == s.chunk # Garbled => s.due - delay - dates[s.chunk] \in 0..MaxLateness
DirSent ==
    mode = "dir" =>
        /\ play = "sleep" => wake - delay - stc = 0
        /\ play = "send" => wake - delay - stc \in 0..MaxLateness
        /\ \A k \in 1..Len(sent) : InStep(sent[k])

(* What is later than that is dropped, unless it was slept for.            *)
LEMMA DirSentStep ==
    ASSUME RecInv, PlayInv, DirSent, [Next]_vars
    PROVE  DirSent'
<1>1. Later /\ RecTypes
  BY LaterStep DEF RecInv
<1>2. SUFFICES ASSUME mode = "dir"
               PROVE  /\ play' = "sleep" => wake' - delay' - stc' = 0
                      /\ play' = "send" => wake' - delay' - stc' \in 0..MaxLateness
                      /\ \A k \in 1..Len(sent') : InStep(sent[k])'
  BY <1>1 DEF DirSent, Later, mode
<1>3. /\ \A c \in 1..Chunk : dates'[c] = dates[c]
      /\ \A k \in 1..Len(sent) : sent[k].chunk \in 0..Chunk
      /\ now \in Int /\ stc \in Int /\ delay \in Int /\ wake \in Int /\ MaxLateness \in Nat
  <2>1. \A k \in 1..Len(sent) : sent[k].chunk \in Nat /\ sent[k].chunk <= Chunk
    BY SentTyped
  <2>2. Chunk \in Nat
    BY <1>1 DEF RecTypes, Chunk
  <2>3. /\ now \in Int /\ stc \in Int /\ delay \in Int /\ wake \in Int /\ MaxLateness \in Nat
    BY <1>1, PlayerAssumption DEF RecTypes, PlayInv, PlayerAssumption
  <2>4. \A c \in 1..Chunk : dates'[c] = dates[c]
    BY <1>1 DEF Later
  <2>5. \A k \in 1..Len(sent) : sent[k].chunk \in 0..Chunk
    BY <2>1, <2>2
  <2> QED
    BY <2>3, <2>4, <2>5
<1>4. ASSUME sent' = sent, delay' = delay PROVE \A k \in 1..Len(sent') : InStep(sent[k])'
  <2>1. \A k \in 1..Len(sent) : InStep(sent[k])
    BY <1>2 DEF DirSent
  <2> QED
    BY <1>3, <1>4, <2>1 DEF InStep, Garbled
<1>5. CASE UNCHANGED playVars \/ Signal
  <2>1. UNCHANGED <<play, wake, delay, stc, sent>>
    BY <1>5 DEF playVars, Signal
  <2> QED
    BY <1>2, <1>4, <2>1 DEF DirSent
<1>6. CASE Waits
  <2>1. UNCHANGED <<delay, stc, sent>> /\ play' \in {"sleep", "send"}
    BY <1>6, WaitsIs
  <2>2. Early = stc - (now - delay)
    BY <1>2 DEF Early
  <2>3. play' = "sleep" => wake' = now + Early
    BY <1>6, WaitsIs
  <2>4. play' = "send" => \/ play = "sleep" /\ wake' = wake
                          \/ wake' = now /\ Early <= 0 /\ ~(Early < -MaxLateness)
    BY <1>2, <1>6, WaitsIs DEF TooLate
  <2>5. play = "sleep" => wake - delay - stc = 0
    BY <1>2 DEF DirSent
  <2> QED
    BY <1>3, <1>4, <2>1, <2>2, <2>3, <2>4, <2>5
<1>7. CASE Send /\ UNCHANGED <<now, recVars>>
  <2>1. delay' = delay /\ UNCHANGED dates /\ play = "send" /\ play' = "test"
    BY <1>7 DEF Send, recVars
  <2>2. /\ Len(sent') = Len(sent) + 1 /\ Len(sent) \in Nat
        /\ \A k \in 1..Len(sent) : sent'[k] = sent[k]
        /\ sent'[Len(sent) + 1] = [chunk |-> chunk, due |-> wake, at |-> now]
    BY <1>3, <1>7, SentIs
  <2>3. InStep([chunk |-> chunk, due |-> wake, at |-> now])
    <3>1. wake - delay - stc \in 0..MaxLateness
      BY <1>2, <2>1 DEF DirSent
    <3>2. chunk # Garbled => stc = dates[chunk]
      BY <2>1 DEF PlayInv, InHand
    <3> QED
      BY <3>1, <3>2 DEF InStep
  <2>4. \A k \in 1..Len(sent') : InStep(sent'[k])
    <3> TAKE k \in 1..Len(sent')
    <3>1. k \in 1..Len(sent) \/ k = Len(sent) + 1
      BY <2>2
    <3> QED
      BY <1>2, <2>2, <2>3, <3>1 DEF DirSent
  <2> QED
    BY <2>1, <2>4 DEF InStep
<1>8. ASSUME NEW i_pos \in Positions, dir_InitRead(i_pos) \/ file_InitRead(i_pos)
      PROVE  play' \in {"refused", "test"} /\ \A k \in 1..Len(sent') : InStep(sent[k])'
  <2>1. i_pos \in Int
    BY PlayerAssumption DEF PlayerAssumption
  <2>2. play = "off" /\ sent' = sent /\ play' \in {"refused", "test"}
    BY <1>8, <2>1, StartIs
  <2>3. sent' = <<>> /\ Len(<<>>) = 0
    BY <2>2, EmptySeq DEF PlayInv
  <2> QED
    BY <2>2, <2>3
<1>9. CASE Loop \/ ReadChunk \/ FileEnds \/ NextFile \/ Drop
  <2>1. UNCHANGED <<sent, delay>> /\ play' \notin {"sleep", "send"}
    BY <1>9 DEF Loop, ReadChunk, FileEnds, NextFile, Drop
  <2> QED
    BY <1>4, <2>1
<1> QED
  BY <1>5, <1>6, <1>7, <1>8, <1>9, PlaySteps

(***************************************************************************)
(* The pace of a player of a file.                                         *)
(***************************************************************************)

-----------------------------------------------------------------------------
(* A player of a file: what it has still to read is later than what it has *)
(* read; and what it has sent was not behind by more than it is now.       *)
Lag(s) == s.due - dates[s.chunk]
FilePlace ==
    Playing =>
        /\ fd.file = 0 /\ stc <= Limit
        /\ \A k \in 1..Len(Stamps(0)) : k > fd.ts => stc <= Stamps(0)[k]
FilePace ==
    /\ base = Unset => sent = <<>>
    /\ play \in {"sleep", "send"} =>
          base # Unset /\ Offset <= wake - stc /\ wake - stc <= Offset + Slack
    /\ ~given.slow /\ base # Unset =>
          /\ play \in {"test", "read"} => now - stc = Offset
          /\ play = "delay" => now - stc <= Offset
FileSent ==
    /\ \A j \in 1..Len(sent) : sent[j].chunk # Garbled => Lag(sent[j]) <= Offset + Slack
    /\ \A j, k \in 1..Len(sent) :
          j < k /\ sent[j].chunk # Garbled /\ sent[k].chunk # Garbled =>
              Lag(sent[j]) <= Lag(sent[k]) + Slack
FileInv == mode # "dir" => FilePlace /\ FilePace /\ FileSent

(* How late a slow player may be; a fast one never is.                     *)
LEMMA SlackTyped == Slack \in Nat /\ (given.slow => Slack = MaxLateness) /\ (~given.slow => Slack = 0)
BY PlayerAssumption DEF PlayerAssumption, Slack

(* In a file, what comes later on is later.                                *)
LEMMA FilePlaceStep ==
    ASSUME RecInv, PlayInv, mode # "dir", FilePlace, [Next]_vars
    PROVE  FilePlace'
<1>1. Later /\ RecTypes /\ FilesSound /\ OpenFile
  BY LaterStep DEF RecInv
<1>2. Limit \in Nat /\ Limit' \in Nat /\ Limit <= Limit' /\ stc \in Int
  BY LimitGrows DEF PlayInv
<1>3. CASE UNCHANGED <<play, fd, stc>>
  <2>1. SUFFICES ASSUME Playing
                 PROVE  stc <= Limit' /\ \A k \in 1..Len(Stamps(0)') : k > fd.ts => stc <= Stamps(0)'[k]
    BY <1>3 DEF FilePlace, Playing
  <2>2. 0 \in DOMAIN disk /\ stc <= Limit
    BY <2>1 DEF FilePlace, PlayInv
  <2>3. PICK st, new : st = Stamps(0) /\ new = Stamps(0)' /\ Continues(st, new, Limit) /\ st \in Seq(Nat)
    BY <1>1, <2>2, StampsStep, StampsTyped
  <2>4. \A k \in 1..Len(st) : k > fd.ts => stc <= st[k]
    BY <2>1, <2>3 DEF FilePlace
  <2>5. \A k \in 1..Len(new) : k > fd.ts => stc <= new[k]
    <3> SUFFICES ASSUME NEW k \in 1..Len(new), k > fd.ts PROVE stc <= new[k]
      OBVIOUS
    <3>1. (k <= Len(st) /\ new[k] = st[k]) \/ new[k] >= Limit
      BY <2>3 DEF Continues
    <3>2. CASE k <= Len(st) /\ new[k] = st[k]
      <4>1. k \in 1..Len(st)
        BY <2>3, <3>2
      <4> QED
        BY <2>4, <3>2, <4>1
    <3>3. CASE new[k] >= Limit
      <4>1. new[k] \in Nat
        BY <2>3 DEF Continues
      <4> QED
        BY <1>2, <2>2, <3>3, <4>1
    <3> QED
      BY <3>1, <3>2, <3>3
  <2> QED
    BY <1>2, <2>2, <2>3, <2>5
<1>4. ASSUME UNCHANGED <<now, recVars>>
      PROVE  Limit' = Limit /\ Stamps(0)' = Stamps(0) /\ mode' = mode
  BY <1>4 DEF recVars, Limit, Stamps, Chunk, mode
<1>5. ASSUME UNCHANGED <<now, recVars>>,
             NEW i_pos \in Positions, dir_InitRead(i_pos) \/ file_InitRead(i_pos)
      PROVE  FilePlace'
  <2>1. i_pos \in Int
    BY PlayerAssumption DEF PlayerAssumption
  <2>2. /\ play' \in {"refused", "test"} /\ stc' = 0
        /\ play' = "test" => fd'.file = 0 /\ fd'.file \in DOMAIN disk
    BY <1>5, <2>1, StartIs
  <2>3. CASE play' = "test"
    <3>1. Stamps(0) \in Seq(Nat)
      BY <1>1, <2>2, <2>3, StampsTyped
    <3>2. \A k \in 1..Len(Stamps(0)) : 0 <= Stamps(0)[k]
      BY <3>1
    <3> QED
      BY <1>2, <1>4, <1>5, <2>2, <2>3, <3>2 DEF FilePlace
  <2>4. CASE play' = "refused"
    BY <2>4 DEF FilePlace, Playing
  <2> QED
    BY <2>2, <2>3, <2>4
<1>6. CASE UNCHANGED <<now, recVars>> /\ ReadChunk
  <2>1. fd.file = 0 /\ play = "read"
    BY <1>6 DEF ReadChunk, FilePlace, Playing
  <2>2. PICK aux, st, k : aux = disk[0].aux /\ st = Stamps(0) /\ k = fd.ts + 1
    OBVIOUS
  <2>3. /\ fd' = Place(0, k) /\ k \in 1..Len(aux) /\ k \in Nat /\ stc' = aux[k] /\ 0 \in DOMAIN disk
    BY <1>6, <2>1, <2>2, ReadIs
  <2>4. Sound(0, disk[0].ts, st, dates, Limit)
    BY <1>1, <2>2, <2>3 DEF FilesSound
  <2>5. /\ st \in Seq(Nat) /\ Len(aux) \in 0..Len(st) /\ First(st, Len(aux)) = aux
    BY <1>1, <2>2, <2>3, StampsTyped
  <2>6. aux[k] = st[k]
    BY <2>3, <2>5, FirstIs
  <2>7. k \in 1..Len(st)
    BY <2>3, <2>5
  <2>8. st[k] < Limit /\ (\A j \in 1..Len(st) : k < j => st[k] < st[j]) /\ st[k] \in Nat
    BY <2>4, <2>5, <2>7 DEF Sound
  <2>9. \A j \in 1..Len(st) : j > k => stc' <= st[j]
    BY <2>3, <2>5, <2>6, <2>8
  <2>10. fd'.file = 0 /\ fd'.ts = k
    BY <2>3 DEF Place
  <2> QED
    BY <1>2, <1>4, <1>6, <2>2, <2>3, <2>6, <2>8, <2>9, <2>10 DEF FilePlace
<1>7. CASE UNCHANGED <<now, recVars>> /\ (Loop \/ FileEnds \/ Waits \/ Drop \/ Send \/ Signal)
  <2>1. UNCHANGED <<fd, stc>> /\ (Playing' => Playing)
    BY <1>7, WaitsIs DEF Loop, FileEnds, Drop, Send, Signal, Playing
  <2> QED
    BY <1>4, <1>7, <2>1 DEF FilePlace
<1>8. ~NextFile
  BY DEF NextFile
<1> QED
  BY <1>3, <1>5, <1>6, <1>7, <1>8, PlaySteps DEF playVars

(* The delay of a chunk of a file: its pace moves on, and never back.      *)
LEMMA FileWaits ==
    ASSUME RecInv, PlayInv, mode # "dir", FilePace, Waits
    PROVE  /\ base' # Unset /\ Offset' \in Int /\ wake' \in Int
           /\ Offset' <= wake' - stc /\ wake' - stc <= Offset' + Slack
           /\ base # Unset => Offset <= Offset'
<1>1. now \in Nat \ {0} /\ stc \in Int /\ wake \in Int /\ MaxLateness \in Nat
  BY PlayerAssumption DEF RecInv, RecTypes, PlayInv, PlayerAssumption
<1>2. Offset \in Int /\ base.wall \in Int /\ base.stc \in Int
  BY OffsetTyped
<1>3. /\ base = Unset => Early = 0
      /\ base # Unset => Early = Offset - (now - stc)
  BY <1>1, <1>2 DEF Early, Offset
<1>4. Slack \in Nat /\ (given.slow => Slack = MaxLateness) /\ (~given.slow => Slack = 0)
  BY SlackTyped
<1>5. CASE play = "delay" /\ Early > 0 /\ wake' = now + Early /\ base' = base
  <2>1. base' # Unset /\ Offset' = Offset
    BY <1>3, <1>5 DEF Offset
  <2>2. wake' - stc = Offset
    BY <1>1, <1>2, <1>3, <1>5, <2>1
  <2>3. wake' \in Int
    BY <1>1, <1>2, <1>3, <1>5, <2>1
  <2> QED
    BY <1>2, <1>4, <2>1, <2>2, <2>3
<1>6. CASE play = "sleep" /\ UNCHANGED <<base, wake>>
  BY <1>1, <1>2, <1>6 DEF FilePace, Offset
<1>7. CASE /\ play = "delay" /\ Early <= 0 /\ wake' = now
           /\ base' = IF base = Unset \/ TooLate THEN [stc |-> stc, wall |-> now] ELSE base
  <2>1. CASE base = Unset \/ TooLate
    <3>1. base' = [stc |-> stc, wall |-> now]
      BY <1>7, <2>1
    <3>2. base' # Unset
      BY <1>1, <3>1 DEF Unset
    <3>3. Offset' = now - stc
      BY <3>1 DEF Offset
    <3>4. base # Unset => Offset <= now - stc
      BY <1>1, <1>2, <1>3, <1>7
    <3> QED
      BY <1>1, <1>2, <1>4, <1>7, <3>2, <3>3, <3>4
  <2>2. CASE ~(base = Unset \/ TooLate)
    <3>1. base' = base /\ base # Unset /\ Offset' = Offset /\ ~TooLate
      BY <1>7, <2>2 DEF Offset
    <3>2. now - stc >= Offset /\ now - stc <= Offset + MaxLateness
      BY <1>1, <1>2, <1>3, <1>7, <3>1 DEF TooLate
    <3>3. ~given.slow => now - stc <= Offset
      BY <1>7, <3>1 DEF FilePace
    <3> QED
      BY <1>1, <1>2, <1>4, <1>7, <3>1, <3>2, <3>3
  <2> QED
    BY <2>1, <2>2
<1> QED
  BY <1>5, <1>6, <1>7, WaitsIs

(* The player of a file keeps its pace: it moves its base on when it is    *)
(* late.                                                                   *)
LEMMA FilePaceStep ==
    ASSUME RecInv, PlayInv, mode # "dir", FilePlace, FilePace, Delays, [Next]_vars
    PROVE  FilePace'
<1>1. Later /\ RecTypes
  BY LaterStep DEF RecInv
<1>2. now \in Int /\ stc \in Int /\ Offset \in Int /\ given' = given /\ base.wall \in Int /\ base.stc \in Int
      /\ wake \in Int /\ Slack' = Slack
  BY <1>1, OffsetTyped DEF Later, RecTypes, PlayInv, Slack
<1>3. ASSUME base' = base, sent' = sent,
             \/ play' \notin {"sleep", "send"}
             \/ UNCHANGED <<play, wake, stc>>,
             ~given.slow /\ base # Unset =>
                /\ play' \in {"test", "read"} => now' - stc' = Offset
                /\ play' = "delay" => now' - stc' <= Offset
      PROVE  FilePace'
  BY <1>2, <1>3 DEF FilePace, Offset
<1>4. CASE UNCHANGED <<play, wake, stc, base, sent>> /\ now' = now
  BY <1>3, <1>4 DEF FilePace
<1>5. CASE UNCHANGED <<play, wake, stc, base, sent>> /\ now' = now + 1 /\ (given.slow \/ ~Busy)
  <2>1. ~given.slow => play' \notin {"test", "read", "delay"}
    BY <1>5 DEF Busy
  <2> QED
    BY <1>3, <1>5, <2>1
<1>6. ASSUME UNCHANGED <<now, recVars>>,
             NEW i_pos \in Positions, dir_InitRead(i_pos) \/ file_InitRead(i_pos)
      PROVE  FilePace'
  <2>1. i_pos \in Int
    BY PlayerAssumption DEF PlayerAssumption
  <2>2. play = "off" /\ play' \in {"refused", "test"} /\ UNCHANGED <<base, sent>>
    BY <1>6, <2>1, StartIs
  <2>3. base = Unset
    BY <2>2 DEF PlayInv
  <2> QED
    BY <1>3, <2>2, <2>3
<1>7. CASE UNCHANGED <<now, recVars>> /\ ReadChunk
  <2>1. play = "read" /\ play' = "delay" /\ UNCHANGED <<base, sent>> /\ now' = now
    BY <1>7 DEF ReadChunk
  <2>2. fd.file = 0 /\ \A k \in 1..Len(Stamps(0)) : k > fd.ts => stc <= Stamps(0)[k]
    BY <2>1 DEF FilePlace, Playing
  <2>3. PICK aux, st, k : aux = disk[0].aux /\ st = Stamps(0) /\ k = fd.ts + 1
    OBVIOUS
  <2>4. k \in 1..Len(aux) /\ stc' = aux[k] /\ 0 \in DOMAIN disk /\ fd.ts \in Nat /\ stc' \in Nat
    BY <1>7, <2>2, <2>3, ReadIs
  <2>5. st \in Seq(Nat) /\ Len(aux) \in 0..Len(st) /\ First(st, Len(aux)) = aux
    BY <1>1, <2>3, <2>4, StampsTyped
  <2>6. aux[k] = st[k]
    BY <2>4, <2>5, FirstIs
  <2>7. k \in 1..Len(st)
    BY <2>4, <2>5
  <2>8. stc <= stc'
    BY <2>2, <2>3, <2>4, <2>6, <2>7
  <2>9. ~given.slow /\ base # Unset => now - stc = Offset
    BY <2>1 DEF FilePace
  <2>10. ~given.slow /\ base # Unset => now' - stc' <= Offset
    BY <1>2, <2>1, <2>4, <2>8, <2>9
  <2> QED
    BY <1>3, <2>1, <2>10
<1>8. CASE UNCHANGED <<now, recVars>> /\ (Loop \/ FileEnds)
  <2>1. UNCHANGED <<stc, base, sent>> /\ now' = now
        /\ play \in {"test", "read"} /\ play' \notin {"delay", "sleep", "send"}
    BY <1>8 DEF Loop, FileEnds
  <2> QED
    BY <1>3, <2>1 DEF FilePace
<1>9. CASE UNCHANGED <<now, recVars>> /\ Signal
  <2>1. UNCHANGED <<play, wake, stc, base, sent, now>>
    BY <1>9 DEF Signal
  <2> QED
    BY <1>4, <2>1
<1>10. CASE UNCHANGED <<now, recVars>> /\ Waits
  <2>1. stc' = stc /\ play' \in {"sleep", "send"}
    BY <1>10, WaitsIs
  <2>2. base' # Unset /\ Offset' <= wake' - stc /\ wake' - stc <= Offset' + Slack
    BY <1>10, FileWaits
  <2> QED
    BY <1>2, <2>1, <2>2 DEF FilePace
<1>11. CASE UNCHANGED <<now, recVars>> /\ Send
  <2>1. play = "send" /\ play' = "test" /\ UNCHANGED <<now, stc, base>>
    BY <1>11 DEF Send
  <2>2. base # Unset /\ Offset <= wake - stc /\ wake - stc <= Offset + Slack
    BY <2>1 DEF FilePace
  <2>3. ~given.slow => now - stc = Offset
    <3>1. ~given.slow => Slack = 0 /\ now = wake
      BY <2>1, SlackTyped DEF Delays
    <3> QED
      BY <1>2, <2>2, <3>1
  <2>4. Offset' = Offset
    BY <2>1 DEF Offset
  <2> QED
    BY <1>2, <2>1, <2>2, <2>3, <2>4 DEF FilePace
<1>12. ~NextFile /\ ~Drop
  BY DEF NextFile, Drop
<1>13. ASSUME UNCHANGED playVars
       PROVE  /\ UNCHANGED <<play, wake, stc, base, sent>>
              /\ now' = now \/ (now' = now + 1 /\ (given.slow \/ ~Busy))
  BY <1>13, TimeStill DEF playVars
<1> QED
  BY <1>4, <1>5, <1>6, <1>7, <1>8, <1>9, <1>10, <1>11, <1>12, <1>13, PlaySteps

(* What it has sent stays in the order of the lags.                        *)
LEMMA FileSentStep ==
    ASSUME RecInv, PlayInv, mode # "dir", FilePace, FileSent, [Next]_vars
    PROVE  FileSent'
<1>1. Later /\ RecTypes /\ Chunk \in Nat
  BY LaterStep DEF RecInv, RecTypes, Chunk
<1>2. \A c \in 1..Chunk : dates'[c] = dates[c]
  BY <1>1 DEF Later
<1>3. dates \in Seq(Nat) /\ Chunk = Len(dates) /\ now \in Int /\ Slack' = Slack
  BY <1>1 DEF RecTypes, Chunk, Later, Slack
<1>4. \A k \in 1..Len(sent) : sent[k].chunk \in 0..Chunk /\ sent[k].due \in Int
  <2> TAKE k \in 1..Len(sent)
  <2>1. sent[k].chunk \in Nat /\ sent[k].due \in Int /\ sent[k].chunk <= Chunk
    BY SentTyped
  <2> QED
    BY <1>1, <2>1
<1>5. ASSUME NEW s, s.chunk \in 0..Chunk, s.chunk # Garbled
      PROVE  s.due - dates'[s.chunk] = Lag(s)
  <2>1. s.chunk \in 1..Chunk
    BY <1>1, <1>5 DEF Garbled
  <2> QED
    BY <1>2, <2>1 DEF Lag
<1>6. \A j \in 1..Len(sent) : sent[j].chunk # Garbled => Lag(sent[j]) \in Int
  <2> SUFFICES ASSUME NEW j \in 1..Len(sent), sent[j].chunk # Garbled PROVE Lag(sent[j]) \in Int
    OBVIOUS
  <2>1. sent[j].chunk \in 1..Chunk
    BY <1>1, <1>4 DEF Garbled
  <2>2. dates[sent[j].chunk] \in Nat
    BY <1>3, <2>1
  <2> QED
    BY <1>4, <2>2 DEF Lag
<1>7. ASSUME sent' = sent, sent = <<>> \/ (Offset' \in Int /\ Offset <= Offset') PROVE FileSent'
  <2>1. \A j \in 1..Len(sent) : sent[j].chunk # Garbled => Lag(sent[j])' = Lag(sent[j])
    BY <1>4, <1>5, <1>7 DEF Lag
  <2>2. ASSUME NEW j \in 1..Len(sent), sent[j].chunk # Garbled
        PROVE  Lag(sent[j]) <= Offset' + Slack
    <3>1. sent # <<>>
      BY <2>2, EmptySeq
    <3>2. Lag(sent[j]) \in Int /\ Lag(sent[j]) <= Offset + Slack /\ Offset \in Int /\ Slack \in Nat
      BY <1>6, <2>2, OffsetTyped, SlackTyped DEF FileSent
    <3>3. Offset' \in Int /\ Offset <= Offset'
      BY <1>7, <3>1
    <3> QED
      BY <3>2, <3>3
  <2> QED
    BY <1>3, <1>7, <2>1, <2>2 DEF FileSent
<1>8. ASSUME UNCHANGED <<now, recVars>>, Send PROVE FileSent'
  <2>1. play = "send" /\ base' = base /\ Offset' = Offset
    BY <1>8 DEF Send, Offset
  <2>2. /\ Len(sent') = Len(sent) + 1 /\ Len(sent) \in Nat
        /\ \A k \in 1..Len(sent) : sent'[k] = sent[k]
        /\ sent'[Len(sent) + 1] = [chunk |-> chunk, due |-> wake, at |-> now]
    BY <1>3, <1>8, SentIs
  <2>3. chunk \in 0..Chunk /\ (chunk # Garbled => stc = dates[chunk]) /\ dates' = dates
    BY <1>8, <2>1 DEF PlayInv, InHand, recVars
  <2>4. PICK z, p, w \in Int : /\ z = wake - stc /\ p = Offset /\ w = Slack
                               /\ w >= 0 /\ z <= p + w /\ p <= z
    <3>1. Offset \in Int /\ Slack \in Nat /\ wake \in Int /\ stc \in Int
      BY OffsetTyped, SlackTyped DEF PlayInv
    <3> QED
      BY <2>1, <3>1 DEF FilePace
  <2>5. Offset' = p
    BY <2>1, <2>4
  <2>6. \A j \in 1..Len(sent) : sent[j].chunk # Garbled =>
           /\ Lag(sent[j]) <= p + w /\ Lag(sent[j]) <= z + w
           /\ Lag(sent'[j]) = Lag(sent[j])
    <3> SUFFICES ASSUME NEW j \in 1..Len(sent), sent[j].chunk # Garbled
                 PROVE  /\ Lag(sent[j]) <= p + w /\ Lag(sent[j]) <= z + w
                        /\ Lag(sent'[j]) = Lag(sent[j])
      OBVIOUS
    <3>1. PICK l \in Int : l = Lag(sent[j]) /\ l <= p + w
      BY <1>6, <2>4 DEF FileSent
    <3>2. l <= z + w
      BY <2>4, <3>1
    <3> QED
      BY <2>2, <3>1, <3>2
  <2>7. chunk # Garbled => Lag(sent'[Len(sent) + 1]) = z
    BY <2>2, <2>3, <2>4 DEF Lag
  <2>8. \A k \in 1..Len(sent') : k \in 1..Len(sent) \/ k = Len(sent) + 1
    BY <2>2
  <2>9. \A j \in 1..Len(sent') : sent'[j].chunk # Garbled => Lag(sent'[j]) <= p + w
    <3> SUFFICES ASSUME NEW j \in 1..Len(sent'), sent'[j].chunk # Garbled
                 PROVE  Lag(sent'[j]) <= p + w
      OBVIOUS
    <3>1. CASE j \in 1..Len(sent)
      BY <2>2, <2>6, <3>1
    <3>2. CASE j = Len(sent) + 1
      <4>1. chunk # Garbled
        BY <2>2, <3>2
      <4> QED
        BY <2>4, <2>7, <3>2, <4>1
    <3> QED
      BY <2>8, <3>1, <3>2
  <2>10. \A j, k \in 1..Len(sent') :
            j < k /\ sent'[j].chunk # Garbled /\ sent'[k].chunk # Garbled =>
                Lag(sent'[j]) <= Lag(sent'[k]) + w
    <3> SUFFICES ASSUME NEW j \in 1..Len(sent'), NEW k \in 1..Len(sent'), j < k,
                        sent'[j].chunk # Garbled, sent'[k].chunk # Garbled
                 PROVE  Lag(sent'[j]) <= Lag(sent'[k]) + w
      OBVIOUS
    <3>1. j \in 1..Len(sent)
      BY <2>2
    <3>2. CASE k \in 1..Len(sent)
      BY <2>2, <2>4, <2>6, <3>1, <3>2 DEF FileSent
    <3>3. CASE k = Len(sent) + 1
      <4>1. chunk # Garbled
        BY <2>2, <3>3
      <4>2. Lag(sent'[k]) = z
        BY <2>7, <3>3, <4>1
      <4>3. Lag(sent'[j]) <= z + w
        BY <2>2, <2>6, <3>1
      <4> QED
        BY <4>2, <4>3
    <3> QED
      BY <2>8, <3>2, <3>3
  <2>11. \A j \in 1..Len(sent') : Lag(sent[j])' = Lag(sent'[j])
    BY <2>3 DEF Lag
  <2> QED
    BY <1>3, <2>4, <2>5, <2>9, <2>10, <2>11 DEF FileSent
<1>9. ASSUME NEW i_pos \in Positions, dir_InitRead(i_pos) \/ file_InitRead(i_pos)
      PROVE  sent' = sent /\ base' = base
  <2>1. i_pos \in Int
    BY PlayerAssumption DEF PlayerAssumption
  <2> QED
    BY <1>9, <2>1, StartIs
<1>10. ASSUME sent' = sent, base' = base PROVE FileSent'
  <2>1. Offset' = Offset /\ Offset \in Int
    BY <1>10, OffsetTyped DEF Offset
  <2> QED
    BY <1>7, <1>10, <2>1
<1>11. CASE Waits
  <2>1. sent' = sent
    BY <1>11, WaitsIs
  <2>2. Offset' \in Int /\ (base # Unset => Offset <= Offset')
    BY <1>11, FileWaits
  <2>3. base = Unset => sent = <<>>
    BY DEF FilePace
  <2> QED
    BY <1>7, <2>1, <2>2, <2>3
<1> QED
  BY <1>8, <1>9, <1>10, <1>11, PlaySteps DEF playVars, Loop, ReadChunk, FileEnds, NextFile, Drop, Signal

(***************************************************************************)
(* The first half of Follows. *)
(***************************************************************************)
InOrder ==
    \A k \in DOMAIN sent : LET s == sent[k] date == dates[s.chunk] IN
          /\ s.due <= s.at /\ (~given.slow => s.at = s.due)
          /\ s.chunk # Garbled =>
                IF mode = "dir" THEN s.due - delay - date \in 0..MaxLateness
                ELSE \A j \in 1..k-1 : sent[j].chunk # Garbled =>
                        s.due - sent[j].due + Slack >= date - dates[sent[j].chunk]

(* So both kinds of player keep to the dates, at their pace.               *)
LEMMA SentInOrder ==
    ASSUME RecInv, PlayInv, Delays, DirSent, FileInv
    PROVE  InOrder
<1>1. dates \in Seq(Nat) /\ Chunk = Len(dates) /\ Chunk \in Nat
  BY DEF RecInv, RecTypes, Chunk
<1>2. DOMAIN sent = 1..Len(sent) /\ Len(sent) \in Nat
  BY LenProperties DEF PlayInv
<1>3. \A k \in 1..Len(sent) : sent[k].due \in Int /\ (sent[k].chunk # Garbled => dates[sent[k].chunk] \in Int)
  <2> TAKE k \in 1..Len(sent)
  <2>1. sent[k].chunk \in Nat /\ sent[k].due \in Int /\ sent[k].chunk <= Chunk
    BY SentTyped
  <2>2. sent[k].chunk # Garbled => sent[k].chunk \in 1..Len(dates)
    BY <1>1, <2>1 DEF Garbled
  <2> QED
    BY <1>1, <2>1, <2>2
<1>a. \A k \in 1..Len(sent) : Prompt(sent[k])
  BY DEF Delays
<1>4. CASE mode = "dir"
  BY <1>2, <1>a, <1>4 DEF DirSent, InStep, InOrder, Prompt
<1>5. CASE mode # "dir"
  <2> SUFFICES ASSUME NEW k \in 1..Len(sent), sent[k].chunk # Garbled,
                      NEW j \in 1..k-1, sent[j].chunk # Garbled
               PROVE  sent[k].due - sent[j].due + Slack >= dates[sent[k].chunk] - dates[sent[j].chunk]
    BY <1>2, <1>a, <1>5 DEF InOrder, Prompt
  <2>1. j \in 1..Len(sent) /\ j < k
    BY <1>2
  <2>2. PICK a, b, c, d, w \in Int : a = sent[k].due /\ b = sent[j].due /\ c = dates[sent[k].chunk]
                                     /\ d = dates[sent[j].chunk] /\ w = Slack
    <3>1. /\ sent[k].due \in Int /\ dates[sent[k].chunk] \in Int
          /\ sent[j].due \in Int /\ dates[sent[j].chunk] \in Int /\ Slack \in Int
      BY <1>3, <2>1, SlackTyped
    <3> QED
      BY <3>1
  <2>3. b - d <= a - c + w
    BY <1>5, <2>1, <2>2 DEF FileInv, FileSent, Lag
  <2>4. a - b + w >= c - d
    BY <2>3
  <2> QED
    BY <2>2, <2>4
<1> QED
  BY <1>4, <1>5

(***************************************************************************)
(* Dates and the files of their periods.                                   *)
(***************************************************************************)

(* Periods.                                                                *)
LEMMA DivIs ==
    ASSUME NEW x \in Nat, NEW r \in Nat \ {0}
    PROVE  x \div r \in Nat /\ r * (x \div r) <= x /\ x < r * (x \div r) + r
<1>1. PICK q \in Int, m \in Int : q = x \div r /\ m = x % r
  OBVIOUS
<1>2. x = r * q + m /\ 0 <= m /\ m < r
  BY <1>1, SMTT(30)
<1>3. q >= 0
  BY <1>1, SMTT(30)
<1> QED
  BY <1>1, <1>2, <1>3

(* A period is not after one that starts before it ends.                   *)
LEMMA Quotients ==
    ASSUME NEW r \in Nat \ {0}, NEW p \in Int, NEW q \in Int, r * p < r * q + r
    PROVE  p <= q
<1>1. SUFFICES ASSUME p >= q + 1 PROVE FALSE
  OBVIOUS
<1>2. PICK d \in Nat : p = q + 1 + d
  <2>1. p - q - 1 \in Nat /\ p = q + 1 + (p - q - 1)
    BY <1>1
  <2> QED
    BY <2>1
<1>3. r * p = r * q + r + r * d
  BY <1>2, SMTT(30)
<1>4. r * d \in Nat
  BY SMTT(30)
<1>5. PICK a \in Int, b \in Int, c \in Int : a = r * p /\ b = r * q /\ c = r * d
  OBVIOUS
<1> QED
  BY <1>3, <1>4, <1>5

(* Dates that are w periods apart are in files that are at most w apart,   *)
LEMMA DivFar ==
    ASSUME NEW x \in Nat, NEW y \in Nat, NEW r \in Nat \ {0}, NEW w \in Nat, y <= x + w * r
    PROVE  y \div r <= x \div r + w
<1>1. PICK p \in Nat, q \in Nat : p = y \div r /\ q = x \div r
  BY DivIs
<1>2. r * p <= y /\ x < r * q + r
  BY <1>1, DivIs
<1>3. PICK a \in Int, b \in Int, c \in Int : a = r * p /\ b = r * q /\ c = w * r
  OBVIOUS
<1>4. r * (q + w) = b + c
  BY <1>3, SMTT(30)
<1>5. r * p < r * (q + w) + r
  BY <1>2, <1>3, <1>4
<1>6. p <= q + w
  BY <1>5, Quotients
<1> QED
  BY <1>1, <1>6

(* and the file of a date follows the date.                                *)
LEMMA DivNear ==
    ASSUME NEW x \in Nat, NEW y \in Nat, NEW r \in Nat \ {0}
    PROVE  /\ y <= x => y \div r <= x \div r
           /\ y <= x + r => y \div r <= x \div r + 1
<1>1. y <= x => y \div r <= x \div r + 0
  <2>1. 0 * r = 0
    OBVIOUS
  <2> QED
    BY <2>1, DivFar
<1>2. y <= x + r => y \div r <= x \div r + 1
  <2>1. 1 * r = r
    OBVIOUS
  <2> QED
    BY <2>1, DivFar
<1>3. x \div r \in Nat /\ y \div r \in Nat
  BY DivIs
<1> QED
  BY <1>1, <1>2, <1>3

(***************************************************************************)
(* An undisturbed recorder of a directory: where its chunks are.           *)
(***************************************************************************)

-----------------------------------------------------------------------------
(* A recorder that nothing disturbs: chunk c is in the file of its date,   *)
(* in the order received.                                                  *)
Undisturbed == mode = "dir" /\ faults = {}
FileOf(c) == dates[c] \div Rotate
Begin(n) == disk[n].ts[1] - 1

WholeFile(n) ==
    /\ n <= recFile /\ Len(disk[n].ts) > 0
    /\ \A k \in 1..Len(disk[n].ts) :
          disk[n].ts[k] = Begin(n) + k /\ disk[n].ts[k] \in 1..Chunk /\ FileOf(disk[n].ts[k]) = n
    /\ n # recFile => Len(disk[n].aux) = Len(disk[n].ts)
Whole ==
    /\ rec = "down" => Chunk = 0
    /\ Chunk = 0 => DOMAIN disk = {} /\ recFile = NoFile
    /\ Chunk > 0 => recFile = FileOf(Chunk) /\ Begin(recFile) + Len(disk[recFile].ts) = Chunk
    /\ \A n \in DOMAIN disk : WholeFile(n)
    /\ \A c \in 1..Chunk :
          FileOf(c) \in DOMAIN disk /\ c - Begin(FileOf(c)) \in 1..Len(disk[FileOf(c)].ts)

(* Its steps.                                                              *)
LEMMA UndisturbedSteps ==
    ASSUME RecInv, [Next]_vars, Undisturbed'
    PROVE  /\ Undisturbed
           /\ \/ RecStart \/ WriteChunk \/ WriteStamp \/ Expire(Wanted)
              \/ Tick /\ UNCHANGED recVars
              \/ UNCHANGED <<now, recVars>>
<1>1. mode' = mode
  BY LaterStep DEF Later, mode
<1>2. ~RecStop /\ ~Killed /\ ~DiskFull /\ ~PowerCut
  <2>1. ASSUME NEW f, Happens(f) PROVE FALSE
    BY <2>1 DEF Happens, Undisturbed
  <2> QED
    BY <2>1, Zenon DEF RecStop, Killed, DiskFull, PowerCut
<1>3. CASE RecStart \/ WriteChunk \/ WriteStamp \/ Expire(Wanted)
  BY <1>1, <1>3 DEF RecStart, WriteChunk, WriteStamp, Expire, Undisturbed
<1>4. CASE UNCHANGED recVars
  <2>1. Undisturbed
    BY <1>1, <1>4 DEF Undisturbed, recVars
  <2>2. Tick \/ UNCHANGED <<now, recVars>> \/ RecStart \/ WriteChunk \/ WriteStamp \/ Expire(Wanted)
    BY <1>2, <1>4 DEF Next, vars, Record, RecorderStep, RecorderFault, Clean, Play, Watch
  <2> QED
    BY <1>4, <2>1, <2>2
<1> QED
  BY <1>2, <1>3, <1>4, RecSteps DEF recVars

(* The types of all this: dates grow, and files with them.                 *)
LEMMA WholeTyped ==
    ASSUME RecInv, Undisturbed, Whole
    PROVE  /\ now \in Nat /\ Chunk \in Nat /\ Chunk = Len(dates) /\ Len(held) \in Nat
           /\ Rotate \in Nat \ {0} /\ DOMAIN disk \subseteq Nat
           /\ \A c \in 1..Chunk : dates[c] \in Nat /\ dates[c] > 0 /\ dates[c] <= now /\ FileOf(c) \in Nat
           /\ \A b, c \in 1..Chunk : b < c => dates[b] < dates[c] /\ FileOf(b) <= FileOf(c)
           /\ \A n \in DOMAIN disk : Begin(n) \in Nat /\ disk[n].ts \in Seq(Nat) /\ Len(disk[n].ts) \in Nat
                                     /\ disk[n].aux \in Seq(Nat) /\ Len(disk[n].aux) \in Nat
           /\ Chunk > 0 => recFile \in DOMAIN disk
<1>1. /\ RecTypes /\ DatesGrow /\ now \in Nat /\ Chunk \in Nat /\ Chunk = Len(dates) /\ Len(held) \in Nat
      /\ Rotate \in Nat \ {0} /\ DOMAIN disk \subseteq Nat
  BY RotateAssumption DEF RotateAssumption, RecInv, RecTypes, Chunk
<1>2. ASSUME NEW c \in 1..Chunk PROVE dates[c] \in Nat /\ dates[c] > 0 /\ dates[c] <= now /\ FileOf(c) \in Nat
  <2>1. dates[c] \in 1..now
    BY <1>1 DEF DatesGrow
  <2>2. dates[c] \in Nat /\ dates[c] > 0 /\ dates[c] <= now
    BY <1>1, <2>1
  <2> QED
    BY <1>1, <2>2, DivIs DEF FileOf
<1>3. ASSUME NEW b \in 1..Chunk, NEW c \in 1..Chunk, b < c PROVE dates[b] < dates[c] /\ FileOf(b) <= FileOf(c)
  <2>1. dates[b] < dates[c]
    BY <1>1, <1>3 DEF DatesGrow
  <2>2. dates[b] <= dates[c] /\ dates[b] \in Nat /\ dates[c] \in Nat
    BY <1>2, <2>1
  <2> QED
    BY <1>1, <2>1, <2>2, DivNear DEF FileOf
<1>4. ASSUME NEW n \in DOMAIN disk
      PROVE  Begin(n) \in Nat /\ disk[n].ts \in Seq(Nat) /\ Len(disk[n].ts) \in Nat
             /\ disk[n].aux \in Seq(Nat) /\ Len(disk[n].aux) \in Nat
  <2>1. disk[n].ts \in Seq(Nat) /\ disk[n].aux \in Seq(Nat)
    BY <1>1, StampsTyped
  <2>2. 1 \in 1..Len(disk[n].ts)
    BY <2>1 DEF Whole, WholeFile
  <2>3. disk[n].ts[1] \in 1..Chunk
    BY <2>2 DEF Whole, WholeFile
  <2> QED
    BY <1>1, <2>1, <2>3 DEF Begin
<1>5. Chunk > 0 => recFile \in DOMAIN disk
  BY <1>1 DEF Whole
<1> QED
  BY <1>1, <1>2, <1>3, <1>4, <1>5

(* A chunk that is written goes to the file of its date; if that is a new  *)
(* one the file before it is complete.                                     *)
LEMMA ChunkGoes ==
    ASSUME RecInv, Undisturbed, Whole, WriteChunk, NEW n, n = now \div Rotate
    PROVE  /\ rec = "idle" /\ rec' = "stamp" /\ recFile' = n /\ n \in Nat
           /\ UNCHANGED <<now, nextFlush>> /\ faults' = faults
           /\ Chunk' = Chunk + 1 /\ dates'[Chunk + 1] = now
           /\ \A c \in 1..Chunk : dates'[c] = dates[c] /\ dates[c] < now
           /\ DOMAIN disk' = DOMAIN disk \union {n}
           /\ disk'[n].mtime = now
           /\ \A k \in DOMAIN disk : k \notin {n, recFile} => disk'[k] = disk[k]
           /\ n = recFile =>
                /\ n \in DOMAIN disk /\ held' = held
                /\ disk'[n].ts = Append(disk[n].ts, Chunk + 1)
                /\ disk'[n].aux = disk[n].aux /\ disk'[n].linked = disk[n].linked
           /\ n # recFile =>
                /\ n \notin DOMAIN disk /\ held' = <<>> /\ (Chunk > 0 => recFile < n)
                /\ Len(disk'[n].ts) = 1 /\ disk'[n].ts[1] = Chunk + 1
                /\ Len(disk'[n].aux) = 0 /\ disk'[n].linked
                /\ Chunk > 0 =>
                     /\ disk'[recFile].ts = disk[recFile].ts /\ disk'[recFile].aux = Stamps(recFile)
                     /\ disk'[recFile].linked = disk[recFile].linked /\ disk'[recFile].mtime = disk[recFile].mtime
<1>1. RecTypes /\ FilesSound /\ DatesGrow /\ OpenFile
  BY DEF RecInv
<1>2. /\ rec = "idle" /\ rec' = "stamp" /\ NewChunk /\ dates' = Append(dates, now)
      /\ UNCHANGED <<now, nextFlush>> /\ faults' = faults
  BY DEF WriteChunk
<1>3. /\ Chunk' = Chunk + 1 /\ dates'[Chunk + 1] = now
      /\ \A c \in 1..Chunk : dates'[c] = dates[c] /\ dates[c] < now
  <2>1. /\ Len(dates') = Len(dates) + 1 /\ Chunk' = Chunk + 1
        /\ \A k \in 1..Len(dates) : dates'[k] = dates[k]
        /\ dates'[Chunk + 1] = now
    BY <1>1, <1>2, Received
  <2>2. \A c \in 1..Chunk : dates[c] < now
    <3> SUFFICES ASSUME NEW c \in 1..Chunk PROVE dates[c] < now
      OBVIOUS
    <3>1. Chunk \in 1..Chunk /\ dates[Chunk] < now /\ dates[Chunk] \in Nat /\ dates[c] \in Nat /\ now \in Nat
      BY <1>2, WholeTyped DEF NewChunk
    <3>2. ASSUME c # Chunk PROVE dates[c] < dates[Chunk]
      <4>1. \A b, e \in 1..Chunk : b < e => dates[b] < dates[e]
        BY <1>1 DEF DatesGrow
      <4>2. Chunk \in Nat
        BY WholeTyped
      <4>3. c < Chunk
        BY <3>2, <4>2
      <4> QED
        BY <3>1, <4>1, <4>3
    <3> QED
      BY <3>1, <3>2
  <2> QED
    BY <2>1, <2>2, WholeTyped
<1>4. n = NumberNow /\ n \in Nat
  <2>1. now \in Nat \ {0}
    BY <1>1 DEF RecTypes
  <2> QED
    BY <2>1, NumberNowIs, DivIs, RotateAssumption DEF RotateAssumption, Undisturbed
<1>5. Chunk > 0 /\ n # recFile => recFile < n
  <2> SUFFICES ASSUME Chunk > 0, n # recFile PROVE recFile < n
    OBVIOUS
  <2>1. Chunk \in 1..Chunk
    BY WholeTyped
  <2>2. dates[Chunk] <= now /\ dates[Chunk] \in Nat /\ now \in Nat /\ Rotate \in Nat \ {0}
    BY <2>1, WholeTyped
  <2>3. dates[Chunk] \div Rotate <= n
    BY <2>2, DivNear
  <2>4. recFile = dates[Chunk] \div Rotate /\ recFile \in Nat
    BY <2>1, WholeTyped DEF Whole, FileOf
  <2> QED
    BY <1>4, <2>3, <2>4
<1>6. n # recFile => n \notin DOMAIN disk
  <2> SUFFICES ASSUME n # recFile, n \in DOMAIN disk PROVE FALSE
    OBVIOUS
  <2>1. Chunk > 0 /\ n <= recFile
    BY WholeTyped DEF Whole, WholeFile
  <2>2. recFile < n /\ recFile \in Nat
    BY <1>5, <2>1, WholeTyped
  <2> QED
    BY <1>4, <2>1, <2>2
<1>7. PICK f, d : f = Target(n) /\ d = Closed(n)
  OBVIOUS
<1>8. f \in PairOfFiles /\ ~f.tsTorn /\ (n = recFile => n \in DOMAIN disk /\ f = disk[n])
  BY <1>2, <1>4, <1>7, TargetIs
<1>9. PICK g : g = [f EXCEPT !.ts = Append(@, Chunk + 1)]
  OBVIOUS
<1>10. /\ disk' = With(d, n, g) /\ recFile' = n
       /\ held' = IF n = recFile THEN held ELSE <<>>
  BY <1>4, <1>7, <1>8, <1>9 DEF WriteChunk
<1>11. PICK e : e = With(d, n, g) /\ e = disk'
  BY <1>10
<1>12. /\ DOMAIN e = DOMAIN d \union {n} /\ e[n] = [g EXCEPT !.mtime = ChangedAt(d, n, g)]
       /\ \A k \in DOMAIN d : k # n => e[k] = d[k]
  BY <1>11 DEF With
<1>13. DOMAIN d = DOMAIN disk /\ \A k \in DOMAIN disk : d[k].ts = disk[k].ts
  BY <1>1, <1>7, ClosedIs
<1>14. g.ts = Append(f.ts, Chunk + 1) /\ g.aux = f.aux /\ g.linked = f.linked
       /\ e[n].ts = g.ts /\ e[n].aux = g.aux /\ e[n].linked = g.linked /\ e[n].mtime = now
  <2>1. g.ts = Append(f.ts, Chunk + 1) /\ g.aux = f.aux /\ g.linked = f.linked
    BY <1>8, <1>9 DEF PairOfFiles
  <2>2. ASSUME n \in DOMAIN d PROVE d[n].ts # g.ts
    <3>1. d[n].ts = f.ts /\ f.ts \in Seq(Nat)
      BY <1>6, <1>8, <1>13, <2>2 DEF PairOfFiles
    <3>2. PICK ts \in Seq(Nat), c \in Nat : ts = f.ts /\ c = Chunk + 1
      BY <3>1, WholeTyped
    <3>3. Len(Append(ts, c)) = Len(ts) + 1 /\ Len(ts) \in Nat
      BY AppendProperties, LenProperties
    <3> QED
      BY <2>1, <3>1, <3>2, <3>3
  <2>3. ChangedAt(d, n, g) = now
    BY <2>2 DEF ChangedAt
  <2> QED
    BY <1>8, <1>9, <1>12, <2>1, <2>3 DEF PairOfFiles
<1>15. \A k \in DOMAIN disk : k # recFile => d[k] = disk[k]
  BY <1>7 DEF Closed, With
<1>16. /\ DOMAIN disk' = DOMAIN disk \union {n} /\ disk'[n].mtime = now
       /\ disk'[n].ts = Append(f.ts, Chunk + 1) /\ disk'[n].aux = f.aux /\ disk'[n].linked = f.linked
  BY <1>11, <1>12, <1>14, <1>13
<1>17. \A k \in DOMAIN disk : k \notin {n, recFile} => disk'[k] = disk[k]
  BY <1>11, <1>12, <1>13, <1>15
<1>18. n = recFile =>
         /\ n \in DOMAIN disk /\ held' = held
         /\ disk'[n].ts = Append(disk[n].ts, Chunk + 1)
         /\ disk'[n].aux = disk[n].aux /\ disk'[n].linked = disk[n].linked
  BY <1>8, <1>10, <1>16
<1>19. ASSUME n # recFile
       PROVE  /\ n \notin DOMAIN disk /\ held' = <<>> /\ (Chunk > 0 => recFile < n)
              /\ Len(disk'[n].ts) = 1 /\ disk'[n].ts[1] = Chunk + 1
              /\ Len(disk'[n].aux) = 0 /\ disk'[n].linked
              /\ Chunk > 0 =>
                   /\ disk'[recFile].ts = disk[recFile].ts /\ disk'[recFile].aux = Stamps(recFile)
                   /\ disk'[recFile].linked = disk[recFile].linked /\ disk'[recFile].mtime = disk[recFile].mtime
  <2>1. f = NoChunks
    BY <1>6, <1>7, <1>19 DEF Target, OpenForWriting, Here
  <2>2. f.ts = <<>> /\ f.aux = <<>> /\ f.linked
    BY <2>1 DEF NoChunks
  <2>3. /\ Len(Append(f.ts, Chunk + 1)) = 1 /\ Append(f.ts, Chunk + 1)[1] = Chunk + 1
        /\ Len(f.aux) = 0
    BY <2>2, EmptySeq
  <2>4. ASSUME Chunk > 0
        PROVE  /\ e[recFile].ts = disk[recFile].ts /\ e[recFile].aux = Stamps(recFile)
               /\ e[recFile].linked = disk[recFile].linked /\ e[recFile].mtime = disk[recFile].mtime
    <3>1. recFile \in DOMAIN disk /\ recFile # NoFile
      BY <2>4, WholeTyped DEF NoFile
    <3>2. e[recFile] = d[recFile]
      BY <1>12, <1>13, <1>19, <3>1
    <3>3. d[recFile].ts = disk[recFile].ts /\ d[recFile].aux = Stamps(recFile) /\ d[recFile].linked = disk[recFile].linked
      BY <1>1, <1>7, <1>19, <3>1, ClosedIs
    <3>4. d = With(disk, recFile, Flushed(disk[recFile], held))
      BY <1>7, <1>19, <3>1 DEF Closed
    <3>5. PICK h : h = Flushed(disk[recFile], held) /\ h = [disk[recFile] EXCEPT !.aux = @ \o held]
      BY DEF Flushed
    <3>6. d[recFile] = [h EXCEPT !.mtime = ChangedAt(disk, recFile, h)]
      BY <3>1, <3>4, <3>5 DEF With
    <3>7. d[recFile].mtime = disk[recFile].mtime
      <4>1. disk[recFile] \in PairOfFiles
        BY <1>1, <3>1, StampsTyped
      <4>2. h.ts = disk[recFile].ts /\ h.tsTorn = disk[recFile].tsTorn
        BY <3>5, <4>1 DEF PairOfFiles
      <4>3. ChangedAt(disk, recFile, h) = disk[recFile].mtime
        BY <3>1, <4>2 DEF ChangedAt
      <4> QED
        BY <3>5, <3>6, <4>1, <4>3 DEF PairOfFiles
    <3> QED
      BY <3>2, <3>3, <3>7
  <2>5. n \notin DOMAIN disk /\ held' = <<>> /\ (Chunk > 0 => recFile < n)
    BY <1>5, <1>6, <1>10, <1>19
  <2>6. /\ Len(disk'[n].ts) = 1 /\ disk'[n].ts[1] = Chunk + 1
        /\ Len(disk'[n].aux) = 0 /\ disk'[n].linked
    BY <1>16, <2>2, <2>3
  <2> QED
    BY <1>11, <2>4, <2>5, <2>6
<1>20. /\ rec = "idle" /\ rec' = "stamp" /\ recFile' = n /\ n \in Nat
       /\ UNCHANGED <<now, nextFlush>> /\ faults' = faults
  BY <1>2, <1>4, <1>10
<1>21. DOMAIN disk' = DOMAIN disk \union {n} /\ disk'[n].mtime = now
  BY <1>16
<1> QED
  BY <1>3, <1>17, <1>18, <1>19, <1>20, <1>21, Zenon

(* Its stamp goes to the buffer, or with the buffer to the file.           *)
LEMMA StampGoes ==
    ASSUME RecInv, Undisturbed, Whole, WriteStamp
    PROVE  /\ rec = "stamp" /\ rec' = "idle" /\ Chunk > 0 /\ UNCHANGED <<now, dates, recFile, faults>>
           /\ DOMAIN disk' = DOMAIN disk
           /\ \A k \in DOMAIN disk : disk'[k].ts = disk[k].ts /\ disk'[k].linked = disk[k].linked
           /\ \A k \in DOMAIN disk : k # recFile => disk'[k] = disk[k]
           /\ \/ /\ nextFlush # 0 /\ nextFlush <= dates[Chunk] /\ nextFlush' = dates[Chunk] + FileFlush
                 /\ held' = <<>> /\ disk'[recFile].mtime = disk[recFile].mtime
                 /\ Len(disk'[recFile].aux) = Len(disk[recFile].ts)
              \/ /\ disk' = disk /\ Len(held') = Len(held) + 1
                 /\ IF nextFlush = 0 THEN nextFlush' = dates[Chunk] + FileFlush
                    ELSE nextFlush' = nextFlush /\ ~(nextFlush <= dates[Chunk])
<1>1. RecTypes /\ OpenFile
  BY DEF RecInv
<1>2. rec = "stamp" /\ rec' = "idle" /\ Chunk > 0 /\ UNCHANGED <<now, dates, recFile, faults>>
  BY <1>1 DEF WriteStamp, OpenFile
<1>3. /\ recFile \in DOMAIN disk /\ disk[recFile] \in PairOfFiles /\ now \in Nat
      /\ Len(disk[recFile].ts) = Len(Stamps(recFile)) + 1
  BY <1>1, <1>2, WholeTyped, StampsTyped DEF OpenFile
<1>4. PICK d \in Nat : d = dates[Chunk]
  <2>1. Chunk \in 1..Chunk
    BY <1>2, WholeTyped
  <2> QED
    BY <2>1, WholeTyped
<1>5. PICK aux \in Seq(Nat), h \in Seq(Nat) : aux = disk[recFile].aux /\ h = held
  BY <1>1, <1>3 DEF RecTypes, PairOfFiles
<1>6. Stamps(recFile) = aux \o h /\ Len(aux \o h) = Len(aux) + Len(h)
  BY <1>1, <1>3, <1>5, StampsTyped, ConcatProperties
<1>7. Append(h, d) \in Seq(Nat) /\ Len(Append(h, d)) = Len(h) + 1
  BY AppendProperties
<1>8. PICK a \in Seq(Nat) : a = aux \o Append(h, d) /\ Len(a) = Len(aux) + Len(h) + 1
  <2>1. /\ aux \o Append(h, d) \in Seq(Nat)
        /\ Len(aux \o Append(h, d)) = Len(aux) + Len(Append(h, d))
    BY <1>7, ConcatProperties
  <2>2. PICK m \in Nat, n \in Nat : m = Len(aux) /\ n = Len(h)
    BY <1>5, LenProperties
  <2>3. m + (n + 1) = m + n + 1
    OBVIOUS
  <2> QED
    BY <1>7, <2>1, <2>2, <2>3
<1>9. CASE nextFlush # 0 /\ nextFlush <= dates[Chunk]
  <2>1. /\ held' = <<>> /\ nextFlush' = dates[Chunk] + FileFlush
        /\ disk' = With(disk, recFile, Flushed(disk[recFile], Append(held, dates[Chunk])))
    BY <1>9 DEF WriteStamp
  <2>2. PICK g : g = [disk[recFile] EXCEPT !.aux = a]
    OBVIOUS
  <2>3. g = Flushed(disk[recFile], Append(held, dates[Chunk]))
    BY <1>4, <1>5, <1>8, <2>2 DEF Flushed
  <2>4. g \in PairOfFiles /\ g.ts = disk[recFile].ts /\ g.aux = a /\ g.linked = disk[recFile].linked
    BY <1>3, <2>2 DEF PairOfFiles
  <2>5. PICK e : e = With(disk, recFile, g) /\ e = disk'
    BY <2>1, <2>3
  <2>6. /\ DOMAIN e = DOMAIN disk /\ e[recFile] = [g EXCEPT !.mtime = ChangedAt(disk, recFile, g)]
        /\ \A k \in DOMAIN disk : k # recFile => e[k] = disk[k]
    BY <1>3, <2>5 DEF With
  <2>7. /\ e[recFile].ts = g.ts /\ e[recFile].aux = a /\ e[recFile].linked = g.linked
        /\ e[recFile].mtime = disk[recFile].mtime
    <3>1. g.tsTorn = disk[recFile].tsTorn
      BY <1>3, <2>2 DEF PairOfFiles
    <3>2. ChangedAt(disk, recFile, g) = disk[recFile].mtime
      BY <1>3, <2>4, <3>1 DEF ChangedAt
    <3> QED
      BY <2>4, <2>6, <3>2 DEF PairOfFiles
  <2>8. Len(a) = Len(disk[recFile].ts)
    <3>1. PICK m \in Nat, n \in Nat : m = Len(aux) /\ n = Len(h)
      BY <1>5, LenProperties
    <3> QED
      BY <1>3, <1>6, <1>8, <3>1
  <2> QED
    BY <1>2, <1>9, <2>1, <2>4, <2>5, <2>6, <2>7, <2>8
<1>10. CASE ~(nextFlush # 0 /\ nextFlush <= dates[Chunk])
  <2>1. /\ held' = Append(held, dates[Chunk]) /\ disk' = disk
        /\ nextFlush' = IF nextFlush = 0 THEN dates[Chunk] + FileFlush ELSE nextFlush
    BY <1>10 DEF WriteStamp
  <2>2. Len(held') = Len(held) + 1
    BY <1>4, <1>5, <1>7, <2>1
  <2> QED
    BY <1>2, <1>10, <2>1, <2>2
<1> QED
  BY <1>9, <1>10

(* Cleaning takes names.                                                   *)
LEMMA CleanGoes ==
    ASSUME RecInv, Expire(Wanted)
    PROVE  /\ UNCHANGED <<now, given, dates, rec, recFile, held, nextFlush, faults>>
           /\ DOMAIN disk' = DOMAIN disk
           /\ \A k \in DOMAIN disk :
                 /\ disk'[k].ts = disk[k].ts /\ disk'[k].aux = disk[k].aux /\ disk'[k].mtime = disk[k].mtime
                 /\ disk[k].linked /\ k \notin Expired(Wanted) => disk'[k].linked
<1>1. disk' = [n \in DOMAIN disk |-> [disk[n] EXCEPT !.linked = @ /\ n \notin Expired(Wanted)]]
  BY DEF Expire
<1>2. ASSUME NEW k \in DOMAIN disk
      PROVE  /\ disk'[k].ts = disk[k].ts /\ disk'[k].aux = disk[k].aux /\ disk'[k].mtime = disk[k].mtime
             /\ disk[k].linked /\ k \notin Expired(Wanted) => disk'[k].linked
  <2>1. PICK f \in PairOfFiles : f = disk[k]
    BY DEF RecInv, RecTypes
  <2>2. disk'[k] = [f EXCEPT !.linked = f.linked /\ k \notin Expired(Wanted)]
    BY <1>1, <2>1
  <2>3. /\ disk'[k].ts = f.ts /\ disk'[k].aux = f.aux /\ disk'[k].mtime = f.mtime
        /\ disk'[k].linked = (f.linked /\ k \notin Expired(Wanted))
    BY <2>2 DEF PairOfFiles
  <2> QED
    BY <2>1, <2>3
<1> QED
  BY <1>1, <1>2 DEF Expire

(* It stays when no chunk comes, and no stamp to a file that is closed.    *)
LEMMA WholeSame ==
    ASSUME RecInv, Undisturbed, Whole, dates' = dates, recFile' = recFile, rec' = "down" => rec = "down",
           DOMAIN disk' = DOMAIN disk,
           \A n \in DOMAIN disk : disk'[n].ts = disk[n].ts /\ (n # recFile => disk'[n].aux = disk[n].aux)
    PROVE  Whole'
<1>1. Chunk' = Chunk /\ (\A c : FileOf(c)' = FileOf(c)) /\ (\A n \in DOMAIN disk : Begin(n)' = Begin(n))
  BY DEF Chunk, FileOf, Begin
<1>2. ASSUME NEW n \in DOMAIN disk PROVE WholeFile(n)'
  <2>1. WholeFile(n)
    BY DEF Whole
  <2> QED
    BY <1>1, <2>1 DEF WholeFile
<1>3. \A c \in 1..Chunk : FileOf(c) \in DOMAIN disk' /\ c - Begin(FileOf(c)) \in 1..Len(disk'[FileOf(c)].ts)
  BY DEF Whole
<1>4. \A c \in 1..Chunk' : FileOf(c)' \in DOMAIN disk' /\ c - Begin(FileOf(c)') \in 1..Len(disk'[FileOf(c)'].ts)
  BY <1>1, <1>3
<1>5. \A c \in 1..Chunk' : Begin(FileOf(c))' = Begin(FileOf(c)')
  BY <1>1 DEF Begin, Whole
<1>6. Chunk' > 0 => recFile' = FileOf(Chunk)' /\ Begin(recFile)' + Len(disk'[recFile'].ts) = Chunk'
  <2>1. Chunk > 0 => recFile \in DOMAIN disk
    BY WholeTyped
  <2> QED
    BY <1>1, <2>1 DEF Whole, FileOf
<1> QED
  BY <1>1, <1>2, <1>4, <1>5, <1>6 DEF Whole

(* It stays when a chunk comes.                                            *)
LEMMA WholeChunk ==
    ASSUME RecInv, Undisturbed, Whole, WriteChunk
    PROVE  Whole'
<1>1. PICK n, e, es, C, B : /\ n = now \div Rotate /\ e = disk' /\ es = dates' /\ C = Chunk + 1
                            /\ B = [k \in DOMAIN e |-> e[k].ts[1] - 1]
  OBVIOUS
<1>2. /\ rec' # "down" /\ recFile' = n /\ n \in Nat /\ rec = "idle"
      /\ Chunk' = C /\ es[C] = now /\ \A c \in 1..Chunk : es[c] = dates[c]
      /\ DOMAIN e = DOMAIN disk \union {n}
      /\ \A k \in DOMAIN disk : k \notin {n, recFile} => e[k] = disk[k]
  BY <1>1, ChunkGoes
<1>3. /\ Chunk \in Nat /\ Len(held) \in Nat /\ \A c \in 1..Chunk : FileOf(c) \in Nat
      /\ \A k \in DOMAIN disk : Begin(k) \in Nat /\ disk[k].ts \in Seq(Nat) /\ Len(disk[k].ts) \in Nat
      /\ Chunk > 0 => recFile \in DOMAIN disk
      /\ DOMAIN disk \subseteq Nat
  BY WholeTyped
<1>4. C \in Nat /\ C = Chunk + 1 /\ \A c \in 1..C : c \in 1..Chunk \/ c = C
  BY <1>1, <1>3
<1>5. es[C] \div Rotate = n /\ \A c \in 1..Chunk : es[c] \div Rotate = FileOf(c)
  BY <1>1, <1>2 DEF FileOf
<1>6. ASSUME NEW k \in DOMAIN disk, k # n
      PROVE  /\ e[k].ts = disk[k].ts /\ B[k] = Begin(k)
             /\ Len(e[k].aux) = Len(e[k].ts) /\ k < n
  <2>1. Chunk > 0
    BY <1>3, <1>6 DEF Whole
  <2>2. e[k].ts = disk[k].ts
    BY <1>1, <1>2, <1>6, <2>1, ChunkGoes
  <2>3. Len(e[k].aux) = Len(e[k].ts)
    <3>1. CASE k = recFile
      <4>1. e[k].aux = Stamps(recFile)
        BY <1>1, <1>6, <2>1, <3>1, ChunkGoes
      <4>2. Len(disk[recFile].ts) = Len(Stamps(recFile)) + 0 /\ Stamps(recFile) \in Seq(Nat)
        <5>1. recFile # NoFile /\ RecTypes /\ OpenFile
          BY <1>3, <2>1 DEF NoFile, RecInv
        <5> QED
          BY <1>2, <1>3, <2>1, <5>1, StampsTyped DEF OpenFile
      <4>3. PICK s \in Nat : s = Len(Stamps(recFile))
        BY <4>2, LenProperties
      <4> QED
        BY <2>2, <3>1, <4>1, <4>2, <4>3
    <3>2. CASE k # recFile
      <4>1. e[k] = disk[k]
        BY <1>2, <1>6, <3>2
      <4> QED
        BY <1>6, <2>2, <3>2, <4>1 DEF Whole, WholeFile
    <3> QED
      BY <3>1, <3>2
  <2>4. k < n
    <3>1. k <= recFile /\ recFile \in Nat /\ k \in Nat
      BY <1>3, <1>6, <2>1 DEF Whole, WholeFile
    <3>2. n # recFile => recFile < n
      BY <1>1, <2>1, ChunkGoes
    <3> QED
      BY <1>2, <1>6, <3>1, <3>2
  <2>5. B[k] = Begin(k)
    <3>1. k \in DOMAIN e
      BY <1>2, <1>6
    <3> QED
      BY <1>1, <2>2, <3>1 DEF Begin
  <2> QED
    BY <2>2, <2>3, <2>4, <2>5
<1>7. n \in DOMAIN e /\ B[n] = e[n].ts[1] - 1
  BY <1>1, <1>2
<1>8. /\ Len(e[n].ts) > 0 /\ B[n] + Len(e[n].ts) = C /\ Len(e[n].ts) \in Nat /\ B[n] \in Nat
      /\ \A k \in 1..Len(e[n].ts) :
            e[n].ts[k] = B[n] + k /\ e[n].ts[k] \in 1..C /\ es[e[n].ts[k]] \div Rotate = n
      /\ n \in DOMAIN disk => B[n] = Begin(n) /\ Len(disk[n].ts) <= Len(e[n].ts)
  <2>1. CASE n = recFile
    <3>1. n \in DOMAIN disk /\ e[n].ts = Append(disk[n].ts, C)
      BY <1>1, <2>1, ChunkGoes
    <3>2. PICK ts \in Seq(Nat), m \in Nat : ts = disk[n].ts /\ m = Len(ts)
      BY <1>3, <3>1
    <3>3. PICK b \in Nat : b = Begin(n) /\ b = ts[1] - 1
      BY <1>3, <3>1, <3>2 DEF Begin
    <3>4. /\ Len(Append(ts, C)) = m + 1 /\ Append(ts, C)[m + 1] = C
          /\ \A k \in 1..m : Append(ts, C)[k] = ts[k]
      BY <1>4, <3>2, AppendProperties
    <3>5. PICK new : new = e[n].ts /\ new = Append(ts, C)
      BY <3>1, <3>2
    <3>6. WholeFile(n) /\ Chunk > 0
      BY <1>3, <3>1 DEF Whole
    <3>7. m > 0 /\ b + m = Chunk
      <4>1. Len(disk[n].ts) > 0
        BY <3>6 DEF WholeFile
      <4>2. Begin(n) + Len(disk[n].ts) = Chunk
        BY <2>1, <3>6 DEF Whole
      <4> QED
        BY <3>2, <3>3, <4>1, <4>2
    <3>8. B[n] = b
      <4>1. new[1] = ts[1]
        BY <3>4, <3>5, <3>7
      <4> QED
        BY <1>7, <3>3, <3>5, <4>1
    <3>9. ASSUME NEW k \in 1..m + 1
          PROVE  new[k] = b + k /\ new[k] \in 1..C /\ es[new[k]] \div Rotate = n
      <4>1. CASE k \in 1..m
        <5>1. ts[k] = b + k /\ ts[k] \in 1..Chunk /\ FileOf(ts[k]) = n
          BY <3>2, <3>3, <3>6, <4>1 DEF WholeFile
        <5>2. new[k] = ts[k]
          BY <3>4, <3>5, <4>1
        <5>3. ts[k] \in 1..C
          BY <1>3, <1>4, <5>1
        <5>4. es[ts[k]] \div Rotate = n
          BY <1>5, <5>1
        <5> QED
          BY <5>1, <5>2, <5>3, <5>4
      <4>2. CASE k = m + 1
        <5>1. new[k] = C
          BY <3>4, <3>5, <4>2
        <5>2. b + k = C
          BY <1>4, <3>7, <4>2
        <5>3. C \in 1..C
          BY <1>4, <1>3
        <5> QED
          BY <1>5, <5>1, <5>2, <5>3
      <4> QED
        BY <4>1, <4>2
    <3>10. b + (m + 1) = C
      BY <1>4, <3>7
    <3>11. Len(new) = m + 1
      BY <3>4, <3>5
    <3>12. m <= m + 1 /\ m + 1 > 0 /\ m + 1 \in Nat
      OBVIOUS
    <3> QED
      BY <3>2, <3>3, <3>5, <3>8, <3>9, <3>10, <3>11, <3>12
  <2>2. CASE n # recFile
    <3>1. n \notin DOMAIN disk /\ Len(disk'[n].ts) = 1 /\ disk'[n].ts[1] = Chunk + 1
      <4>1. n = now \div Rotate
        BY <1>1
      <4>2. n \notin DOMAIN disk
        BY <2>2, <4>1, ChunkGoes
      <4>3. Len(disk'[n].ts) = 1
        BY <2>2, <4>1, ChunkGoes
      <4>4. disk'[n].ts[1] = Chunk + 1
        BY <2>2, <4>1, ChunkGoes
      <4> QED
        BY <4>2, <4>3, <4>4
    <3>2. Len(e[n].ts) = 1 /\ e[n].ts[1] = C
      BY <1>1, <3>1
    <3>3. B[n] = Chunk
      BY <1>3, <1>4, <1>7, <3>2
    <3>4. \A k \in 1..1 : k = 1
      OBVIOUS
    <3>5. C \in 1..C /\ C = Chunk + 1
      BY <1>3, <1>4
    <3> QED
      BY <1>3, <1>5, <3>1, <3>2, <3>3, <3>4, <3>5
  <2> QED
    BY <2>1, <2>2
<1>9. ASSUME NEW k \in DOMAIN e
      PROVE  /\ k <= n /\ Len(e[k].ts) > 0
             /\ \A j \in 1..Len(e[k].ts) :
                   e[k].ts[j] = B[k] + j /\ e[k].ts[j] \in 1..C /\ es[e[k].ts[j]] \div Rotate = k
             /\ k # n => Len(e[k].aux) = Len(e[k].ts)
  <2>1. CASE k = n
    BY <1>2, <1>8, <2>1
  <2>2. CASE k # n
    <3>1. /\ k \in DOMAIN disk /\ e[k].ts = disk[k].ts /\ B[k] = Begin(k)
          /\ Len(e[k].aux) = Len(e[k].ts) /\ k < n /\ WholeFile(k) /\ k \in Nat
      BY <1>2, <1>3, <1>6, <1>9, <2>2 DEF Whole
    <3>2. ASSUME NEW j \in 1..Len(disk[k].ts)
          PROVE  disk[k].ts[j] = Begin(k) + j /\ disk[k].ts[j] \in 1..C /\ es[disk[k].ts[j]] \div Rotate = k
      <4>1. disk[k].ts[j] = Begin(k) + j /\ disk[k].ts[j] \in 1..Chunk /\ FileOf(disk[k].ts[j]) = k
        BY <3>1 DEF WholeFile
      <4>2. disk[k].ts[j] \in 1..C
        BY <1>3, <1>4, <4>1
      <4> QED
        BY <1>5, <4>1, <4>2
    <3>3. k <= n
      BY <1>2, <3>1
    <3>4. Len(e[k].ts) > 0
      BY <3>1 DEF WholeFile
    <3> QED
      BY <3>1, <3>2, <3>3, <3>4
  <2> QED
    BY <2>1, <2>2
<1>10. ASSUME NEW c \in 1..C, NEW k, k = es[c] \div Rotate
       PROVE  k \in DOMAIN e /\ c - B[k] \in 1..Len(e[k].ts)
  <2>1. CASE c = C
    <3>1. k = n
      BY <1>5, <1>10, <2>1
    <3>2. PICK b \in Nat, m \in Nat : b = B[n] /\ m = Len(e[n].ts) /\ m > 0 /\ b + m = C
      BY <1>8
    <3>3. C - b \in 1..m
      BY <3>2
    <3> QED
      BY <1>7, <2>1, <3>1, <3>2, <3>3
  <2>2. CASE c \in 1..Chunk
    <3>1. k = FileOf(c) /\ k \in DOMAIN disk /\ c - Begin(k) \in 1..Len(disk[k].ts)
      BY <1>5, <1>10, <2>2 DEF Whole
    <3>2. B[k] = Begin(k) /\ Len(disk[k].ts) <= Len(e[k].ts) /\ Len(disk[k].ts) \in Nat /\ Len(e[k].ts) \in Nat
      <4>1. CASE k = n
        BY <1>3, <1>8, <3>1, <4>1
      <4>2. CASE k # n
        <5>1. e[k].ts = disk[k].ts /\ B[k] = Begin(k) /\ Len(disk[k].ts) \in Nat
          BY <1>3, <1>6, <3>1, <4>2
        <5> QED
          BY <5>1
      <4> QED
        BY <4>1, <4>2
    <3>3. c - Begin(k) \in 1..Len(e[k].ts)
      BY <3>1, <3>2
    <3> QED
      BY <1>2, <3>1, <3>2, <3>3
  <2> QED
    BY <1>4, <2>1, <2>2
<1>11. \A k \in DOMAIN e : B[k] = e[k].ts[1] - 1
  BY <1>1
<1>12. \A k \in DOMAIN disk' : WholeFile(k)'
  <2> SUFFICES ASSUME NEW k \in DOMAIN e PROVE WholeFile(k)'
    BY <1>1
  <2>1. Begin(k)' = B[k] /\ disk'[k] = e[k] /\ recFile' = n /\ Chunk' = C
    BY <1>1, <1>2, <1>11 DEF Begin
  <2>2. ASSUME NEW j \in 1..Len(e[k].ts)
        PROVE  (disk[k].ts[j])' = Begin(k)' + j /\ (disk[k].ts[j])' \in 1..Chunk' /\ FileOf(disk[k].ts[j])' = k
    <3>1. PICK c : c = e[k].ts[j]
      OBVIOUS
    <3>2. c = B[k] + j /\ c \in 1..C /\ es[c] \div Rotate = k
      BY <1>9, <3>1
    <3>3. (disk[k].ts[j])' = c
      BY <2>1, <3>1
    <3>4. FileOf(disk[k].ts[j])' = es[c] \div Rotate
      BY <1>1, <3>3 DEF FileOf
    <3> QED
      BY <2>1, <3>2, <3>3, <3>4
  <2>3. k <= recFile' /\ Len(disk[k].ts)' > 0 /\ (k # recFile' => Len(disk[k].aux)' = Len(disk[k].ts)')
    BY <1>9, <2>1
  <2> QED
    BY <2>1, <2>2, <2>3 DEF WholeFile
<1>13. \A c \in 1..Chunk' : FileOf(c)' \in DOMAIN disk' /\ (c - Begin(FileOf(c)))' \in 1..Len(disk[FileOf(c)].ts)'
  BY <1>1, <1>2, <1>10, <1>11 DEF FileOf, Begin
<1>14. recFile' = FileOf(Chunk)' /\ Begin(recFile)' + Len(disk[recFile].ts)' = Chunk'
  <2>1. FileOf(Chunk)' = es[C] \div Rotate
    BY <1>1, <1>2 DEF FileOf
  <2>2. Begin(recFile)' = B[n] /\ Len(disk[recFile].ts)' = Len(e[n].ts)
    BY <1>1, <1>2, <1>7 DEF Begin
  <2> QED
    BY <1>2, <1>5, <1>8, <2>1, <2>2
<1>15. Chunk' # 0
  BY <1>2, <1>3, <1>4
<1> QED
  BY <1>2, <1>12, <1>13, <1>14, <1>15 DEF Whole

(* It starts so, without a file.                                           *)
LEMMA WholeInit == Init => Whole
<1> SUFFICES ASSUME Init PROVE Whole
  OBVIOUS
<1>1. disk = <<>> /\ dates = <<>> /\ recFile = NoFile
  BY DEF Init, RecInit
<1>2. DOMAIN disk = {} /\ Chunk = 0
  BY <1>1, EmptySeq DEF Chunk
<1>3. ~(Chunk > 0) /\ 1..Chunk = {}
  BY <1>2
<1> QED
  BY <1>1, <1>2, <1>3 DEF Whole

(* It stays so in every step.                                              *)
LEMMA WholeStep ==
    ASSUME RecInv, Undisturbed => Whole, [Next]_vars, Undisturbed'
    PROVE  Whole'
<1>1. Undisturbed /\ Whole
  BY UndisturbedSteps
<1>2. CASE RecStart
  BY <1>1, <1>2, WholeSame DEF RecStart, Undisturbed
<1>3. CASE WriteStamp
  <2>1. /\ rec' # "down" /\ UNCHANGED <<dates, recFile>> /\ DOMAIN disk' = DOMAIN disk
        /\ \A k \in DOMAIN disk : disk'[k].ts = disk[k].ts
        /\ \A k \in DOMAIN disk : k # recFile => disk'[k] = disk[k]
    BY <1>1, <1>3, StampGoes
  <2> QED
    BY <1>1, <2>1, WholeSame
<1>4. CASE Expire(Wanted)
  <2>1. /\ UNCHANGED <<dates, rec, recFile>> /\ DOMAIN disk' = DOMAIN disk
        /\ \A k \in DOMAIN disk : disk'[k].ts = disk[k].ts /\ disk'[k].aux = disk[k].aux
    BY <1>4, CleanGoes
  <2> QED
    BY <1>1, <2>1, WholeSame
<1>5. CASE UNCHANGED recVars
  BY <1>1, <1>5, WholeSame DEF recVars
<1> QED
  BY <1>1, <1>2, <1>3, <1>4, <1>5, WholeChunk, UndisturbedSteps DEF recVars

(***************************************************************************)
(* An undisturbed recorder: how soon its stamps are on disk.               *)
(***************************************************************************)

-----------------------------------------------------------------------------
(* An undisturbed recorder is in time: it has a chunk every Gap, and the   *)
(* stamps that are still in the buffer are of less than a FileFlush.       *)
Made == Chunk - (IF rec = "stamp" THEN 1 ELSE 0)
Saved == Made - Len(held)
InTime ==
    /\ rec = "stamp" => dates[Chunk] = now
    /\ Chunk > 0 => now <= dates[Chunk] + Gap
    /\ \A c \in 1..Chunk : c > 1 => dates[c] <= dates[c - 1] + Gap
    /\ nextFlush # 0 <=> Made > 0
    /\ Made > 0 => nextFlush <= dates[Made] + FileFlush
    /\ \A c \in 1..Made : c > Saved /\ c > 1 =>
          nextFlush <= dates[c - 1] + FileFlush /\ dates[c] < nextFlush

(* How many stamps are made and how many of them saved.                    *)
LEMMA MadeTyped ==
    ASSUME RecInv, Undisturbed, Whole
    PROVE  /\ Made \in Int /\ Saved \in Int /\ Saved <= Made /\ Made <= Chunk
           /\ nextFlush \in Nat /\ FileFlush \in Nat /\ Gap \in Nat \ {0}
           /\ rec = "stamp" => Chunk > 0 /\ Made = Chunk - 1
           /\ rec # "stamp" => Made = Chunk
           /\ Chunk > 0 => rec \in {"idle", "stamp"}
           /\ Made >= 0
<1>1. Chunk \in Nat /\ Len(held) \in Nat
  BY WholeTyped
<1>2. nextFlush \in Nat /\ FileFlush \in Nat /\ Gap \in Nat \ {0} /\ rec \in {"down", "idle", "stamp"}
  BY RecorderAssumption, RecordingAssumption DEF RecInv, RecTypes, RecorderAssumption, RecordingAssumption
<1>3. rec = "stamp" => Chunk > 0
  BY DEF RecInv, OpenFile
<1>4. Chunk > 0 => rec # "down"
  <2>1. rec = "down" => Chunk = 0
    BY DEF Whole
  <2> QED
    BY <1>1, <2>1
<1>5. rec = "stamp" => Made = Chunk - 1
  BY DEF Made
<1>6. rec # "stamp" => Made = Chunk
  BY <1>1 DEF Made
<1>7. Made \in Int /\ Made <= Chunk /\ Made >= 0
  BY <1>1, <1>3, <1>5, <1>6
<1>8. Saved \in Int /\ Saved <= Made
  BY <1>1, <1>7 DEF Saved
<1> QED
  BY <1>2, <1>3, <1>4, <1>5, <1>6, <1>7, <1>8

(* What it received a while ago has a chunk after it whose stamp is on     *)
(* disk.                                                                   *)
LEMMA SavedInTime ==
    ASSUME RecInv, Undisturbed, Whole, InTime, NEW c \in 1..Chunk,
           now > dates[c] + Gap, now >= dates[c] + FileFlush + Gap
    PROVE  c + 1 <= Saved
<1>1. /\ now \in Nat /\ Chunk \in Nat /\ \A b \in 1..Chunk : dates[b] \in Nat
      /\ \A a, b \in 1..Chunk : a < b => dates[a] < dates[b]
  BY WholeTyped
<1>2. /\ Made \in Int /\ Saved \in Int /\ Saved <= Made /\ Made <= Chunk
      /\ nextFlush \in Nat /\ FileFlush \in Nat /\ Gap \in Nat \ {0}
      /\ rec = "stamp" => Chunk > 0 /\ Made = Chunk - 1
      /\ rec # "stamp" => Made = Chunk
  BY MadeTyped
<1>3. PICK dc \in Nat : dc = dates[c]
  BY <1>1
<1>4. Chunk \in 1..Chunk /\ Chunk > 0
  BY <1>1
<1>5. PICK dl \in Nat : dl = dates[Chunk] /\ now <= dl + Gap
  BY <1>1, <1>4 DEF InTime
<1>6. c # Chunk /\ c + 1 \in 1..Chunk
  BY <1>1, <1>2, <1>3, <1>5
<1>7. c + 1 <= Made
  <2>1. CASE rec # "stamp"
    BY <1>1, <1>2, <1>6, <2>1
  <2>2. CASE rec = "stamp" /\ c + 1 = Chunk
    <3>1. dates[Chunk] = now /\ dates[Chunk] <= dates[Chunk - 1] + Gap
      BY <1>4, <1>6, <2>2 DEF InTime
    <3>2. Chunk - 1 = c
      BY <1>1, <2>2
    <3> QED
      BY <1>1, <1>2, <1>3, <1>5, <3>1, <3>2
  <2>3. CASE rec = "stamp" /\ c + 1 # Chunk
    BY <1>1, <1>2, <1>6, <2>3
  <2> QED
    BY <2>1, <2>2, <2>3
<1>8. SUFFICES ASSUME c + 1 > Saved PROVE FALSE
  BY <1>2
<1>9. /\ c + 1 \in 1..Made /\ c + 1 > 1 /\ Made \in 1..Made /\ Made > Saved /\ Made > 1
      /\ (c + 1) - 1 = c /\ Made \in 1..Chunk
  BY <1>1, <1>2, <1>7, <1>8
<1>10. nextFlush <= dc + FileFlush
  BY <1>3, <1>8, <1>9 DEF InTime
<1>11. PICK dm \in Nat : dm = dates[Made] /\ dm < nextFlush
  BY <1>1, <1>9 DEF InTime
<1>12. dm + Gap < now
  BY <1>1, <1>2, <1>3, <1>10, <1>11
<1>13. CASE rec # "stamp"
  BY <1>1, <1>2, <1>5, <1>11, <1>12, <1>13
<1>14. CASE rec = "stamp"
  <2>1. Chunk - 1 = Made /\ Chunk > 1
    BY <1>1, <1>2, <1>9, <1>14
  <2>2. dates[Chunk] = now /\ dates[Chunk] <= dates[Chunk - 1] + Gap
    BY <1>4, <1>14, <2>1 DEF InTime
  <2> QED
    BY <1>1, <1>2, <1>5, <1>11, <1>12, <2>1, <2>2
<1> QED
  BY <1>13, <1>14

(* It starts in time, with no chunk.                                       *)
LEMMA InTimeInit == Init => InTime
<1> SUFFICES ASSUME Init PROVE InTime
  OBVIOUS
<1>1. dates = <<>> /\ rec = "down" /\ nextFlush = 0
  BY DEF Init, RecInit
<1>2. Chunk = 0 /\ Made = 0
  BY <1>1, EmptySeq DEF Chunk, Made
<1> QED
  BY <1>1, <1>2 DEF InTime

(* The part of a step that is about dates only.                            *)

(* It stays in time: Tick waits for the recorder, and a stamp that is due  *)
(* to be flushed flushes the buffer.                                       *)
LEMMA InTimeStep ==
    ASSUME RecInv, Undisturbed => Whole /\ InTime, [Next]_vars, Undisturbed'
    PROVE  InTime'
<1>1. Undisturbed /\ Whole /\ InTime
  BY UndisturbedSteps
<1>2. /\ now \in Nat /\ Chunk \in Nat /\ (\A b \in 1..Chunk : dates[b] \in Nat /\ dates[b] > 0)
      /\ (\A a, b \in 1..Chunk : a < b => dates[a] < dates[b]) /\ Len(held) \in Nat
  BY <1>1, WholeTyped
<1>3. /\ Made \in Int /\ Saved \in Int /\ Saved <= Made /\ Made <= Chunk /\ Made >= 0
      /\ nextFlush \in Nat /\ FileFlush \in Nat /\ Gap \in Nat \ {0}
      /\ rec = "stamp" => Chunk > 0 /\ Made = Chunk - 1
      /\ rec # "stamp" => Made = Chunk
      /\ Chunk > 0 => rec \in {"idle", "stamp"}
  BY <1>1, MadeTyped
<1>4. CASE UNCHANGED <<now, dates, rec, held, nextFlush>>
  <2>1. Chunk' = Chunk /\ Made' = Made /\ Saved' = Saved
    BY <1>4 DEF Chunk, Made, Saved
  <2> QED
    BY <1>1, <1>4, <2>1 DEF InTime
<1>5. CASE RecStart
  <2>1. rec = "down" /\ rec' = "idle" /\ dates' = dates /\ nextFlush' = 0
    BY <1>5 DEF RecStart
  <2>2. Chunk = 0
    BY <1>1, <2>1 DEF Whole
  <2>3. Chunk' = 0 /\ Made' = 0
    BY <2>1, <2>2 DEF Chunk, Made
  <2> QED
    BY <2>1, <2>3 DEF InTime
<1>6. CASE Tick /\ UNCHANGED recVars
  <2>1. /\ UNCHANGED <<dates, rec, held, nextFlush>> /\ now' = now + 1 /\ rec # "stamp"
        /\ rec = "idle" => (Chunk > 0 => now < dates[Chunk] + Gap)
    BY <1>6 DEF Tick, recVars
  <2>2. Chunk' = Chunk /\ Made' = Made /\ Saved' = Saved
    BY <2>1 DEF Chunk, Made, Saved
  <2>3. Chunk > 0 => now' <= dates[Chunk] + Gap
    <3> SUFFICES ASSUME Chunk > 0 PROVE now' <= dates[Chunk] + Gap
      OBVIOUS
    <3>1. Chunk \in 1..Chunk /\ rec = "idle"
      BY <1>2, <1>3, <2>1
    <3>2. PICK d \in Nat : d = dates[Chunk]
      BY <1>2, <3>1
    <3> QED
      BY <1>2, <1>3, <2>1, <3>1, <3>2
  <2> QED
    BY <1>1, <2>1, <2>2, <2>3 DEF InTime
<1>7. CASE WriteChunk
  <2>1. PICK n, es, C : n = now \div Rotate /\ es = dates' /\ C = Chunk + 1
    OBVIOUS
  <2>2. /\ rec = "idle" /\ rec' = "stamp" /\ nextFlush' = nextFlush /\ now' = now
        /\ Chunk' = C /\ es[C] = now /\ (\A c \in 1..Chunk : es[c] = dates[c])
        /\ n = recFile => held' = held
        /\ n # recFile => held' = <<>>
    BY <1>1, <1>7, <2>1, ChunkGoes
  <2>3. Made = Chunk /\ Made' = Chunk /\ C \in Nat /\ C > 0
    BY <1>2, <1>3, <2>1, <2>2 DEF Made
  <2>4. Saved' = Saved \/ Saved' = Chunk
    <3>1. CASE n = recFile
      BY <2>2, <2>3, <3>1 DEF Saved
    <3>2. CASE n # recFile
      <4>1. Len(held') = 0
        BY <2>2, <3>2, EmptySeq
      <4> QED
        BY <1>2, <2>3, <4>1 DEF Saved
    <3> QED
      BY <3>1, <3>2
  <2>5. \A c \in 1..C : c > 1 => es[c] <= es[c - 1] + Gap
    <3> SUFFICES ASSUME NEW c \in 1..C, c > 1 PROVE es[c] <= es[c - 1] + Gap
      OBVIOUS
    <3>1. c - 1 \in 1..Chunk /\ (c \in 1..Chunk \/ c = C)
      BY <1>2, <2>1
    <3>2. CASE c \in 1..Chunk
      BY <1>1, <2>2, <3>1, <3>2 DEF InTime
    <3>3. CASE c = C
      <4>1. Chunk > 0 /\ c - 1 = Chunk
        BY <1>2, <2>1, <3>1, <3>3
      <4>2. now <= dates[Chunk] + Gap
        BY <1>1, <4>1 DEF InTime
      <4> QED
        BY <2>2, <3>1, <3>3, <4>1, <4>2
    <3> QED
      BY <3>1, <3>2, <3>3
  <2>6. nextFlush # 0 <=> Chunk > 0
    BY <1>1, <2>3 DEF InTime
  <2>7. Chunk > 0 => nextFlush <= es[Chunk] + FileFlush
    <3> SUFFICES ASSUME Chunk > 0 PROVE nextFlush <= es[Chunk] + FileFlush
      OBVIOUS
    <3>1. Chunk \in 1..Chunk
      BY <1>2
    <3> QED
      BY <1>1, <2>2, <2>3, <3>1 DEF InTime
  <2>8. \A c \in 1..Chunk : c > Saved' /\ c > 1 => nextFlush <= es[c - 1] + FileFlush /\ es[c] < nextFlush
    <3> SUFFICES ASSUME NEW c \in 1..Chunk, c > Saved', c > 1
                 PROVE  nextFlush <= es[c - 1] + FileFlush /\ es[c] < nextFlush
      OBVIOUS
    <3>1. c - 1 \in 1..Chunk /\ c > Saved
      BY <1>2, <1>3, <2>4
    <3>2. nextFlush <= dates[c - 1] + FileFlush /\ dates[c] < nextFlush
      BY <1>1, <2>3, <3>1 DEF InTime
    <3> QED
      BY <2>2, <3>1, <3>2
  <2>9. es[C] = now' /\ now' <= es[C] + Gap
    BY <1>2, <1>3, <2>2
  <2> QED
    BY <2>1, <2>2, <2>3, <2>5, <2>6, <2>7, <2>8, <2>9 DEF InTime
<1>8. CASE WriteStamp
  <2>1. /\ rec = "stamp" /\ rec' = "idle" /\ Chunk > 0 /\ UNCHANGED <<now, dates>>
        /\ \/ /\ nextFlush' = dates[Chunk] + FileFlush
              /\ held' = <<>>
           \/ /\ Len(held') = Len(held) + 1
              /\ IF nextFlush = 0 THEN nextFlush' = dates[Chunk] + FileFlush
                 ELSE nextFlush' = nextFlush /\ ~(nextFlush <= dates[Chunk])
    BY <1>1, <1>8, StampGoes
  <2>2. PICK d \in Nat : d = dates[Chunk] /\ d > 0
    <3>1. Chunk \in 1..Chunk
      BY <1>2, <2>1
    <3> QED
      BY <1>2, <3>1
  <2>3. Chunk' = Chunk /\ Made' = Chunk /\ Made = Chunk - 1
    BY <1>2, <1>3, <2>1 DEF Chunk, Made
  <2>4. /\ Chunk' > 0 => now' <= dates'[Chunk'] + Gap
        /\ \A c \in 1..Chunk' : c > 1 => dates'[c] <= dates'[c - 1] + Gap
    BY <1>1, <2>1, <2>3 DEF InTime
  <2>5. CASE held' = <<>> /\ nextFlush' = dates[Chunk] + FileFlush
    <3>1. Len(held') = 0 /\ Saved' = Chunk
      BY <1>2, <2>3, <2>5, EmptySeq DEF Saved
    <3>2. nextFlush' = d + FileFlush /\ nextFlush' # 0
      BY <1>3, <2>2, <2>5
    <3>3. ~(\E c \in 1..Made' : c > Saved')
      BY <1>2, <2>3, <3>1
    <3>4. Made' > 0 /\ nextFlush' <= dates'[Made'] + FileFlush
      BY <1>3, <2>1, <2>2, <2>3, <3>2
    <3> QED
      BY <2>1, <2>4, <3>2, <3>3, <3>4 DEF InTime
  <2>6. CASE /\ Len(held') = Len(held) + 1
             /\ IF nextFlush = 0 THEN nextFlush' = dates[Chunk] + FileFlush
                ELSE nextFlush' = nextFlush /\ ~(nextFlush <= dates[Chunk])
    <3>1. Saved' = Saved
      BY <1>2, <2>3, <2>6 DEF Saved
    <3>2. CASE nextFlush = 0
      <4>1. ~(Made > 0)
        BY <1>1, <3>2 DEF InTime
      <4>2. Chunk = 1
        BY <1>2, <1>3, <2>1, <2>3, <4>1
      <4>3. nextFlush' = d + FileFlush /\ nextFlush' # 0
        BY <1>3, <2>2, <2>6, <3>2
      <4>4. ~(\E c \in 1..Made' : c > 1)
        BY <2>3, <4>2
      <4>5. Made' > 0 /\ nextFlush' <= dates'[Made'] + FileFlush
        BY <1>3, <2>1, <2>2, <2>3, <4>3
      <4> QED
        BY <2>1, <2>4, <4>3, <4>4, <4>5 DEF InTime
    <3>3. CASE nextFlush # 0
      <4>1. Made > 0 /\ nextFlush' = nextFlush /\ d < nextFlush
        BY <1>1, <1>3, <2>2, <2>6, <3>3 DEF InTime
      <4>2. Made \in 1..Chunk
        BY <1>2, <1>3, <2>3, <4>1
      <4>3. PICK m \in Nat : m = dates[Made] /\ nextFlush <= m + FileFlush /\ m < d
        <5>1. Chunk \in 1..Chunk /\ Made < Chunk
          BY <1>2, <2>1, <2>3
        <5> QED
          BY <1>1, <1>2, <2>2, <4>1, <4>2, <5>1 DEF InTime
      <4>4. \A c \in 1..Chunk : c > Saved /\ c > 1 =>
               nextFlush <= dates[c - 1] + FileFlush /\ dates[c] < nextFlush
        <5> SUFFICES ASSUME NEW c \in 1..Chunk, c > Saved, c > 1
                     PROVE  nextFlush <= dates[c - 1] + FileFlush /\ dates[c] < nextFlush
          OBVIOUS
        <5>1. c \in 1..Made \/ c = Chunk
          BY <1>2, <2>3
        <5>2. CASE c \in 1..Made
          BY <1>1, <5>2 DEF InTime
        <5>3. CASE c = Chunk
          <6>1. c - 1 = Made
            BY <2>3, <5>3
          <6> QED
            BY <2>2, <4>1, <4>3, <5>3, <6>1
        <5> QED
          BY <5>1, <5>2, <5>3
      <4>5. nextFlush <= d + FileFlush
        BY <1>3, <4>3
      <4>6. Made' > 0 /\ nextFlush' <= dates'[Made'] + FileFlush
        BY <2>1, <2>2, <2>3, <4>1, <4>5
      <4> QED
        BY <2>1, <2>3, <2>4, <3>1, <3>3, <4>1, <4>4, <4>6 DEF InTime
    <3> QED
      BY <3>2, <3>3
  <2> QED
    BY <2>1, <2>5, <2>6
<1> QED
  BY <1>4, <1>5, <1>6, <1>7, <1>8, UndisturbedSteps DEF recVars, Expire

(***************************************************************************)
(* An undisturbed recorder: its places.                                    *)
(***************************************************************************)

(* A chunk has its place, and is at no other one.                          *)
LEMMA PlaceOf ==
    ASSUME RecInv, Undisturbed, Whole, NEW n \in DOMAIN disk, NEW k \in 1..Len(disk[n].ts)
    PROVE  /\ Begin(n) + k \in 1..Chunk /\ disk[n].ts[k] = Begin(n) + k /\ FileOf(Begin(n) + k) = n
           /\ k \in Nat
<1>1. WholeFile(n)
  BY DEF Whole
<1>2. disk[n].ts[k] = Begin(n) + k /\ disk[n].ts[k] \in 1..Chunk /\ FileOf(disk[n].ts[k]) = n
  BY <1>1 DEF WholeFile
<1> QED
  BY <1>2

(* All of the chunks of a file are later than those of one before it.      *)
LEMMA FilesFollow ==
    ASSUME RecInv, Undisturbed, Whole, NEW a \in DOMAIN disk, NEW b \in DOMAIN disk, a < b
    PROVE  Begin(a) + Len(disk[a].ts) <= Begin(b)
<1>1. PICK m \in Nat, i \in Nat, j \in Nat : m = Len(disk[a].ts) /\ i = Begin(a) /\ j = Begin(b)
  BY WholeTyped
<1>2. m > 0 /\ Len(disk[b].ts) > 0 /\ Len(disk[b].ts) \in Nat
  BY <1>1, WholeTyped DEF Whole, WholeFile
<1>3. i + m \in 1..Chunk /\ FileOf(i + m) = a
  <2>1. m \in 1..m
    BY <1>2
  <2> QED
    BY <1>1, <2>1, PlaceOf
<1>4. j + 1 \in 1..Chunk /\ FileOf(j + 1) = b
  <2>1. 1 \in 1..Len(disk[b].ts)
    BY <1>2
  <2> QED
    BY <1>1, <2>1, PlaceOf
<1>5. ~(j + 1 <= i + m)
  <2> SUFFICES ASSUME j + 1 <= i + m PROVE FALSE
    OBVIOUS
  <2>1. j + 1 = i + m \/ j + 1 < i + m
    OBVIOUS
  <2>2. b <= a
    BY <1>3, <1>4, <2>1, WholeTyped
  <2>3. a \in Nat /\ b \in Nat
    BY WholeTyped
  <2> QED
    BY <2>2, <2>3
<1> QED
  BY <1>1, <1>5

(* A chunk has its stamp on disk when it is saved.                         *)
LEMMA SavedIs ==
    ASSUME RecInv, Undisturbed, Whole, Chunk > 0
    PROVE  Saved = Begin(recFile) + Len(disk[recFile].aux)
<1>1. RecTypes /\ recFile \in DOMAIN disk /\ recFile # NoFile /\ Chunk \in Nat
  BY WholeTyped DEF RecInv, NoFile
<1>2. PICK aux \in Seq(Nat), h \in Seq(Nat) : aux = disk[recFile].aux /\ h = held
  BY <1>1, StampsTyped DEF RecTypes
<1>3. Stamps(recFile) = aux \o h /\ Len(aux \o h) = Len(aux) + Len(h) /\ Len(aux) \in Nat /\ Len(h) \in Nat
  BY <1>1, <1>2, StampsTyped, ConcatProperties
<1>4. Len(disk[recFile].ts) = Len(Stamps(recFile)) + (IF rec = "stamp" THEN 1 ELSE 0)
  BY <1>1 DEF RecInv, OpenFile
<1>5. Begin(recFile) + Len(disk[recFile].ts) = Chunk /\ Begin(recFile) \in Nat
  BY <1>1, WholeTyped DEF Whole
<1>6. PICK a \in Nat, l \in Nat, b \in Nat, s \in Int :
         a = Len(aux) /\ l = Len(h) /\ b = Begin(recFile) /\ s = IF rec = "stamp" THEN 1 ELSE 0
  BY <1>3, <1>5
<1>7. b + (a + l + s) = Chunk
  BY <1>3, <1>4, <1>5, <1>6
<1>8. Saved = Chunk - s - l
  BY <1>2, <1>6 DEF Saved, Made
<1>9. Saved = b + a
  <2>1. PICK c \in Nat : c = Chunk
    BY <1>1
  <2>2. b + (a + l + s) = c /\ Saved = c - s - l
    BY <1>7, <1>8, <2>1
  <2>3. c - s - l = b + a
    BY <2>2
  <2> QED
    BY <2>2, <2>3
<1>10. Len(disk[recFile].aux) = a
  BY <1>2, <1>6
<1> QED
  BY <1>6, <1>9, <1>10

(* Which is to say that it is one of the stamps of the file.               *)
LEMMA SavedOnDisk ==
    ASSUME RecInv, Undisturbed, Whole, NEW c \in 1..Chunk, NEW n, n = FileOf(c)
    PROVE  /\ n \in DOMAIN disk /\ c - Begin(n) \in 1..Len(disk[n].ts)
           /\ c <= Saved <=> c - Begin(n) \in 1..Len(disk[n].aux)
           /\ c <= Saved => disk[n].aux[c - Begin(n)] = dates[c]
<1>1. n \in DOMAIN disk /\ c - Begin(n) \in 1..Len(disk[n].ts) /\ n \in Nat
  BY WholeTyped DEF Whole
<1>2. RecTypes /\ recFile \in DOMAIN disk /\ Chunk \in Nat /\ recFile \in Nat
  BY WholeTyped DEF RecInv
<1>3. PICK i \in Nat, t \in Nat, a \in Nat : i = Begin(n) /\ t = Len(disk[n].ts) /\ a = Len(disk[n].aux)
  BY <1>1, WholeTyped
<1>4. Saved = Begin(recFile) + Len(disk[recFile].aux)
  <2>1. Chunk > 0
    BY <1>2
  <2> QED
    BY <2>1, SavedIs
<1>5. c <= Saved <=> c - i \in 1..a
  <2>1. CASE n = recFile
    <3>1. Saved = i + a
      BY <1>3, <1>4, <2>1
    <3>2. c \in Nat /\ c - i \in Int /\ c - i >= 1
      BY <1>1, <1>3, <1>2
    <3>3. c <= i + a <=> c - i <= a
      BY <1>3, <3>2
    <3> QED
      BY <3>1, <3>2, <3>3
  <2>2. CASE n # recFile
    <3>1. n < recFile /\ a = t
      BY <1>1, <1>2, <1>3, <2>2 DEF Whole, WholeFile
    <3>2. i + t <= Begin(recFile)
      BY <1>1, <1>2, <1>3, <3>1, FilesFollow
    <3>3. Begin(recFile) \in Nat /\ Len(disk[recFile].aux) \in Nat
      BY <1>2, WholeTyped
    <3>4. PICK x \in Nat, y \in Nat, k \in Int :
             x = Begin(recFile) /\ y = Len(disk[recFile].aux) /\ k = c - i /\ k \in 1..t /\ i + t <= x
      BY <1>1, <1>3, <3>2, <3>3
    <3>5. c <= x + y
      <4>1. c \in Int /\ i \in Int /\ t \in Int
        BY <1>2, <1>3
      <4>2. c - i <= t /\ i + t <= x
        BY <3>4
      <4>3. c <= x
        BY <3>4, <4>1, <4>2
      <4> QED
        BY <3>4, <4>1, <4>3
    <3>6. c <= Saved
      BY <1>4, <3>4, <3>5
    <3>7. c - i \in 1..a
      BY <3>1, <3>4
    <3> QED
      BY <3>6, <3>7
  <2> QED
    BY <2>1, <2>2
<1>6. ASSUME c - i \in 1..a PROVE disk[n].aux[c - i] = dates[c]
  <2>1. PICK k \in Nat : k = c - i /\ k \in 1..a /\ k \in 1..t
    BY <1>1, <1>3, <1>6
  <2>2. Sound(n, disk[n].ts, disk[n].aux, dates, Limit)
    BY <1>1, <1>2, SoundOnDisk DEF RecInv
  <2>3. k \in 1..Least(t, a)
    BY <2>1 DEF Least
  <2>4. disk[n].aux[k] = dates[disk[n].ts[k]]
    BY <1>3, <2>2, <2>3 DEF Sound
  <2>5. disk[n].ts[k] = i + k
    BY <1>1, <1>3, <2>1, PlaceOf
  <2>6. i + k = c
    BY <2>1
  <2> QED
    BY <2>1, <2>4, <2>5, <2>6
<1> QED
  BY <1>1, <1>3, <1>5, <1>6

(***************************************************************************)
(* An undisturbed recorder: the ages of its files.                         *)
(***************************************************************************)

-----------------------------------------------------------------------------
(* The files of an undisturbed recorder are as old as their names say, and *)
(* the last ones are not cleaned away.                                     *)
Opening(n) == dates[disk[n].ts[1]]
Aged ==
    /\ \A n \in DOMAIN disk : Opening(n) <= disk[n].mtime /\ disk[n].mtime <= dates[Chunk]
    /\ \A a, b \in DOMAIN disk : a < b => disk[a].mtime < Opening(b)
    /\ \A n \in DOMAIN disk : n > recFile - Wanted => disk[n].linked

(* The types of the ages.                                                  *)
LEMMA AgesTyped ==
    ASSUME RecInv, Undisturbed, Whole, NEW n \in DOMAIN disk
    PROVE  /\ n \in Nat /\ recFile \in Nat /\ n <= recFile /\ Chunk > 0 /\ now \in Nat
           /\ Opening(n) \in Nat /\ disk[n].mtime \in Nat
           /\ disk[n].ts[1] \in 1..Chunk
<1>1. Chunk \in Nat /\ DOMAIN disk \subseteq Nat /\ Len(disk[n].ts) \in Nat /\ now \in Nat
  BY WholeTyped
<1>2. 1 \in 1..Len(disk[n].ts) /\ n <= recFile
  BY <1>1 DEF Whole, WholeFile
<1>3. disk[n].ts[1] \in 1..Chunk
  BY <1>2 DEF Whole, WholeFile
<1>4. Opening(n) \in Nat
  BY <1>3, WholeTyped DEF Opening
<1>5. disk[n] \in PairOfFiles
  BY DEF RecInv, RecTypes
<1>6. Chunk > 0
  BY <1>1, <1>3
<1>7. recFile \in Nat
  BY <1>1, <1>6, WholeTyped
<1> QED
  BY <1>1, <1>2, <1>3, <1>4, <1>5, <1>6, <1>7 DEF PairOfFiles

(* Few files are as young as one of the last ones: those after it.         *)
LEMMA YoungerAre ==
    ASSUME RecInv, Undisturbed, Whole, Aged,
           NEW n \in Names, n > recFile - Wanted, NEW Y, Y = Names \ Older(n)
    PROVE  IsFiniteSet(Y) /\ Cardinality(Y) <= Wanted /\ Cardinality(Y) \in Nat
<1>1. Names \subseteq DOMAIN disk /\ n \in DOMAIN disk /\ Wanted \in Nat
  BY RecordingAssumption DEF Names, RecordingAssumption
<1>2. \A k \in Names : k \in Nat /\ recFile \in Nat /\ k <= recFile /\ disk[k].mtime \in Nat /\ Opening(k) \in Nat
  BY <1>1, AgesTyped
<1>3. \A k \in Names : k < n => disk[k].mtime < Opening(n) /\ Opening(n) <= disk[n].mtime
  BY <1>1 DEF Aged
<1>4. Y \in SUBSET (n..recFile)
  <2> SUFFICES ASSUME NEW k \in Y PROVE k \in n..recFile
    OBVIOUS
  <2>1. k \in Names /\ k \notin Older(n)
    OBVIOUS
  <2>2. ~(disk[k].mtime < disk[n].mtime)
    BY <2>1 DEF Older
  <2>3. ~(k < n)
    BY <1>2, <1>3, <2>1, <2>2
  <2> QED
    BY <1>2, <2>1, <2>3
<1>5. PICK a \in Int, b \in Int, w \in Nat : a = n /\ b = recFile /\ w = Wanted /\ a > b - w /\ a <= b
  BY <1>1, <1>2
<1>6. IsFiniteSet(a..b) /\ Cardinality(a..b) = b - a + 1
  BY <1>5, FS_Interval
<1>7. IsFiniteSet(Y) /\ Cardinality(Y) <= Cardinality(a..b)
  BY <1>4, <1>5, <1>6, FS_Subset
<1>8. Cardinality(Y) \in Nat
  BY <1>7, FS_CardinalityType
<1> QED
  BY <1>5, <1>6, <1>7, <1>8

(* So the cleaning leaves the last files that are wanted.                  *)
LEMMA LastAreKept ==
    ASSUME RecInv, FewFiles, Undisturbed, Whole, Aged,
           NEW n \in Names, n > recFile - Wanted
    PROVE  n \notin Expired(Wanted)
<1>1. PICK Y, Z : Y = Names \ Older(n) /\ Z = Older(n)
  OBVIOUS
<1>2. IsFiniteSet(Y) /\ Cardinality(Y) <= Wanted /\ Cardinality(Y) \in Nat
  BY <1>1, YoungerAre
<1>3. IsFiniteSet(Names)
  BY PlacesDiffer DEF RecInv
<1>4. Z \in SUBSET Names /\ Y \union Z = Names /\ Y \intersect Z = {}
  BY <1>1 DEF Older
<1>5. IsFiniteSet(Z) /\ Cardinality(Z) \in Nat
  BY <1>3, <1>4, FS_Subset, FS_CardinalityType
<1>6. Cardinality(Y \union Z) = Cardinality(Y) + Cardinality(Z) - Cardinality(Y \intersect Z)
  BY <1>2, <1>5, FS_Union
<1>7. Cardinality({}) = 0
  BY FS_EmptySet
<1>8. PICK y \in Nat, z \in Nat, w \in Nat : y = Cardinality(Y) /\ z = Cardinality(Z) /\ w = Wanted /\ y <= w
  BY <1>2, <1>5, RecordingAssumption DEF RecordingAssumption
<1>9. Cardinality(Names) = y + z - 0
  BY <1>4, <1>6, <1>7, <1>8, Zenon
<1>10. ~(z < (y + z - 0) - w)
  BY <1>8
<1> QED
  BY <1>1, <1>8, <1>9, <1>10 DEF Expired

(* The ages stay in order when no chunk comes.                             *)
LEMMA AgedSame ==
    ASSUME Aged, UNCHANGED <<dates, recFile>>, DOMAIN disk' = DOMAIN disk,
           \A n \in DOMAIN disk :
              /\ disk'[n].ts = disk[n].ts /\ disk'[n].mtime = disk[n].mtime
              /\ disk[n].linked /\ n > recFile - Wanted => disk'[n].linked
    PROVE  Aged'
<1>1. \A n \in DOMAIN disk : Opening(n)' = Opening(n)
  BY DEF Opening
<1>2. Chunk' = Chunk
  BY DEF Chunk
<1> QED
  BY <1>1, <1>2 DEF Aged

(* They do when a chunk comes, whose file may be a new one.                *)
LEMMA AgedChunk ==
    ASSUME RecInv, Undisturbed, Whole, Aged, WriteChunk
    PROVE  Aged'
<1>1. PICK n, e, es, C : n = now \div Rotate /\ e = disk' /\ es = dates' /\ C = Chunk + 1
  OBVIOUS
<1>2. /\ recFile' = n /\ n \in Nat /\ now' = now
      /\ es[C] = now /\ (\A c \in 1..Chunk : es[c] = dates[c] /\ dates[c] < now)
      /\ DOMAIN e = DOMAIN disk \union {n} /\ e[n].mtime = now
      /\ \A k \in DOMAIN disk : k \notin {n, recFile} => e[k] = disk[k]
  BY <1>1, ChunkGoes
<1>3. now \in Nat /\ Chunk \in Nat /\ \A c \in 1..Chunk : dates[c] \in Nat
  BY WholeTyped
<1>4. \A k \in DOMAIN disk :
         /\ k \in Nat /\ recFile \in Nat /\ k <= recFile /\ Chunk > 0
         /\ Opening(k) \in Nat /\ disk[k].mtime \in Nat /\ disk[k].ts[1] \in 1..Chunk
         /\ recFile \in DOMAIN disk /\ Opening(k) < now
  <2> SUFFICES ASSUME NEW k \in DOMAIN disk
               PROVE  /\ k \in Nat /\ recFile \in Nat /\ k <= recFile /\ Chunk > 0
                      /\ Opening(k) \in Nat /\ disk[k].mtime \in Nat /\ disk[k].ts[1] \in 1..Chunk
                      /\ recFile \in DOMAIN disk /\ Opening(k) < now
    OBVIOUS
  <2>1. /\ k \in Nat /\ recFile \in Nat /\ k <= recFile /\ Chunk > 0
        /\ Opening(k) \in Nat /\ disk[k].mtime \in Nat /\ disk[k].ts[1] \in 1..Chunk
    BY AgesTyped
  <2>2. Opening(k) < now
    BY <1>2, <2>1 DEF Opening
  <2> QED
    BY <2>1, <2>2, WholeTyped
<1>5. /\ n = recFile => /\ e[n].ts = Append(disk[n].ts, C) /\ e[n].linked = disk[n].linked
                         /\ n \in DOMAIN disk
      /\ n # recFile /\ Chunk > 0 =>
            /\ e[recFile].ts = disk[recFile].ts /\ recFile < n
            /\ e[recFile].linked = disk[recFile].linked /\ e[recFile].mtime = disk[recFile].mtime
  <2>1. /\ n = recFile => /\ disk'[n].ts = Append(disk[n].ts, Chunk + 1)
                          /\ disk'[n].linked = disk[n].linked /\ n \in DOMAIN disk
        /\ n # recFile /\ Chunk > 0 =>
              /\ disk'[recFile].ts = disk[recFile].ts /\ recFile < n
              /\ disk'[recFile].linked = disk[recFile].linked /\ disk'[recFile].mtime = disk[recFile].mtime
    BY <1>1, ChunkGoes, Zenon
  <2> QED
    BY <1>1, <2>1, Zenon
<1>6. ASSUME NEW k \in DOMAIN disk
      PROVE  /\ es[e[k].ts[1]] = Opening(k)
             /\ k = n \/ e[k].mtime = disk[k].mtime
             /\ disk[k].linked => e[k].linked
             /\ recFile < n \/ recFile = n
  <2>1. Chunk > 0
    BY <1>4
  <2>2. CASE k = recFile
    <3>1. CASE n = recFile
      <4>1. e[n].ts = Append(disk[n].ts, C) /\ e[n].linked = disk[n].linked /\ n \in DOMAIN disk
        BY <1>5, <3>1
      <4>2. disk[n].ts \in Seq(Nat) /\ Len(disk[n].ts) > 0 /\ C \in Nat
        BY <1>1, <1>3, <4>1, WholeTyped DEF Whole, WholeFile
      <4>3. e[n].ts[1] = disk[n].ts[1]
        BY <4>1, <4>2, AppendProperties
      <4>4. es[e[k].ts[1]] = Opening(k)
        BY <1>2, <1>4, <2>2, <3>1, <4>3 DEF Opening
      <4> QED
        BY <1>2, <2>2, <3>1, <4>1, <4>4
    <3>2. CASE n # recFile
      <4>1. /\ e[recFile].ts = disk[recFile].ts
            /\ e[recFile].linked = disk[recFile].linked /\ e[recFile].mtime = disk[recFile].mtime
        BY <1>5, <2>1, <3>2
      <4>2. recFile < n
        BY <1>5, <2>1, <3>2
      <4>3. es[e[k].ts[1]] = Opening(k)
        BY <1>2, <1>4, <2>2, <4>1 DEF Opening
      <4> QED
        BY <2>2, <4>1, <4>2, <4>3
    <3> QED
      BY <3>1, <3>2
  <2>3. CASE k # recFile
    <3>1. recFile < n \/ recFile = n
      BY <1>1, <2>1, ChunkGoes
    <3>2. k # n
      BY <1>2, <1>4, <2>3, <3>1
    <3>3. e[k] = disk[k]
      BY <1>2, <2>3, <3>2
    <3> QED
      BY <1>2, <1>4, <2>3, <3>1, <3>3 DEF Opening
  <2> QED
    BY <2>2, <2>3
<1>7. n \notin DOMAIN disk => es[e[n].ts[1]] = now /\ e[n].linked
  <2> SUFFICES ASSUME n \notin DOMAIN disk PROVE es[e[n].ts[1]] = now /\ e[n].linked
    OBVIOUS
  <2>1. n # recFile
    <3>1. n = recFile => n \in DOMAIN disk
      BY <1>1, ChunkGoes
    <3> QED
      BY <3>1
  <2>2. disk'[n].ts[1] = Chunk + 1
    BY <1>1, <2>1, ChunkGoes
  <2>3. disk'[n].linked
    BY <1>1, <2>1, ChunkGoes
  <2> QED
    BY <1>1, <1>2, <2>2, <2>3
<1>8. ASSUME NEW k \in DOMAIN e PROVE es[e[k].ts[1]] <= e[k].mtime /\ e[k].mtime <= now
  <2>1. CASE k \in DOMAIN disk
    <3>1. Chunk \in 1..Chunk
      BY <1>3, <1>4, <2>1
    <3>2. PICK o \in Nat, m \in Nat, l \in Nat : /\ o = Opening(k) /\ m = disk[k].mtime /\ l = dates[Chunk]
                                                 /\ o < now /\ o <= m /\ m <= l /\ l < now
      BY <1>2, <1>3, <1>4, <2>1, <3>1 DEF Aged
    <3> QED
      BY <1>2, <1>3, <1>6, <2>1, <3>2
  <2>2. CASE k = n /\ n \notin DOMAIN disk
    BY <1>2, <1>3, <1>7, <2>2
  <2> QED
    BY <1>2, <2>1, <2>2
<1>9. ASSUME NEW a \in DOMAIN e, NEW b \in DOMAIN e, a < b PROVE e[a].mtime < es[e[b].ts[1]]
  <2>1. a \in DOMAIN disk /\ a # n
    <3>1. CASE b \in DOMAIN disk
      <4>1. n \in Nat /\ b \in Nat /\ recFile \in Nat /\ b <= recFile /\ (recFile < n \/ recFile = n)
        BY <1>2, <1>4, <1>6, <3>1
      <4>2. a # n
        BY <1>9, <4>1
      <4> QED
        BY <1>2, <4>2
    <3>2. CASE b = n
      <4>1. a # n
        BY <1>2, <1>9, <3>2
      <4> QED
        BY <1>2, <4>1
    <3> QED
      BY <1>2, <3>1, <3>2
  <2>2. e[a].mtime = disk[a].mtime
    BY <1>6, <2>1
  <2>3. CASE b \in DOMAIN disk
    <3>1. disk[a].mtime < Opening(b)
      BY <1>9, <2>1, <2>3 DEF Aged
    <3> QED
      BY <1>6, <2>2, <2>3, <3>1
  <2>4. CASE b = n /\ n \notin DOMAIN disk
    <3>1. Chunk \in 1..Chunk
      BY <1>3, <1>4, <2>1
    <3>2. disk[a].mtime \in Nat /\ disk[a].mtime <= dates[Chunk] /\ dates[Chunk] \in Nat /\ dates[Chunk] < now
      BY <1>2, <1>3, <1>4, <2>1, <3>1 DEF Aged
    <3> QED
      BY <1>3, <1>7, <2>2, <2>4, <3>2
  <2> QED
    BY <1>2, <2>3, <2>4
<1>10. \A k \in DOMAIN e : k > n - Wanted => e[k].linked
  <2> SUFFICES ASSUME NEW k \in DOMAIN e, k > n - Wanted PROVE e[k].linked
    OBVIOUS
  <2>1. CASE k \in DOMAIN disk
    <3>1. k \in Nat /\ recFile \in Nat /\ (recFile < n \/ recFile = n) /\ Wanted \in Nat
      BY <1>4, <1>6, <2>1, RecordingAssumption DEF RecordingAssumption
    <3>2. k > recFile - Wanted
      BY <1>2, <3>1
    <3> QED
      BY <1>6, <2>1, <3>2 DEF Aged
  <2>2. CASE k = n /\ n \notin DOMAIN disk
    BY <1>7, <2>2
  <2> QED
    BY <1>2, <2>1, <2>2
<1>11. dates'[Chunk'] = now
  BY <1>1, ChunkGoes
<1> QED
  BY <1>1, <1>2, <1>8, <1>9, <1>10, <1>11 DEF Aged, Opening

(* There is no file at first.                                              *)
LEMMA AgedInit == Init => Aged
<1> SUFFICES ASSUME Init PROVE Aged
  OBVIOUS
<1>1. DOMAIN disk = {}
  BY DEF Init, RecInit
<1> QED
  BY <1>1 DEF Aged

(* They do in every step, and the last files keep their names.             *)
LEMMA AgedStep ==
    ASSUME RecInv, FewFiles, Undisturbed => Whole /\ Aged, [Next]_vars, Undisturbed'
    PROVE  Aged'
<1>1. Undisturbed /\ Whole /\ Aged
  BY UndisturbedSteps
<1>2. now \in Nat /\ DOMAIN disk \subseteq Nat
  BY <1>1, WholeTyped
<1>3. CASE RecStart
  <2>1. DOMAIN disk' = {}
    BY <1>1, <1>3 DEF RecStart, Whole, Undisturbed
  <2> QED
    BY <2>1 DEF Aged
<1>4. CASE WriteStamp
  <2>1. /\ UNCHANGED <<now, dates, recFile>> /\ DOMAIN disk' = DOMAIN disk
        /\ \A k \in DOMAIN disk : disk'[k].ts = disk[k].ts /\ disk'[k].linked = disk[k].linked
        /\ \A k \in DOMAIN disk : k # recFile => disk'[k] = disk[k]
        /\ disk'[recFile].mtime = disk[recFile].mtime
    BY <1>1, <1>4, StampGoes
  <2>2. \A k \in DOMAIN disk : disk'[k].mtime = disk[k].mtime
    BY <2>1
  <2> QED
    BY <1>1, <2>1, <2>2, AgedSame
<1>5. CASE Expire(Wanted)
  <2>1. /\ UNCHANGED <<now, dates, recFile>> /\ DOMAIN disk' = DOMAIN disk
        /\ \A k \in DOMAIN disk :
              /\ disk'[k].ts = disk[k].ts /\ disk'[k].mtime = disk[k].mtime
              /\ disk[k].linked /\ k \notin Expired(Wanted) => disk'[k].linked
    BY <1>5, CleanGoes
  <2>2. \A k \in DOMAIN disk : disk[k].linked /\ k > recFile - Wanted => disk'[k].linked
    <3> SUFFICES ASSUME NEW k \in DOMAIN disk, disk[k].linked, k > recFile - Wanted
                 PROVE  disk'[k].linked
      OBVIOUS
    <3>1. k \notin Expired(Wanted)
      BY <1>1, LastAreKept DEF Names
    <3> QED
      BY <2>1, <3>1
  <2> QED
    BY <1>1, <2>1, <2>2, AgedSame
<1>6. CASE UNCHANGED recVars /\ now' \in {now, now + 1}
  <2>1. UNCHANGED <<disk, dates, recFile>>
    BY <1>6 DEF recVars
  <2> QED
    BY <1>1, <2>1, AgedSame
<1> QED
  BY <1>1, <1>3, <1>4, <1>5, <1>6, AgedChunk, UndisturbedSteps DEF Tick

(***************************************************************************)
(* An undisturbed recorder, all of it.                                     *)
(***************************************************************************)

(* Everything of it together.                                              *)
Orderly == RecInv /\ FewFiles /\ (Undisturbed => Whole /\ InTime /\ Aged)

(* It holds at first.                                                      *)
LEMMA OrderlyInit == Init => Orderly
<1> SUFFICES ASSUME Init PROVE Orderly
  OBVIOUS
<1>1. FewFiles
  <2>1. disk = <<>>
    BY DEF Init, RecInit
  <2>2. DOMAIN disk = {}
    BY <2>1
  <2> QED
    BY <2>2, FS_EmptySet DEF FewFiles
<1> QED
  BY <1>1, RecInvInit, WholeInit, InTimeInit, AgedInit DEF Orderly

(* It is inductive.                                                        *)
LEMMA OrderlyStep == Orderly /\ [Next]_vars => Orderly'
<1> SUFFICES ASSUME Orderly, [Next]_vars PROVE Orderly'
  OBVIOUS
<1>1. RecInv /\ FewFiles /\ (Undisturbed => Whole /\ InTime /\ Aged)
  BY DEF Orderly
<1>2. RecInv' /\ FewFiles'
  BY <1>1, RecInvStep, FewFilesStep
<1>3. Undisturbed' => Whole' /\ InTime' /\ Aged'
  BY <1>1, WholeStep, InTimeStep, AgedStep
<1> QED
  BY <1>2, <1>3 DEF Orderly

(* Stamps come after their chunks.                                         *)
LEMMA AuxFits ==
    ASSUME RecInv, Undisturbed, Whole, NEW n \in DOMAIN disk
    PROVE  Len(disk[n].aux) \in 0..Len(disk[n].ts)
<1>1. Len(disk[n].aux) \in Nat /\ Len(disk[n].ts) \in Nat
  BY WholeTyped
<1>2. CASE n # recFile
  BY <1>1, <1>2 DEF Whole, WholeFile
<1>3. CASE n = recFile
  <2>1. RecTypes /\ OpenFile /\ DOMAIN disk \subseteq Nat
    BY WholeTyped DEF RecInv
  <2>2. recFile # NoFile
    BY <1>3, <2>1 DEF NoFile
  <2>3. /\ Len(disk[n].ts) = Len(Stamps(n)) + (IF rec = "stamp" THEN 1 ELSE 0)
        /\ Len(disk[n].aux) \in 0..Len(Stamps(n)) /\ Stamps(n) \in Seq(Nat)
    BY <1>3, <2>1, <2>2, StampsTyped DEF OpenFile
  <2>4. PICK s \in Nat : s = Len(Stamps(n))
    BY <2>3, LenProperties
  <2> QED
    BY <1>1, <2>3, <2>4
<1> QED
  BY <1>2, <1>3

(* What is in place and saved remains so.                                  *)
LEMMA RecordGrows ==
    ASSUME Orderly, [Next]_vars, Undisturbed'
    PROVE  /\ Saved \in Int /\ Saved' \in Int /\ Saved <= Saved'
           /\ \A n \in DOMAIN disk : /\ n \in DOMAIN disk' /\ Begin(n)' = Begin(n)
                                     /\ Len(disk[n].aux) <= Len(disk'[n].aux)
<1>1. RecInv /\ Undisturbed /\ Whole
  BY UndisturbedSteps DEF Orderly
<1>2. RecInv'
  BY OrderlyStep DEF Orderly
<1>3. /\ Made \in Int /\ Saved \in Int /\ Saved <= Made /\ Made <= Chunk /\ Chunk \in Nat
      /\ rec = "stamp" => Made = Chunk - 1
      /\ rec # "stamp" => Made = Chunk
      /\ Len(held) \in Nat
  BY <1>1, MadeTyped, WholeTyped
<1>4. Saved' \in Int
  <2>1. Chunk' \in Nat /\ Len(held') \in Nat
    BY <1>2 DEF RecInv, RecTypes, Chunk
  <2>2. Made' \in Int
    BY <2>1 DEF Made
  <2> QED
    BY <2>1, <2>2 DEF Saved
<1>5. \A n \in DOMAIN disk : /\ Len(disk[n].aux) \in Nat /\ Len(disk[n].aux) <= Len(disk[n].ts)
                             /\ Len(disk[n].ts) \in Nat
  BY <1>1, AuxFits, WholeTyped
<1>6. ASSUME DOMAIN disk' = DOMAIN disk,
             \A n \in DOMAIN disk : /\ disk'[n].ts = disk[n].ts
                                    /\ Len(disk[n].aux) <= Len(disk'[n].aux)
      PROVE  \A n \in DOMAIN disk : /\ n \in DOMAIN disk' /\ Begin(n)' = Begin(n)
                                    /\ Len(disk[n].aux) <= Len(disk'[n].aux)
  BY <1>6 DEF Begin
<1>7. CASE RecStart
  <2>1. rec = "down" /\ rec' = "idle" /\ UNCHANGED <<dates, disk>> /\ held' = <<>>
    BY <1>1, <1>7 DEF RecStart, Undisturbed
  <2>2. Chunk = 0 /\ DOMAIN disk = {}
    BY <1>1, <2>1 DEF Whole
  <2>3. Made' = 0 /\ Len(held') = 0
    BY <2>1, <2>2, EmptySeq DEF Made, Chunk
  <2>4. Saved' = 0
    BY <2>3 DEF Saved
  <2> QED
    BY <1>3, <2>1, <2>2, <2>4
<1>8. CASE WriteChunk
  <2>1. PICK n, e : n = now \div Rotate /\ e = disk'
    OBVIOUS
  <2>2. /\ rec = "idle" /\ rec' = "stamp" /\ Chunk' = Chunk + 1
        /\ DOMAIN e = DOMAIN disk \union {n}
        /\ n = recFile => held' = held
        /\ n # recFile => held' = <<>>
        /\ \A k \in DOMAIN disk : k \notin {n, recFile} => e[k] = disk[k]
    BY <1>1, <1>8, <2>1, ChunkGoes
  <2>3. Made' = Chunk /\ Made = Chunk
    BY <1>3, <2>2 DEF Made
  <2>4. Saved <= Saved'
    <3>1. CASE n = recFile
      BY <1>3, <2>2, <2>3, <3>1 DEF Saved
    <3>2. CASE n # recFile
      <4>1. Len(held') = 0
        BY <2>2, <3>2, EmptySeq
      <4> QED
        BY <1>3, <2>3, <4>1 DEF Saved
    <3> QED
      BY <3>1, <3>2
  <2>5. ASSUME NEW k \in DOMAIN disk
        PROVE  e[k].ts[1] = disk[k].ts[1] /\ Len(disk[k].aux) <= Len(e[k].aux)
    <3>1. Chunk > 0 /\ Len(disk[k].ts) > 0 /\ disk[k].ts \in Seq(Nat)
      BY <1>1, AgesTyped, WholeTyped DEF Whole, WholeFile
    <3>2. CASE k \notin {n, recFile}
      BY <1>5, <2>2, <3>2
    <3>3. CASE n = recFile /\ k = n
      <4>1. e[n].ts = Append(disk[n].ts, Chunk + 1) /\ e[n].aux = disk[n].aux
        BY <1>1, <1>8, <2>1, <3>3, ChunkGoes
      <4> QED
        BY <1>3, <1>5, <3>1, <3>3, <4>1, AppendProperties
    <3>4. CASE n # recFile /\ k = recFile
      <4>1. e[recFile].ts = disk[recFile].ts /\ e[recFile].aux = Stamps(recFile)
        BY <1>1, <1>8, <2>1, <3>1, <3>4, ChunkGoes
      <4>2. Len(disk[k].aux) \in 0..Len(Stamps(k)) /\ Stamps(k) \in Seq(Nat)
        BY <1>1, StampsTyped DEF RecInv
      <4>3. PICK s \in Nat : s = Len(Stamps(k))
        BY <4>2, LenProperties
      <4> QED
        BY <1>5, <3>4, <4>1, <4>2, <4>3
    <3>5. CASE n # recFile /\ k = n
      <4>1. n \notin DOMAIN disk
        BY <1>1, <1>8, <2>1, <3>5, ChunkGoes
      <4> QED
        BY <3>5, <4>1
    <3> QED
      BY <3>2, <3>3, <3>4, <3>5
  <2>6. \A k \in DOMAIN disk : k \in DOMAIN disk' /\ Begin(k)' = Begin(k) /\ Len(disk[k].aux) <= Len(disk'[k].aux)
    BY <2>1, <2>2, <2>5 DEF Begin
  <2> QED
    BY <1>3, <1>4, <2>4, <2>6
<1>9. CASE WriteStamp
  <2>1. /\ rec = "stamp" /\ rec' = "idle" /\ Chunk > 0 /\ dates' = dates /\ recFile' = recFile
        /\ DOMAIN disk' = DOMAIN disk
        /\ \A k \in DOMAIN disk : disk'[k].ts = disk[k].ts
        /\ \A k \in DOMAIN disk : k # recFile => disk'[k] = disk[k]
        /\ \/ held' = <<>> /\ Len(disk'[recFile].aux) = Len(disk[recFile].ts)
           \/ disk' = disk /\ Len(held') = Len(held) + 1
    BY <1>1, <1>9, StampGoes
  <2>2. Made' = Chunk /\ Made = Chunk - 1
    BY <1>3, <2>1 DEF Made, Chunk
  <2>3. CASE held' = <<>> /\ Len(disk'[recFile].aux) = Len(disk[recFile].ts)
    <3>1. Len(held') = 0
      BY <2>3, EmptySeq
    <3>2. Saved <= Saved'
      BY <1>3, <2>2, <3>1 DEF Saved
    <3>3. \A k \in DOMAIN disk : Len(disk[k].aux) <= Len(disk'[k].aux)
      <4> SUFFICES ASSUME NEW k \in DOMAIN disk PROVE Len(disk[k].aux) <= Len(disk'[k].aux)
        OBVIOUS
      <4>1. CASE k = recFile
        BY <1>5, <2>3, <4>1
      <4>2. CASE k # recFile
        BY <1>5, <2>1, <4>2
      <4> QED
        BY <4>1, <4>2
    <3> QED
      BY <1>3, <1>4, <1>6, <2>1, <3>2, <3>3
  <2>4. CASE disk' = disk /\ Len(held') = Len(held) + 1
    <3>1. Saved <= Saved'
      BY <1>3, <2>2, <2>4 DEF Saved
    <3> QED
      BY <1>3, <1>4, <1>5, <1>6, <2>4, <3>1
  <2> QED
    BY <2>1, <2>3, <2>4
<1>10. CASE Expire(Wanted)
  <2>1. UNCHANGED <<dates, rec, held>> /\ DOMAIN disk' = DOMAIN disk
        /\ \A k \in DOMAIN disk : disk'[k].ts = disk[k].ts /\ disk'[k].aux = disk[k].aux
    BY <1>1, <1>10, CleanGoes
  <2>2. Saved' = Saved
    BY <2>1 DEF Saved, Made, Chunk
  <2>3. \A k \in DOMAIN disk : Len(disk[k].aux) <= Len(disk'[k].aux)
    BY <1>5, <2>1
  <2> QED
    BY <1>3, <1>6, <2>1, <2>2, <2>3
<1>11. CASE UNCHANGED recVars
  <2>1. UNCHANGED <<dates, rec, held, disk>>
    BY <1>11 DEF recVars
  <2>2. Saved' = Saved
    BY <2>1 DEF Saved, Made, Chunk
  <2> QED
    BY <1>3, <1>5, <1>6, <2>1, <2>2
<1> QED
  BY <1>1, <1>7, <1>8, <1>9, <1>10, <1>11, UndisturbedSteps DEF recVars

(* Where a player starts in a recording that nobody disturbs, if it is far *)
(* enough behind: the chunk after that place has its stamp on disk already *)
(* and is not before the date wanted.                                      *)
LEMMA StartPlace ==
    ASSUME Orderly, Undisturbed, 2 * Gap <= Rotate, Wanted >= 2, Chunk > 0,
           NEW w \in Nat \ {0}, now >= w + FileFlush + 2 * Gap, w >= dates[1],
           NEW p, p = DirPlace(w), p.ts # NotFound
    PROVE  /\ p.file \in DOMAIN disk /\ p.ts \in 1..Len(disk[p.file].aux)
           /\ w \div Rotate <= p.file
           /\ Begin(p.file) + p.ts + 1 \in 1..Saved
           /\ w <= dates[Begin(p.file) + p.ts + 1]
<1>1. RecInv /\ Whole /\ InTime /\ Aged
  BY DEF Orderly
<1>2. /\ now \in Nat /\ Chunk \in Nat /\ Rotate \in Nat \ {0} /\ DOMAIN disk \subseteq Nat
      /\ \A c \in 1..Chunk : dates[c] \in Nat /\ FileOf(c) \in Nat /\ FileOf(c) = dates[c] \div Rotate
      /\ \A b, c \in 1..Chunk : b < c => dates[b] < dates[c] /\ FileOf(b) <= FileOf(c)
      /\ recFile \in DOMAIN disk
      /\ \A n \in DOMAIN disk : Begin(n) \in Nat /\ Len(disk[n].ts) \in Nat /\ Len(disk[n].aux) \in Nat
                                /\ Len(disk[n].aux) <= Len(disk[n].ts)
  BY <1>1, WholeTyped, AuxFits DEF FileOf
<1>3. /\ FileFlush \in Nat /\ Gap \in Nat \ {0} /\ Saved \in Int /\ Saved <= Chunk /\ Wanted \in Nat
  <2>1. Made \in Int /\ Saved \in Int /\ Saved <= Made /\ Made <= Chunk /\ FileFlush \in Nat /\ Gap \in Nat \ {0}
    BY <1>1, MadeTyped
  <2> QED
    BY <1>2, <2>1, RecordingAssumption DEF RecordingAssumption
<1>4. PICK m, n, r : m = w \div Rotate /\ n = p.file /\ r = p.ts
  OBVIOUS
<1>5. m \in Nat /\ m = GetDirFile(w, now)
  BY <1>1, <1>2, <1>4, DivIs, DirFileTyped DEF RecInv
<1>6. /\ n \in DOMAIN disk /\ n \in {m, m + 1} /\ r \in 1..Len(disk[n].aux) /\ r = Bisect(disk[n].aux, w)
      /\ disk[n].aux # <<>>
      /\ n = m + 1 => ~Here(m) \/ disk[m].aux = <<>>
  BY <1>1, <1>4, <1>5, DirPlaceIs
<1>7. PICK i \in Nat, t \in Nat, a \in Nat : i = Begin(n) /\ t = Len(disk[n].ts) /\ a = Len(disk[n].aux) /\ a <= t
  BY <1>2, <1>6
<1>8. r \in 1..a /\ r \in 1..t /\ i + r \in 1..Chunk /\ FileOf(i + r) = n
  BY <1>1, <1>6, <1>7, PlaceOf
<1>9. /\ r = a \/ disk[n].aux[r + 1] >= w
      /\ r > 1 => disk[n].aux[r] < w
  <2>1. PICK aux : aux = disk[n].aux /\ Growing(aux)
    BY <1>1, <1>6, AuxGrows
  <2>2. Found(aux, w, 0, Len(aux), r)
    BY <1>6, <2>1, BisectFinds
  <2>3. r = a \/ aux[r + 1] >= w
    BY <1>7, <2>1, <2>2 DEF Found
  <2>4. \A k \in 1..r - 1 : aux[k + 1] < w
    BY <2>2 DEF Found
  <2>5. r > 1 => aux[r] < w
    <3> SUFFICES ASSUME r > 1 PROVE aux[r] < w
      OBVIOUS
    <3>1. PICK k \in Int : k = r - 1 /\ k \in 1..r - 1 /\ k + 1 = r
      BY <1>8
    <3>2. aux[k + 1] < w
      BY <2>4, <3>1
    <3> QED
      BY <3>1, <3>2
  <2> QED
    BY <2>1, <2>3, <2>5
<1>10. PICK P \in Nat, d \in Nat : P = i + r /\ P \in 1..Chunk /\ FileOf(P) = n /\ d = dates[P]
  <2>1. i + r \in 1..Chunk /\ FileOf(i + r) = n
    BY <1>8
  <2>2. i + r \in Nat
    BY <1>2, <2>1
  <2>3. dates[i + r] \in Nat
    BY <1>2, <2>1
  <2> QED
    BY <2>1, <2>2, <2>3
<1>11. n >= m
  BY <1>5, <1>6
<1>12. SUFFICES P + 1 \in 1..Saved /\ w <= dates[P + 1]
  BY <1>4, <1>6, <1>7, <1>10, <1>11
<1>13. ASSUME d < w + Gap PROVE P + 1 \in 1..Saved /\ P + 1 \in 1..Chunk
  <2>1. now > d + Gap /\ now >= d + FileFlush + Gap
    BY <1>2, <1>3, <1>13
  <2>2. P + 1 <= Saved
    BY <1>1, <1>10, <2>1, SavedInTime
  <2> QED
    BY <1>2, <1>3, <2>2
<1>14. P <= Saved => disk[n].aux[r] = d
  <2>1. P - Begin(n) = r
    BY <1>7, <1>8, <1>10
  <2>2. P <= Saved => disk[n].aux[P - Begin(n)] = dates[P]
    BY <1>1, <1>10, SavedOnDisk
  <2> QED
    BY <1>10, <2>1, <2>2
<1>15. P <= Saved
  <2>1. P - i = r
    BY <1>8, <1>10
  <2>2. P <= Saved <=> P - Begin(n) \in 1..Len(disk[n].aux)
    BY <1>1, <1>10, SavedOnDisk
  <2> QED
    BY <1>7, <1>8, <2>1, <2>2
<1>16. CASE r < a
  <2>1. r + 1 \in 1..a /\ r + 1 \in 1..t /\ i + (r + 1) = P + 1 /\ (P + 1) - i = r + 1
    <3>1. r \in Nat /\ i \in Nat /\ a \in Nat /\ t \in Nat /\ a <= t /\ P = i + r
      BY <1>7, <1>8, <1>10
    <3> QED
      BY <3>1, <1>16
  <2>2. P + 1 \in 1..Chunk /\ FileOf(P + 1) = n
    BY <1>1, <1>6, <1>7, <2>1, PlaceOf
  <2>3. P + 1 <= Saved /\ disk[n].aux[r + 1] = dates[P + 1]
    BY <1>1, <1>7, <2>1, <2>2, SavedOnDisk
  <2>4. r # a
    BY <1>8, <1>16
  <2> QED
    BY <1>3, <1>9, <1>10, <2>3, <2>4
<1>17. CASE r = a /\ d < w
  <2>1. P + 1 \in 1..Saved /\ P + 1 \in 1..Chunk
    BY <1>3, <1>13, <1>17
  <2>2. PICK f \in Nat, e \in Nat : f = FileOf(P + 1) /\ e = dates[P + 1] /\ f = e \div Rotate
    BY <1>2, <2>1
  <2>3. f # n
    <3> SUFFICES ASSUME f = n PROVE FALSE
      OBVIOUS
    <3>1. (P + 1) - i \in 1..a
      BY <1>1, <1>7, <2>1, <2>2, SavedOnDisk
    <3> QED
      BY <1>8, <1>10, <1>17, <3>1
  <2>4. n <= f
    BY <1>2, <1>10, <2>1, <2>2
  <2>5. ~(e <= w)
    <3> SUFFICES ASSUME e <= w PROVE FALSE
      OBVIOUS
    <3>1. f <= m
      BY <1>2, <1>4, <2>2, DivNear
    <3> QED
      BY <1>2, <1>5, <1>6, <1>11, <2>2, <2>3, <2>4, <3>1
  <2> QED
    BY <2>1, <2>2, <2>5
<1>18. CASE r = a /\ d >= w
  <2>1. r = 1 /\ a = 1
    BY <1>8, <1>9, <1>14, <1>15, <1>18
  <2>2. ASSUME d < w + Gap PROVE P + 1 \in 1..Saved /\ w <= dates[P + 1]
    <3>1. P + 1 \in 1..Saved /\ P + 1 \in 1..Chunk
      BY <1>13, <2>2
    <3>2. dates[P] < dates[P + 1] /\ dates[P + 1] \in Nat
      <4>1. P < P + 1 /\ P \in 1..Chunk
        BY <1>10
      <4> QED
        BY <1>2, <3>1, <4>1
    <3> QED
      BY <1>10, <1>18, <3>1, <3>2
  <2>3. CASE P = 1
    BY <1>3, <1>10, <2>2, <2>3
  <2>4. CASE P # 1
    <3>1. P - 1 \in 1..Chunk /\ P > 1 /\ P - 1 < P
      <4>1. Chunk \in Nat /\ P \in 1..Chunk
        BY <1>2, <1>10
      <4> QED
        BY <2>4, <4>1
    <3>2. PICK c \in Nat, f \in Nat : c = dates[P - 1] /\ f = FileOf(P - 1) /\ f = c \div Rotate
      BY <1>2, <3>1
    <3>3. d <= c + Gap
      BY <1>1, <1>10, <3>1, <3>2 DEF InTime
    <3>4. CASE c < w
      BY <1>3, <2>2, <3>3, <3>4
    <3>5. CASE ~(c < w)
      <4>1. f >= m
        BY <1>2, <1>4, <3>2, <3>5, DivNear
      <4>2. f <= n
        BY <1>2, <1>10, <3>1, <3>2
      <4>3. f # n
        <5> SUFFICES ASSUME f = n PROVE FALSE
          OBVIOUS
        <5>1. (P - 1) - i \in 1..t
          BY <1>1, <1>7, <3>1, <3>2, SavedOnDisk
        <5> QED
          BY <1>10, <2>1, <5>1
      <4>4. f = m /\ n = m + 1 /\ f \in DOMAIN disk
        <5>1. f \in DOMAIN disk
          BY <1>1, <3>1, <3>2 DEF Whole
        <5> QED
          BY <1>5, <1>6, <3>2, <4>1, <4>2, <4>3, <5>1
      <4>5. n \in Nat /\ recFile \in Nat /\ n <= recFile
        BY <1>1, <1>2, <1>6, AgesTyped
      <4>6. disk[m].aux # <<>>
        <5>1. Len(disk[m].aux) = Len(disk[m].ts) /\ Len(disk[m].ts) > 0
          BY <1>1, <1>5, <4>4, <4>5 DEF Whole, WholeFile
        <5> QED
          BY <1>2, <4>4, <5>1, EmptySeq
      <4>7. ~disk[m].linked
        BY <1>6, <4>4, <4>6 DEF Here
      <4>8. ~(m > recFile - Wanted)
        BY <1>1, <4>4, <4>7 DEF Aged
      <4>9. n < recFile
        BY <1>3, <1>5, <4>4, <4>5, <4>8
      <4>10. t = 1
        <5>1. WholeFile(n) /\ n # recFile
          BY <1>1, <1>6, <4>5, <4>9 DEF Whole
        <5> QED
          BY <1>7, <2>1, <5>1 DEF WholeFile
      <4>11. P + 1 \in 1..Chunk
        <5>1. i + t <= Begin(recFile)
          BY <1>1, <1>2, <1>6, <1>7, <4>9, FilesFollow
        <5>2. Begin(recFile) + Len(disk[recFile].ts) = Chunk
          BY <1>1 DEF Whole
        <5>3. PICK x \in Nat, y \in Nat : x = Begin(recFile) /\ y = Len(disk[recFile].ts) /\ y > 0 /\ x + y = Chunk
          BY <1>1, <1>2, <5>2 DEF Whole, WholeFile
        <5>4. P = i + 1 /\ i + 1 <= x
          BY <1>10, <2>1, <4>10, <5>1, <5>3
        <5> QED
          BY <1>2, <5>3, <5>4
      <4>12. PICK e \in Nat, g \in Nat : e = dates[P + 1] /\ g = FileOf(P + 1) /\ g = e \div Rotate
        BY <1>2, <4>11
      <4>13. g # n
        <5> SUFFICES ASSUME g = n PROVE FALSE
          OBVIOUS
        <5>1. (P + 1) - i \in 1..t
          BY <1>1, <1>7, <4>11, <4>12, SavedOnDisk
        <5> QED
          BY <1>10, <2>1, <4>10, <5>1
      <4>14. n <= g
        BY <1>2, <1>10, <4>11, <4>12
      <4>15. e <= d + Gap
        <5>1. P + 1 > 1 /\ (P + 1) - 1 = P
          BY <1>10
        <5> QED
          BY <1>1, <1>10, <4>11, <4>12, <5>1 DEF InTime
      <4>16. e <= c + Rotate
        BY <1>2, <1>3, <3>3, <4>15
      <4>17. g <= f + 1
        BY <1>2, <3>2, <4>12, <4>16, DivNear
      <4> QED
        BY <4>4, <4>5, <4>12, <4>13, <4>14, <4>17
    <3> QED
      BY <3>4, <3>5
  <2> QED
    BY <2>3, <2>4
<1> QED
  BY <1>8, <1>10, <1>16, <1>17, <1>18

(***************************************************************************)
(* A player that follows it.                                               *)
(***************************************************************************)

-----------------------------------------------------------------------------
(* A player of a directory: it has no end of a file of its own.            *)
Started == play \notin {"off", "refused"}
DirInv == mode = "dir" =>
    /\ b_die => told
    /\ ~Started => sent = <<>>
    /\ Started => first > 0 /\ (faults = {} => Chunk > 0)

(* It has not started at first.                                            *)
LEMMA DirInvInit == Init => DirInv
<1> SUFFICES ASSUME Init PROVE DirInv
  OBVIOUS
<1>1. play = "off" /\ sent = <<>>
  BY DEF Init, PlayInit
<1>2. b_die = FALSE
  BY DEF Init, PlayInit
<1>3. ~Started
  BY <1>1 DEF Started
<1> QED
  BY <1>1, <1>2, <1>3 DEF DirInv

(* It starts at a place after a stamp, and ends when told or at its end of *)
(* the directory.                                                          *)
LEMMA DirInvStep ==
    ASSUME Orderly, PlayInv, DirInv, [Next]_vars
    PROVE  DirInv'
<1>1. Later /\ RecInv
  BY LaterStep DEF Orderly
<1>2. SUFFICES ASSUME mode = "dir"
               PROVE  /\ b_die' => told'
                      /\ ~Started' => sent' = <<>>
                      /\ Started' => first' > 0 /\ (faults' = {} => Chunk' > 0)
  BY <1>1 DEF DirInv, Later, mode
<1>3. Chunk \in Nat /\ Chunk' \in Nat /\ Chunk <= Chunk' /\ first \in Int
  <2>1. first \in Int
    BY DEF PlayInv
  <2>2. Chunk <= Chunk' /\ Chunk' = Len(dates') /\ dates' \in Seq(Nat) /\ dates \in Seq(Nat) /\ Chunk = Len(dates)
    BY <1>1 DEF RecInv, RecTypes, Chunk, Later
  <2> QED
    BY <2>1, <2>2, LenProperties
<1>4. faults' = {} => faults = {}
  BY <1>1, <1>2, UndisturbedSteps DEF Undisturbed, Later, mode
<1>5. CASE UNCHANGED playVars
  <2>1. UNCHANGED <<play, first, sent>>
    BY <1>5 DEF playVars
  <2>2. UNCHANGED <<b_die, told>>
    BY <1>5 DEF playVars
  <2> QED
    BY <1>2, <1>3, <1>4, <2>1, <2>2 DEF DirInv, Started
<1>6. ASSUME UNCHANGED <<now, recVars>>,
             NEW i_pos \in Positions, dir_InitRead(i_pos) \/ file_InitRead(i_pos)
      PROVE  /\ b_die' => told'
             /\ ~Started' => sent' = <<>>
             /\ Started' => first' > 0 /\ (faults' = {} => Chunk' > 0)
  <2>1. i_pos \in Int
    BY PlayerAssumption DEF PlayerAssumption
  <2>2. /\ play = "off" /\ play' \in {"refused", "test"} /\ first' = stc' /\ sent' = sent
        /\ play' = "test" => stc' > 0 /\ fd'.file \in DOMAIN disk
    BY <1>1, <1>2, <1>6, <2>1, StartIs
  <2>3. UNCHANGED <<b_die, told>>
    BY <1>1, <1>2, <1>6, <2>1, StartIs
  <2>4. sent = <<>>
    BY <2>2 DEF PlayInv
  <2>5. ASSUME play' = "test", faults' = {} PROVE Chunk' > 0
    <3>1. Undisturbed /\ Whole
      BY <1>1, <1>2, <1>4, <2>5 DEF Undisturbed, Orderly
    <3>2. DOMAIN disk # {}
      BY <2>2, <2>5
    <3> QED
      BY <1>3, <3>1, <3>2 DEF Whole
  <2>6. Started' => play' = "test"
    BY <2>2 DEF Started
  <2>7. b_die' => told'
    BY <1>2, <2>3 DEF DirInv
  <2> QED
    BY <2>2, <2>4, <2>5, <2>6, <2>7
<1>7. CASE Loop \/ Waits \/ Drop \/ Send
  <2>1. UNCHANGED first /\ Started /\ Started'
    BY <1>7, WaitsIs DEF Loop, Drop, Send, Started, Playing
  <2>2. UNCHANGED <<b_die, told>>
    BY <1>7, WaitsIs DEF Loop, Drop, Send
  <2>3. b_die' => told'
    BY <1>2, <2>2 DEF DirInv
  <2>4. Started => first > 0 /\ (faults = {} => Chunk > 0)
    BY <1>2 DEF DirInv
  <2> QED
    BY <1>2, <1>3, <1>4, <2>1, <2>3, <2>4
<1>8. CASE ReadChunk /\ UNCHANGED <<now, recVars>>
  <2>1. play = "read" /\ play' = "delay" /\ first' = IF first = 0 THEN stc' ELSE first
    BY <1>8 DEF ReadChunk
  <2>2. UNCHANGED <<b_die, told>>
    BY <1>8 DEF ReadChunk
  <2>3. b_die' => told'
    BY <1>2, <2>2 DEF DirInv
  <2>4. Started /\ Started'
    BY <2>1 DEF Started
  <2>5. first > 0 /\ (faults = {} => Chunk > 0)
    BY <1>2, <2>4 DEF DirInv
  <2>6. first' = first
    BY <1>3, <2>1, <2>5
  <2> QED
    BY <1>2, <1>3, <1>4, <2>3, <2>4, <2>5, <2>6
<1>9. CASE NextFile
  <2>1. play = "read" /\ play' \in {"read", "ended"} /\ first' = first
    BY <1>9 DEF NextFile
  <2>2. b_die' = FALSE
    BY <1>9 DEF NextFile
  <2>3. Started /\ Started'
    BY <2>1 DEF Started
  <2>4. Started => first > 0 /\ (faults = {} => Chunk > 0)
    BY <1>2 DEF DirInv
  <2> QED
    BY <1>2, <1>3, <1>4, <2>1, <2>2, <2>3, <2>4
<1>10. CASE Signal
  <2>1. UNCHANGED <<play, first, sent>>
    BY <1>10 DEF Signal
  <2>2. told' = TRUE
    BY <1>10 DEF Signal
  <2>3. Started' <=> Started
    BY <2>1 DEF Started
  <2>4. Started => first > 0 /\ (faults = {} => Chunk > 0)
    BY <1>2 DEF DirInv
  <2>5. ~Started => sent = <<>>
    BY <1>2 DEF DirInv
  <2> QED
    BY <1>2, <1>3, <1>4, <2>1, <2>2, <2>3, <2>4, <2>5
<1>11. ~FileEnds
  BY <1>2 DEF FileEnds
<1> QED
  BY <1>5, <1>6, <1>7, <1>8, <1>9, <1>10, <1>11, PlaySteps

(* A player that follows a recording as Following says: the chunk it reads *)
(* next has its stamp on disk, and is the one after the chunk it sent      *)
(* last.                                                                   *)
Reached == Begin(fd.file) + fd.ts
InTurn ==
    /\ play = "ended" => told
    /\ \A k \in 1..Len(sent) - 1 : sent[k + 1].chunk = sent[k].chunk + 1
Placed ==
    /\ stc > 0 /\ stc \div Rotate <= fd.file /\ fd.ts <= Len(Opened.aux)
    /\ sent # <<>> => sent[Len(sent)].chunk = Reached - (IF InHand THEN 1 ELSE 0)
    /\ play \in {"test", "read"} =>
          now - delay = stc /\ Reached + 1 \in 1..Saved /\ stc <= dates[Reached + 1]
    /\ InHand => now - delay <= stc /\ chunk = Reached /\ fd.ts > 0
FollowInv == Following /\ Started => InTurn /\ (Playing => Placed)

(* What it has to rely on while it follows.                                *)
LEMMA FollowingIs ==
    ASSUME Orderly, PlayInv, Following
    PROVE  /\ Undisturbed /\ RecInv /\ Whole /\ InTime /\ Aged /\ ~given.slow /\ mode = "dir"
           /\ delay \in Int /\ stc \in Int /\ first \in Int
           /\ first >= dates[1] /\ delay >= FileFlush + 2 * Gap /\ delay <= Wanted * Rotate
           /\ 2 * Gap <= Rotate /\ Wanted >= 2 /\ Chunk > 0
           /\ Gap \in Nat \ {0} /\ FileFlush \in Nat /\ Wanted \in Nat /\ Rotate \in Nat \ {0}
           /\ now \in Nat /\ Chunk \in Nat /\ Saved \in Int /\ Saved <= Chunk
           /\ Wanted * Rotate \in Nat
<1>1. Undisturbed
  BY DEF Following, Undisturbed
<1>2. RecInv /\ Whole /\ InTime /\ Aged
  BY <1>1 DEF Orderly
<1>3. now \in Nat /\ Chunk \in Nat /\ Rotate \in Nat \ {0}
  BY <1>1, <1>2, WholeTyped
<1>4. Chunk > 0
  <2>1. dates # <<>> /\ dates \in Seq(Nat) /\ Chunk = Len(dates)
    BY <1>2 DEF Following, RecInv, RecTypes, Chunk
  <2> QED
    BY <1>3, <2>1, EmptySeq
<1>5. Made \in Int /\ Saved \in Int /\ Saved <= Made /\ Made <= Chunk /\ FileFlush \in Nat /\ Gap \in Nat \ {0}
  BY <1>1, <1>2, MadeTyped
<1>6. Wanted \in Nat
  BY RecordingAssumption DEF RecordingAssumption
<1>7. Wanted * Rotate \in Nat
  <2>1. PICK w \in Nat, r \in Nat : w = Wanted /\ r = Rotate
    BY <1>3, <1>6
  <2>2. w * r \in Nat
    BY SMTT(30)
  <2> QED
    BY <2>1, <2>2
<1>8. delay \in Int /\ stc \in Int /\ first \in Int
  BY DEF PlayInv
<1>9. /\ ~given.slow /\ mode = "dir"
      /\ first >= dates[1] /\ delay >= FileFlush + 2 * Gap /\ delay <= Wanted * Rotate
      /\ 2 * Gap <= Rotate /\ Wanted >= 2
  BY DEF Following
<1>10. Saved <= Chunk
  BY <1>3, <1>5
<1> QED
  BY <1>1, <1>2, <1>3, <1>4, <1>5, <1>6, <1>7, <1>8, <1>9, <1>10

(* It was following before, once it has started.                           *)
LEMMA FollowingBefore ==
    ASSUME Orderly, PlayInv, DirInv, [Next]_vars, Following', Started
    PROVE  Following /\ UNCHANGED <<first, delay>>
<1>1. Later /\ RecInv /\ RecTypes
  BY LaterStep DEF Orderly, RecInv
<1>2. mode = "dir" /\ given' = given
  BY <1>1 DEF Following, Later, mode
<1>3. Undisturbed
  <2>1. Undisturbed'
    BY DEF Following, Undisturbed
  <2> QED
    BY <1>1, <2>1, UndisturbedSteps
<1>4. first > 0 /\ Chunk > 0 /\ first \in Int
  BY <1>2, <1>3 DEF DirInv, Undisturbed, PlayInv
<1>5. UNCHANGED <<first, delay>>
  <2>1. ASSUME NEW i_pos \in Positions, dir_InitRead(i_pos) \/ file_InitRead(i_pos) PROVE FALSE
    BY <2>1 DEF dir_InitRead, file_InitRead, Started
  <2>2. ReadChunk => UNCHANGED <<first, delay>>
    BY <1>4 DEF ReadChunk
  <2>3. Loop \/ FileEnds \/ NextFile \/ Waits \/ Drop \/ Send \/ Signal \/ UNCHANGED playVars
           => UNCHANGED <<first, delay>>
    BY WaitsIs DEF Loop, FileEnds, NextFile, Drop, Send, Signal, playVars
  <2> QED
    BY <2>1, <2>2, <2>3, PlaySteps
<1>6. dates'[1] = dates[1] /\ dates # <<>>
  <2>1. Chunk = Len(dates) /\ Chunk \in Nat /\ 1 \in 1..Chunk
    BY <1>1, <1>4 DEF RecTypes, Chunk
  <2> QED
    BY <1>1, <1>4, <2>1, EmptySeq DEF Later
<1>7. /\ ~given'.slow
      /\ first' >= dates'[1] /\ delay' >= FileFlush + 2 * Gap /\ delay' <= Wanted * Rotate
      /\ 2 * Gap <= Rotate /\ Wanted >= 2
  BY DEF Following
<1> QED
  BY <1>2, <1>3, <1>5, <1>6, <1>7 DEF Following, Undisturbed

(* The chunk it reads next is at the place it has reached, or is the first *)
(* one of the next file.                                                   *)
LEMMA NextPlace ==
    ASSUME Orderly, PlayInv, Following, Playing, Placed, play = "read"
    PROVE  /\ fd.file \in DOMAIN disk /\ fd.ts \in Nat /\ fd = Place(fd.file, fd.ts)
           /\ HasStamp => /\ HasChunk /\ Reached + 1 \in 1..Chunk
                          /\ fd.ts < Len(Opened.ts)
                          /\ Opened.ts[fd.ts + 1] = Reached + 1
                          /\ Opened.aux[fd.ts + 1] = dates[Reached + 1]
                          /\ dates[Reached + 1] \div Rotate = fd.file
           /\ ~HasStamp => Here(fd.file + 1) /\ Begin(fd.file + 1) = Reached
<1>1. PICK n, k : n = fd.file /\ k = fd.ts
  OBVIOUS
<1>2. n \in DOMAIN disk /\ k \in Nat /\ fd.aux = k /\ fd = Place(n, k)
  BY <1>1 DEF PlayInv, Places, Place
<1>3. /\ Undisturbed /\ RecInv /\ Whole /\ InTime /\ Aged
      /\ delay \in Int /\ stc \in Int /\ delay <= Wanted * Rotate
      /\ 2 * Gap <= Rotate /\ Wanted >= 2 /\ Chunk > 0
      /\ Gap \in Nat \ {0} /\ Wanted \in Nat /\ Rotate \in Nat \ {0}
      /\ now \in Nat /\ Chunk \in Nat /\ Saved \in Int /\ Saved <= Chunk /\ Wanted * Rotate \in Nat
  BY FollowingIs
<1>4. PICK i \in Nat, t \in Nat, a \in Nat : i = Begin(n) /\ t = Len(disk[n].ts) /\ a = Len(disk[n].aux) /\ a <= t
  <2>1. Begin(n) \in Nat /\ Len(disk[n].ts) \in Nat /\ Len(disk[n].aux) \in 0..Len(disk[n].ts)
    BY <1>2, <1>3, WholeTyped, AuxFits
  <2> QED
    BY <2>1
<1>5. PICK P \in Nat : P = Reached /\ P = i + k /\ P + 1 \in 1..Saved /\ P + 1 \in 1..Chunk
  <2>1. Reached = i + k
    BY <1>1, <1>4 DEF Reached
  <2>2. Reached + 1 \in 1..Saved
    BY DEF Placed
  <2> QED
    BY <1>2, <1>3, <2>1, <2>2
<1>6. k <= a /\ stc \div Rotate <= n /\ now - delay = stc /\ stc > 0
  BY <1>1, <1>4 DEF Placed, Opened
<1>7. HasStamp <=> k < a
  BY <1>1, <1>2, <1>4 DEF HasStamp, Opened
<1>8. CASE k < a
  <2>1. k + 1 \in 1..t /\ k + 1 \in 1..a /\ i + (k + 1) = P + 1 /\ (P + 1) - i = k + 1 /\ k < t
    BY <1>2, <1>4, <1>5, <1>8
  <2>2. FileOf(P + 1) = n /\ disk[n].ts[k + 1] = P + 1
    BY <1>2, <1>3, <1>4, <2>1, PlaceOf
  <2>3. disk[n].aux[k + 1] = dates[P + 1]
    BY <1>3, <1>4, <1>5, <2>1, <2>2, SavedOnDisk
  <2>4. HasChunk
    BY <1>1, <1>4, <2>1 DEF HasChunk, Opened
  <2> QED
    BY <1>1, <1>2, <1>4, <1>5, <1>7, <1>8, <2>1, <2>2, <2>3, <2>4 DEF Opened, FileOf
<1>9. CASE k = a
  <2>1. PICK m \in Nat : m = FileOf(P + 1) /\ m \in DOMAIN disk
    BY <1>3, <1>5, WholeTyped DEF Whole
  <2>2. (P + 1) - Begin(m) \in 1..Len(disk[m].aux)
    BY <1>3, <1>5, <2>1, SavedOnDisk
  <2>3. m # n
    <3> SUFFICES ASSUME m = n PROVE FALSE
      OBVIOUS
    <3>1. (P + 1) - i \in 1..a
      BY <1>4, <2>2
    <3> QED
      BY <1>5, <1>9, <3>1
  <2>4. t > 0 /\ n \in Nat
    BY <1>2, <1>3, <1>4, WholeTyped DEF Whole, WholeFile
  <2>5. k > 0
    <3> SUFFICES ASSUME k = 0 PROVE FALSE
      BY <1>2
    <3>1. 1 \in 1..t /\ i + 1 = P + 1
      BY <1>5, <2>4
    <3>2. FileOf(P + 1) = n
      BY <1>2, <1>3, <1>4, <3>1, PlaceOf
    <3> QED
      BY <2>1, <2>3, <3>2
  <2>6. P \in 1..Chunk /\ FileOf(P) = n
    <3>1. k \in 1..t
      BY <1>2, <1>4, <1>9, <2>5
    <3> QED
      BY <1>2, <1>3, <1>4, <1>5, <3>1, PlaceOf
  <2>7. m = n + 1
    <3>1. n <= m
      <4>1. P < P + 1
        OBVIOUS
      <4> QED
        BY <1>3, <1>5, <2>1, <2>6, <4>1, WholeTyped
    <3>2. PICK d \in Nat, e \in Nat : d = dates[P] /\ e = dates[P + 1]
      BY <1>3, <1>5, <2>6, WholeTyped
    <3>3. e <= d + Gap
      <4>1. P + 1 > 1 /\ (P + 1) - 1 = P
        BY <2>6
      <4> QED
        BY <1>3, <1>5, <3>2, <4>1 DEF InTime
    <3>4. e <= d + Rotate
      BY <1>3, <3>2, <3>3
    <3>5. e \div Rotate <= d \div Rotate + 1
      BY <1>3, <3>2, <3>4, DivNear
    <3>6. m <= n + 1
      BY <2>1, <2>6, <3>2, <3>5 DEF FileOf
    <3> QED
      BY <2>1, <2>3, <2>4, <3>1, <3>6
  <2>8. /\ recFile \in Nat /\ recFile \in DOMAIN disk /\ m <= recFile /\ n < recFile
    <3>1. recFile \in Nat /\ m <= recFile /\ recFile \in DOMAIN disk
      BY <1>3, <2>1, AgesTyped, WholeTyped
    <3> QED
      BY <2>1, <2>4, <2>7, <3>1
  <2>9. recFile <= n + Wanted
    <3>1. PICK d \in Nat : d = dates[Chunk] /\ d <= now /\ recFile = d \div Rotate
      <4>1. Chunk \in 1..Chunk
        BY <1>3
      <4> QED
        BY <1>3, <4>1, WholeTyped DEF Whole, FileOf
    <3>2. PICK s \in Nat, x \in Nat : s = stc /\ x = Wanted * Rotate /\ d <= s + x
      BY <1>3, <1>6, <3>1
    <3>3. d \div Rotate <= s \div Rotate + Wanted
      BY <1>3, <3>1, <3>2, DivFar
    <3>4. s \div Rotate \in Nat /\ s \div Rotate <= n
      BY <1>3, <1>6, <3>2, DivIs
    <3> QED
      BY <1>3, <2>4, <2>8, <3>1, <3>3, <3>4
  <2>10. m > recFile - Wanted
    BY <1>3, <2>4, <2>7, <2>8, <2>9
  <2>11. Here(m)
    BY <1>3, <2>1, <2>10 DEF Aged, Here
  <2>12. Begin(m) = P
    <3>1. i + t <= Begin(m) /\ Begin(m) \in Nat
      BY <1>2, <1>3, <1>4, <2>1, <2>4, <2>7, FilesFollow, WholeTyped
    <3>2. a = t
      BY <1>2, <1>3, <1>4, <2>4, <2>8 DEF Whole, WholeFile
    <3>3. (P + 1) - Begin(m) >= 1
      BY <2>2
    <3>4. PICK b \in Nat : b = Begin(m) /\ i + t <= b /\ (P + 1) - b >= 1
      BY <3>1, <3>3
    <3>5. b = P
      BY <1>5, <1>9, <3>2, <3>4
    <3> QED
      BY <3>4, <3>5
  <2>13. ~HasStamp
    BY <1>7, <1>9
  <2>14. Here(fd.file + 1) /\ Begin(fd.file + 1) = Reached
    BY <1>1, <1>5, <2>7, <2>11, <2>12
  <2> QED
    BY <1>1, <1>2, <2>13, <2>14
<1> QED
  BY <1>2, <1>4, <1>6, <1>8, <1>9

(* What others do leaves it in its place.                                  *)
LEMMA OthersFollow ==
    ASSUME Orderly, PlayInv, Delays, DirSent, Following, Playing => Placed, InTurn,
           [Next]_vars, Following', UNCHANGED playVars
    PROVE  InTurn' /\ (Playing' => Placed')
<1>1. /\ UNCHANGED <<play, fd, chunk, stc, delay, wake, sent>>
  BY DEF playVars
<1>2. told' = told
  BY DEF playVars
<1>3. InTurn' /\ (Playing' <=> Playing)
  BY <1>1, <1>2 DEF InTurn, Playing
<1>4. SUFFICES ASSUME Playing, Placed PROVE Placed'
  BY <1>3
<1>5. /\ Undisturbed /\ RecInv /\ ~given.slow /\ mode = "dir"
      /\ delay \in Int /\ stc \in Int /\ now \in Nat /\ Chunk \in Nat /\ Saved \in Int /\ Saved <= Chunk
  BY FollowingIs
<1>6. Undisturbed'
  BY DEF Following, Undisturbed
<1>7. fd.file \in DOMAIN disk /\ fd.ts \in Int
  BY <1>4 DEF PlayInv, Places
<1>8. /\ Saved' \in Int /\ Saved <= Saved'
      /\ Begin(fd.file)' = Begin(fd.file)
      /\ Len(Opened.aux) <= Len(Opened'.aux)
  BY <1>1, <1>6, <1>7, RecordGrows DEF Opened, Begin
<1>9. PICK P : P = Reached /\ P = Reached'
  BY <1>1, <1>8 DEF Reached
<1>10. Len(Opened.aux) \in Nat /\ Len(Opened'.aux) \in Nat
  <2>1. RecInv' /\ RecTypes
    BY <1>5, RecInvStep DEF RecInv
  <2>2. disk[fd.file] \in PairOfFiles
    BY <1>7, <2>1, StampsTyped
  <2>3. disk'[fd.file] \in PairOfFiles
    <3>1. fd.file \in DOMAIN disk'
      BY <1>5, <1>7, LaterStep DEF Later
    <3> QED
      BY <2>1, <3>1 DEF RecInv, RecTypes
  <2> QED
    BY <1>1, <2>2, <2>3, LenProperties DEF Opened, PairOfFiles
<1>11. stc' > 0 /\ stc' \div Rotate <= fd'.file /\ fd'.ts <= Len(Opened'.aux)
  BY <1>1, <1>4, <1>7, <1>8, <1>10 DEF Placed
<1>12. sent' # <<>> => sent'[Len(sent')].chunk = Reached' - (IF InHand' THEN 1 ELSE 0)
  BY <1>1, <1>4, <1>9 DEF Placed, InHand
<1>13. CASE InHand
  <2>1. now - delay <= stc /\ chunk = P /\ fd.ts > 0
    BY <1>4, <1>9, <1>13 DEF Placed
  <2>2. now' - delay <= stc
    <3>1. CASE now' = now + 1 /\ ~Busy
      <4>1. play = "sleep" /\ ~(wake <= now)
        BY <1>13, <3>1 DEF Busy, InHand
      <4>2. wake - delay - stc = 0 /\ wake \in Int
        BY <1>5, <4>1 DEF DirSent, PlayInv
      <4> QED
        BY <1>5, <3>1, <4>1, <4>2
    <3>2. CASE now' = now
      BY <2>1, <3>2
    <3> QED
      BY <1>5, <3>1, <3>2, TimeStill
  <2>3. play' \notin {"test", "read"}
    BY <1>1, <1>13 DEF InHand
  <2> QED
    BY <1>1, <1>9, <1>11, <1>12, <2>1, <2>2, <2>3 DEF Placed
<1>14. CASE play \in {"test", "read"}
  <2>1. now - delay = stc /\ P + 1 \in 1..Saved /\ stc <= dates[P + 1]
    BY <1>4, <1>9, <1>14 DEF Placed
  <2>2. P + 1 \in 1..Saved' /\ dates'[P + 1] = dates[P + 1]
    <3>1. P + 1 \in 1..Chunk
      BY <1>5, <2>1
    <3>2. \A c \in 1..Chunk : dates'[c] = dates[c]
      BY <1>5, LaterStep DEF Later
    <3>3. P + 1 \in 1..Saved'
      BY <1>5, <1>8, <2>1
    <3> QED
      BY <3>1, <3>2, <3>3
  <2>3. now' = now
    <3>1. Busy
      BY <1>14 DEF Busy
    <3> QED
      BY <1>5, <3>1, TimeStill
  <2>4. ~InHand'
    BY <1>1, <1>14 DEF InHand
  <2> QED
    BY <1>1, <1>9, <1>11, <1>12, <2>1, <2>2, <2>3, <2>4 DEF Placed
<1> QED
  BY <1>4, <1>13, <1>14 DEF Playing, InHand

(* What it does itself.                                                    *)
LEMMA StartFollows ==
    ASSUME Orderly, PlayInv, Following', UNCHANGED <<now, recVars>>, play' = "test",
           NEW i_pos \in Int, dir_InitRead(i_pos) \/ file_InitRead(i_pos)
    PROVE  InTurn' /\ Placed'
<1>1. RecInv /\ UNCHANGED <<disk, dates, now, given, faults, rec, held>>
  BY DEF Orderly, recVars
<1>2. mode = "dir" /\ Undisturbed
  BY <1>1 DEF Following, mode, Undisturbed
<1>3. /\ play = "off" /\ first' = stc' /\ stc' \in Int /\ stc' > 0 /\ delay' = now - stc'
      /\ fd' = DirPlace(stc') /\ fd'.ts # NotFound /\ UNCHANGED sent
  BY <1>1, <1>2, StartIs
<1>a. PICK w \in Nat \ {0} : w = stc'
  BY <1>3
<1>4. PICK p : w = stc' /\ p = fd' /\ p = DirPlace(w) /\ p.ts # NotFound
  BY <1>3, <1>a
<1>5. Whole
  BY <1>2 DEF Orderly
<1>6. now \in Nat /\ Chunk \in Nat
  BY <1>1, <1>2, <1>5, WholeTyped
<1>7. Chunk > 0
  <2>1. dates # <<>> /\ dates \in Seq(Nat) /\ Chunk = Len(dates)
    BY <1>1 DEF Following, RecInv, RecTypes, Chunk
  <2> QED
    BY <1>6, <2>1, EmptySeq
<1>8. /\ 2 * Gap <= Rotate /\ Wanted >= 2 /\ w >= dates[1] /\ now - w >= FileFlush + 2 * Gap
  BY <1>1, <1>3, <1>4 DEF Following
<1>9. FileFlush \in Nat /\ Gap \in Nat
  BY RecorderAssumption, RecordingAssumption DEF RecorderAssumption, RecordingAssumption
<1>10. now >= w + FileFlush + 2 * Gap
  BY <1>6, <1>8, <1>9
<1>11. /\ p.file \in DOMAIN disk /\ p.ts \in 1..Len(disk[p.file].aux)
       /\ w \div Rotate <= p.file
       /\ Begin(p.file) + p.ts + 1 \in 1..Saved
       /\ w <= dates[Begin(p.file) + p.ts + 1]
  BY <1>2, <1>4, <1>7, <1>8, <1>10, StartPlace
<1>12. Len(disk[p.file].aux) \in Nat
  BY <1>1, <1>2, <1>5, <1>11, WholeTyped
<1>13. Saved' = Saved /\ Reached' = Begin(p.file) + p.ts /\ Opened' = disk[p.file]
  BY <1>1, <1>4 DEF Saved, Made, Chunk, Reached, Begin, Opened
<1>14. sent' = <<>>
  BY <1>3 DEF PlayInv
<1>15. now' - delay' = stc'
  <2>1. now - (now - w) = w
    BY <1>6
  <2>2. now' - delay' = now - (now - w)
    BY <1>1, <1>3, <1>4
  <2> QED
    BY <1>4, <2>1, <2>2
<1>16. p.ts <= Len(disk[p.file].aux)
  BY <1>11, <1>12
<1>17. Placed'
  <2>1. ~InHand'
    BY DEF InHand
  <2> QED
    BY <1>1, <1>3, <1>4, <1>11, <1>13, <1>14, <1>15, <1>16, <2>1 DEF Placed
<1>18. InTurn'
  <2>1. Len(sent') = 0 /\ play' # "ended"
    BY <1>14, EmptySeq
  <2>2. ~(\E k \in 1..Len(sent') - 1 : TRUE)
    BY <2>1
  <2> QED
    BY <2>1, <2>2 DEF InTurn
<1> QED
  BY <1>17, <1>18

(* It reads the chunk after the one it sent last.                          *)
LEMMA ReadFollows ==
    ASSUME Orderly, PlayInv, Following, InTurn, Placed, UNCHANGED <<now, recVars>>, ReadChunk
    PROVE  InTurn' /\ Placed'
<1>1. /\ play = "read" /\ play' = "delay" /\ HasStamp /\ UNCHANGED <<delay, sent>>
      /\ ~InHand /\ InHand'
  BY DEF ReadChunk, InHand
<1>2. told' = told /\ Playing
  BY <1>1 DEF ReadChunk, Playing
<1>3. InTurn'
  BY <1>1, <1>2 DEF InTurn
<1>4. UNCHANGED <<now, disk>>
  BY DEF recVars
<1>5. /\ chunk' = IF fd.ts < Len(Opened.ts) THEN Opened.ts[fd.ts + 1] ELSE Garbled
      /\ stc' = Opened.aux[fd.aux + 1]
      /\ fd' = [fd EXCEPT !.ts = @ + 1, !.aux = @ + 1]
      /\ fd.aux < Len(Opened.aux)
  BY DEF ReadChunk, HasStamp
<1>6. PICK P, k, n : P = Reached /\ k = fd.ts /\ n = fd.file /\ fd = Place(n, k)
                     /\ n \in DOMAIN disk /\ k \in Nat
  <2>1. fd.file \in DOMAIN disk /\ fd.ts \in Nat /\ fd = Place(fd.file, fd.ts)
    BY <1>1, <1>2, NextPlace
  <2> QED
    BY <2>1
<1>7. /\ fd.ts < Len(Opened.ts) /\ Opened.ts[k + 1] = P + 1 /\ Opened.aux[k + 1] = dates[P + 1]
      /\ dates[P + 1] \div Rotate = n /\ P + 1 \in 1..Chunk
  BY <1>1, <1>2, <1>6, NextPlace
<1>8. chunk' = P + 1 /\ stc' = dates[P + 1] /\ fd' = Place(n, k + 1)
  <2>1. fd = [file |-> n, ts |-> k, aux |-> k]
    BY <1>6 DEF Place
  <2>2. fd.ts = k /\ fd.aux = k
    BY <2>1
  <2>3. fd' = [file |-> n, ts |-> k + 1, aux |-> k + 1]
    BY <1>5, <2>1
  <2> QED
    BY <1>5, <1>7, <2>2, <2>3 DEF Place
<1>9. fd'.file = n /\ fd'.ts = k + 1 /\ fd.aux = k
  BY <1>6, <1>8 DEF Place
<1>10. Opened' = Opened /\ Begin(n) \in Nat /\ P = Begin(n) + k /\ Reached' = P + 1
  <2>1. Begin(n) \in Nat
    BY <1>6, FollowingIs, WholeTyped
  <2>2. Reached' = Begin(n) + (k + 1)
    BY <1>4, <1>9 DEF Reached, Begin
  <2>3. P = Begin(n) + k
    BY <1>6 DEF Reached
  <2>4. Begin(n) + (k + 1) = P + 1
    BY <1>6, <2>1, <2>3
  <2> QED
    BY <1>4, <1>6, <1>9, <2>1, <2>2, <2>3, <2>4 DEF Opened
<1>11. now - delay = stc /\ stc <= dates[P + 1] /\ stc > 0
       /\ (sent # <<>> => sent[Len(sent)].chunk = P - 0)
  BY <1>1, <1>6 DEF Placed
<1>12. dates[P + 1] \in Nat /\ stc \in Int
  BY <1>7, FollowingIs, WholeTyped
<1>13. stc' > 0 /\ stc' \div Rotate <= fd'.file /\ fd'.ts <= Len(Opened'.aux)
  <2>1. Len(Opened.aux) \in Nat /\ n \in Nat
    BY <1>6, FollowingIs, WholeTyped DEF Opened
  <2>2. k + 1 <= Len(Opened.aux)
    <3>1. PICK l \in Nat, j \in Nat : l = Len(Opened.aux) /\ j = k /\ j < l
      BY <1>5, <1>6, <1>9, <2>1
    <3>2. j + 1 <= l
      BY <3>1
    <3> QED
      BY <3>1, <3>2
  <2>3. stc' > 0
    BY <1>8, <1>11, <1>12
  <2> QED
    BY <1>7, <1>8, <1>9, <1>10, <2>1, <2>2, <2>3
<1>14. sent' # <<>> => sent'[Len(sent')].chunk = Reached' - 1
  <2>1. P - 0 = (P + 1) - 1
    BY <1>10
  <2> QED
    BY <1>1, <1>10, <1>11, <2>1
<1>15. now' - delay' <= stc' /\ chunk' = Reached' /\ fd'.ts > 0
  <2>1. now' - delay' = stc
    BY <1>1, <1>4, <1>11
  <2>2. stc <= stc'
    BY <1>8, <1>11
  <2>3. k + 1 > 0
    BY <1>6
  <2> QED
    BY <1>8, <1>9, <1>10, <2>1, <2>2, <2>3
<1>16. Placed'
  BY <1>1, <1>13, <1>14, <1>15 DEF Placed
<1> QED
  BY <1>3, <1>16

(* It goes to the next file when it has read all of one, and that is       *)
(* there.                                                                  *)
LEMMA NextFollows ==
    ASSUME Orderly, PlayInv, Following, InTurn, Placed, UNCHANGED <<now, recVars>>, NextFile
    PROVE  InTurn' /\ Placed'
<1>1. play = "read" /\ ~(HasChunk /\ HasStamp) /\ UNCHANGED <<stc, delay, sent>> /\ ~InHand
  BY DEF NextFile, InHand
<1>2. told' = told /\ Playing
  BY <1>1 DEF NextFile, Playing
<1>3. ~HasStamp
  BY <1>1, <1>2, NextPlace
<1>4. PICK P, n : P = Reached /\ n = fd.file /\ n \in DOMAIN disk /\ Here(n + 1) /\ Begin(n + 1) = P
  BY <1>1, <1>2, <1>3, NextPlace
<1>5. fd' = Place(n + 1, 0) /\ play' = play
  BY <1>1, <1>4 DEF NextFile
<1>6. UNCHANGED <<now, disk, dates, rec, held>>
  BY DEF recVars
<1>7. fd'.file = n + 1 /\ fd'.ts = 0
  BY <1>5 DEF Place
<1>8. n + 1 \in DOMAIN disk /\ n \in Nat
  BY <1>4, FollowingIs, WholeTyped DEF Here
<1>9. Begin(n + 1) \in Nat /\ Len(disk[n + 1].aux) \in Nat
  BY <1>8, FollowingIs, WholeTyped
<1>10. Reached' = P
  <2>1. Reached' = Begin(n + 1) + 0
    BY <1>6, <1>7 DEF Reached, Begin
  <2> QED
    BY <1>4, <1>9, <2>1
<1>11. Saved' = Saved /\ Opened' = disk[n + 1]
  BY <1>6, <1>7 DEF Saved, Made, Chunk, Opened
<1>12. /\ stc > 0 /\ stc \div Rotate <= n
       /\ (sent # <<>> => sent[Len(sent)].chunk = P - 0)
       /\ now - delay = stc /\ P + 1 \in 1..Saved /\ stc <= dates[P + 1]
  BY <1>1, <1>4 DEF Placed
<1>13. stc \div Rotate <= n + 1
  <2>1. PICK s \in Nat : s = stc
    BY <1>12, FollowingIs
  <2>2. s \div Rotate \in Nat
    BY <2>1, FollowingIs, DivIs
  <2> QED
    BY <1>8, <1>12, <2>1, <2>2
<1>14. play' = "read" /\ ~InHand'
  BY <1>1, <1>5 DEF InHand
<1>15. Placed'
  <2>1. stc' > 0 /\ stc' \div Rotate <= fd'.file /\ fd'.ts <= Len(Opened'.aux)
    BY <1>1, <1>7, <1>9, <1>11, <1>12, <1>13
  <2>2. sent' # <<>> => sent'[Len(sent')].chunk = Reached' - (IF InHand' THEN 1 ELSE 0)
    BY <1>1, <1>10, <1>12, <1>14
  <2>3. now' - delay' = stc' /\ Reached' + 1 \in 1..Saved' /\ stc' <= dates'[Reached' + 1]
    BY <1>1, <1>6, <1>10, <1>11, <1>12
  <2> QED
    BY <1>14, <2>1, <2>2, <2>3 DEF Placed
<1>16. InTurn'
  BY <1>1, <1>2, <1>14 DEF InTurn
<1> QED
  BY <1>15, <1>16

(* It sends that chunk, and the one after it is saved by then.             *)
LEMMA SendFollows ==
    ASSUME Orderly, PlayInv, Delays, DirSent, Following, InTurn, Placed,
           UNCHANGED <<now, recVars>>, Send
    PROVE  InTurn' /\ Placed'
<1>1. /\ play = "send" /\ play' = "test" /\ UNCHANGED <<fd, stc, delay>>
      /\ InHand /\ ~InHand'
  BY DEF Send, InHand
<1>2. UNCHANGED <<now, disk, dates, rec, held>> /\ told' = told
  BY DEF recVars, Send
<1>3. /\ Undisturbed /\ RecInv /\ Whole /\ InTime /\ mode = "dir"
      /\ delay \in Int /\ stc \in Int /\ delay >= FileFlush + 2 * Gap
      /\ Gap \in Nat \ {0} /\ FileFlush \in Nat /\ Saved \in Int /\ Saved <= Chunk
      /\ now \in Nat /\ Chunk \in Nat
  BY FollowingIs
<1>4. PICK n, k, P : n = fd.file /\ k = fd.ts /\ P = Reached
  OBVIOUS
<1>5. /\ stc > 0 /\ stc \div Rotate <= n /\ k <= Len(Opened.aux)
      /\ sent # <<>> => sent[Len(sent)].chunk = P - 1
      /\ now - delay <= stc /\ chunk = P /\ k > 0
  BY <1>1, <1>4 DEF Placed
<1>6. now - delay = stc
  <2>1. wake <= now /\ wake - delay - stc \in 0..MaxLateness /\ wake \in Int
    BY <1>1, <1>3 DEF Delays, DirSent, PlayInv
  <2>2. MaxLateness \in Nat
    BY PlayerAssumption DEF PlayerAssumption
  <2> QED
    BY <1>3, <1>5, <2>1, <2>2
<1>7. P \in 1..Chunk /\ stc = dates[P] /\ P \in Nat
  <2>1. chunk \in 0..Chunk /\ (chunk # Garbled => stc = dates[chunk]) /\ fd.file \in DOMAIN disk /\ k \in Int
    BY <1>1, <1>4 DEF PlayInv, Playing, Places
  <2>2. Begin(n) \in Nat /\ P = Begin(n) + k
    BY <1>3, <1>4, <2>1, WholeTyped DEF Reached
  <2>3. P > 0
    BY <1>5, <2>1, <2>2
  <2> QED
    BY <1>3, <1>5, <2>1, <2>3 DEF Garbled
<1>8. P + 1 \in 1..Saved /\ P + 1 \in 1..Chunk
  <2>1. now > dates[P] + Gap /\ now >= dates[P] + FileFlush + Gap
    <3>1. PICK d \in Int, l \in Int : d = dates[P] /\ l = delay /\ now = d + l
      BY <1>3, <1>6, <1>7
    <3> QED
      BY <1>3, <3>1
  <2>2. P + 1 <= Saved
    BY <1>3, <1>7, <2>1, SavedInTime
  <2> QED
    BY <1>3, <1>7, <2>2
<1>9. stc <= dates[P + 1]
  <2>1. P < P + 1
    BY <1>7
  <2>2. dates[P] < dates[P + 1] /\ dates[P] \in Nat /\ dates[P + 1] \in Nat
    BY <1>3, <1>7, <1>8, <2>1, WholeTyped
  <2> QED
    BY <1>7, <2>2
<1>10. Reached' = P /\ Saved' = Saved /\ Opened' = Opened
  BY <1>1, <1>2, <1>4 DEF Reached, Begin, Saved, Made, Chunk, Opened
<1>11. /\ Len(sent') = Len(sent) + 1 /\ Len(sent) \in Nat
       /\ \A j \in 1..Len(sent) : sent'[j] = sent[j]
       /\ sent'[Len(sent) + 1].chunk = chunk
  <2>1. now \in Int
    BY <1>3
  <2>2. /\ Len(sent') = Len(sent) + 1 /\ Len(sent) \in Nat
        /\ \A j \in 1..Len(sent) : sent'[j] = sent[j]
        /\ sent'[Len(sent) + 1] = [chunk |-> chunk, due |-> wake, at |-> now]
    BY <2>1, SentIs
  <2> QED
    BY <2>2
<1>12. Placed'
  <2>1. ~InHand' /\ stc' > 0 /\ stc' \div Rotate <= fd'.file /\ fd'.ts <= Len(Opened'.aux)
    BY <1>1, <1>4, <1>5, <1>10
  <2>2. sent'[Len(sent')].chunk = P - 0
    <3>1. P = P - 0
      BY <1>7
    <3> QED
      BY <1>5, <1>11, <3>1
  <2>3. now' - delay' = stc' /\ Reached' + 1 \in 1..Saved' /\ stc' <= dates'[Reached' + 1]
    BY <1>1, <1>2, <1>6, <1>8, <1>9, <1>10
  <2> QED
    BY <1>10, <2>1, <2>2, <2>3 DEF Placed
<1>13. \A j \in 1..Len(sent') - 1 : sent'[j + 1].chunk = sent'[j].chunk + 1
  <2> SUFFICES ASSUME NEW j \in 1..Len(sent') - 1 PROVE sent'[j + 1].chunk = sent'[j].chunk + 1
    OBVIOUS
  <2>1. j \in 1..Len(sent) /\ (j \in 1..Len(sent) - 1 \/ j = Len(sent))
    BY <1>11
  <2>2. CASE j \in 1..Len(sent) - 1
    <3>1. j + 1 \in 1..Len(sent)
      BY <1>11, <2>2
    <3>2. sent[j + 1].chunk = sent[j].chunk + 1
      BY <2>2 DEF InTurn
    <3> QED
      BY <1>11, <2>1, <3>1, <3>2
  <2>3. CASE j = Len(sent)
    <3>1. sent # <<>>
      BY <1>11, <2>1, EmptySeq
    <3>2. sent'[j].chunk = P - 1 /\ sent'[j + 1].chunk = P
      BY <1>5, <1>11, <2>1, <2>3, <3>1
    <3>3. P = (P - 1) + 1
      BY <1>7
    <3> QED
      BY <3>2, <3>3
  <2> QED
    BY <2>1, <2>2, <2>3
<1>14. InTurn'
  <2>1. play' # "ended"
    BY <1>1
  <2> QED
    BY <1>13, <2>1 DEF InTurn
<1> QED
  BY <1>12, <1>14

(* So it follows in every step.                                            *)
LEMMA FollowInvStep ==
    ASSUME Orderly, PlayInv, Delays, DirSent, DirInv, FollowInv, [Next]_vars
    PROVE  FollowInv'
<1>1. SUFFICES ASSUME Following', Started'
               PROVE  InTurn' /\ (Playing' => Placed')
  BY DEF FollowInv
<1>2. CASE ~Started
  <2>1. ~Loop /\ ~ReadChunk /\ ~FileEnds /\ ~NextFile /\ ~Waits /\ ~Drop /\ ~Send /\ ~Signal
    BY <1>2, WaitsIs DEF Started, Playing, Loop, ReadChunk, FileEnds, NextFile, Drop, Send, Signal
  <2>2. ~UNCHANGED playVars
    BY <1>1, <1>2 DEF Started, playVars
  <2>3. PICK i_pos \in Positions : dir_InitRead(i_pos) \/ file_InitRead(i_pos)
    BY <2>1, <2>2, PlaySteps
  <2>4. UNCHANGED <<now, recVars>> /\ i_pos \in Int
    BY <2>1, <2>2, PlaySteps, PlayerAssumption DEF PlayerAssumption
  <2>5. play' = "test"
    <3>1. play' \in {"refused", "test"}
      BY <2>3, <2>4, StartIs DEF Orderly
    <3> QED
      BY <1>1, <3>1 DEF Started
  <2> QED
    BY <1>1, <2>3, <2>4, <2>5, StartFollows
<1>3. CASE Started
  <2>1. Following /\ InTurn /\ (Playing => Placed) /\ UNCHANGED <<first, delay>>
    BY <1>1, <1>3, FollowingBefore DEF FollowInv
  <2>2. mode = "dir" /\ delay \in Int /\ stc \in Int /\ now \in Nat
    BY <2>1, FollowingIs
  <2>3. CASE UNCHANGED playVars
    BY <1>1, <2>1, <2>3, OthersFollow
  <2>4. ASSUME UNCHANGED <<now, recVars>>, UNCHANGED <<fd, chunk, stc, sent>>, Placed,
               play \in {"test", "read"}, play' \in {"test", "read"}
        PROVE  Placed'
    <3>1. Reached' = Reached /\ Saved' = Saved /\ Opened' = Opened /\ UNCHANGED <<now, dates>>
      BY <2>4 DEF recVars, Reached, Begin, Saved, Made, Chunk, Opened
    <3>2. ~InHand /\ ~InHand'
      BY <2>4 DEF InHand
    <3> QED
      BY <2>1, <2>4, <3>1, <3>2 DEF Placed
  <2>5. CASE UNCHANGED <<now, recVars>> /\ Loop
    <3>1. play = "test" /\ UNCHANGED <<fd, chunk, stc, sent>>
      BY <2>5 DEF Loop
    <3>2. told' = told /\ play' = IF b_die THEN "ended" ELSE "read"
      BY <2>5 DEF Loop
    <3>3. CASE b_die
      <4>1. told
        BY <2>2, <3>3 DEF DirInv
      <4>2. play' = "ended"
        BY <3>2, <3>3
      <4> QED
        BY <2>1, <3>1, <3>2, <4>1, <4>2 DEF InTurn, Playing
    <3>4. CASE ~b_die
      <4>1. play' = "read"
        BY <3>2, <3>4
      <4>2. Placed'
        BY <2>1, <2>4, <2>5, <3>1, <4>1 DEF Playing
      <4> QED
        BY <2>1, <3>1, <4>1, <4>2 DEF InTurn
    <3> QED
      BY <3>3, <3>4
  <2>6. CASE UNCHANGED <<now, recVars>> /\ ReadChunk
    <3>1. Playing
      BY <2>6 DEF ReadChunk, Playing
    <3> QED
      BY <2>1, <2>6, <3>1, ReadFollows
  <2>7. CASE UNCHANGED <<now, recVars>> /\ NextFile
    <3>1. Playing
      BY <2>7 DEF NextFile, Playing
    <3> QED
      BY <2>1, <2>7, <3>1, NextFollows
  <2>8. CASE UNCHANGED <<now, recVars>> /\ Send
    <3>1. Playing
      BY <2>8 DEF Send, Playing
    <3> QED
      BY <2>1, <2>8, <3>1, SendFollows
  <2>9. ~Drop
    <3> SUFFICES ASSUME Drop PROVE FALSE
      OBVIOUS
    <3>1. play = "delay" /\ Early < -MaxLateness /\ MaxLateness \in Nat
      BY PlayerAssumption DEF Drop, TooLate, PlayerAssumption
    <3>2. now - delay <= stc
      BY <2>1, <3>1 DEF Playing, Placed, InHand
    <3>3. Early = stc - (now - delay)
      BY <2>2 DEF Early
    <3> QED
      BY <2>2, <3>1, <3>2, <3>3
  <2>10. CASE UNCHANGED <<now, recVars>> /\ Signal
    <3>1. Playing /\ UNCHANGED <<play, fd, chunk, stc, sent>>
      BY <2>10 DEF Signal
    <3>2. told' = TRUE
      BY <2>10 DEF Signal
    <3>3. InTurn'
      BY <2>1, <3>1, <3>2 DEF InTurn
    <3>4. Reached' = Reached /\ Saved' = Saved /\ Opened' = Opened /\ UNCHANGED <<now, dates>>
      BY <2>10, <3>1 DEF recVars, Reached, Begin, Saved, Made, Chunk, Opened
    <3>5. Placed'
      BY <2>1, <3>1, <3>4 DEF Placed, InHand
    <3> QED
      BY <3>3, <3>5
  <2>13. CASE UNCHANGED <<now, recVars>> /\ Waits
    <3>1. /\ Playing /\ InHand /\ InHand' /\ play \notin {"test", "read"} /\ play' \in {"sleep", "send"}
          /\ UNCHANGED <<fd, chunk, stc, sent, told>>
      BY <2>13, WaitsIs DEF InHand
    <3>2. Reached' = Reached /\ Opened' = Opened /\ now' = now
      BY <2>13, <3>1 DEF recVars, Reached, Begin, Opened
    <3>3. Placed'
      BY <2>1, <3>1, <3>2 DEF Placed
    <3>4. InTurn'
      BY <2>1, <3>1 DEF InTurn
    <3> QED
      BY <3>3, <3>4
  <2>11. ~FileEnds
    BY <2>2 DEF FileEnds
  <2>12. ASSUME NEW i_pos \in Positions, dir_InitRead(i_pos) \/ file_InitRead(i_pos) PROVE FALSE
    BY <1>3, <2>12 DEF dir_InitRead, file_InitRead, Started
  <2> QED
    BY <2>3, <2>5, <2>6, <2>7, <2>8, <2>9, <2>10, <2>11, <2>12, <2>13, PlaySteps
<1> QED
  BY <1>2, <1>3

(* It has not started at first.                                            *)
LEMMA FollowInvInit == Init => FollowInv
<1> SUFFICES ASSUME Init PROVE FollowInv
  OBVIOUS
<1>1. play = "off"
  BY DEF Init, PlayInit
<1> QED
  BY <1>1 DEF FollowInv, Started

(* The player of a file, in the same way.                                  *)
LEMMA FileInvInit == Init => FileInv
<1> SUFFICES ASSUME Init PROVE FileInv
  OBVIOUS
<1>1. play = "off" /\ sent = <<>> /\ base = Unset
  BY DEF Init, PlayInit
<1>2. ~Playing /\ Len(sent) = 0
  BY <1>1, EmptySeq DEF Playing
<1> QED
  BY <1>1, <1>2 DEF FileInv, FilePlace, FilePace, FileSent

(* Its place, its pace and what it has sent, in every step.                *)
LEMMA FileInvStep ==
    ASSUME RecInv, PlayInv, Delays, FileInv, [Next]_vars
    PROVE  FileInv'
<1>1. mode' = mode
  BY LaterStep DEF Later, mode
<1> QED
  BY <1>1, FilePlaceStep, FilePaceStep, FileSentStep DEF FileInv

(* Nothing is sent at first.                                               *)
LEMMA DirSentInit == Init => DirSent /\ Delays
<1> SUFFICES ASSUME Init PROVE DirSent /\ Delays
  OBVIOUS
<1>1. sent = <<>> /\ play = "off"
  BY DEF Init, PlayInit
<1>2. Len(sent) = 0
  BY <1>1, EmptySeq
<1> QED
  BY <1>1, <1>2 DEF DirSent, Delays

(***************************************************************************)
(* No chunk leaves before its delay is over, and but for a slow program    *)
(* each leaves then; the delay is over when the player is due, or at most  *)
(* MaxLateness later.  And a player that is far enough behind an           *)
(* undisturbed recorder, but not behind all that is wanted, sends every    *)
(* chunk that follows the first it has sent and does not end by itself,    *)
(* whatever the recorder and the cleaning do in between.                   *)
(***************************************************************************)
THEOREM PlayerFollows == Spec => []Follows
<1> DEFINE IInv == Orderly /\ PlayInv /\ DirInv /\ FollowInv /\ Delays /\ DirSent /\ FileInv
<1>1. Init => IInv
  BY OrderlyInit, PlayInvInit, DirInvInit, FollowInvInit, DirSentInit, FileInvInit
<1>2. IInv /\ [Next]_vars => IInv'
  <2> SUFFICES ASSUME IInv, [Next]_vars PROVE IInv'
    OBVIOUS
  <2>1. Orderly' /\ RecInv
    BY OrderlyStep DEF Orderly
  <2>2. PlayInv' /\ DirInv' /\ FollowInv'
    BY <2>1, PlayInvStep, DirInvStep, FollowInvStep
  <2>3. Delays' /\ DirSent' /\ FileInv'
    BY <2>1, DelaysStep, DirSentStep, FileInvStep
  <2> QED
    BY <2>1, <2>2, <2>3
<1>3. IInv => Follows
  <2> SUFFICES ASSUME IInv PROVE Follows
    OBVIOUS
  <2>1. InOrder
    BY SentInOrder DEF Orderly
  <2>2. Following => (play = "ended" => told) /\ \A k \in 1..Len(sent) - 1 : sent[k + 1].chunk = sent[k].chunk + 1
    <3>1. CASE Started
      BY <3>1 DEF FollowInv, InTurn
    <3>2. CASE ~Started
      <4> SUFFICES ASSUME Following PROVE sent = <<>> /\ play # "ended"
        <5>1. Len(<<>>) = 0 /\ ~(\E k \in 1..0 - 1 : TRUE)
          BY EmptySeq
        <5> QED
          BY <5>1
      <4>1. mode = "dir"
        BY DEF Following
      <4> QED
        BY <3>2, <4>1 DEF DirInv, Started
    <3> QED
      BY <3>1, <3>2
  <2> QED
    BY <2>1, <2>2 DEF Follows, InOrder
<1> QED
  BY <1>1, <1>2, <1>3, PTL DEF Spec
=============================================================================
