---------------------------- MODULE EitInjector ----------------------------
(***************************************************************************)
(* multicat-eit playing a transport stream file: the main loop of          *)
(* multicat.c with file_Read, and add_eit of eit.c, which replaces every   *)
(* EIT packet of a chunk by a whole EIT section made from the entry of the *)
(* shared table.  A section is longer than a packet, so a chunk grows; its *)
(* tail is kept ("shift") and sent with the next chunk, for which that     *)
(* much less is read from the file.  Next to the file lies its auxiliary   *)
(* file, with one date per chunk.                                          *)
(*                                                                         *)
(* A packet is a record.  "av" packets are the file's n-th, "eit" ones are *)
(* the file's or belong to the n-th section generated, with "part" more    *)
(* packets of it to follow, "bad" ones do not start with the               *)
(* synchronisation byte, "pad" ones are filler.                            *)
(***************************************************************************)
EXTENDS Integers, Sequences

CONSTANTS
  ChunkPackets,  \* i_asked_payload_size / TS_SIZE
  TabSize,       \* size of packetTab
  MaxFile,       \* bound: packets of the file
  Cases          \* [loop, lengths, kinds]: option -l, the bytes that the sections
                 \* made of the table's entry may have, the packets files have

TsSize == 188
TsPayload == 184

ASSUME InjectorAssumption ==
  /\ ChunkPackets \in Nat \ {0}
  /\ TabSize \in Nat
  /\ MaxFile \in Nat \ {0}
  /\ \A c \in Cases : /\ c.loop \in BOOLEAN
                       /\ c.lengths \subseteq Nat \ {0}
                       /\ c.kinds \subseteq {"av", "eit", "bad"}

VARIABLES
  given,      \* which of the cases it is
  file,       \* the packets of the file
  length,     \* length in bytes of section 0 and of section 1
  at,         \* "read", "send", "end", "hung" or "crashed"
  position,   \* packets of the file that file_Read has returned
  stamps,     \* dates read from the auxiliary file
  buffer,     \* what file_Read returned
  shift,      \* p_shift_read_buffer
  step,       \* i_read_size_for_step, in packets
  sections,   \* sections generated; its parity, all that is kept with -l, is "section"
  sent,       \* packets written since the start (not kept with -l)
  chunk,      \* the last chunk written
  b_die,      \* the loop's stop flag
  told        \* SIGTERM was received

injVars == <<given, file, length, at, position, stamps, buffer, shift, step, sections,
             sent, chunk, b_die, told>>

loop == given.loop
Lengths == given.lengths

Av(n) == [kind |-> "av", n |-> n, part |-> 0]
Eit(n, part) == [kind |-> "eit", n |-> n, part |-> part]
FileEit == Eit(0, 0)
Bad == [kind |-> "bad", n |-> 0, part |-> 0]
Pad == [kind |-> "pad", n |-> 0, part |-> 0]

FilePacket(kind, n) == IF kind = "av" THEN Av(n) ELSE IF kind = "eit" THEN FileEit ELSE Bad

CeilDiv(a, b) == (a + b - 1) \div b

\* Dates in the auxiliary file: one per chunk it was recorded with.
LastStamp == CeilDiv(Len(file), ChunkPackets)

InjInit ==
  /\ given \in Cases
  /\ \E n \in 1..MaxFile : \E kinds \in [1..n -> given.kinds] :
       file = [k \in 1..n |-> FilePacket(kinds[k], k)]
  /\ length \in [{0, 1} -> Lengths]
  /\ at = "read" /\ position = 0 /\ stamps = 0
  /\ buffer = <<>> /\ shift = <<>> /\ step = ChunkPackets
  /\ sections = 0 /\ sent = <<>> /\ chunk = <<>>
  /\ b_die = FALSE /\ told = FALSE

-----------------------------------------------------------------------------
(* file_Read                                                               *)

\* What is left of the file from position p on, up to one step.
Least(a, b) == IF a <= b THEN a ELSE b
Piece(p) == SubSeq(file, p + 1, Least(p + step, Len(file)))

\* A piece of the file, and the date of the next chunk.
ReadFrom(p, a) ==
  /\ Piece(p) # <<>>
  /\ a < LastStamp
  /\ buffer' = Piece(p)
  /\ position' = p + Len(Piece(p)) /\ stamps' = a + 1
  /\ at' = "send"
  /\ UNCHANGED b_die

ReadPiece == at = "read" /\ ~b_die /\ ReadFrom(position, stamps)

\* Faulty variant: only the file is rewound.
Rewind_FileOnly ==
  /\ at = "read" /\ ~b_die
  /\ Piece(position) = <<>>
  /\ loop
  /\ \/ step > 0 /\ ReadFrom(0, stamps)
     \/ /\ step = 0 \/ stamps = LastStamp
        /\ at' = "end" /\ b_die' = TRUE
        /\ UNCHANGED <<buffer, position, stamps>>

\* At the end of the file (or of a step of nothing) start over with -l ...
\* For a step of nothing file_Read calls itself for ever.
Rewind ==
  /\ at = "read" /\ ~b_die
  /\ Piece(position) = <<>>
  /\ loop
  /\ \/ step > 0 /\ ReadFrom(0, 0)
     \/ /\ step = 0
        /\ at' = "hung"
        /\ UNCHANGED <<buffer, position, stamps, b_die>>

\* ... or give up; the loop has its last turn with nothing read.
GiveUp ==
  /\ buffer' = <<>>
  /\ b_die' = TRUE
  /\ at' = "send"
  /\ UNCHANGED stamps

EndOfFile ==
  /\ at = "read" /\ ~b_die
  /\ Piece(position) = <<>>
  /\ ~loop
  /\ GiveUp
  /\ UNCHANGED position

\* The auxiliary file has no more dates: what was read is dropped.
PrematureEnd ==
  /\ at = "read" /\ ~b_die
  /\ Piece(position) # <<>>
  /\ stamps = LastStamp
  /\ GiveUp
  /\ UNCHANGED position

file_Read ==
  /\ ReadPiece \/ Rewind \/ EndOfFile \/ PrematureEnd
  /\ UNCHANGED <<given, file, length, shift, step, sections, sent, chunk, told>>

-----------------------------------------------------------------------------
(* add_eit                                                                 *)

\* output_psi_section counts the packets of a section as if they had no
\* header, while psi_split_section puts 183 bytes in the first packet and 184
\* in the others: the packets it needs and those it returns can differ.
nbPacket(bytes) == CeilDiv(bytes, TsSize)
Needed(bytes) == CeilDiv(bytes + 1, TsPayload)
output_psi_section(n) ==
  [k \in 1..nbPacket(length[n % 2]) |-> Eit(n, Needed(length[n % 2]) - k)]

HasEit(packets) == \E k \in 1..Len(packets) : packets[k].kind = "eit"

\* Faulty variant: the section number is not changed.
Inject_SameSection(done, p) ==
  CASE p.kind = "eit" -> [done EXCEPT !.out = @ \o output_psi_section(done.made)]
    [] p.kind = "bad" -> done
    [] OTHER -> [done EXCEPT !.out = Append(@, p)]

\* An EIT packet becomes a section, sections 0 and 1 in turn; a bad packet is
\* left out.
Inject(done, p) ==
  CASE p.kind = "eit" -> [out |-> done.out \o output_psi_section(done.made), made |-> done.made + 1]
    [] p.kind = "bad" -> done
    [] OTHER -> [done EXCEPT !.out = Append(@, p)]

\* All of them, one after the other.
Replace(packets) ==
  LET upTo[k \in 0..Len(packets)] ==
        IF k = 0 THEN [out |-> <<>>, made |-> sections]
        ELSE Inject(upTo[k-1], packets[k])
  IN upTo[Len(packets)]

-----------------------------------------------------------------------------
(* The rest of the main loop                                               *)

FillTo(packets, n) ==
  IF Len(packets) >= n THEN packets ELSE packets \o [k \in 1..n - Len(packets) |-> Pad]

\* Write a chunk, padded to the asked size, and take the next turn.
pf_Write(packets) ==
  /\ chunk' = FillTo(packets, ChunkPackets)
  /\ sent' = IF loop THEN <<>> ELSE sent \o FillTo(packets, ChunkPackets)
  /\ at' = IF b_die THEN "end" ELSE "read"

\* What the turn has to send: the shift, then what was read.
Data == shift \o buffer

\* Nothing to send: "continue".
SendNothing ==
  /\ Data = <<>>
  /\ at' = IF b_die THEN "end" ELSE "read"
  /\ UNCHANGED <<shift, step, sections, sent, chunk>>

\* Faulty variant: the shift is not taken into account by the next read.
SendGrown_FullStep(new) ==
  /\ Len(new.out) > Len(Data)
  /\ Len(new.out) <= TabSize
  /\ shift' = SubSeq(new.out, Len(Data) + 1, Len(new.out))
  /\ step' = ChunkPackets
  /\ pf_Write(SubSeq(new.out, 1, Len(Data)))

\* Faulty variant: what does not fit in the chunk is dropped.
SendGrown_Cut(new) ==
  /\ Len(new.out) > Len(Data)
  /\ Len(new.out) <= TabSize
  /\ shift' = <<>>
  /\ step' = ChunkPackets
  /\ pf_Write(SubSeq(new.out, 1, Len(Data)))

\* The chunk grows: its tail is for the next turn.  A tail longer than a
\* chunk makes the size of the next step wrap around.
SendGrown(new) ==
  /\ Len(new.out) > Len(Data)
  /\ Len(new.out) <= TabSize
  /\ shift' = SubSeq(new.out, Len(Data) + 1, Len(new.out))
  /\ IF Len(shift') <= ChunkPackets
     THEN /\ step' = ChunkPackets - Len(shift')
          /\ pf_Write(SubSeq(new.out, 1, Len(Data)))
     ELSE /\ at' = "crashed"
          /\ UNCHANGED <<step, sent, chunk>>

\* It does not grow: what is missing is zeros.
SendSame(new) ==
  /\ Len(new.out) <= Len(Data)
  /\ Len(new.out) <= TabSize
  /\ shift' = <<>>
  /\ step' = ChunkPackets
  /\ pf_Write(FillTo(new.out, Len(Data)))

\* More packets than packetTab has room for.
Overrun(new) ==
  /\ Len(new.out) > TabSize
  /\ at' = "crashed"
  /\ UNCHANGED <<shift, step, sent, chunk>>

SendInjected ==
  /\ HasEit(Data)
  /\ LET new == Replace(Data) IN
       /\ SendGrown(new) \/ SendSame(new) \/ Overrun(new)
       /\ sections' = IF loop THEN new.made % 2 ELSE new.made

SendAsRead ==
  /\ Data # <<>> /\ ~HasEit(Data)
  /\ shift' = <<>>
  /\ step' = ChunkPackets
  /\ pf_Write(Data)
  /\ UNCHANGED sections

Send ==
  /\ at = "send"
  /\ SendNothing \/ SendAsRead \/ SendInjected
  /\ buffer' = <<>>
  /\ UNCHANGED <<given, file, length, position, stamps, b_die, told>>

\* The loop tests b_die.
Leave ==
  /\ at = "read" /\ b_die
  /\ at' = "end"
  /\ UNCHANGED <<given, file, length, position, stamps, buffer, shift, step, sections,
                 sent, chunk, b_die, told>>

SigHandler ==
  /\ at \in {"read", "send"}
  /\ b_die' = TRUE /\ told' = TRUE
  /\ UNCHANGED <<given, file, length, at, position, stamps, buffer, shift, step, sections,
                 sent, chunk>>

\* The supervisor publishes; add_eit copies the entry before the next chunk.
Publish ==
  /\ at = "read"
  /\ length' \in [{0, 1} -> Lengths]
  /\ UNCHANGED <<given, file, at, position, stamps, buffer, shift, step, sections,
                 sent, chunk, b_die, told>>

InjNext == file_Read \/ Send \/ Leave \/ SigHandler \/ Publish

InjSpec == InjInit /\ [][InjNext]_injVars

\* multicat-eit runs on by itself: file_Read, Send and Leave are the steps
\* that change "at", and one of them is possible wherever the loop is.
Turn == at \in {"read", "send"} /\ at' \in {"read", "send", "end", "hung", "crashed"}
FairInjSpec == InjSpec /\ WF_at(Turn)

-----------------------------------------------------------------------------
(* Properties                                                              *)

Packet == [kind : {"av", "eit", "bad", "pad"}, n : Nat, part : Nat]

\* Every variable has its type, what is read fits with the shift in a buffer
\* of one chunk, and every datagram has the size asked for.
InjTypeOK ==
  /\ given \in Cases
  /\ file \in Seq(Packet) /\ length \in [{0, 1} -> Lengths]
  /\ at \in {"read", "send", "end", "hung", "crashed"}
  /\ position \in 0..Len(file) /\ stamps \in 0..LastStamp
  /\ buffer \in Seq(Packet) /\ shift \in Seq(Packet)
  /\ at # "crashed" => Len(shift) + Len(buffer) <= ChunkPackets
  /\ step \in 0..ChunkPackets /\ sections \in Nat
  /\ sent \in Seq(Packet) /\ chunk \in Seq(Packet) /\ Len(chunk) \in {0, ChunkPackets}
  /\ b_die \in BOOLEAN /\ told \in BOOLEAN

\* The packets of a kind, in their order.
Of(kind, packets) ==
  LET upTo[k \in 0..Len(packets)] ==
        IF k = 0 THEN <<>>
        ELSE IF packets[k].kind = kind THEN Append(upTo[k-1], packets[k]) ELSE upTo[k-1]
  IN upTo[Len(packets)]

AvOf(packets) == Of("av", packets)
EitOf(packets) == Of("eit", packets)

\* Whatever is published, a section fits in a packet.
OnePacket == \A n \in Lengths : nbPacket(n) = 1 /\ Needed(n) = 1

\* However chunks grow and shift, every audio and video packet of the file is
\* sent once and in its place: what was sent, the shift, what was read and
\* what is left always make up the file.  Without a signal, a file that is
\* played once is played to its end, if no section needs a second packet (or
\* the last of them stay in the shift).
NothingLost ==
  ~loop /\ at # "crashed" =>
    /\ OnePacket /\ at = "end" /\ ~told => AvOf(sent) = AvOf(file)
    /\ AvOf(sent) \o AvOf(shift) \o AvOf(buffer) \o AvOf(SubSeq(file, position + 1, Len(file)))
         = AvOf(file)

\* The EIT packets sent are whole sections, one after the other: a receiver
\* that joins the packets in their order gets the sections that were made.
\* It is so as long as no section needs a second packet.
SectionsJoin ==
  LET s == EitOf(sent) IN
  \A k \in 1..Len(s) - 1 :
    IF s[k].part = 0 THEN s[k+1].n # s[k].n ELSE s[k+1] = Eit(s[k].n, s[k].part - 1)

SectionsWhole == OnePacket => SectionsJoin

\* The packets output_psi_section returns hold the whole section.
PacketsCounted == \A s \in {0, 1} : nbPacket(length[s]) = Needed(length[s])

\* With -l only a signal ends the program.
GoesOn == loop => (b_die => told) /\ at \notin {"hung", "crashed"}

\* A file that is played once comes to its end and so does the program, and
\* one that is played with -l goes on, if no section needs a second packet.
EndsOrLoops ==
  /\ ~loop => <>(at \in {"end", "crashed"})
  /\ [](OnePacket => GoesOn)
=============================================================================
