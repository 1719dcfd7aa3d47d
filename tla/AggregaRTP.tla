------------------------------ MODULE AggregaRTP ------------------------------
(***************************************************************************)
(* aggregartp (aggregartp.c): spreads one RTP stream over several links in *)
(* proportion to their weights, and sends again, from a queue of the last  *)
(* packets, those the other end asks for.                                  *)
(*                                                                         *)
(* The input stream is the packets 1, 2, ... MaxPackets; a packet can be   *)
(* read every Period.  A packet on a link is a record                      *)
(* [id, marker, out, at]: which packet, the marker that says it is sent    *)
(* again, the link (0 is the retransmission service of -X) and the time at *)
(* which it was sent.  Its sequence number is SeqNum(id).  The             *)
(* milliseconds of the code are the units of now.                          *)
(***************************************************************************)
EXTENDS Integers, Sequences, FiniteSetsExt

CONSTANTS
    NbOutputs,      \* i_nb_outputs
    Weights,        \* the lists of weights the program may be given
    Sizes,          \* how many bytes one read() of the input may return
    RetxBuffer,     \* i_retx_buffer
    Period,         \* time between two packets of the input
    Seq0,           \* the number before the one of packet 1
    SeqMod,         \* 2^16
    ClockMod,       \* 2^64
    Starts,         \* the dates at which the program may be started
    Configs,        \* the sets of options it may be given, see options
    MaxPackets      \* packets of the input

ASSUME AggregaAssumption ==
    /\ NbOutputs \in Nat \ {0}
    /\ Weights \subseteq [1..NbOutputs -> Nat]
    /\ Sizes \subseteq Nat \ {0}
    /\ \E largest \in Sizes : \A size \in Sizes : size <= largest
    /\ Period \in Nat \ {0}
    /\ MaxPackets \in Nat /\ Seq0 \in Nat /\ SeqMod \in Nat \ {0}
    /\ RetxBuffer \in Nat /\ ClockMod \in Nat /\ RetxBuffer < ClockMod
    /\ Starts \subseteq Nat

VARIABLES
    now,        \* wall_Date()
    start,      \* when the program was started
    options,    \* [x, url, tcp]: -x was given, -X was given, input and -X are TCP
    weight,     \* p_outputs[].i_weight
    weighted,   \* p_outputs[].i_weighted_size
    remainder,  \* p_outputs[].i_remainder
    nbIn,       \* packets of the input read
    inPart,     \* p_input_block holds the first part of a packet
    reqPart,    \* p_retx_block holds the first part of a request
    retx,       \* the list from p_retx_first to p_retx_last
    aggregator, \* "runs", "died" of exit(), or "crashed"
    up,         \* packets on the links
    down,       \* retransmission requests on the links
    bytes,      \* history: the bytes of the input sent on each output
    sentAt      \* history: when each packet was first sent

config == <<options, weight, start>>
shares == <<weighted, remainder, bytes>>
aggregaVars == <<config, shares, nbIn, inPart, reqPart, retx, aggregator, sentAt>>

Output == 1..NbOutputs
SeqNum(n) == (Seq0 + n) % SeqMod

AggregaInit ==
    /\ now \in Starts
    /\ start = now
    /\ options \in Configs
    /\ weight \in Weights
    /\ weighted = [o \in Output |-> 0]
    /\ remainder = [o \in Output |-> 0]
    /\ bytes = [o \in Output |-> 0]
    /\ sentAt = <<>>
    /\ nbIn = 0
    /\ inPart = FALSE
    /\ reqPart = FALSE
    /\ retx = <<>>
    /\ aggregator = "runs"
    /\ up = {}
    /\ down = {}

-----------------------------------------------------------------------------

(***************************************************************************)
(* NextOutput: the first of the outputs that have had least for their      *)
(* weight.  Both loops end at the first output without weight; the first   *)
(* one never looks at the weight of output 1.                              *)
(***************************************************************************)
Considered == {o \in Output : \A i \in 2..o : weight[i] > 0}
Reduced == {o \in Output : \A i \in 1..o : weight[i] > 0}

\* Faulty variant: the minimum is that of the first output.
MinSize_First == weighted[1]

MinSize == Min({weighted[o] : o \in Considered})
NextOutput == Min({o \in Considered : weighted[o] = MinSize})

AfterNext == [o \in Output |-> weighted[o] - (IF o \in Reduced THEN MinSize ELSE 0)]

(***************************************************************************)
(* RetxQueue: the packet is queued, and the packets of more than           *)
(* RetxBuffer ago are purged.  The dates are unsigned.                     *)
(***************************************************************************)
Cut == (now - RetxBuffer) % ClockMod

\* Faulty variant: the first packet kept is lost.
Purged_OneMore(queue) ==
    LET kept == {i \in 1..Len(queue) : \A j \in 1..(i - 1) : queue[j].at < Cut}
    IN  SubSeq(queue, Max(kept) + 1, Len(queue))

Purged(queue) ==
    LET kept == {i \in 1..Len(queue) : \A j \in 1..(i - 1) : queue[j].at < Cut}
        first == Max(kept)
    IN  IF queue[first].at < Cut THEN <<>> ELSE SubSeq(queue, first, Len(queue))
RetxQueue(n) == retx' = Purged(Append(retx, [id |-> n, at |-> now]))

(***************************************************************************)
(* The input is readable: a packet is read, put on an output, accounted    *)
(* with the bytes the last read() returned, and queued.  A packet from TCP *)
(* may come in two parts.  The division by a weight of zero kills the      *)
(* program, after the packet was sent.                                     *)
(***************************************************************************)
Readable == aggregator = "runs" /\ nbIn < MaxPackets /\ start + nbIn * Period <= now

ReadPart ==
    /\ Readable
    /\ options.tcp /\ ~inPart
    /\ inPart' = TRUE
    /\ UNCHANGED <<now, config, shares, nbIn, reqPart, retx, aggregator, sentAt, up, down>>

ReadInput ==
    /\ Readable
    /\ inPart' = FALSE
    /\ nbIn' = nbIn + 1
    /\ sentAt' = Append(sentAt, now)
    /\ up' = up \union {[id |-> nbIn + 1, marker |-> FALSE, out |-> NextOutput, at |-> now]}
    /\ IF weight[NextOutput] = 0
       THEN /\ aggregator' = "crashed"
            /\ UNCHANGED <<shares, retx>>
       ELSE \E size \in Sizes :
            LET o == NextOutput
                due == size + remainder[o]
            IN  /\ weighted' = [AfterNext EXCEPT ![o] = @ + due \div weight[o]]
                /\ remainder' = [remainder EXCEPT ![o] = due % weight[o]]
                /\ bytes' = [bytes EXCEPT ![o] = @ + size]
                /\ RetxQueue(nbIn + 1)
                /\ UNCHANGED aggregator
    /\ UNCHANGED <<now, config, reqPart, down>>

-----------------------------------------------------------------------------

(***************************************************************************)
(* A request [seq, num, via, at]: num packets from number seq on, on the   *)
(* link via.  RetxHandle sends what it has of them: all on the service if  *)
(* there is one, each on the next output otherwise, and these are not      *)
(* accounted.  Without -x the block of the request was never allocated.    *)
(***************************************************************************)
Asked(r) ==
    LET found == {i \in 1..Len(retx) : SeqNum(retx[i].id) = r.seq}
        first == Min(found)
    IN  IF found = {} THEN <<>>
        ELSE SubSeq(retx, first, Min({Len(retx), first + r.num - 1}))

(* Sent again on the outputs in turn: nothing is accounted between two     *)
(* calls of NextOutput, so they all return the same output.                *)
Again(r) == {[id |-> b.id, marker |-> TRUE, at |-> now,
              out |-> IF options.url THEN 0 ELSE NextOutput] :
                 b \in {Asked(r)[i] : i \in 1..Len(Asked(r))}}

RetxPart(r) ==
    /\ aggregator = "runs" /\ options.x
    /\ options.tcp /\ options.url /\ ~reqPart
    /\ reqPart' = TRUE
    /\ UNCHANGED <<now, config, shares, nbIn, inPart, retx, aggregator, sentAt, up, down>>

RetxHandle(r) ==
    /\ aggregator = "runs"
    /\ down' = down \ {r}
    /\ IF options.x
       THEN /\ up' = up \union Again(r)
            /\ weighted' = IF options.url \/ Asked(r) = <<>> THEN weighted ELSE AfterNext
            /\ UNCHANGED aggregator
       ELSE /\ aggregator' = "crashed"
            /\ UNCHANGED <<up, weighted>>
    /\ reqPart' = FALSE
    /\ UNCHANGED <<now, config, remainder, bytes, nbIn, inPart, retx, sentAt>>

(* A datagram that is not a request: of another length, or without "RETX". *)
RetxInvalid ==
    /\ aggregator = "runs"
    /\ ~(options.tcp /\ options.url)
    /\ aggregator' = IF options.x THEN "died" ELSE "crashed"
    /\ UNCHANGED <<now, config, shares, nbIn, inPart, reqPart, retx, sentAt, up, down>>

AggregaStep ==
    \/ ReadPart
    \/ ReadInput
    \/ \E r \in down : RetxPart(r) \/ RetxHandle(r)

(* It has nothing to read from its input. *)
AggregaIdle == ~Readable

-----------------------------------------------------------------------------

(***************************************************************************)
(* No output is ahead of another by more than the largest read: an output  *)
(* with less is chosen, and the common part is taken off (which also keeps *)
(* the 32-bit counters from overflowing).                                  *)
(***************************************************************************)
Largest == Max(Sizes)
Balanced == (\A o \in Output : weight[o] > 0) =>
                \A o \in Output : weighted[o] \in 0..Largest

(***************************************************************************)
(* The outputs share the bytes of the input in proportion to their         *)
(* weights, whatever was sent again in between.                            *)
(***************************************************************************)
Sharing == (\A o \in Output : weight[o] > 0) =>
    \A o, p \in Output : bytes[o] * weight[p] - bytes[p] * weight[o]
                             < (Largest + 1) * weight[o] * weight[p]

(***************************************************************************)
(* Retransmittable: the queue holds what was sent in the RetxBuffer units  *)
(* before the last packet, and nothing older; but nothing of what is sent  *)
(* in the first RetxBuffer units after the machine was started, since the  *)
(* subtraction of unsigned dates wraps around.                             *)
(***************************************************************************)
Retransmittable == aggregator # "crashed" =>
    {retx[i].id : i \in 1..Len(retx)} =
        {n \in 1..nbIn : sentAt[n] >= RetxBuffer /\ sentAt[n] >= sentAt[nbIn] - RetxBuffer}
===============================================================================
