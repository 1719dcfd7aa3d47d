------------------------------ MODULE ReorderRTP ------------------------------
(***************************************************************************)
(* reordertp (reordertp.c): receives the packets of a stream from several  *)
(* links, puts them back in order in a buffer of BufferLength, asks for    *)
(* those that are missing, and sends each when its date has come.          *)
(*                                                                         *)
(* Together with AggregaRTP, whose links up and down it shares, it makes   *)
(* the link of module RtpLink.  A timestamp is the time at which the       *)
(* packet was made, in the units of now.                                   *)
(***************************************************************************)
EXTENDS AggregaRTP

CONSTANTS
    BufferLength,   \* i_buffer_length
    RetxDelay,      \* i_retx_delay
    MaxBurst,       \* i_max_retx_burst
    MaxGap,         \* i_cr_max_gap
    MaxJitter,      \* i_cr_max_jitter
    Average,        \* i_cr_average
    TsMod           \* POW2_32

ASSUME ReorderAssumption ==
    /\ BufferLength \in Nat \ {0} /\ RetxDelay \in Nat \ {0} /\ Average \in Nat \ {0}
    /\ TsMod \in Nat \ {0} /\ MaxGap \in Nat /\ MaxGap < TsMod

VARIABLES
    pc,         \* "send", "check", "timeout", "poll" or "recv" in the main loop
    date,       \* i_current_date
    deadline,   \* when poll() returns if nothing comes
    buffer,     \* the blocks from p_first to p_last, as [id, date] and three flags
    retxPtr,    \* pp_retx, as positions in buffer; 0 is NULL
    pass,       \* which pass of RetxCheck
    clock,      \* input_clock
    lastTs,     \* i_last_timestamp
    lastInput,  \* i_last_retx_input
    lastRecv,   \* the input read last since poll() returned
    peers,      \* the inputs whose peer is known
    output      \* history: what was sent, see PacketSend

position == <<buffer, retxPtr>>
clocks == <<clock, lastTs>>
asking == <<lastInput, peers>>
reorderVars == <<pc, date, deadline, position, pass, clocks, asking, lastRecv, output>>

Never == -1
MIN_RETX_DELAY == 10        \* "ms", but compared with ticks of 27 MHz
CR_MAX_SPACE_PACKETS == 10
TicksPerUnit == 27000
NbRetx == (BufferLength * TicksPerUnit - MIN_RETX_DELAY) \div (RetxDelay * TicksPerUnit)
Pass == 1..NbRetx

NoClock == [last |-> 0, cr |-> 0, wall |-> 0, delta |-> 0, space |-> 0]

(* The state of a program just started, up to its main loop. *)
Started ==
    [pc |-> "send", buffer |-> <<>>, retxPtr |-> [i \in Pass |-> 0], pass |-> 1,
     clock |-> NoClock, lastTs |-> TsMod, lastInput |-> 1, peers |-> {}]

ReorderInit ==
    /\ pc = Started.pc
    /\ date = 0
    /\ deadline = Never
    /\ buffer = Started.buffer
    /\ retxPtr = Started.retxPtr
    /\ pass = Started.pass
    /\ clock = Started.clock
    /\ lastTs = Started.lastTs
    /\ lastInput = Started.lastInput
    /\ lastRecv = 0
    /\ peers = Started.peers
    /\ output = <<>>

-----------------------------------------------------------------------------

(***************************************************************************)
(* The clock: the wall date of a timestamp, learnt from the packets.       *)
(***************************************************************************)
Trunc(a, b) == IF a >= 0 THEN a \div b ELSE -((-a) \div b)
Beyond(a, limit) == a > limit \/ a < -limit

ToWall(c, cr) == c.wall + cr + c.delta - c.cr
Restarted(cr, wall) == [NoClock EXCEPT !.cr = cr, !.last = cr, !.wall = wall]

NewRef(c, cr, wall) ==
    LET diff == c.cr + wall - c.wall - cr
    IN  CASE Beyond(cr - c.last, MaxGap) -> Restarted(cr, wall)
          [] ~Beyond(cr - c.last, MaxGap) /\ Beyond(diff - c.delta, MaxJitter) ->
                IF c.space + 1 > CR_MAX_SPACE_PACKETS
                THEN Restarted(cr, wall)
                ELSE [c EXCEPT !.space = @ + 1]
          [] OTHER -> [c EXCEPT !.space = 0, !.last = cr,
                         !.delta = Trunc(c.delta * (Average - 1) + diff, Average)]

(* The 32-bit timestamp continues the last one, forwards or backwards. *)
BuildTimestamp(ts) ==
    lastTs + (((3 * TsMod) \div 2 + ts - (lastTs % TsMod)) % TsMod) - (TsMod \div 2)

-----------------------------------------------------------------------------

(***************************************************************************)
(* PacketSend: the first packet, when its date has come within the         *)
(* millisecond.  The passes of RetxCheck that were at it start again.      *)
(***************************************************************************)
PacketSend ==
    /\ pc = "send"
    /\ buffer # <<>> /\ Head(buffer).date <= now
    /\ output' = Append(output, Head(buffer))
    /\ buffer' = Tail(buffer)
    /\ retxPtr' = [i \in Pass |-> IF retxPtr[i] = 0 THEN 0 ELSE retxPtr[i] - 1]
    /\ UNCHANGED <<pc, date, deadline, pass, clocks, asking, lastRecv>>

NothingDue ==
    /\ pc = "send"
    /\ buffer # <<>> => Head(buffer).date > now
    /\ pc' = "check"
    /\ date' = now
    /\ pass' = 1
    /\ UNCHANGED <<deadline, position, clocks, asking, lastRecv, output>>

(***************************************************************************)
(* RetxCheck: pass i walks over the packets that are due within i times    *)
(* RetxDelay, drops the second of two packets with the same number, and    *)
(* asks for those missing between two others, unless they are too many.    *)
(***************************************************************************)
Current == retxPtr[pass] + 1
Number(k) == SeqNum(buffer[k].id)

\* Faulty variants: one too few, one too many.
Missing_Fewer == (SeqMod + Number(Current) - (Number(Current - 1) + 2)) % SeqMod
Missing_More == (SeqMod + Number(Current) - Number(Current - 1)) % SeqMod

Missing == (SeqMod + Number(Current) - (Number(Current - 1) + 1)) % SeqMod
InHorizon == Current <= Len(buffer) /\ buffer[Current].date <= date + pass * RetxDelay

SameNumber == Current > 1 /\ Number(Current) = Number(Current - 1)
Gap == Current > 1 /\ ~SameNumber /\ Missing > 0

RetxNextPass ==
    /\ pc = "check"
    /\ pass \notin Pass \/ ~InHorizon
    /\ IF pass < NbRetx
       THEN pass' = pass + 1 /\ UNCHANGED pc
       ELSE pc' = "timeout" /\ UNCHANGED pass
    /\ UNCHANGED <<date, deadline, position, clocks, asking, lastRecv, output>>

Walk == pc = "check" /\ pass \in Pass /\ InHorizon

RetxFollows ==
    /\ Walk
    /\ ~SameNumber /\ ~Gap
    /\ retxPtr' = [retxPtr EXCEPT ![pass] = Current]
    /\ UNCHANGED <<pc, date, deadline, buffer, pass, clocks, asking, lastRecv, output>>

(* RetxDereference: the passes that were at the packet go back by one. *)
RetxDuplicate ==
    /\ Walk
    /\ SameNumber
    /\ buffer' = SubSeq(buffer, 1, Current - 1) \o SubSeq(buffer, Current + 1, Len(buffer))
    /\ retxPtr' = [i \in Pass |-> IF retxPtr[i] >= Current THEN retxPtr[i] - 1 ELSE retxPtr[i]]
    /\ UNCHANGED <<pc, date, deadline, pass, clocks, asking, lastRecv, output>>

(* RetxGetFd: the service, or the next input whose peer is known. *)
NextInput ==
    LET turn(i) == (i - lastInput - 1) % NbOutputs
    IN  IF peers = {} THEN lastInput
        ELSE CHOOSE i \in peers : \A j \in peers : turn(i) <= turn(j)

RetxGap ==
    /\ Walk
    /\ Gap
    /\ retxPtr' = [retxPtr EXCEPT ![pass] = Current]
    /\ IF Missing > MaxBurst
       THEN UNCHANGED <<down, lastInput>>
       ELSE /\ lastInput' = IF options.url THEN lastInput ELSE NextInput
            /\ down' = IF ~options.url /\ peers = {} THEN down ELSE down \union
                 {[seq |-> (Number(Current - 1) + 1) % SeqMod, num |-> Missing, at |-> now,
                   via |-> IF options.url THEN 0 ELSE NextInput]}
    /\ UNCHANGED <<pc, date, deadline, buffer, pass, clocks, peers, lastRecv, output>>

(***************************************************************************)
(* The timeout of poll().  The date is read again: if the first packet has *)
(* become due since, the unsigned difference wraps around, and what is     *)
(* left of it in an int is negative, which is to wait for ever.            *)
(***************************************************************************)
\* Faulty variant: the last packet is waited for.
Timeout_Last ==
    /\ pc = "timeout"
    /\ pc' = "poll"
    /\ date' = now
    /\ deadline' = IF buffer = <<>> THEN Never ELSE buffer[Len(buffer)].date
    /\ UNCHANGED <<position, pass, clocks, asking, lastRecv, output>>

Timeout ==
    /\ pc = "timeout"
    /\ pc' = "poll"
    /\ date' = now
    /\ deadline' = IF buffer = <<>> \/ Head(buffer).date < now THEN Never
                   ELSE Head(buffer).date
    /\ UNCHANGED <<position, pass, clocks, asking, lastRecv, output>>

\* Faulty variant: back to poll() without looking at the buffer.
TimedOut_Waits ==
    /\ pc = "poll"
    /\ deadline # Never /\ deadline <= now
    /\ pc' = "timeout"
    /\ UNCHANGED <<date, deadline, position, pass, clocks, asking, lastRecv, output>>

TimedOut ==
    /\ pc = "poll"
    /\ deadline # Never /\ deadline <= now
    /\ pc' = "send"
    /\ UNCHANGED <<date, deadline, position, pass, clocks, asking, lastRecv, output>>

-----------------------------------------------------------------------------

(***************************************************************************)
(* PacketRecv: the packet gets a date and its place in the buffer.  One    *)
(* that is sent again, or comes from the retransmission service, says      *)
(* nothing of the clock.  Two flags tell of its arrival: late, a packet    *)
(* that follows it, or itself, was sent before; tight, no more than        *)
(* RetxDelay is left to its date; and undated tells that the clock it was  *)
(* dated by was never set.                                                 *)
(***************************************************************************)
\* Faulty variant: numbers do not wrap around.
NewerThan_NoWrap(n) == {k \in 1..Len(buffer) : Number(k) > SeqNum(n)}

NewerThan(n) == {k \in 1..Len(buffer) :
    (((3 * SeqMod) \div 2 + Number(k) - SeqNum(n)) % SeqMod) > SeqMod \div 2}
Place(n) == Max({0} \union ((1..Len(buffer)) \ NewerThan(n)))

PacketRecv(m, d) ==
    LET ts == BuildTimestamp((m.id * Period) % TsMod)
        c == IF m.marker \/ m.out = 0 THEN clock ELSE NewRef(clock, ts, d)
        block == [id |-> m.id, date |-> ToWall(c, ts) + BufferLength,
                  late |-> \E i \in 1..Len(output) : output[i].id >= m.id,
                  tight |-> ToWall(c, ts) + BufferLength <= d + RetxDelay,
                  undated |-> c = NoClock]
        k == Place(m.id)
    IN  /\ lastTs' = ts
        /\ clock' = c
        /\ buffer' = SubSeq(buffer, 1, k) \o <<block>> \o SubSeq(buffer, k + 1, Len(buffer))
        /\ retxPtr' = [i \in Pass |-> IF retxPtr[i] > k THEN retxPtr[i] + 1 ELSE retxPtr[i]]

(***************************************************************************)
(* After poll() returned every input that has a packet is read once, in    *)
(* their order, with the same date.                                        *)
(***************************************************************************)
Receive(m) ==
    /\ pc \in {"poll", "recv"}
    /\ pc = "recv" => m.out > lastRecv
    /\ pc' = "recv"
    /\ date' = IF pc = "poll" THEN now ELSE date
    /\ lastRecv' = m.out
    /\ peers' = peers \union ({m.out} \ {0})
    /\ PacketRecv(m, date')
    /\ UNCHANGED <<deadline, pass, lastInput, output>>

AllRead ==
    /\ pc = "recv"
    /\ pc' = "send"
    /\ UNCHANGED <<date, deadline, position, pass, clocks, asking, lastRecv, output>>

(* The program is killed and started again. *)
ReorderRestart ==
    /\ pc' = Started.pc
    /\ date' = 0
    /\ deadline' = Never
    /\ buffer' = Started.buffer
    /\ retxPtr' = Started.retxPtr
    /\ pass' = Started.pass
    /\ clock' = Started.clock
    /\ lastTs' = Started.lastTs
    /\ lastInput' = Started.lastInput
    /\ lastRecv' = 0
    /\ peers' = Started.peers
    /\ output' = <<>>

(* The steps of the program that touch neither link, and all of them. *)
ReorderLocal ==
    \/ PacketSend \/ NothingDue
    \/ RetxNextPass \/ RetxFollows \/ RetxDuplicate
    \/ Timeout \/ TimedOut \/ AllRead

(* It waits in poll() for a packet or for a date to come. *)
ReorderIdle == pc = "poll" /\ ~(deadline # Never /\ deadline <= now)
===============================================================================
