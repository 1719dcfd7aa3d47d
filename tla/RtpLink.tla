-------------------------------- MODULE RtpLink --------------------------------
(***************************************************************************)
(* aggregartp and reordertp joined by links that lose, duplicate and delay *)
(* packets and requests: what goes in comes out once and in order.         *)
(***************************************************************************)
EXTENDS ReorderRTP

CONSTANTS
    Disturbed,      \* the packets that may be lost, delayed or duplicated
    MaxDelay,       \* the longest one of these or a request is under way
    Limits,         \* how often each of the Faults may happen
    MaxFaults,      \* how many may happen in all
    Slow            \* reordertp may be held up between two readings of the clock

ASSUME LinkAssumption == MaxDelay \in Nat

(***************************************************************************)
(* A packet or a request is lost, a packet comes twice, a datagram that is *)
(* no request comes, reordertp is killed and started again.                *)
(***************************************************************************)
Faults == {"loss", "dup", "stray", "restart"}

VARIABLE faults     \* how often each has happened

linkVars == <<now, aggregaVars, reorderVars, up, down, faults>>

Init ==
    /\ AggregaInit
    /\ ReorderInit
    /\ faults = [f \in Faults |-> 0]

Disturbs(m) == m.marker \/ m.id \in Disturbed
Happens(f) ==
    /\ faults[f] < Limits[f]
    /\ FoldSet(LAMBDA g, sum : sum + faults[g], 0, Faults) < MaxFaults
    /\ faults' = [faults EXCEPT ![f] = @ + 1]

Aggrega == AggregaStep /\ UNCHANGED <<reorderVars, faults>>
Reorder == ReorderLocal /\ UNCHANGED <<now, aggregaVars, up, down, faults>>
Request == RetxGap /\ UNCHANGED <<now, aggregaVars, up, faults>>

(* A packet comes, and may come again. *)
Arrive(m) ==
    /\ Receive(m)
    /\ \/ up' = up \ {m} /\ UNCHANGED faults
       \/ up' = up /\ Disturbs(m) /\ Happens("dup")
    /\ UNCHANGED <<now, aggregaVars, down>>

Lose ==
    /\ Happens("loss")
    /\ \/ \E m \in up : Disturbs(m) /\ up' = up \ {m} /\ UNCHANGED down
       \/ \E r \in down : down' = down \ {r} /\ UNCHANGED up
    /\ UNCHANGED <<now, aggregaVars, reorderVars>>

Stray == RetxInvalid /\ Happens("stray") /\ UNCHANGED reorderVars

Restart == ReorderRestart /\ Happens("restart") /\ UNCHANGED <<now, aggregaVars, up, down>>

(***************************************************************************)
(* Time passes when both programs wait and nothing is overdue on the       *)
(* links, or, if reordertp may be slow, before it computes its timeout.    *)
(***************************************************************************)
Quiet ==
    /\ aggregator # "runs" \/ nbIn = MaxPackets
    /\ up = {} /\ (aggregator = "runs" => down = {})
    /\ ReorderIdle /\ deadline = Never

Tick ==
    /\ ~Quiet
    /\ AggregaIdle
    /\ ReorderIdle \/ (Slow /\ pc = "timeout")
    /\ \A m \in up : Disturbs(m) /\ now - m.at < MaxDelay
    /\ aggregator = "runs" => \A r \in down : now - r.at < MaxDelay
    /\ now' = now + 1
    /\ UNCHANGED <<aggregaVars, reorderVars, up, down, faults>>

(* Nothing is left to read, to send or to wait for. *)
Finished == Quiet /\ UNCHANGED linkVars

Next ==
    \/ Aggrega
    \/ Reorder
    \/ Request
    \/ \E m \in up : Arrive(m)
    \/ Lose
    \/ Stray
    \/ Restart
    \/ Tick
    \/ Finished

(***************************************************************************)
(* Properties.                                                             *)
(***************************************************************************)
(* No packet is dated by a clock that was never set. *)
Dated == \A i \in 1..Len(buffer) \union 1..Len(output) :
    /\ i <= Len(buffer) => ~buffer[i].undated
    /\ i <= Len(output) => ~output[i].undated

(***************************************************************************)
(* InOrder: a packet goes out after one that follows it only if it came    *)
(* too late, when that one was gone already.                               *)
(***************************************************************************)
InOrder == \A i, j \in 1..Len(output) :
    i < j /\ output[i].id > output[j].id => output[j].late

(***************************************************************************)
(* Complete: with no more losses than passes of RetxCheck, what goes out   *)
(* has no hole as long as the stream goes on: every packet after the first *)
(* that came was recovered before those that follow it went out.  And a    *)
(* packet goes out twice only if the second copy came when no more than    *)
(* RetxDelay was left, which is after the last pass of RetxCheck.  When    *)
(* the stream stops it need not be so: RetxCheck runs only when poll()     *)
(* returns, and no timeout is set for a packet to enter the horizon of a   *)
(* pass.                                                                   *)
(***************************************************************************)
Undisturbed == aggregator = "runs" /\ faults.restart = 0 /\ start >= RetxBuffer
Complete ==
    /\ Undisturbed /\ faults.loss <= NbRetx /\ output # <<>> =>
          \A n \in output[1].id..output[Len(output)].id :
              \E i \in 1..Len(output) : output[i].id = n
    /\ Dated /\ aggregator = "runs" => \A i, j \in 1..Len(output) :
          i < j /\ output[i].id = output[j].id => output[j].tight

(***************************************************************************)
(* OnTime: while reordertp waits, it will be awake when the first packet   *)
(* of its buffer is due, and it has not missed that date.  No packet stays *)
(* in the buffer longer than the buffer is long, give or take the jitter:  *)
(* its date does not lie farther ahead, and none that is overdue by more   *)
(* is held back by others.  But a packet that is sent again and comes      *)
(* first, to a reordertp just started, has a date that means nothing and   *)
(* blocks those behind it.                                                 *)
(***************************************************************************)
OnTime ==
    /\ pc = "poll" /\ buffer # <<>> =>
          deadline # Never /\ now <= deadline /\ deadline <= Head(buffer).date
    /\ Dated => \A i \in 1..Len(buffer) :
          /\ buffer[i].date <= now + BufferLength + MaxDelay
          /\ pc = "poll" => buffer[i].date >= now - MaxDelay

(***************************************************************************)
(* OnlyMissing: reordertp never asks for a packet it holds or has sent,    *)
(* unless one that came too late stands before the gap.  Numbers repeat:   *)
(* one that was sent long ago has the number of another by now.            *)
(***************************************************************************)
Wanted(r) == {n \in 1..MaxPackets : (SeqNum(n) - r.seq) % SeqMod < r.num}
Lately == {i \in 1..Len(output) : output[i].id > Head(buffer).id - SeqMod \div 2}
Known == {buffer[i].id : i \in 1..Len(buffer)} \union {output[i].id : i \in Lately}
OnlyMissing == [][\A r \in down' \ down :
    (\E i \in 1..Len(buffer) : buffer[i].late) \/ Wanted(r) \cap Known = {}]_linkVars

Spec == Init /\ [][Next]_linkVars

(* The programs go on, what is on the links comes or is lost, time passes. *)
Works == Aggrega \/ Reorder \/ Request \/ (\E m \in up : Arrive(m)) \/ Tick
FairSpec == Spec /\ WF_linkVars(Works)

(***************************************************************************)
(* Drains: reordertp never holds on to a packet for ever: when the stream  *)
(* stops all that came has gone out.                                       *)
(***************************************************************************)
Drains == <>[](buffer = <<>> /\ up = {})
================================================================================
