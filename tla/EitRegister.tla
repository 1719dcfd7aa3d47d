----------------------------- MODULE EitRegister -----------------------------
(***************************************************************************)
(* What sharedMemoryLib promises to its callers: a table of registers, one *)
(* per provider, each with an "updated" flag, on which every call takes    *)
(* effect at one instant between its invocation and its return.            *)
(***************************************************************************)
CONSTANTS Proc, Slot, Event, NoEvent

VARIABLES
  register,   \* [Slot -> [initialized, updated, event]]
  stage,      \* "out", "asked" (effect to come) or "done" (result available)
  request,    \* the call each process makes: [op, slot, event]
  result      \* the contents the last call returned to each process

vars == <<register, stage, request, result>>

Blank == [initialized |-> 0, updated |-> 0, event |-> NoEvent]
Requests == [op : {"none", "set", "get", "getWithoutUpdate", "get_updated"},
             slot : Slot, event : Event \cup {NoEvent}]

Init ==
  /\ register = [i \in Slot |-> Blank]
  /\ stage = [p \in Proc |-> "out"]
  /\ request \in [Proc -> Requests]
  /\ result = [p \in Proc |-> Blank]

\* A process outside the library makes a call.
Ask(p) ==
  /\ stage[p] = "out"
  /\ stage' = [stage EXCEPT ![p] = "asked"]
  /\ \E r \in Requests : request' = [request EXCEPT ![p] = r]
  /\ result' = [result EXCEPT ![p] = Blank]
  /\ UNCHANGED register

Outcome(p, r) ==
  CASE request[p].op = "set" -> [initialized |-> 1, updated |-> 1, event |-> request[p].event]
    [] request[p].op = "get" -> [r EXCEPT !.updated = 0]
    [] OTHER -> r

\* The call takes effect: a set replaces the entry and raises its flag, a
\* get returns the entry and lowers the flag, the others only read.
TakeEffect(p) ==
  LET i == request[p].slot
      after == Outcome(p, register[i]) IN
  /\ stage[p] = "asked"
  /\ register' = [register EXCEPT ![i] = after]
  /\ result' = [result EXCEPT ![p] =
                  IF request[p].op = "get_updated" THEN [Blank EXCEPT !.updated = after.updated]
                  ELSE after]
  /\ stage' = [stage EXCEPT ![p] = "done"]
  /\ UNCHANGED request

Return(p) ==
  /\ stage[p] = "done"
  /\ stage' = [stage EXCEPT ![p] = "out"]
  /\ UNCHANGED <<register, request, result>>

\* A process leaves (closes, or dies before its call took effect).
Leave(p) ==
  /\ stage[p] # "done"
  /\ stage' = [stage EXCEPT ![p] = "out"]
  /\ \E r \in Requests : request' = [request EXCEPT ![p] = r]
  /\ result' = [result EXCEPT ![p] = Blank]
  /\ UNCHANGED register

Next == \E p \in Proc : Ask(p) \/ TakeEffect(p) \/ Return(p) \/ Leave(p)

Spec == Init /\ [][Next]_vars
=============================================================================
