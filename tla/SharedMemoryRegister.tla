------------------------ MODULE SharedMemoryRegister ------------------------
(***************************************************************************)
(* The refinement: the shared memory library implements the table of       *)
(* atomic registers of EitRegister.  Every call takes effect when its      *)
(* process gets the semaphore: from then on no other process sees or       *)
(* changes the entry before the call is over.                              *)
(***************************************************************************)
EXTENDS SharedMemory

\* An entry whose halves differ is no content at all.
Content(e) == IF Whole(e) THEN e.front ELSE "torn"
AsEntry(e) == [initialized |-> e.initialized, updated |-> e.updated, event |-> Content(e)]
BlankEntry == [initialized |-> 0, updated |-> 0, event |-> NoEvent]

\* The entry as it will be once the process inside has finished its call.
registerOf(i) ==
  IF \E p \in Proc : InCritical(p) /\ slot[p] = i /\ op[p] = "set"
  THEN AsEntry(eit[CHOOSE p \in Proc : InCritical(p) /\ slot[p] = i /\ op[p] = "set"])
  ELSE IF \E p \in Proc : InCritical(p) /\ slot[p] = i /\ op[p] = "get"
  THEN [AsEntry(memory[i]) EXCEPT !.updated = 0]
  ELSE AsEntry(memory[i])

stageOf(p) ==
  CASE pc[p] \in {"closed", "idle"} -> "out"
    [] pc[p] = "wait" -> "asked"
    [] OTHER -> "done"

requestOf(p) ==
  [op |-> op[p], slot |-> slot[p],
   event |-> IF op[p] = "set" THEN eit[p].front ELSE NoEvent]

\* What the process gets, or is about to get, from the call.
resultOf(p) ==
  LET e == IF InCritical(p) /\ op[p] # "set" THEN memory[slot[p]] ELSE eit[p] IN
  IF pc[p] = "wait" \/ op[p] = "none" THEN BlankEntry
  ELSE CASE op[p] = "get_updated" -> [BlankEntry EXCEPT !.updated = e.updated]
         [] op[p] = "get" -> [AsEntry(e) EXCEPT !.updated = 0]
         [] OTHER -> AsEntry(e)

Register ==
  INSTANCE EitRegister WITH
    register <- [i \in Slot |-> registerOf(i)],
    stage <- [p \in Proc |-> stageOf(p)],
    request <- [p \in Proc |-> requestOf(p)],
    result <- [p \in Proc |-> resultOf(p)]

\* Without faults of the environment every call is atomic: the behaviours of
\* the library are behaviours of a table of registers.
ImplementsRegister == Register!Spec
=============================================================================
