---------------------------- MODULE SharedMemory ----------------------------
(***************************************************************************)
(* sharedMemoryLib.c: the memory-mapped table of EIT descriptions through  *)
(* which multicat-supervisor hands each stream's event information to the  *)
(* multicat-eit process that plays it out, and the POSIX named semaphore   *)
(* "/multicat.sem" that is meant to protect it.                            *)
(*                                                                         *)
(* The module is the library with its most general client: any process may *)
(* open the library, make any call in any order, close it, or be killed.   *)
(* EitClients restricts the calls to the ones the three programs make.     *)
(*                                                                         *)
(* The copy of a struct EitInfo is not atomic: it is two steps, one for    *)
(* the header and section 0 ("front"), one for section 1 ("back").  An     *)
(* event description that was written as a whole has equal halves.         *)
(*                                                                         *)
(* A semaphore name and a semaphore are two things: sem_unlink removes the *)
(* name, the processes that opened it keep the semaphore, and the next     *)
(* sem_open(O_CREAT) makes another one.  Sem is the set of semaphores the  *)
(* kernel can hold at a time.                                              *)
(***************************************************************************)
EXTENDS Naturals

CONSTANTS
  Proc,       \* processes that use the library
  Slot,       \* providers: entries of the mapped table
  Event,      \* contents a caller can publish
  NoEvent,    \* the zeroed contents of a fresh mapping file
  Sem,        \* kernel semaphores
  NoSem,      \* no semaphore: a free name, or the handle of a closed process
  Faults      \* what the environment does: see FaultKinds

(***************************************************************************)
(* "interrupted": a signal whose handler is installed without SA_RESTART   *)
(* makes sem_wait return EINTR, which no caller tests.                     *)
(* "unlinked": a process closes the library while others have it open.     *)
(* "crashed": a process dies between its sem_wait and its sem_post.        *)
(***************************************************************************)
FaultKinds == {"interrupted", "unlinked", "crashed"}

ASSUME FaultsAssumption == Faults \subseteq FaultKinds
ASSUME SemAssumption == NoSem \notin Sem

Half == Event \cup {NoEvent}
EitInfo == [initialized : {0, 1}, updated : {0, 1}, front : Half, back : Half]
Zeroed == [initialized |-> 0, updated |-> 0, front |-> NoEvent, back |-> NoEvent]

Ops == {"none", "set", "get", "getWithoutUpdate", "get_updated"}

VARIABLES
  memory,   \* the mapped file, one EitInfo per provider
  value,    \* value of each semaphore
  name,     \* the semaphore /multicat.sem names
  mutex,    \* the semaphore each process opened
  pc,       \* where each process is in the library
  op,       \* the call it is in, or made last
  slot,     \* the provider of that call
  eit       \* the caller's struct EitInfo

vars == <<memory, value, name, mutex, pc, op, slot, eit>>

Critical == {"head", "tail", "clear", "post"}
InCritical(p) == pc[p] \in Critical
Idle(p) == pc[p] = "idle"

Init ==
  /\ memory = [i \in Slot |-> Zeroed]
  /\ value = [s \in Sem |-> 1]
  /\ name = NoSem
  /\ mutex = [p \in Proc |-> NoSem]
  /\ pc = [p \in Proc |-> "closed"]
  /\ op = [p \in Proc |-> "none"]
  /\ slot \in [Proc -> Slot]
  /\ eit = [p \in Proc |-> Zeroed]

-----------------------------------------------------------------------------
(* Opening and closing                                                     *)

InUse(s) == s = name \/ \E p \in Proc : mutex[p] = s

\* sharedMemory_init finds the semaphore by its name ...
OpenExisting(p) ==
  /\ pc[p] = "closed"
  /\ name # NoSem
  /\ mutex' = [mutex EXCEPT ![p] = name]
  /\ pc' = [pc EXCEPT ![p] = "idle"]
  /\ UNCHANGED <<memory, value, name, op, slot, eit>>

\* Faulty variant: the semaphore is created as a counter of two.
OpenNew_Value2(p) ==
  /\ pc[p] = "closed"
  /\ name = NoSem
  /\ \E s \in Sem :
       /\ ~InUse(s)
       /\ value' = [value EXCEPT ![s] = 2]
       /\ name' = s
       /\ mutex' = [mutex EXCEPT ![p] = s]
  /\ pc' = [pc EXCEPT ![p] = "idle"]
  /\ UNCHANGED <<memory, op, slot, eit>>

\* ... or makes one with value 1 and gives it the name.
OpenNew(p) ==
  /\ pc[p] = "closed"
  /\ name = NoSem
  /\ \E s \in Sem :
       /\ ~InUse(s)
       /\ value' = [value EXCEPT ![s] = 1]
       /\ name' = s
       /\ mutex' = [mutex EXCEPT ![p] = s]
  /\ pc' = [pc EXCEPT ![p] = "idle"]
  /\ UNCHANGED <<memory, op, slot, eit>>

sharedMemory_init(p) == OpenExisting(p) \/ OpenNew(p)

\* Faulty variant: the semaphore is not closed.
sharedMemory_close_Leak(p) ==
  /\ Idle(p)
  /\ name' = NoSem
  /\ pc' = [pc EXCEPT ![p] = "closed"]
  /\ UNCHANGED <<memory, value, mutex, op, slot, eit>>

\* sem_close, then sem_unlink of whatever the name designates by now.
sharedMemory_close(p) ==
  /\ Idle(p)
  /\ "unlinked" \in Faults \/ \A q \in Proc \ {p} : mutex[q] = NoSem
  /\ mutex' = [mutex EXCEPT ![p] = NoSem]
  /\ name' = NoSem
  /\ pc' = [pc EXCEPT ![p] = "closed"]
  /\ op' = [op EXCEPT ![p] = "none"]
  /\ eit' = [eit EXCEPT ![p] = Zeroed]
  /\ UNCHANGED <<memory, value, slot>>

-----------------------------------------------------------------------------
(* The four calls                                                          *)

Call(p, o, i) ==
  /\ Idle(p)
  /\ pc' = [pc EXCEPT ![p] = "wait"]
  /\ op' = [op EXCEPT ![p] = o]
  /\ slot' = [slot EXCEPT ![p] = i]
  /\ UNCHANGED <<memory, value, name, mutex>>

\* The two flags are set in the caller's struct before the lock is taken.
sharedMemory_set(p, i, v) ==
  /\ Call(p, "set", i)
  /\ eit' = [eit EXCEPT ![p] =
               [initialized |-> 1, updated |-> 1, front |-> v, back |-> v]]

Read(p, o, i) == Call(p, o, i) /\ UNCHANGED eit

sharedMemory_get(p, i) == Read(p, "get", i)
sharedMemory_getWithoutUpdate(p, i) == Read(p, "getWithoutUpdate", i)
sharedMemory_get_updated(p, i) == Read(p, "get_updated", i)

-----------------------------------------------------------------------------
(* The steps of a call                                                     *)

Goto(p, l) == pc' = [pc EXCEPT ![p] = l]

\* Faulty variant: the call does not wait for the semaphore.
sem_wait_Skipped(p) ==
  /\ pc[p] = "wait"
  /\ Goto(p, "head")
  /\ UNCHANGED <<memory, value, name, mutex, op, slot, eit>>

sem_wait(p) ==
  /\ pc[p] = "wait"
  /\ value[mutex[p]] > 0
  /\ value' = [value EXCEPT ![mutex[p]] = @ - 1]
  /\ Goto(p, "head")
  /\ UNCHANGED <<memory, name, mutex, op, slot, eit>>

\* A blocked sem_wait interrupted by a signal returns -1; the caller goes on.
Interrupted(p) ==
  /\ "interrupted" \in Faults
  /\ pc[p] = "wait"
  /\ value[mutex[p]] = 0
  /\ Goto(p, "head")
  /\ UNCHANGED <<memory, value, name, mutex, op, slot, eit>>

\* Faulty variant: sharedMemory_get_updated consumes the flag it reads.
CopyFront_TestAndClear(p) ==
  /\ pc[p] = "head"
  /\ Goto(p, IF op[p] = "get_updated" THEN "post" ELSE "tail")
  /\ memory' = CASE op[p] = "set" -> [memory EXCEPT ![slot[p]] = [eit[p] EXCEPT !.back = memory[slot[p]].back]]
                [] op[p] = "get_updated" -> [memory EXCEPT ![slot[p]].updated = 0]
                [] OTHER -> memory
  /\ eit' = CASE op[p] = "set" -> eit
             [] op[p] = "get_updated" -> [eit EXCEPT ![p].updated = memory[slot[p]].updated]
             [] OTHER -> [eit EXCEPT ![p] = [memory[slot[p]] EXCEPT !.back = eit[p].back]]
  /\ UNCHANGED <<value, name, mutex, op, slot>>

\* First half of the memcpy, or the whole of sharedMemory_get_updated.
CopyFront(p) ==
  /\ pc[p] = "head"
  /\ \/ /\ op[p] = "set"
        /\ memory' = [memory EXCEPT ![slot[p]] = [eit[p] EXCEPT !.back = memory[slot[p]].back]]
        /\ Goto(p, "tail")
        /\ UNCHANGED eit
     \/ /\ op[p] \in {"get", "getWithoutUpdate"}
        /\ eit' = [eit EXCEPT ![p] = [memory[slot[p]] EXCEPT !.back = eit[p].back]]
        /\ Goto(p, "tail")
        /\ UNCHANGED memory
     \/ /\ op[p] = "get_updated"
        /\ eit' = [eit EXCEPT ![p].updated = memory[slot[p]].updated]
        /\ Goto(p, "post")
        /\ UNCHANGED memory
  /\ UNCHANGED <<value, name, mutex, op, slot>>

\* Faulty variant: sharedMemory_getWithoutUpdate acknowledges too.
CopyBack_AlwaysClear(p) ==
  /\ pc[p] = "tail"
  /\ IF op[p] = "set"
     THEN memory' = [memory EXCEPT ![slot[p]].back = eit[p].back] /\ UNCHANGED eit
     ELSE eit' = [eit EXCEPT ![p].back = memory[slot[p]].back] /\ UNCHANGED memory
  /\ Goto(p, IF op[p] = "set" THEN "post" ELSE "clear")
  /\ UNCHANGED <<value, name, mutex, op, slot>>

CopyBack(p) ==
  /\ pc[p] = "tail"
  /\ \/ /\ op[p] = "set"
        /\ memory' = [memory EXCEPT ![slot[p]].back = eit[p].back]
        /\ UNCHANGED eit
     \/ /\ op[p] # "set"
        /\ eit' = [eit EXCEPT ![p].back = memory[slot[p]].back]
        /\ UNCHANGED memory
  /\ Goto(p, IF op[p] = "get" THEN "clear" ELSE "post")
  /\ UNCHANGED <<value, name, mutex, op, slot>>

\* sharedMemory_get acknowledges the update it has just copied.
ClearUpdated(p) ==
  /\ pc[p] = "clear"
  /\ memory' = [memory EXCEPT ![slot[p]].updated = 0]
  /\ Goto(p, "post")
  /\ UNCHANGED <<value, name, mutex, op, slot, eit>>

\* Faulty variant: only sharedMemory_set unlocks.
sem_post_Forgotten(p) ==
  /\ pc[p] = "post"
  /\ value' = [value EXCEPT ![mutex[p]] = IF op[p] = "set" THEN @ + 1 ELSE @]
  /\ eit' = [eit EXCEPT ![p].updated = IF op[p] = "get" THEN 0 ELSE @]
  /\ Goto(p, "idle")
  /\ UNCHANGED <<memory, name, mutex, op, slot>>

sem_post(p) ==
  /\ pc[p] = "post"
  /\ value' = [value EXCEPT ![mutex[p]] = @ + 1]
  /\ eit' = [eit EXCEPT ![p].updated = IF op[p] = "get" THEN 0 ELSE @]
  /\ Goto(p, "idle")
  /\ UNCHANGED <<memory, name, mutex, op, slot>>

\* kill -9, a fault, or a signal that arrives before the handlers are set.
Die(p) ==
  /\ pc[p] # "closed"
  /\ InCritical(p) => "crashed" \in Faults
  /\ mutex' = [mutex EXCEPT ![p] = NoSem]
  /\ pc' = [pc EXCEPT ![p] = "closed"]
  /\ op' = [op EXCEPT ![p] = "none"]
  /\ eit' = [eit EXCEPT ![p] = Zeroed]
  /\ UNCHANGED <<memory, value, name, slot>>

-----------------------------------------------------------------------------

Calls(p) ==
  \E i \in Slot :
    \/ \E v \in Event : sharedMemory_set(p, i, v)
    \/ sharedMemory_get(p, i)
    \/ sharedMemory_getWithoutUpdate(p, i)
    \/ sharedMemory_get_updated(p, i)

\* A call in progress goes on by itself.
Progress(p) ==
  \/ sem_wait(p)
  \/ CopyFront(p) \/ CopyBack(p) \/ ClearUpdated(p) \/ sem_post(p)

Library(p) ==
  \/ sharedMemory_init(p) \/ sharedMemory_close(p)
  \/ Calls(p) \/ Progress(p)
  \/ Interrupted(p) \/ Die(p)

Next == \E p \in Proc : Library(p)

Spec == Init /\ [][Next]_vars

\* A process between its lock and its unlock is scheduled; one that waits
\* gets the semaphore if it is free again and again (a futex wakes a waiter).
Fairness ==
  \A p \in Proc : /\ WF_vars(CopyFront(p) \/ CopyBack(p) \/ ClearUpdated(p) \/ sem_post(p))
                  /\ SF_vars(sem_wait(p))

FairSpec == Spec /\ Fairness

-----------------------------------------------------------------------------
(* Properties                                                              *)

\* Every variable has its type, and a process holds a semaphore exactly
\* while it has the library open.
TypeOK ==
  /\ memory \in [Slot -> EitInfo]
  /\ value \in [Sem -> Nat]
  /\ name \in Sem \cup {NoSem}
  /\ mutex \in [Proc -> Sem \cup {NoSem}]
  /\ pc \in [Proc -> {"closed", "idle", "wait"} \cup Critical]
  /\ op \in [Proc -> Ops]
  /\ slot \in [Proc -> Slot]
  /\ eit \in [Proc -> EitInfo]
  /\ \A p \in Proc : mutex[p] = NoSem <=> pc[p] = "closed"

\* Two processes that opened the same semaphore are never both between their
\* sem_wait and their sem_post.  Holds as long as no wait is interrupted,
\* whoever closes, unlinks or crashes.
PerSemaphoreExclusion ==
  \A p, q \in Proc :
    InCritical(p) /\ InCritical(q) /\ mutex[p] = mutex[q] => p = q

\* At most one process accesses the mapped table at a time, what the
\* variable called "mutex" is for.
MutualExclusion ==
  \A p, q \in Proc : InCritical(p) /\ InCritical(q) => p = q

\* The semaphore is created with value 1 to be a mutex, and stays one: its
\* value never says that two processes may enter.
SemaphoreIsBinary == \A s \in Sem : value[s] \in {0, 1}

\* The semaphore callers find by its name is never left taken with nobody
\* inside to give it back, whatever signals interrupt and whoever unlinks;
\* only a process that dies inside could do that.
NeverStuck ==
  \A s \in Sem :
    InUse(s) /\ value[s] = 0 => \E p \in Proc : InCritical(p) /\ mutex[p] = s

Whole(e) == e.front = e.back

\* A reader never gets half of one publication and half of another, and
\* no entry that nobody is writing is left half written.
NoTornCopy ==
  /\ \A p \in Proc : pc[p] \in {"idle", "clear", "post"} => Whole(eit[p])
  /\ \A i \in Slot : Whole(memory[i]) \/ \E p \in Proc : slot[p] = i /\ op[p] = "set" /\ pc[p] = "tail"

\* An update flag disappears from the table only by the acknowledgement of a
\* process that holds a copy of exactly the contents the flag stood for: no
\* publication is acknowledged unseen.
AcknowledgedIsCopied ==
  [][\A i \in Slot :
       memory[i].updated = 1 /\ memory'[i].updated = 0
         => \E p \in Proc : /\ pc[p] = "clear" /\ slot[p] = i
                            /\ eit[p].front = memory[i].front
                            /\ eit[p].back = memory[i].back]_vars

\* Every call that is waiting for the lock returns, unless its process dies.
CallsReturn == \A p \in Proc : pc[p] = "wait" ~> pc[p] \in {"idle", "closed"}
=============================================================================
