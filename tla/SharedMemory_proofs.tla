------------------------ MODULE SharedMemory_proofs ------------------------
(***************************************************************************)
(* Theorems about the shared memory library, for every set of processes,   *)
(* providers, contents and semaphores, and its refinement of a table of    *)
(* atomic registers.                                                       *)
(***************************************************************************)
EXTENDS SharedMemoryRegister, TLAPS

\* The actions one process can take, as a flat list: the case split of every
\* preservation proof below.
LEMMA LibrarySteps ==
  ASSUME NEW p \in Proc, Library(p)
  PROVE  \/ OpenExisting(p)
         \/ OpenNew(p)
         \/ sharedMemory_close(p)
         \/ \E i \in Slot, v \in Event : sharedMemory_set(p, i, v)
         \/ \E i \in Slot, o \in {"get", "getWithoutUpdate", "get_updated"} : Read(p, o, i)
         \/ sem_wait(p)
         \/ Interrupted(p)
         \/ CopyFront(p)
         \/ CopyBack(p)
         \/ ClearUpdated(p)
         \/ sem_post(p)
         \/ Die(p)
BY DEF Library, sharedMemory_init, Calls, Progress, sharedMemory_get,
       sharedMemory_getWithoutUpdate, sharedMemory_get_updated

-----------------------------------------------------------------------------
(* Types                                                                   *)

\* The parts of a struct EitInfo that the copies write leave it one.
LEMMA EitInfoParts ==
  ASSUME NEW e \in EitInfo, NEW f \in EitInfo
  PROVE  /\ [e EXCEPT !.back = f.back] \in EitInfo
         /\ [e EXCEPT !.updated = f.updated] \in EitInfo
         /\ [e EXCEPT !.updated = 0] \in EitInfo
BY DEF EitInfo

LEMMA TypeInit == Init => TypeOK
BY SemAssumption DEF Init, TypeOK, EitInfo, Zeroed, Half, Ops, Critical

LEMMA TypeStep == TypeOK /\ [Next]_vars => TypeOK'
<1> SUFFICES ASSUME TypeOK, [Next]_vars PROVE TypeOK'
  OBVIOUS
<1> USE SemAssumption DEF TypeOK, EitInfo, Zeroed, Half, Ops, Critical
<1>1. CASE UNCHANGED vars
  BY <1>1 DEF vars
<1>2. ASSUME NEW p \in Proc, Library(p) PROVE TypeOK'
  <2>1. CASE OpenExisting(p)
    BY <2>1 DEF OpenExisting
  <2>2. CASE OpenNew(p)
    BY <2>2 DEF OpenNew
  <2>3. CASE sharedMemory_close(p)
    BY <2>3 DEF sharedMemory_close, Idle
  <2>4. ASSUME NEW i \in Slot, NEW v \in Event, sharedMemory_set(p, i, v)
        PROVE  TypeOK'
    BY <2>4 DEF sharedMemory_set, Call, Idle
  <2>5. ASSUME NEW i \in Slot, NEW o \in {"get", "getWithoutUpdate", "get_updated"},
               Read(p, o, i)
        PROVE  TypeOK'
    BY <2>5 DEF Read, Call, Idle
  <2>6. CASE sem_wait(p)
    <3>1. mutex[p] \in Sem /\ value[mutex[p]] \in Nat
      BY <2>6 DEF sem_wait
    <3>2. value' \in [Sem -> Nat]
      BY <2>6, <3>1 DEF sem_wait
    <3> QED BY <2>6, <3>2 DEF sem_wait, Goto
  <2>7. CASE Interrupted(p)
    BY <2>7 DEF Interrupted, Goto
  <2> DEFINE m == memory[slot[p]]
  <2>a. slot[p] \in Slot /\ eit[p] \in EitInfo /\ m \in EitInfo
    OBVIOUS
  <2>8. CASE CopyFront(p)
    <3>1. /\ [eit[p] EXCEPT !.back = m.back] \in EitInfo
          /\ [m EXCEPT !.back = eit[p].back] \in EitInfo
          /\ [eit[p] EXCEPT !.updated = m.updated] \in EitInfo
      BY <2>a, EitInfoParts
    <3>2. /\ memory' \in [Slot -> EitInfo]
          /\ eit' \in [Proc -> EitInfo]
          /\ pc' \in {[pc EXCEPT ![p] = "tail"], [pc EXCEPT ![p] = "post"]}
          /\ pc[p] = "head"
      <4> USE DEF Goto
      <4> HIDE DEF EitInfo
      <4> QED BY <2>8, <2>a, <3>1 DEF CopyFront
    <3> QED BY <2>8, <3>2 DEF CopyFront
  <2>9. CASE CopyBack(p)
    <3>1. /\ [m EXCEPT !.back = eit[p].back] \in EitInfo
          /\ [eit[p] EXCEPT !.back = m.back] \in EitInfo
      BY <2>a, EitInfoParts
    <3>2. memory' \in [Slot -> EitInfo] /\ eit' \in [Proc -> EitInfo]
      <4> HIDE DEF EitInfo
      <4> QED BY <2>9, <2>a, <3>1 DEF CopyBack
    <3> QED BY <2>9, <3>2 DEF CopyBack, Goto
  <2>10. CASE ClearUpdated(p)
    <3>1. [m EXCEPT !.updated = 0] \in EitInfo
      BY <2>a, EitInfoParts
    <3>2. memory' \in [Slot -> EitInfo]
      <4> HIDE DEF EitInfo
      <4> QED BY <2>10, <2>a, <3>1 DEF ClearUpdated
    <3> QED BY <2>10, <3>2 DEF ClearUpdated, Goto
  <2>11. CASE sem_post(p)
    <3>1. mutex[p] \in Sem /\ value[mutex[p]] \in Nat
      BY <2>11 DEF sem_post
    <3>2. value' \in [Sem -> Nat]
      BY <2>11, <3>1 DEF sem_post
    <3>3. eit' \in [Proc -> EitInfo]
      BY <2>11, <2>a, EitInfoParts DEF sem_post
    <3> QED BY <2>11, <3>2, <3>3 DEF sem_post, Goto
  <2>12. CASE Die(p)
    BY <2>12 DEF Die
  <2> QED
    BY <1>2, <2>1, <2>2, <2>3, <2>4, <2>5, <2>6, <2>7, <2>8, <2>9, <2>10,
       <2>11, <2>12, LibrarySteps
<1> QED BY <1>1, <1>2 DEF Next

\* The library keeps its variables within their types, and a process holds a
\* semaphore exactly while it has the library open.
THEOREM TypeCorrect == Spec => []TypeOK
BY TypeInit, TypeStep, PTL DEF Spec

-----------------------------------------------------------------------------
(* Exclusion per semaphore                                                 *)

\* A process inside has taken the one unit of its semaphore, so the unit and
\* the process inside are one: nobody else is inside on that semaphore.
SemInv ==
  /\ SemaphoreIsBinary
  /\ \A p \in Proc : InCritical(p) => value[mutex[p]] = 0
  /\ PerSemaphoreExclusion

LEMMA SemInit == Init => SemInv
BY DEF Init, SemInv, SemaphoreIsBinary, PerSemaphoreExclusion, InCritical, Critical

LEMMA SemStep ==
  ASSUME "interrupted" \notin Faults, TypeOK, SemInv, [Next]_vars
  PROVE  SemInv'
<1> USE SemAssumption DEF TypeOK, SemInv, SemaphoreIsBinary, PerSemaphoreExclusion,
                          InCritical, Critical
<1>1. CASE UNCHANGED vars
  BY <1>1 DEF vars
<1>2. ASSUME NEW p \in Proc, Library(p) PROVE SemInv'
  <2>1. CASE OpenExisting(p)
    BY <2>1 DEF OpenExisting
  <2>2. CASE OpenNew(p)
    <3>1. PICK s \in Sem : /\ ~InUse(s)
                           /\ value' = [value EXCEPT ![s] = 1]
                           /\ mutex' = [mutex EXCEPT ![p] = s]
      BY <2>2 DEF OpenNew
    <3>2. \A q \in Proc : mutex[q] # s
      BY <3>1 DEF InUse
    <3>3. pc' = [pc EXCEPT ![p] = "idle"]
      BY <2>2 DEF OpenNew
    <3> QED BY <3>1, <3>2, <3>3
  <2>3. CASE sharedMemory_close(p)
    BY <2>3 DEF sharedMemory_close, Idle
  <2>4. ASSUME NEW i \in Slot, NEW v \in Event, sharedMemory_set(p, i, v)
        PROVE  SemInv'
    BY <2>4 DEF sharedMemory_set, Call, Idle
  <2>5. ASSUME NEW i \in Slot, NEW o \in {"get", "getWithoutUpdate", "get_updated"},
               Read(p, o, i)
        PROVE  SemInv'
    BY <2>5 DEF Read, Call, Idle
  <2>6. CASE sem_wait(p)
    <3>a. mutex[p] \in Sem /\ value[mutex[p]] \in {0, 1}
      BY <2>6 DEF sem_wait
    <3>b. value[mutex[p]] = 1 /\ value[mutex[p]] - 1 = 0
      BY <2>6, <3>a DEF sem_wait
    <3>1. /\ mutex[p] \in Sem
          /\ value' = [value EXCEPT ![mutex[p]] = 0]
          /\ pc' = [pc EXCEPT ![p] = "head"]
          /\ mutex' = mutex
      BY <2>6, <3>a, <3>b DEF sem_wait, Goto
    <3> QED BY <2>6, <3>b, <3>1 DEF sem_wait
  <2>7. CASE Interrupted(p)
    BY <2>7 DEF Interrupted
  <2>8. CASE CopyFront(p)
    BY <2>8 DEF CopyFront, Goto
  <2>9. CASE CopyBack(p)
    BY <2>9 DEF CopyBack, Goto
  <2>10. CASE ClearUpdated(p)
    BY <2>10 DEF ClearUpdated, Goto
  <2>11. CASE sem_post(p)
    <3>a. mutex[p] \in Sem /\ value[mutex[p]] = 0 /\ value[mutex[p]] + 1 = 1
      BY <2>11 DEF sem_post
    <3>1. /\ mutex[p] \in Sem
          /\ value' = [value EXCEPT ![mutex[p]] = 1]
          /\ pc' = [pc EXCEPT ![p] = "idle"]
          /\ mutex' = mutex
      BY <2>11, <3>a DEF sem_post, Goto
    <3> QED BY <2>11, <3>a, <3>1 DEF sem_post
  <2>12. CASE Die(p)
    BY <2>12 DEF Die
  <2> QED
    BY <1>2, <2>1, <2>2, <2>3, <2>4, <2>5, <2>6, <2>7, <2>8, <2>9, <2>10,
       <2>11, <2>12, LibrarySteps
<1> QED BY <1>1, <1>2 DEF Next

LEMMA SemInvariant == "interrupted" \notin Faults => (Spec => []SemInv)
<1> SUFFICES ASSUME "interrupted" \notin Faults PROVE Spec => []SemInv
  OBVIOUS
<1>1. TypeOK /\ SemInv /\ [Next]_vars => SemInv'
  BY SemStep
<1> QED BY SemInit, <1>1, TypeCorrect, PTL DEF Spec

\* Unless a signal interrupts a wait, two processes that opened the same
\* semaphore are never inside together, whoever closes, unlinks or crashes.
THEOREM ExclusionPerSemaphore ==
  "interrupted" \notin Faults => (Spec => []PerSemaphoreExclusion)
<1>1. SemInv => PerSemaphoreExclusion
  BY DEF SemInv
<1> QED BY <1>1, SemInvariant, PTL

\* Unless a signal interrupts a wait, no semaphore ever counts above one.
THEOREM BinarySemaphores ==
  "interrupted" \notin Faults => (Spec => []SemaphoreIsBinary)
<1>1. SemInv => SemaphoreIsBinary
  BY DEF SemInv
<1> QED BY <1>1, SemInvariant, PTL

-----------------------------------------------------------------------------
(* A taken semaphore has somebody inside                                   *)

\* Whoever leaves the inside posts, and whoever takes the last unit goes in;
\* a semaphore that comes into use is new and has its unit.
LEMMA StuckStep ==
  ASSUME "crashed" \notin Faults, TypeOK, NeverStuck, [Next]_vars
  PROVE  NeverStuck'
<1> USE SemAssumption DEF TypeOK, NeverStuck, InUse, InCritical, Critical
<1>1. CASE UNCHANGED vars
  BY <1>1 DEF vars
<1>2. ASSUME NEW p \in Proc, Library(p) PROVE NeverStuck'
  \* A step of p that is not inside before or after it, and takes no unit.
  <2>1. ASSUME ~InCritical(p), \A q \in Proc \ {p} : pc'[q] = pc[q] /\ mutex'[q] = mutex[q],
               \A s \in Sem : InUse(s)' => value'[s] = 1 \/ (InUse(s) /\ value'[s] = value[s])
        PROVE  NeverStuck'
    BY <2>1
  \* A step of p that is inside after it and has changed no semaphore but its own.
  <2>2. ASSUME InCritical(p)', UNCHANGED <<mutex, name>>,
               \A q \in Proc \ {p} : pc'[q] = pc[q],
               \A s \in Sem \ {mutex[p]} : value'[s] = value[s]
        PROVE  NeverStuck'
    BY <2>2
  <2>3. CASE OpenExisting(p)
    BY <2>3, <2>1 DEF OpenExisting
  <2>4. CASE OpenNew(p)
    <3>1. PICK s \in Sem : /\ value' = [value EXCEPT ![s] = 1]
                           /\ name' = s
                           /\ mutex' = [mutex EXCEPT ![p] = s]
      BY <2>4 DEF OpenNew
    <3> QED BY <2>4, <2>1, <3>1 DEF OpenNew
  <2>5. CASE sharedMemory_close(p) \/ Die(p)
    <3>1. /\ ~InCritical(p) /\ value' = value
          /\ mutex' = [mutex EXCEPT ![p] = NoSem] /\ name' \in {name, NoSem}
          /\ pc' = [pc EXCEPT ![p] = "closed"]
      BY <2>5 DEF sharedMemory_close, Die, Idle
    <3> QED BY <2>1, <3>1
  <2>6. ASSUME NEW i \in Slot, NEW o \in Ops, Call(p, o, i)
        PROVE  NeverStuck'
    BY <2>6, <2>1 DEF Call, Idle
  <2>7. CASE sem_wait(p)
    BY <2>7, <2>2 DEF sem_wait, Goto
  <2>8. CASE Interrupted(p)
    BY <2>8, <2>2 DEF Interrupted, Goto
  <2>9. CASE CopyFront(p) \/ CopyBack(p) \/ ClearUpdated(p)
    <3>1. /\ UNCHANGED <<mutex, name, value>>
          /\ pc' \in {[pc EXCEPT ![p] = l] : l \in Critical}
      BY <2>9 DEF CopyFront, CopyBack, ClearUpdated, Goto
    <3> QED BY <2>2, <3>1
  <2>10. CASE sem_post(p)
    <3>1. /\ mutex[p] \in Sem /\ value[mutex[p]] \in Nat
          /\ value' = [value EXCEPT ![mutex[p]] = value[mutex[p]] + 1]
          /\ pc' = [pc EXCEPT ![p] = "idle"]
          /\ UNCHANGED <<mutex, name>>
      BY <2>10 DEF sem_post, Goto
    <3>2. value'[mutex[p]] > 0 /\ \A s \in Sem \ {mutex[p]} : value'[s] = value[s]
      BY <3>1
    <3> QED BY <3>1, <3>2
  <2> QED
    BY <1>2, <2>3, <2>4, <2>5, <2>6, <2>7, <2>8, <2>9, <2>10, LibrarySteps
    DEF sharedMemory_set, Read, Ops
<1> QED BY <1>1, <1>2 DEF Next

\* Unless a process dies inside, a semaphore that somebody can still wait for
\* is free or has a process inside that will give it back, however many waits
\* are interrupted and whoever unlinks the name.
THEOREM NeverLeftTaken == "crashed" \notin Faults => (Spec => []NeverStuck)
<1> SUFFICES ASSUME "crashed" \notin Faults PROVE Spec => []NeverStuck
  OBVIOUS
<1>1. Init => NeverStuck
  BY DEF Init, NeverStuck
<1>2. TypeOK /\ NeverStuck /\ [Next]_vars => NeverStuck'
  BY StuckStep
<1> QED BY <1>1, <1>2, TypeCorrect, PTL DEF Spec

-----------------------------------------------------------------------------
(* Mutual exclusion                                                        *)

\* While nobody closes the library under the others, everybody who has it
\* open holds the semaphore the name designates.
OneSemaphore == \A p \in Proc : mutex[p] \in {NoSem, name}

LEMMA OneSemaphoreInit == Init => OneSemaphore
BY DEF Init, OneSemaphore

LEMMA OneSemaphoreStep ==
  ASSUME "unlinked" \notin Faults, TypeOK, OneSemaphore, [Next]_vars
  PROVE  OneSemaphore'
<1> USE SemAssumption DEF TypeOK, OneSemaphore
<1>1. CASE UNCHANGED vars
  BY <1>1 DEF vars
<1>2. ASSUME NEW p \in Proc, Library(p) PROVE OneSemaphore'
  <2>1. CASE OpenExisting(p)
    BY <2>1 DEF OpenExisting
  <2>2. CASE OpenNew(p)
    <3>1. PICK s \in Sem : name' = s /\ mutex' = [mutex EXCEPT ![p] = s]
      BY <2>2 DEF OpenNew
    <3>2. \A q \in Proc : mutex[q] = NoSem
      BY <2>2 DEF OpenNew
    <3> QED BY <3>1, <3>2
  <2>3. CASE sharedMemory_close(p)
    BY <2>3 DEF sharedMemory_close
  <2>4. CASE Die(p)
    BY <2>4 DEF Die
  <2>5. CASE UNCHANGED <<mutex, name>>
    BY <2>5
  <2> QED
    BY <1>2, <2>1, <2>2, <2>3, <2>4, <2>5, LibrarySteps
    DEF sharedMemory_set, Read, Call, sem_wait, Interrupted, CopyFront, CopyBack,
        ClearUpdated, sem_post
<1> QED BY <1>1, <1>2 DEF Next

LEMMA ExclusionFromOneSemaphore ==
  TypeOK /\ SemInv /\ OneSemaphore => MutualExclusion
BY SemAssumption DEF TypeOK, SemInv, OneSemaphore, PerSemaphoreExclusion, MutualExclusion,
                     InCritical, Critical

LEMMA ExclusionInvariant ==
  Faults \subseteq {"crashed"} => (Spec => [](TypeOK /\ MutualExclusion))
<1> SUFFICES ASSUME Faults \subseteq {"crashed"}
             PROVE  Spec => [](TypeOK /\ MutualExclusion)
  OBVIOUS
<1>1. "interrupted" \notin Faults /\ "unlinked" \notin Faults
  OBVIOUS
<1>2. TypeOK /\ OneSemaphore /\ [Next]_vars => OneSemaphore'
  BY <1>1, OneSemaphoreStep
<1>3. Spec => []OneSemaphore
  BY <1>2, OneSemaphoreInit, TypeCorrect, PTL DEF Spec
<1>4. Spec => []SemInv
  BY <1>1, SemInvariant
<1> QED BY <1>3, <1>4, TypeCorrect, ExclusionFromOneSemaphore, PTL

\* If no signal interrupts a wait and nobody closes the library while others
\* use it, one process at a time accesses the table, even if some crash.
THEOREM ExclusionOfAll == Faults \subseteq {"crashed"} => (Spec => []MutualExclusion)
BY ExclusionInvariant, PTL

-----------------------------------------------------------------------------
(* Whole copies                                                            *)

\* Where the halves of an entry and of a copy of it may differ: only while
\* the one process inside is between the two halves of its copy.
CopyInv ==
  /\ \A p \in Proc :
       /\ pc[p] # "tail" => Whole(eit[p])
       /\ pc[p] \in {"wait", "head"} /\ op[p] = "set" => eit[p].updated = 1
       /\ pc[p] = "tail" =>
            /\ op[p] \in {"set", "get", "getWithoutUpdate"}
            /\ eit[p].front = memory[slot[p]].front
            /\ op[p] = "set" => Whole(eit[p])
       /\ pc[p] = "clear" =>
            eit[p].front = memory[slot[p]].front /\ eit[p].back = memory[slot[p]].back
  /\ \A i \in Slot :
       Whole(memory[i]) \/ \E p \in Proc : slot[p] = i /\ op[p] = "set" /\ pc[p] = "tail"

LEMMA CopyInit == Init => CopyInv
BY DEF Init, CopyInv, Whole, Zeroed

LEMMA CopyStep ==
  ASSUME Faults = {}, TypeOK, MutualExclusion, CopyInv, [Next]_vars
  PROVE  CopyInv'
<1> USE DEF CopyInv, Whole
<1>1. CASE UNCHANGED vars
  BY <1>1 DEF vars
<1>2. ASSUME NEW p \in Proc, Library(p) PROVE CopyInv'
  <2> USE DEF TypeOK, EitInfo
  \* A step of p that writes no entry and is not in the middle of a copy.
  <2>1. ASSUME pc[p] # "tail",
               pc'[p] \notin {"tail", "clear"},
               Whole(eit'[p]),
               pc'[p] \in {"wait", "head"} /\ op'[p] = "set" => eit'[p].updated = 1,
               \A q \in Proc \ {p} : /\ pc'[q] = pc[q] /\ eit'[q] = eit[q]
                                     /\ op'[q] = op[q] /\ slot'[q] = slot[q],
               UNCHANGED memory
        PROVE  CopyInv'
    BY <2>1
  <2>2. CASE sharedMemory_init(p)
    BY <2>2, <2>1 DEF sharedMemory_init, OpenExisting, OpenNew
  <2>3. CASE sharedMemory_close(p) \/ Die(p)
    <3>1. /\ pc[p] # "tail"
          /\ pc' = [pc EXCEPT ![p] = "closed"]
          /\ eit' = [eit EXCEPT ![p] = Zeroed]
          /\ op' = [op EXCEPT ![p] = "none"]
          /\ UNCHANGED <<memory, slot>>
      BY <2>3 DEF sharedMemory_close, Die, Idle, InCritical, Critical
    <3>2. Whole(Zeroed)
      BY DEF Zeroed
    <3> QED BY <2>1, <3>1, <3>2
  <2>4. CASE sem_wait(p)
    BY <2>4, <2>1 DEF sem_wait, Goto
  <2>11. CASE Calls(p)
    <3>1. ASSUME NEW i \in Slot, NEW v \in Event, sharedMemory_set(p, i, v)
          PROVE  CopyInv'
      BY <3>1, <2>1 DEF sharedMemory_set, Call, Idle
    <3>2. ASSUME NEW i \in Slot, NEW o \in {"get", "getWithoutUpdate", "get_updated"},
                 Read(p, o, i)
          PROVE  CopyInv'
      <4>1. /\ pc[p] = "idle" /\ pc' = [pc EXCEPT ![p] = "wait"]
            /\ op' = [op EXCEPT ![p] = o]
            /\ slot' = [slot EXCEPT ![p] = i]
            /\ UNCHANGED <<memory, eit>>
        BY <3>2 DEF Read, Call, Idle
      <4> QED BY <2>1, <4>1
    <3> QED
      BY <2>11, <3>1, <3>2
      DEF Calls, sharedMemory_get, sharedMemory_getWithoutUpdate, sharedMemory_get_updated
  \* The others are outside while p is inside.
  <2>5. pc[p] \in Critical => \A q \in Proc \ {p} : pc[q] \notin Critical
    BY DEF MutualExclusion, InCritical
  <2>6. CASE CopyFront(p)
    <3>1. \A q \in Proc \ {p} : pc'[q] = pc[q] /\ eit'[q] = eit[q] /\ pc[q] \notin {"tail", "clear"}
      BY <2>5, <2>6 DEF CopyFront, Goto, Critical
    <3>2. \A i \in Slot : Whole(memory[i])
      BY <2>5, <2>6 DEF CopyFront, Critical
    <3>3. CASE op[p] = "set"
      <4>1. /\ memory' = [memory EXCEPT ![slot[p]] = [eit[p] EXCEPT !.back = memory[slot[p]].back]]
            /\ pc' = [pc EXCEPT ![p] = "tail"]
            /\ UNCHANGED <<eit, op, slot>>
        BY <2>6, <3>3 DEF CopyFront, Goto
      <4>2. /\ memory'[slot[p]].front = eit[p].front
            /\ \A i \in Slot \ {slot[p]} : memory'[i] = memory[i]
        BY <4>1
      <4>3. Whole(eit[p]) /\ pc'[p] = "tail"
        BY <2>6, <4>1 DEF CopyFront
      <4> QED BY <3>1, <3>2, <3>3, <4>1, <4>2, <4>3
    <3>4. CASE op[p] \in {"get", "getWithoutUpdate"}
      BY <2>6, <3>1, <3>2, <3>4, SMTT(30) DEF CopyFront, Goto
    <3>5. CASE op[p] = "get_updated"
      BY <2>6, <3>1, <3>2, <3>5, SMTT(30) DEF CopyFront, Goto
    <3> QED BY <2>6, <3>3, <3>4, <3>5 DEF CopyFront
  <2>7. CASE CopyBack(p)
    <3>1. \A q \in Proc \ {p} : pc'[q] = pc[q] /\ eit'[q] = eit[q] /\ pc[q] \notin {"tail", "clear"}
      BY <2>5, <2>7 DEF CopyBack, Goto, Critical
    <3>2. \A i \in Slot : Whole(memory[i]) \/ (i = slot[p] /\ op[p] = "set")
      BY <2>5, <2>7 DEF CopyBack, Critical
    <3>3. CASE op[p] = "set"
      BY <2>7, <3>1, <3>2, <3>3 DEF CopyBack, Goto
    <3>4. CASE op[p] # "set"
      BY <2>7, <3>1, <3>2, <3>4 DEF CopyBack, Goto
    <3> QED BY <3>3, <3>4
  <2>8. CASE ClearUpdated(p)
    <3>1. \A q \in Proc \ {p} : pc'[q] = pc[q] /\ pc[q] \notin {"tail", "clear"}
      BY <2>5, <2>8 DEF ClearUpdated, Goto, Critical
    <3> QED BY <2>8, <3>1 DEF ClearUpdated, Goto
  <2>9. CASE sem_post(p)
    <3>1. /\ pc[p] = "post" /\ pc' = [pc EXCEPT ![p] = "idle"]
          /\ eit' = [eit EXCEPT ![p] = [eit[p] EXCEPT !.updated = IF op[p] = "get" THEN 0 ELSE @]]
          /\ UNCHANGED <<memory, op, slot>>
      BY <2>9 DEF sem_post, Goto
    <3>2. eit'[p].front = eit[p].front /\ eit'[p].back = eit[p].back
      BY <3>1
    <3> QED BY <2>1, <3>1, <3>2
  <2>10. ~Interrupted(p)
    BY DEF Interrupted
  <2> QED
    BY <1>2, <2>2, <2>3, <2>4, <2>6, <2>7, <2>8, <2>9, <2>10, <2>11 DEF Library, Progress
<1> QED BY <1>1, <1>2 DEF Next

LEMMA CopyInvariant ==
  Faults = {} => (Spec => [](TypeOK /\ MutualExclusion /\ CopyInv))
<1> SUFFICES ASSUME Faults = {}
             PROVE  Spec => [](TypeOK /\ MutualExclusion /\ CopyInv)
  OBVIOUS
<1>1. Spec => [](TypeOK /\ MutualExclusion)
  BY ExclusionInvariant
<1>2. TypeOK /\ MutualExclusion /\ CopyInv /\ [Next]_vars => CopyInv'
  BY CopyStep
<1> QED BY <1>1, <1>2, CopyInit, PTL DEF Spec

\* Without faults no reader gets, and no entry keeps, halves of two
\* publications.
THEOREM WholeCopies == Faults = {} => (Spec => []NoTornCopy)
<1>1. TypeOK /\ MutualExclusion /\ CopyInv => NoTornCopy
  BY DEF CopyInv, NoTornCopy, TypeOK
<1> QED BY <1>1, CopyInvariant, PTL

\* Without faults a publication is acknowledged only by a process that holds
\* a copy of it.
THEOREM AcknowledgedCopies == Faults = {} => (Spec => AcknowledgedIsCopied)
<1> SUFFICES ASSUME Faults = {} PROVE Spec => AcknowledgedIsCopied
  OBVIOUS
<1> DEFINE Seen ==
      \A i \in Slot :
        memory[i].updated = 1 /\ memory'[i].updated = 0
          => \E p \in Proc : /\ pc[p] = "clear" /\ slot[p] = i
                             /\ eit[p].front = memory[i].front
                             /\ eit[p].back = memory[i].back
<1>1. TypeOK /\ CopyInv /\ [Next]_vars => [Seen]_vars
  <2> SUFFICES ASSUME TypeOK, CopyInv, NEW p \in Proc, Library(p),
                      NEW i \in Slot, memory[i].updated = 1, memory'[i].updated = 0
               PROVE  \E q \in Proc : /\ pc[q] = "clear" /\ slot[q] = i
                                      /\ eit[q].front = memory[i].front
                                      /\ eit[q].back = memory[i].back
    BY DEF Next
  <2>1. memory' # memory
    OBVIOUS
  <2>2. CASE CopyFront(p)
    <3>1. /\ op[p] = "set"
          /\ memory' = [memory EXCEPT ![slot[p]] = [eit[p] EXCEPT !.back = memory[slot[p]].back]]
      BY <2>1, <2>2 DEF CopyFront
    <3>2. eit[p].updated = 1
      BY <2>2, <3>1 DEF CopyFront, CopyInv
    <3>3. memory'[slot[p]].updated = 1 /\ \A j \in Slot \ {slot[p]} : memory'[j] = memory[j]
      BY <3>1, <3>2 DEF TypeOK, EitInfo
    <3> QED BY <3>3
  <2>3. CASE CopyBack(p)
    BY <2>1, <2>3 DEF CopyBack, TypeOK, EitInfo
  <2>4. CASE ClearUpdated(p)
    <3>1. i = slot[p] /\ pc[p] = "clear"
      BY <2>4 DEF ClearUpdated, TypeOK
    <3> QED BY <3>1 DEF CopyInv
  <2> QED
    BY <2>1, <2>2, <2>3, <2>4, LibrarySteps
    DEF OpenExisting, OpenNew, sharedMemory_close, sharedMemory_set, Read, Call,
        sem_wait, Interrupted, sem_post, Die
<1> QED BY <1>1, CopyInvariant, PTL DEF Spec, AcknowledgedIsCopied
-----------------------------------------------------------------------------
(* The refinement of SharedMemoryRegister, step by step: without faults    *)
(* the library is a table of atomic registers.                             *)

\* What the process inside has done so far of its call.  The copy of a set is
\* the caller's struct with both flags raised; the copies of the two kinds of
\* get are the entry, whose flag a get has lowered when it is about to leave.
CallInv ==
  \A p \in Proc :
    LET e == eit[p]
        m == memory[slot[p]] IN
    /\ pc[p] \notin {"closed", "idle"} => op[p] # "none"
    /\ pc[p] \in {"wait", "head", "tail"} /\ op[p] = "set" =>
         e.initialized = 1 /\ e.updated = 1
    /\ pc[p] = "tail" => e.initialized = m.initialized /\ e.updated = m.updated
    /\ pc[p] = "clear" => op[p] = "get" /\ e.initialized = m.initialized
    /\ pc[p] = "post" =>
         CASE op[p] = "get_updated" -> e.updated = m.updated
           [] op[p] = "get" -> /\ e.initialized = m.initialized /\ m.updated = 0
                               /\ e.front = m.front /\ e.back = m.back
           [] OTHER -> /\ e.initialized = m.initialized /\ e.updated = m.updated
                       /\ e.front = m.front /\ e.back = m.back

LEMMA CallInit == Init => CallInv
BY DEF Init, CallInv

LEMMA CallStep ==
  ASSUME Faults = {}, TypeOK, MutualExclusion, CopyInv, CallInv, [Next]_vars
  PROVE  CallInv'
<1> USE DEF CallInv
<1>1. CASE UNCHANGED vars
  BY <1>1 DEF vars
<1>2. ASSUME NEW p \in Proc, Library(p) PROVE CallInv'
  <2> USE DEF TypeOK, EitInfo
  \* A step of p to the outside, or to the wait for a call.
  <2>1. ASSUME \A q \in Proc \ {p} : /\ pc'[q] = pc[q] /\ eit'[q] = eit[q]
                                     /\ op'[q] = op[q] /\ slot'[q] = slot[q],
               pc'[p] \in {"closed", "idle", "wait"},
               pc'[p] = "wait" => op'[p] # "none",
               pc'[p] = "wait" /\ op'[p] = "set" => eit'[p].initialized = 1 /\ eit'[p].updated = 1,
               UNCHANGED memory
        PROVE  CallInv'
    BY <2>1
  <2>2. CASE sharedMemory_init(p)
    BY <2>2, <2>1 DEF sharedMemory_init, OpenExisting, OpenNew
  <2>3. CASE sharedMemory_close(p) \/ Die(p)
    BY <2>3, <2>1 DEF sharedMemory_close, Die
  <2>4. CASE Calls(p)
    <3>1. ASSUME NEW i \in Slot, NEW v \in Event, sharedMemory_set(p, i, v)
          PROVE  CallInv'
      BY <3>1, <2>1 DEF sharedMemory_set, Call
    <3>2. ASSUME NEW i \in Slot, NEW o \in {"get", "getWithoutUpdate", "get_updated"},
                 Read(p, o, i)
          PROVE  CallInv'
      BY <3>2, <2>1 DEF Read, Call
    <3> QED
      BY <2>4, <3>1, <3>2
      DEF Calls, sharedMemory_get, sharedMemory_getWithoutUpdate, sharedMemory_get_updated
  <2>5. CASE sem_wait(p)
    BY <2>5 DEF sem_wait, Goto
  \* The others are outside while p is inside, and their calls are as they were.
  <2>6. ASSUME pc[p] \in Critical,
               \A q \in Proc \ {p} : pc'[q] = pc[q] /\ eit'[q] = eit[q],
               UNCHANGED <<op, slot>>,
               LET e == eit'[p]
                   m == memory'[slot[p]] IN
                 /\ pc'[p] \notin {"closed", "idle"} => op[p] # "none"
                 /\ pc'[p] \in {"wait", "head", "tail"} /\ op[p] = "set" =>
                      e.initialized = 1 /\ e.updated = 1
                 /\ pc'[p] = "tail" => e.initialized = m.initialized /\ e.updated = m.updated
                 /\ pc'[p] = "clear" => op[p] = "get" /\ e.initialized = m.initialized
                 /\ pc'[p] = "post" =>
                      CASE op[p] = "get_updated" -> e.updated = m.updated
                        [] op[p] = "get" -> /\ e.initialized = m.initialized /\ m.updated = 0
                                            /\ e.front = m.front /\ e.back = m.back
                        [] OTHER -> /\ e.initialized = m.initialized /\ e.updated = m.updated
                                    /\ e.front = m.front /\ e.back = m.back
        PROVE  CallInv'
    <3>1. \A q \in Proc \ {p} : pc'[q] \notin Critical
      BY <2>6 DEF MutualExclusion, InCritical
    <3>2. pc' \in [Proc -> {"closed", "idle", "wait"} \cup Critical]
      BY TypeStep
    <3> QED BY <2>6, <3>1, <3>2 DEF Critical
  <2>7. CASE CopyFront(p)
    <3>1. CASE op[p] = "set"
      BY <2>6, <2>7, <3>1 DEF CopyFront, Goto, Critical
    <3>2. CASE op[p] # "set"
      BY <2>6, <2>7, <3>2 DEF CopyFront, Goto, Critical
    <3> QED BY <3>1, <3>2
  <2>8. CASE CopyBack(p)
    <3>1. CASE op[p] = "set"
      BY <2>6, <2>8, <3>1 DEF CopyBack, Goto, Critical, CopyInv, Whole
    <3>2. CASE op[p] # "set"
      BY <2>6, <2>8, <3>2 DEF CopyBack, Goto, Critical, CopyInv, Whole
    <3> QED BY <3>1, <3>2
  <2>9. CASE ClearUpdated(p)
    BY <2>6, <2>9 DEF ClearUpdated, Goto, Critical, CopyInv, Whole
  <2>10. CASE sem_post(p)
    <3>1. /\ pc' = [pc EXCEPT ![p] = "idle"]
          /\ \A q \in Proc \ {p} : eit'[q] = eit[q]
          /\ UNCHANGED <<memory, op, slot>>
      BY <2>10 DEF sem_post, Goto
    <3> QED BY <2>1, <3>1
  <2>11. ~Interrupted(p)
    BY DEF Interrupted
  <2> QED
    BY <1>2, <2>2, <2>3, <2>4, <2>5, <2>7, <2>8, <2>9, <2>10, <2>11 DEF Library, Progress
<1> QED BY <1>1, <1>2 DEF Next

\* What the refinement needs to know of a state without faults.
RefInv == TypeOK /\ MutualExclusion /\ CopyInv /\ CallInv

LEMMA RefInvariant == Faults = {} => (Spec => []RefInv)
<1> SUFFICES ASSUME Faults = {} PROVE Spec => []RefInv
  OBVIOUS
<1>1. TypeOK /\ MutualExclusion /\ CopyInv /\ CallInv /\ [Next]_vars => CallInv'
  BY CallStep
<1> QED BY <1>1, CallInit, CopyInvariant, PTL DEF Spec, RefInv

-----------------------------------------------------------------------------
(* The mapping                                                             *)

\* The register of entry i while p, and so nobody else, is inside.
RegisterDuring(p, i) ==
  IF slot[p] = i /\ op[p] = "set" THEN AsEntry(eit[p])
  ELSE IF slot[p] = i /\ op[p] = "get" THEN [AsEntry(memory[i]) EXCEPT !.updated = 0]
  ELSE AsEntry(memory[i])

MappedRegister ==
  \A i \in Slot :
    /\ (\A p \in Proc : ~InCritical(p)) => registerOf(i) = AsEntry(memory[i])
    /\ \A p \in Proc : InCritical(p) => registerOf(i) = RegisterDuring(p, i)

LEMMA RegisterCases == MutualExclusion => MappedRegister
<1> SUFFICES ASSUME MutualExclusion, NEW i \in Slot
             PROVE  /\ (\A p \in Proc : ~InCritical(p)) => registerOf(i) = AsEntry(memory[i])
                    /\ \A p \in Proc : InCritical(p) => registerOf(i) = RegisterDuring(p, i)
  BY DEF MappedRegister
<1>1. ASSUME \A p \in Proc : ~InCritical(p)
      PROVE  registerOf(i) = AsEntry(memory[i])
  BY <1>1 DEF registerOf
<1>2. ASSUME NEW p \in Proc, InCritical(p)
      PROVE  registerOf(i) = RegisterDuring(p, i)
  <2>1. \A q \in Proc : InCritical(q) <=> q = p
    BY <1>2 DEF MutualExclusion
  <2>2. (\E q \in Proc : InCritical(q) /\ slot[q] = i /\ op[q] = "set")
          => (CHOOSE q \in Proc : InCritical(q) /\ slot[q] = i /\ op[q] = "set") = p
    BY <2>1
  <2> QED BY <2>1, <2>2 DEF registerOf, RegisterDuring
<1> QED BY <1>1, <1>2

\* An entry and the record it stands for.
LEMMA EntryFields ==
  ASSUME NEW e, NEW f,
         e.initialized = f.initialized, e.updated = f.updated,
         e.front = f.front, e.back = f.back
  PROVE  AsEntry(e) = AsEntry(f)
BY DEF AsEntry, Content, Whole

MappedRequests == \A p \in Proc : requestOf(p) \in Register!Requests

LEMMA RequestTyped == TypeOK => MappedRequests
BY DEF MappedRequests, TypeOK, EitInfo, Half, Ops, requestOf, Register!Requests

-----------------------------------------------------------------------------
(* Steps                                                                   *)

\* What a process is to the abstract table: unchanged by a step that leaves
\* its variables alone, and the entry it reads while it is inside.
Unmoved(q) == /\ stageOf(q)' = stageOf(q)
              /\ requestOf(q)' = requestOf(q)
              /\ resultOf(q)' = resultOf(q)

LEMMA OthersUnmoved ==
  ASSUME NEW q \in Proc,
         pc'[q] = pc[q], op'[q] = op[q], slot'[q] = slot[q], eit'[q] = eit[q],
         InCritical(q) => memory'[slot[q]] = memory[slot[q]]
  PROVE  Unmoved(q)
<1>1. InCritical(q)' <=> InCritical(q)
  BY DEF InCritical
<1> QED BY <1>1 DEF Unmoved, stageOf, requestOf, resultOf

LEMMA StutterMaps ==
  ASSUME \A q \in Proc : Unmoved(q), \A i \in Slot : registerOf(i)' = registerOf(i)
  PROVE  UNCHANGED Register!vars
BY DEF Register!vars, Unmoved

LEMMA AskMaps ==
  ASSUME NEW p \in Proc, \A q \in Proc \ {p} : Unmoved(q),
         \A i \in Slot : registerOf(i)' = registerOf(i),
         stageOf(p) = "out", stageOf(p)' = "asked",
         requestOf(p)' \in Register!Requests, resultOf(p)' = BlankEntry
  PROVE  Register!Ask(p)
BY DEF Register!Ask, Register!Blank, BlankEntry, Unmoved

LEMMA LeaveMaps ==
  ASSUME NEW p \in Proc, \A q \in Proc \ {p} : Unmoved(q),
         \A i \in Slot : registerOf(i)' = registerOf(i),
         stageOf(p) # "done", stageOf(p)' = "out",
         requestOf(p)' \in Register!Requests, resultOf(p)' = BlankEntry
  PROVE  Register!Leave(p)
BY DEF Register!Leave, Register!Blank, BlankEntry, Unmoved

LEMMA ReturnMaps ==
  ASSUME NEW p \in Proc, \A q \in Proc \ {p} : Unmoved(q),
         \A i \in Slot : registerOf(i)' = registerOf(i),
         stageOf(p) = "done", stageOf(p)' = "out",
         requestOf(p)' = requestOf(p), resultOf(p)' = resultOf(p)
  PROVE  Register!Return(p)
BY DEF Register!Return, Unmoved

LEMMA TakeEffectMaps ==
  ASSUME NEW p \in Proc, NEW i \in Slot, \A q \in Proc \ {p} : Unmoved(q),
         stageOf(p) = "asked", stageOf(p)' = "done", requestOf(p)' = requestOf(p),
         requestOf(p).slot = i,
         \A j \in Slot \ {i} : registerOf(j)' = registerOf(j),
         registerOf(i)' =
           CASE requestOf(p).op = "set" ->
                  [initialized |-> 1, updated |-> 1, event |-> requestOf(p).event]
             [] requestOf(p).op = "get" -> [registerOf(i) EXCEPT !.updated = 0]
             [] OTHER -> registerOf(i),
         resultOf(p)' = IF requestOf(p).op = "get_updated"
                        THEN [BlankEntry EXCEPT !.updated = registerOf(i)'.updated]
                        ELSE registerOf(i)'
  PROVE  Register!TakeEffect(p)
BY DEF Register!TakeEffect, Register!Outcome, Register!Blank, BlankEntry, Unmoved

\* A process gets the semaphore: nobody is inside, so the registers are the
\* entries, and its call takes effect.
LEMMA WaitRefines ==
  ASSUME RefInv, RefInv', MappedRegister, MappedRegister', NEW p \in Proc, sem_wait(p)
  PROVE  Register!TakeEffect(p)
<1> USE DEF RefInv, TypeOK
<1>0. PICK i \in Slot : i = slot[p]
  OBVIOUS
<1>1. /\ pc[p] = "wait" /\ pc' = [pc EXCEPT ![p] = "head"]
      /\ UNCHANGED <<memory, op, slot, eit>>
  BY DEF sem_wait, Goto
<1>2. InCritical(p)' /\ ~InCritical(p) /\ \A q \in Proc \ {p} : ~InCritical(q) /\ InCritical(q)' = InCritical(q)
  BY <1>1 DEF InCritical, Critical, MutualExclusion
<1>3. \A q \in Proc \ {p} : Unmoved(q)
  BY <1>1, OthersUnmoved
<1>4. \A j \in Slot : registerOf(j) = AsEntry(memory[j])
  BY <1>2 DEF MappedRegister
<1>5. \A j \in Slot : registerOf(j)' = RegisterDuring(p, j)
  <2>1. \A j \in Slot : registerOf(j)' = RegisterDuring(p, j)'
    BY <1>2 DEF MappedRegister
  <2> QED BY <1>1, <2>1 DEF RegisterDuring
<1>6. stageOf(p) = "asked" /\ stageOf(p)' = "done" /\ requestOf(p)' = requestOf(p)
  BY <1>1 DEF stageOf, requestOf
<1>7. requestOf(p).slot = i /\ requestOf(p).op = op[p] /\ op[p] # "none"
  BY <1>0, <1>1 DEF requestOf, CallInv
<1>8. op[p] = "set" => AsEntry(eit[p]) =
        [initialized |-> 1, updated |-> 1, event |-> requestOf(p).event]
  BY <1>1 DEF CallInv, CopyInv, AsEntry, Content, requestOf
<1>9. resultOf(p)' = IF op[p] = "get_updated" THEN [BlankEntry EXCEPT !.updated = memory[i].updated]
                     ELSE RegisterDuring(p, i)
  BY <1>0, <1>1, <1>2, <1>7 DEF resultOf, RegisterDuring
<1>10. AsEntry(memory[i]).updated = memory[i].updated
  BY DEF AsEntry
<1>11. \A j \in Slot \ {i} : registerOf(j)' = registerOf(j)
  BY <1>0, <1>4, <1>5 DEF RegisterDuring
<1>12. registerOf(i)' =
         CASE requestOf(p).op = "set" ->
                [initialized |-> 1, updated |-> 1, event |-> requestOf(p).event]
           [] requestOf(p).op = "get" -> [registerOf(i) EXCEPT !.updated = 0]
           [] OTHER -> registerOf(i)
  BY <1>0, <1>4, <1>5, <1>7, <1>8 DEF RegisterDuring
<1>13. resultOf(p)' = IF requestOf(p).op = "get_updated"
                      THEN [BlankEntry EXCEPT !.updated = registerOf(i)'.updated]
                      ELSE registerOf(i)'
  BY <1>0, <1>5, <1>7, <1>9, <1>10 DEF RegisterDuring
<1> QED BY <1>3, <1>6, <1>7, <1>11, <1>12, <1>13, TakeEffectMaps

\* What the process inside does to the bytes is invisible: the register of its
\* entry and its result are already what they will be.
LEMMA InsideRefines ==
  ASSUME RefInv, RefInv', MappedRegister, MappedRegister', NEW p \in Proc,
         CopyFront(p) \/ CopyBack(p) \/ ClearUpdated(p)
  PROVE  UNCHANGED Register!vars
<1> USE DEF RefInv
<1>1. /\ pc[p] \in Critical /\ pc'[p] \in Critical /\ slot[p] \in Slot /\ p \in DOMAIN eit
      /\ slot[p] \in DOMAIN memory
      /\ \A q \in Proc \ {p} : pc'[q] = pc[q] /\ eit'[q] = eit[q]
      /\ \A i \in Slot \ {slot[p]} : memory'[i] = memory[i]
      /\ UNCHANGED <<op, slot>>
  BY DEF CopyFront, CopyBack, ClearUpdated, Goto, TypeOK, Critical
<1>2. InCritical(p) /\ InCritical(p)' /\ \A q \in Proc \ {p} : ~InCritical(q)
  BY <1>1 DEF InCritical, MutualExclusion
<1>3. \A q \in Proc \ {p} : Unmoved(q)
  BY <1>1, <1>2, OthersUnmoved
<1>4. /\ op[p] = "set" => UNCHANGED eit
      /\ op[p] # "set" => /\ memory'[slot[p]].initialized = memory[slot[p]].initialized
                          /\ memory'[slot[p]].front = memory[slot[p]].front
                          /\ memory'[slot[p]].back = memory[slot[p]].back
                          /\ op[p] # "get" => UNCHANGED memory
  <2>1. CASE CopyFront(p)
    BY <2>1 DEF CopyFront
  <2>2. CASE CopyBack(p)
    BY <2>2 DEF CopyBack
  <2>3. CASE ClearUpdated(p)
    BY <2>3 DEF ClearUpdated, CallInv, TypeOK, EitInfo
  <2> QED BY <2>1, <2>2, <2>3
<1>5. op[p] = "get" => [AsEntry(memory[slot[p]]) EXCEPT !.updated = 0]'
                         = [AsEntry(memory[slot[p]]) EXCEPT !.updated = 0]
  BY <1>1, <1>4 DEF AsEntry, Content, Whole
<1>6. \A i \in Slot : RegisterDuring(p, i)' = RegisterDuring(p, i)
  BY <1>1, <1>4, <1>5 DEF RegisterDuring
<1>7. \A i \in Slot : registerOf(i)' = registerOf(i)
  BY <1>2, <1>6 DEF MappedRegister
<1>8. stageOf(p)' = stageOf(p) /\ requestOf(p)' = requestOf(p)
  BY <1>1, <1>4 DEF stageOf, requestOf, Critical
<1>9. resultOf(p)' = resultOf(p)
  BY <1>1, <1>2, <1>4, <1>5 DEF resultOf, Critical
<1> QED BY <1>3, <1>7, <1>8, <1>9, StutterMaps DEF Unmoved

\* The call returns: the caller's struct and the entry now hold what the
\* abstract call has put there.
LEMMA PostRefines ==
  ASSUME RefInv, RefInv', MappedRegister, MappedRegister', NEW p \in Proc, sem_post(p)
  PROVE  Register!Return(p)
<1> USE DEF RefInv
<1>1. /\ pc[p] = "post" /\ pc' = [pc EXCEPT ![p] = "idle"]
      /\ slot[p] \in Slot /\ pc \in [Proc -> {"closed", "idle", "wait"} \cup Critical]
      /\ eit \in [Proc -> EitInfo]
      /\ \A q \in Proc \ {p} : pc'[q] = pc[q] /\ eit'[q] = eit[q]
      /\ UNCHANGED <<memory, op, slot>>
  BY DEF sem_post, Goto, TypeOK
<1>2. /\ InCritical(p) /\ ~InCritical(p)'
      /\ \A q \in Proc \ {p} : ~InCritical(q) /\ ~InCritical(q)'
  BY <1>1 DEF InCritical, MutualExclusion, Critical
<1>3. \A q \in Proc \ {p} : Unmoved(q)
  BY <1>1, <1>2, OthersUnmoved
<1>4. /\ eit'[p].initialized = eit[p].initialized
      /\ eit'[p].front = eit[p].front /\ eit'[p].back = eit[p].back
      /\ eit'[p].updated = IF op[p] = "get" THEN 0 ELSE eit[p].updated
  BY <1>1 DEF sem_post, EitInfo
<1>5. /\ op[p] = "get_updated" => eit[p].updated = memory[slot[p]].updated
      /\ op[p] \notin {"get", "get_updated"} => AsEntry(eit[p]) = AsEntry(memory[slot[p]])
      /\ op[p] = "get" => /\ AsEntry(eit'[p]) = AsEntry(memory[slot[p]])
                          /\ memory[slot[p]].updated = 0
  <2>1. CASE op[p] = "get"
    BY <1>1, <1>4, <2>1, EntryFields DEF CallInv
  <2>2. CASE op[p] # "get"
    BY <1>1, <2>2, EntryFields DEF CallInv
  <2> QED BY <2>1, <2>2
<1>6. op[p] = "get" => [AsEntry(memory[slot[p]]) EXCEPT !.updated = 0] = AsEntry(memory[slot[p]])
  BY <1>5 DEF AsEntry
<1>7. \A i \in Slot : registerOf(i)' = registerOf(i)
  <2>1. \A i \in Slot : registerOf(i)' = AsEntry(memory[i])
    BY <1>1, <1>2 DEF MappedRegister
  <2>2. \A i \in Slot : registerOf(i) = RegisterDuring(p, i)
    BY <1>2 DEF MappedRegister
  <2> QED BY <1>5, <1>6, <2>1, <2>2 DEF RegisterDuring
<1>8. /\ stageOf(p) = "done" /\ stageOf(p)' = "out"
      /\ requestOf(p)' = requestOf(p)
  BY <1>1, <1>4 DEF stageOf, requestOf
<1>9. resultOf(p)' = resultOf(p)
  <2>1. CASE op[p] = "get"
    BY <1>1, <1>2, <1>5, <2>1 DEF resultOf
  <2>2. CASE op[p] # "get"
    <3>1. eit'[p].updated = eit[p].updated /\ AsEntry(eit'[p]) = AsEntry(eit[p])
      BY <1>4, <2>2, EntryFields
    <3> QED BY <1>1, <1>2, <1>5, <2>2, <3>1 DEF resultOf
  <2> QED BY <2>1, <2>2
<1> QED BY <1>3, <1>7, <1>8, <1>9, ReturnMaps

\* A step of a process that is outside before and after it, and its table.
LEMMA OutsideRefines ==
  ASSUME MutualExclusion, MutualExclusion', MappedRegister, MappedRegister', NEW p \in Proc,
         ~InCritical(p), ~InCritical(p)', UNCHANGED memory,
         \A q \in Proc \ {p} : /\ pc'[q] = pc[q] /\ op'[q] = op[q]
                               /\ slot'[q] = slot[q] /\ eit'[q] = eit[q]
  PROVE  /\ \A q \in Proc \ {p} : Unmoved(q)
         /\ \A i \in Slot : registerOf(i)' = registerOf(i)
<1>1. \A q \in Proc \ {p} : Unmoved(q)
  BY OthersUnmoved
<1>2. \A q \in Proc : InCritical(q)' <=> InCritical(q)
  BY DEF InCritical
<1>3. CASE \A q \in Proc : ~InCritical(q)
  BY <1>1, <1>2, <1>3 DEF MappedRegister
<1>4. ASSUME NEW q \in Proc, InCritical(q)
      PROVE  \A i \in Slot : registerOf(i)' = registerOf(i)
  <2>1. q # p
    BY <1>4
  <2>2. \A i \in Slot : RegisterDuring(q, i)' = RegisterDuring(q, i)
    BY <2>1 DEF RegisterDuring
  <2> QED BY <1>2, <1>4, <2>2 DEF MappedRegister
<1> QED BY <1>1, <1>3, <1>4

LEMMA StepRefines ==
  ASSUME Faults = {}, RefInv, RefInv', MappedRegister, MappedRegister', MappedRequests',
         [Next]_vars
  PROVE  [Register!Next]_(Register!vars)
<1> USE DEF RefInv
<1>1. CASE UNCHANGED vars
  <2>1. /\ \A q \in Proc : Unmoved(q)
        /\ \A i \in Slot : registerOf(i)' = registerOf(i)
    BY <1>1 DEF vars, Unmoved, stageOf, requestOf, resultOf, registerOf, InCritical
  <2> QED BY <2>1, StutterMaps
<1>2. ASSUME NEW p \in Proc, Library(p) PROVE [Register!Next]_(Register!vars)
  <2> DEFINE OthersStay == \A q \in Proc \ {p} : /\ pc'[q] = pc[q] /\ op'[q] = op[q]
                                                /\ slot'[q] = slot[q] /\ eit'[q] = eit[q]
  <2>1. requestOf(p)' \in Register!Requests
    BY DEF MappedRequests
  <2>2. CASE sharedMemory_init(p)
    <3>1. /\ pc[p] = "closed" /\ pc'[p] = "idle"
          /\ OthersStay
          /\ UNCHANGED <<memory, op, slot, eit>>
      BY <2>2 DEF sharedMemory_init, OpenExisting, OpenNew, TypeOK
    <3>2. ~InCritical(p) /\ ~InCritical(p)'
      BY <3>1 DEF InCritical, Critical
    <3>3. Unmoved(p)
      BY <3>1, <3>2 DEF Unmoved, stageOf, requestOf, resultOf
    <3> QED BY <3>1, <3>2, <3>3, OutsideRefines, StutterMaps
  <2>3. CASE sharedMemory_close(p) \/ Die(p)
    <3>1. /\ pc[p] \in {"idle", "wait"} /\ pc'[p] = "closed" /\ op'[p] = "none"
          /\ OthersStay
          /\ UNCHANGED memory
      BY <2>3 DEF sharedMemory_close, Die, Idle, InCritical, Critical, TypeOK
    <3>2. ~InCritical(p) /\ ~InCritical(p)'
      BY <3>1 DEF InCritical, Critical
    <3>3. stageOf(p) # "done" /\ stageOf(p)' = "out" /\ resultOf(p)' = BlankEntry
      BY <3>1 DEF stageOf, resultOf
    <3> QED BY <2>1, <3>1, <3>2, <3>3, OutsideRefines, LeaveMaps DEF Register!Next
  <2>4. ASSUME NEW i \in Slot, NEW o \in Ops, Call(p, o, i), \A q \in Proc \ {p} : eit'[q] = eit[q]
        PROVE  Register!Ask(p)
    <3>1. /\ pc[p] = "idle" /\ pc'[p] = "wait"
          /\ OthersStay
          /\ UNCHANGED memory
      BY <2>4 DEF Call, Idle, TypeOK
    <3>2. ~InCritical(p) /\ ~InCritical(p)'
      BY <3>1 DEF InCritical, Critical
    <3>3. stageOf(p) = "out" /\ stageOf(p)' = "asked" /\ resultOf(p)' = BlankEntry
      BY <3>1 DEF stageOf, resultOf
    <3> QED BY <2>1, <3>1, <3>2, <3>3, OutsideRefines, AskMaps
  <2>5. CASE Calls(p)
    <3>1. ASSUME NEW i \in Slot, NEW v \in Event, sharedMemory_set(p, i, v)
          PROVE  Register!Ask(p)
      BY <2>4, <3>1 DEF sharedMemory_set, Ops
    <3>2. ASSUME NEW i \in Slot, NEW o \in {"get", "getWithoutUpdate", "get_updated"},
                 Read(p, o, i)
          PROVE  Register!Ask(p)
      BY <2>4, <3>2 DEF Read, Ops
    <3> QED
      BY <2>5, <3>1, <3>2
      DEF Calls, sharedMemory_get, sharedMemory_getWithoutUpdate, sharedMemory_get_updated,
          Register!Next
  <2>6. CASE sem_wait(p)
    BY <2>6, WaitRefines DEF Register!Next
  <2>7. CASE CopyFront(p) \/ CopyBack(p) \/ ClearUpdated(p)
    BY <2>7, InsideRefines
  <2>8. CASE sem_post(p)
    BY <2>8, PostRefines DEF Register!Next
  <2>9. ~Interrupted(p)
    BY DEF Interrupted
  <2> QED BY <1>2, <2>2, <2>3, <2>5, <2>6, <2>7, <2>8, <2>9 DEF Library, Progress
<1> QED BY <1>1, <1>2 DEF Next

LEMMA InitRefines == Init => Register!Init
<1> SUFFICES ASSUME Init PROVE Register!Init
  OBVIOUS
<1>1. \A p \in Proc : ~InCritical(p)
  BY DEF Init, InCritical, Critical
<1>2. \A i \in Slot : registerOf(i) = Register!Blank
  BY <1>1 DEF Init, registerOf, AsEntry, Content, Whole, Zeroed, Register!Blank
<1>3. \A p \in Proc : stageOf(p) = "out" /\ resultOf(p) = Register!Blank
  BY DEF Init, stageOf, resultOf, BlankEntry, Register!Blank
<1>4. MappedRequests
  BY TypeInit, RequestTyped
<1> QED BY <1>2, <1>3, <1>4 DEF Register!Init, MappedRequests

\* Without faults the library implements a table of atomic registers: every
\* call takes effect in the step that takes the semaphore, and no step of the
\* copies, of an opening or of a closing can be seen in the table.
THEOREM RegistersImplemented == Faults = {} => (Spec => ImplementsRegister)
<1> SUFFICES ASSUME Faults = {} PROVE Spec => ImplementsRegister
  OBVIOUS
<1>1. RefInv => MappedRegister /\ MappedRequests
  BY RegisterCases, RequestTyped DEF RefInv
<1>2. /\ RefInv /\ MappedRegister
      /\ (RefInv /\ MappedRegister /\ MappedRequests)'
      /\ [Next]_vars
      => [Register!Next]_(Register!vars)
  BY StepRefines
<1>3. Spec => []RefInv
  BY RefInvariant
<1> QED BY <1>1, <1>2, <1>3, InitRefines, PTL DEF Spec, ImplementsRegister, Register!Spec
=============================================================================
