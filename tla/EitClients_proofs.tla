-------------------------- MODULE EitClients_proofs --------------------------
(***************************************************************************)
(* The programs use the library as its most general client may, so the     *)
(* library's theorems hold of them.                                        *)
(***************************************************************************)
EXTENDS EitClients, SharedMemory_proofs

LEMMA ClientStep == ClientNext => [Next]_vars
<1> SUFFICES ASSUME ClientNext PROVE [Next]_vars
  OBVIOUS
<1>1. Supervisor \in Proc /\ Streams \subseteq Proc /\ Viewers \subseteq Proc
  BY ClientsAssumption
<1>3. ASSUME NEW p \in Proc, Library(p) PROVE Next
  BY <1>3 DEF Next
<1>4. ASSUME NEW p \in Streams \cup Viewers, NEW e \in Event,
             \/ sharedMemory_set(p, Provider[p], e)
             \/ sharedMemory_get(p, Provider[p])
             \/ sharedMemory_getWithoutUpdate(p, Provider[p])
             \/ sharedMemory_get_updated(p, Provider[p])
      PROVE  Next
  <2>1. Provider[p] \in Slot /\ p \in Proc
    BY ClientsAssumption
  <2> QED BY <1>4, <2>1, <1>3 DEF Library, Calls
<1>5. Ini \in Event
  BY ClientsAssumption DEF Editions, Ini
<1>6. ASSUME NEW p \in Proc, Run(p) PROVE [Next]_vars
  <2>1. CASE Inside(p) \/ Open(p) \/ Close(p)
    BY <2>1, <1>3 DEF Inside, Open, Close, Library
  <2>2. CASE StreamLoad(p) \/ StreamCheck(p) \/ StreamPoll(p) \/ StreamCopy(p)
    BY <2>2, <1>4, <1>5 DEF StreamLoad, StreamCheck, StreamPoll, StreamCopy
  <2>3. CASE ViewerLoad(p) \/ ViewerCheck(p)
    BY <2>3, <1>4, <1>5 DEF ViewerLoad, ViewerCheck
  <2> QED BY <1>6, <2>1, <2>2, <2>3 DEF Run
<1>7. ASSUME NEW p \in Proc,
             Launch(p) \/ StartStream(p) \/ Terminate(p) \/ Killed(p)
      PROVE  [Next]_vars
  BY <1>7, <1>3 DEF Launch, StartStream, Terminate, Killed, Library
<1>8. ASSUME NEW i \in Slot, Publish(i) PROVE [Next]_vars
  BY <1>1, <1>3, <1>8, ClientsAssumption DEF Publish, Library, Calls
<1> QED BY <1>6, <1>7, <1>8 DEF ClientNext

\* The programs open the library before their first call, make one call at a
\* time and close it last: what they do is what its general client may do.
THEOREM ClientsUseLibrary == ClientSpec => UsesLibrary
<1>1. ClientInit => Init
  BY DEF ClientInit
<1>2. [ClientNext]_clientVars => [Next]_vars
  BY ClientStep DEF clientVars, vars
<1> QED BY <1>1, <1>2, PTL DEF ClientSpec, UsesLibrary, Spec

\* While nobody closes the library under the others and no wait is
\* interrupted, the supervisor, the streams and the viewers exclude each other.
THEOREM ClientsExclude == Faults \subseteq {"crashed"} => (ClientSpec => []MutualExclusion)
BY ClientsUseLibrary, ExclusionOfAll DEF UsesLibrary

\* Without faults every program that looks at an entry sees one publication.
THEOREM ClientsReadWhole == Faults = {} => (ClientSpec => []NoTornCopy)
BY ClientsUseLibrary, WholeCopies DEF UsesLibrary

\* Without faults the programs share a table of atomic registers: what one
\* publishes, reads or acknowledges is done at one instant for all the others.
THEOREM ClientsShareRegisters == Faults = {} => (ClientSpec => ImplementsRegister)
BY ClientsUseLibrary, RegistersImplemented DEF UsesLibrary

-----------------------------------------------------------------------------
(* What the streams play                                                   *)

\* No viewer looks at the provider of a stream: one that did could write the
\* ini file over the supervisor's publication.
Separate == \A m \in Streams, v \in Viewers : Provider[m] # Provider[v]

Supplied == {Provider[m] : m \in Streams}

InCall(p) == pc[p] \notin {"idle", "closed"}

ClientTypes == step \in [Proc -> Steps] /\ edition \in [Slot -> Nat]

\* The calls the programs make: streams never write.
CallsOwn ==
  /\ \A p \in Streams \cup Viewers : InCall(p) => slot[p] = Provider[p]
  /\ \A m \in Streams :
       /\ step[m] \in {"off", "init"} => pc[m] = "closed"
       /\ step[m] = "load" => pc[m] = "idle"
       /\ step[m] # "stop"
       /\ step[m] \notin {"off", "init"} => pc[m] # "closed"
       /\ InCall(m) => op[m] \in {"get", "get_updated"}
       /\ InCall(m) /\ step[m] = "check" => op[m] = "get"
       /\ pc[m] \in {"tail", "clear"} => op[m] = "get"

\* The supervisor is publishing the next edition of a provider; what it has
\* written of it so far stays, for nobody else writes there.
Publishing ==
  InCall(Supervisor) =>
    LET i == slot[Supervisor] IN
    /\ op[Supervisor] = "set" /\ pc[Supervisor] \in {"wait", "head", "tail", "post"}
    /\ eit[Supervisor].initialized = 1
    /\ eit[Supervisor].front = edition[i] + 1
    /\ eit[Supervisor].back = edition[i] + 1
    /\ i \in Supplied /\ pc[Supervisor] \in {"tail", "post"} =>
         memory[i].initialized = 1 /\ memory[i].front = edition[i] + 1
    /\ i \in Supplied /\ pc[Supervisor] = "post" => memory[i].back = edition[i] + 1

\* The halves of an entry are of the last edition or of the next, of which a
\* crash can leave either half.
Supply ==
  \A i \in Supplied : edition[i] > 0 =>
    /\ memory[i].initialized = 1
    /\ memory[i].front \in {edition[i], edition[i] + 1}
    /\ memory[i].back \in {edition[i], edition[i] + 1}

\* A half m has is an edition, no later than the one of the entry.
HasFront(m) == eit[m].front \in Nat \ {0} /\ eit[m].front <= memory[Provider[m]].front
HasBack(m) == eit[m].back \in Nat \ {0} /\ eit[m].back <= memory[Provider[m]].back

Supplies ==
  \A m \in Streams :
    /\ step[m] # "off" => edition[Provider[m]] > 0
    /\ step[m] = "check" /\ pc[m] \in {"tail", "clear", "post", "idle"} =>
         eit[m].initialized = 1 /\ HasFront(m)
    /\ step[m] = "check" /\ pc[m] \in {"clear", "post", "idle"} => HasBack(m)
    /\ Playing(m) => HasFront(m) /\ HasBack(m)

ClientInv == TypeOK /\ ClientTypes /\ CallsOwn /\ Publishing /\ Supply /\ Supplies

LEMMA ProgramsApart ==
  /\ Supervisor \in Proc /\ Streams \subseteq Proc /\ Viewers \subseteq Proc
  /\ Supervisor \notin Streams /\ Supervisor \notin Viewers
  /\ \A m \in Streams : m \notin Viewers
  /\ \A p \in Proc : p # Supervisor => p \in Streams \/ p \in Viewers
  /\ \A p \in Streams \cup Viewers : Provider[p] \in Slot
  /\ Supplied \subseteq Slot
BY ClientsAssumption DEF Supplied

LEMMA ClientInvInit == ClientInit => ClientInv
<1> SUFFICES ASSUME ClientInit PROVE ClientInv
  OBVIOUS
<1>1. Init /\ step = [p \in Proc |-> "off"] /\ edition = [i \in Slot |-> 0]
  BY DEF ClientInit
<1>2. TypeOK
  BY <1>1, TypeInit
<1>3. ClientTypes
  BY <1>1 DEF ClientTypes, Steps
<1>4. \A p \in Proc : pc[p] = "closed"
  BY <1>1 DEF Init
<1>5. CallsOwn /\ Publishing
  BY <1>1, <1>4, ProgramsApart DEF CallsOwn, Publishing, InCall
<1>6. Supply /\ Supplies
  BY <1>1, ProgramsApart DEF Supply, Supplies, Playing
<1> QED BY <1>2, <1>3, <1>5, <1>6 DEF ClientInv

\* The steps of one program.
StepOf(p) ==
  \/ Run(p) \/ Launch(p) \/ StartStream(p) \/ Terminate(p) \/ Killed(p)
  \/ p = Supervisor /\ \E i \in Slot : Publish(i)

LEMMA StepsOfPrograms == ClientNext => \E p \in Proc : StepOf(p)
BY ProgramsApart DEF ClientNext, StepOf

LEMMA StepInLibrary ==
  ASSUME NEW p \in Proc, StepOf(p) PROVE Library(p) \/ UNCHANGED vars
<1>1. ASSUME p \in Streams \cup Viewers, NEW e \in Event,
             \/ sharedMemory_set(p, Provider[p], e)
             \/ sharedMemory_get(p, Provider[p])
             \/ sharedMemory_getWithoutUpdate(p, Provider[p])
             \/ sharedMemory_get_updated(p, Provider[p])
      PROVE  Library(p)
  BY <1>1, ProgramsApart DEF Library, Calls
<1>2. Ini \in Event
  BY ClientsAssumption DEF Editions, Ini
<1>3. CASE Inside(p) \/ Open(p) \/ Close(p)
  BY <1>3 DEF Inside, Open, Close, Library
<1>4. CASE StreamLoad(p) \/ StreamCheck(p) \/ StreamPoll(p) \/ StreamCopy(p)
  BY <1>4, <1>1, <1>2 DEF StreamLoad, StreamCheck, StreamPoll, StreamCopy
<1>5. CASE ViewerLoad(p) \/ ViewerCheck(p)
  BY <1>5, <1>1, <1>2 DEF ViewerLoad, ViewerCheck
<1>6. CASE Launch(p) \/ StartStream(p) \/ Terminate(p) \/ Killed(p)
  BY <1>6 DEF Launch, StartStream, Terminate, Killed, Library
<1>7. CASE p = Supervisor /\ \E i \in Slot : Publish(i)
  BY <1>7, ClientsAssumption DEF Publish, Library, Calls
<1> QED BY <1>3, <1>4, <1>5, <1>6, <1>7 DEF StepOf, Run

\* A step of p leaves the others where they are.
LEMMA OthersStay ==
  ASSUME ClientInv, NEW p \in Proc, StepOf(p), NEW q \in Proc, q # p
  PROVE  /\ pc'[q] = pc[q] /\ op'[q] = op[q] /\ slot'[q] = slot[q] /\ eit'[q] = eit[q]
         /\ step'[q] = step[q]
<1>1. TypeOK /\ ClientTypes
  BY DEF ClientInv
<1>2. pc'[q] = pc[q] /\ op'[q] = op[q] /\ slot'[q] = slot[q] /\ eit'[q] = eit[q]
  <2>1. CASE UNCHANGED vars
    BY <2>1 DEF vars
  <2>2. CASE Library(p)
    BY <1>1, <2>2, LibrarySteps
    DEF TypeOK, OpenExisting, OpenNew, sharedMemory_close, sharedMemory_set, Read, Call, sem_wait,
        Interrupted, CopyFront, CopyBack, ClearUpdated, sem_post, Die, Goto
  <2> QED BY <2>1, <2>2, StepInLibrary
<1>3. step'[q] = step[q]
  BY <1>1
  DEF ClientTypes, StepOf, Run, Inside, Open, Close, StreamLoad, StreamCheck, StreamPoll, StreamCopy,
      ViewerLoad, ViewerCheck, Launch, StartStream, Terminate, Killed, Publish, Advance
<1> QED BY <1>2, <1>3

LEMMA EditionsStay ==
  ASSUME NEW p \in Proc, StepOf(p), ~(p = Supervisor /\ sem_post(p))
  PROVE  edition' = edition
BY DEF StepOf, Run, Inside, Open, Close, StreamLoad, StreamCheck, StreamPoll, StreamCopy,
       ViewerLoad, ViewerCheck, Launch, StartStream, Terminate, Killed, Publish

\* What the steps of a stream or a viewer do to the entries of the streams.
LEMMA ClientsDoNotWrite ==
  ASSUME ClientInv, Separate, NEW p \in Proc, p # Supervisor, StepOf(p), NEW i \in Supplied
  PROVE  /\ memory'[i].front = memory[i].front /\ memory'[i].back = memory[i].back
         /\ memory'[i].initialized = memory[i].initialized
<1>1. /\ memory \in [Slot -> EitInfo] /\ i \in Slot
      /\ CallsOwn /\ slot[p] \in Slot
  BY ProgramsApart DEF ClientInv, TypeOK
<1>2. memory[i] \in EitInfo
  BY <1>1
<1>3. InCall(p) /\ op[p] = "set" => slot[p] # i
  BY <1>1, ProgramsApart DEF CallsOwn, Separate, Supplied
<1>4. CASE memory' = memory
  BY <1>4
<1>5. CASE CopyFront(p)
  BY <1>1, <1>3, <1>5 DEF CopyFront, InCall
<1>6. CASE CopyBack(p)
  BY <1>1, <1>3, <1>6 DEF CopyBack, InCall
<1>7. CASE ClearUpdated(p)
  BY <1>1, <1>2, <1>7 DEF ClearUpdated, EitInfo
<1> QED
  BY <1>4, <1>5, <1>6, <1>7, StepInLibrary, LibrarySteps
  DEF vars, OpenExisting, OpenNew, sharedMemory_close, sharedMemory_set, Read, Call, sem_wait,
      Interrupted, sem_post, Die

\* What the supervisor's steps do: it only calls sharedMemory_set, with the
\* next edition.
LEMMA SupervisorSteps ==
  ASSUME ClientInv, StepOf(Supervisor)
  PROVE  LET p == Supervisor IN
         \/ UNCHANGED <<vars, edition>>
         \/ ~InCall(p)' /\ UNCHANGED <<memory, edition>>
         \/ /\ pc'[p] = "wait" /\ op'[p] = "set" /\ UNCHANGED <<memory, edition>>
            /\ slot'[p] \in Slot
            /\ eit'[p] = [initialized |-> 1, updated |-> 1, front |-> edition[slot'[p]] + 1,
                          back |-> edition[slot'[p]] + 1]
         \/ /\ pc[p] = "wait" /\ pc'[p] = "head" /\ UNCHANGED <<memory, op, slot, eit, edition>>
         \/ (CopyFront(p) \/ CopyBack(p)) /\ UNCHANGED edition
         \/ sem_post(p) /\ edition' = [edition EXCEPT ![slot[p]] = eit[p].front]
<1>1. TypeOK /\ Publishing /\ Supervisor \in Proc
  BY ProgramsApart DEF ClientInv
<1>2. CASE Inside(Supervisor)
  <2>1. CASE sem_wait(Supervisor)
    BY <1>1, <1>2, <2>1 DEF Inside, sem_wait, sem_post, Goto, TypeOK
  <2>2. CASE ClearUpdated(Supervisor)
    BY <1>1, <2>2 DEF ClearUpdated, Publishing, InCall
  <2>3. CASE CopyFront(Supervisor) \/ CopyBack(Supervisor)
    BY <1>2, <2>3 DEF Inside, CopyFront, CopyBack, sem_post
  <2>4. CASE sem_post(Supervisor)
    BY <1>2, <2>4 DEF Inside
  <2> QED BY <1>2, <2>1, <2>2, <2>3, <2>4 DEF Inside, Progress
<1>3. CASE Open(Supervisor) \/ Close(Supervisor) \/ Killed(Supervisor)
  <2>1. pc'[Supervisor] \in {"idle", "closed"} /\ UNCHANGED <<memory, edition>>
    BY <1>1, <1>3
    DEF Open, Close, Killed, sharedMemory_init, OpenExisting, OpenNew, sharedMemory_close, Die,
        Idle, TypeOK
  <2> QED BY <2>1 DEF InCall
<1>4. CASE Launch(Supervisor) \/ StartStream(Supervisor)
  BY <1>4 DEF Launch, StartStream
<1>5. CASE Terminate(Supervisor)
  BY <1>1, <1>5 DEF Terminate, Interrupted, Goto, TypeOK
<1>6. ASSUME NEW i \in Slot, Publish(i)
      PROVE  /\ pc'[Supervisor] = "wait" /\ op'[Supervisor] = "set" /\ UNCHANGED memory
             /\ UNCHANGED edition /\ slot'[Supervisor] = i
             /\ eit'[Supervisor] = [initialized |-> 1, updated |-> 1, front |-> edition[i] + 1,
                                    back |-> edition[i] + 1]
  BY <1>1, <1>6 DEF Publish, sharedMemory_set, Call, Idle, TypeOK
<1>7. CASE StreamLoad(Supervisor) \/ StreamCheck(Supervisor) \/ StreamPoll(Supervisor)
           \/ StreamCopy(Supervisor) \/ ViewerLoad(Supervisor) \/ ViewerCheck(Supervisor)
  BY <1>7, ProgramsApart
  DEF StreamLoad, StreamCheck, StreamPoll, StreamCopy, ViewerLoad, ViewerCheck
<1> QED BY <1>2, <1>3, <1>4, <1>5, <1>6, <1>7 DEF StepOf, Run

\* Entries the supervisor has published stay published: what it writes next
\* is the next edition, and nobody else writes there.
LEMMA PublishingStep ==
  ASSUME ClientInv, Separate, NEW p \in Proc, StepOf(p)
  PROVE  /\ Publishing'
         /\ Supply'
         /\ \A i \in Supplied : edition[i] > 0 =>
              memory'[i].front >= memory[i].front /\ memory'[i].back >= memory[i].back
<1> DEFINE sup == Supervisor
<1>1. /\ TypeOK /\ ClientTypes /\ Publishing /\ Supply /\ sup \in Proc
      /\ slot[sup] \in Slot /\ memory \in [Slot -> EitInfo] /\ edition \in [Slot -> Nat]
  BY ProgramsApart DEF ClientInv, TypeOK, ClientTypes
<1>2. \A i \in Supplied : i \in Slot /\ edition[i] \in Nat
  BY <1>1, ProgramsApart
<1>3. CASE p # sup
  <2>1. /\ pc'[sup] = pc[sup] /\ op'[sup] = op[sup] /\ slot'[sup] = slot[sup] /\ eit'[sup] = eit[sup]
        /\ edition' = edition
    BY <1>1, <1>3, OthersStay, EditionsStay
  <2>2. \A i \in Supplied : /\ memory'[i].front = memory[i].front /\ memory'[i].back = memory[i].back
                            /\ memory'[i].initialized = memory[i].initialized
    BY <1>3, ClientsDoNotWrite
  <2>3. Publishing'
    BY <1>1, <2>1, <2>2 DEF Publishing, InCall
  <2>4. Supply'
    BY <1>1, <2>1, <2>2 DEF Supply
  <2>5. \A i \in Supplied : edition[i] > 0 =>
              memory'[i].front >= memory[i].front /\ memory'[i].back >= memory[i].back
    BY <1>1, <1>2, <2>2 DEF Supply
  <2> QED BY <2>3, <2>4, <2>5
<1>4. CASE p = sup
  <2>a. ASSUME UNCHANGED <<memory, edition>>
        PROVE  /\ Supply'
               /\ \A i \in Supplied : edition[i] > 0 =>
                    memory'[i].front >= memory[i].front /\ memory'[i].back >= memory[i].back
    BY <1>1, <1>2, <2>a DEF Supply
  <2>1. CASE UNCHANGED <<vars, edition>>
    <3>1. Publishing'
      BY <1>1, <2>1 DEF vars, Publishing, InCall
    <3> QED BY <2>1, <2>a, <3>1 DEF vars
  <2>2. CASE ~InCall(sup)' /\ UNCHANGED <<memory, edition>>
    BY <2>2, <2>a DEF Publishing
  <2>3. CASE /\ pc'[sup] = "wait" /\ op'[sup] = "set" /\ UNCHANGED <<memory, edition>>
             /\ slot'[sup] \in Slot
             /\ eit'[sup] = [initialized |-> 1, updated |-> 1, front |-> edition[slot'[sup]] + 1,
                             back |-> edition[slot'[sup]] + 1]
    <3>1. Publishing'
      BY <2>3 DEF Publishing, InCall
    <3> QED BY <2>3, <2>a, <3>1
  <2>4. CASE /\ pc[sup] = "wait" /\ pc'[sup] = "head"
             /\ UNCHANGED <<memory, op, slot, eit, edition>>
    <3>1. Publishing'
      BY <1>1, <2>4 DEF Publishing, InCall
    <3> QED BY <2>4, <2>a, <3>1
  \* The entry it writes, and what of it.
  <2> DEFINE j == slot[sup]
  <2>5. CASE CopyFront(sup) /\ UNCHANGED edition
    <3>1. /\ op[sup] = "set" /\ eit[sup].initialized = 1
          /\ eit[sup].front = edition[j] + 1 /\ eit[sup].back = edition[j] + 1
      BY <1>1, <2>5 DEF Publishing, InCall, CopyFront
    <3>2. /\ memory' = [memory EXCEPT ![j] = [eit[sup] EXCEPT !.back = memory[j].back]]
          /\ pc'[sup] = "tail" /\ UNCHANGED <<op, slot, eit>>
      BY <1>1, <2>5, <3>1 DEF CopyFront, Goto, TypeOK
    <3>3. eit[sup] \in EitInfo
      BY <1>1 DEF TypeOK
    <3>4. /\ memory'[j].initialized = 1 /\ memory'[j].front = edition[j] + 1
          /\ memory'[j].back = memory[j].back
          /\ \A i \in Supplied : i # j => memory'[i] = memory[i]
      BY <1>1, <1>2, <3>1, <3>2, <3>3 DEF EitInfo
    <3>5. Publishing'
      BY <2>5, <3>1, <3>2, <3>4 DEF Publishing
    <3>6. Supply'
      BY <1>1, <1>2, <2>5, <3>4 DEF Supply
    <3>7. \A i \in Supplied : edition[i] > 0 =>
              memory'[i].front >= memory[i].front /\ memory'[i].back >= memory[i].back
      BY <1>1, <1>2, <3>4 DEF Supply
    <3> QED BY <3>5, <3>6, <3>7
  <2>6. CASE CopyBack(sup) /\ UNCHANGED edition
    <3>1. /\ op[sup] = "set" /\ eit[sup].initialized = 1 /\ pc[sup] = "tail"
          /\ eit[sup].front = edition[j] + 1 /\ eit[sup].back = edition[j] + 1
          /\ j \in Supplied => memory[j].initialized = 1 /\ memory[j].front = edition[j] + 1
      BY <1>1, <2>6 DEF Publishing, InCall, CopyBack
    <3>2. /\ memory' = [memory EXCEPT ![j].back = eit[sup].back]
          /\ pc'[sup] = "post" /\ UNCHANGED <<op, slot, eit>>
      BY <1>1, <2>6, <3>1 DEF CopyBack, Goto, TypeOK
    <3>3. memory[j] \in EitInfo
      BY <1>1
    <3>4. /\ memory'[j].initialized = memory[j].initialized /\ memory'[j].front = memory[j].front
          /\ memory'[j].back = edition[j] + 1
          /\ \A i \in Supplied : i # j => memory'[i] = memory[i]
      BY <1>1, <1>2, <3>1, <3>2, <3>3 DEF EitInfo
    <3>5. Publishing'
      BY <2>6, <3>1, <3>2, <3>4 DEF Publishing
    <3>6. Supply'
      BY <1>1, <1>2, <2>6, <3>4 DEF Supply
    <3>7. \A i \in Supplied : edition[i] > 0 =>
              memory'[i].front >= memory[i].front /\ memory'[i].back >= memory[i].back
      BY <1>1, <1>2, <3>4 DEF Supply
    <3> QED BY <3>5, <3>6, <3>7
  <2>7. CASE sem_post(sup) /\ edition' = [edition EXCEPT ![j] = eit[sup].front]
    <3>1. /\ pc[sup] = "post" /\ memory' = memory /\ pc'[sup] = "idle"
          /\ eit[sup].front = edition[j] + 1
          /\ j \in Supplied => /\ memory[j].initialized = 1 /\ memory[j].front = edition[j] + 1
                               /\ memory[j].back = edition[j] + 1
      BY <1>1, <2>7 DEF sem_post, Goto, TypeOK, Publishing, InCall
    <3>2. edition'[j] = edition[j] + 1 /\ \A i \in Supplied : i # j => edition'[i] = edition[i]
      BY <1>1, <1>2, <2>7, <3>1
    <3>3. Publishing'
      BY <3>1 DEF Publishing, InCall
    <3>4. Supply'
      BY <1>1, <1>2, <3>1, <3>2 DEF Supply
    <3>5. \A i \in Supplied : edition[i] > 0 =>
              memory'[i].front >= memory[i].front /\ memory'[i].back >= memory[i].back
      BY <1>1, <1>2, <3>1 DEF Supply
    <3> QED BY <3>3, <3>4, <3>5
  <2> QED BY <1>4, <2>1, <2>2, <2>3, <2>4, <2>5, <2>6, <2>7, SupervisorSteps
<1> QED BY <1>3, <1>4

\* What the steps of a stream do: it never writes an entry, since the one it
\* copies at startup was published before it was started.
LEMMA StreamSteps ==
  ASSUME ClientInv, NEW m \in Streams, StepOf(m)
  PROVE  \/ /\ UNCHANGED vars
            /\ \/ step'[m] = step[m]
               \/ step[m] = "off" /\ step'[m] = "init" /\ edition[Provider[m]] > 0
               \/ step[m] = "check" /\ step'[m] = "loop" /\ pc[m] = "idle"
               \/ step[m] = "poll" /\ step'[m] = "loop" /\ pc[m] = "idle"
         \/ pc'[m] = "closed" /\ step'[m] = "off"
         \/ pc'[m] = "idle" /\ step[m] = "init" /\ step'[m] = "load"
         \/ /\ pc[m] = "idle" /\ pc'[m] = "wait" /\ slot'[m] = Provider[m] /\ UNCHANGED eit
            /\ \/ step[m] = "load" /\ step'[m] = "check" /\ op'[m] = "get"
               \/ step[m] = "loop" /\ step'[m] = "poll" /\ op'[m] = "get_updated"
               \/ step[m] = "poll" /\ step'[m] = "loop" /\ op'[m] = "get"
         \/ /\ step'[m] = step[m]
            /\ \/ /\ pc[m] = "wait" /\ pc'[m] = "head"
                  /\ UNCHANGED <<op, slot, eit>>
               \/ CopyFront(m) \/ CopyBack(m) \/ ClearUpdated(m) \/ sem_post(m)
<1>1. /\ TypeOK /\ ClientTypes /\ CallsOwn /\ Supplies /\ m \in Proc /\ m # Supervisor
      /\ m \notin Viewers
  BY ProgramsApart DEF ClientInv
<1>2. CASE Inside(m)
  <2>1. step' = step /\ Progress(m)
    BY <1>2 DEF Inside
  <2>2. CASE sem_wait(m)
    BY <1>1, <2>1, <2>2 DEF sem_wait, Goto, TypeOK
  <2> QED BY <2>1, <2>2 DEF Progress
<1>3. CASE Close(m) \/ Killed(m)
  BY <1>1, <1>3 DEF Close, Killed, sharedMemory_close, Die, Advance, TypeOK, ClientTypes
<1>4. CASE Open(m)
  BY <1>1, <1>4
  DEF Open, sharedMemory_init, OpenExisting, OpenNew, Advance, TypeOK, ClientTypes
<1>5. CASE StreamLoad(m) \/ StreamPoll(m)
  BY <1>1, <1>5
  DEF StreamLoad, StreamPoll, sharedMemory_get, sharedMemory_get_updated, Read, Call, Idle, Advance,
      TypeOK, ClientTypes
<1>6. CASE StreamCheck(m)
  <2>1. step[m] = "check" /\ step'[m] = "loop" /\ pc[m] = "idle"
    BY <1>1, <1>6 DEF StreamCheck, Advance, ClientTypes, CallsOwn
  <2>2. eit[m].initialized = 1
    BY <1>1, <2>1 DEF Supplies
  <2> QED BY <1>6, <2>1, <2>2 DEF StreamCheck
<1>7. CASE StreamCopy(m)
  <2>1. step[m] = "poll" /\ step'[m] = "loop" /\ pc[m] = "idle"
    BY <1>1, <1>7 DEF StreamCopy, Advance, ClientTypes, CallsOwn
  <2>2. CASE eit[m].updated = 1
    BY <1>1, <1>7, <2>1, <2>2 DEF StreamCopy, sharedMemory_get, Read, Call, Idle, TypeOK
  <2> QED BY <1>7, <2>1, <2>2 DEF StreamCopy
<1>8. CASE StartStream(m)
  BY <1>1, <1>8 DEF StartStream, Advance, ClientTypes
<1>9. CASE Terminate(m)
  BY <1>1, <1>9 DEF Terminate, Interrupted, Goto, TypeOK
<1>10. CASE Launch(m) \/ ViewerLoad(m) \/ ViewerCheck(m)
  BY <1>1, <1>10 DEF Launch, ViewerLoad, ViewerCheck
<1> QED BY <1>1, <1>2, <1>3, <1>4, <1>5, <1>6, <1>7, <1>8, <1>9, <1>10 DEF StepOf, Run

LEMMA ViewerSteps ==
  ASSUME ClientInv, NEW v \in Viewers, StepOf(v)
  PROVE  (InCall(v))' => slot'[v] = Provider[v]
<1>1. /\ TypeOK /\ v \in Proc /\ v # Supervisor /\ v \notin Streams
      /\ InCall(v) => slot[v] = Provider[v]
  BY ProgramsApart DEF ClientInv, CallsOwn
<1>2. CASE Inside(v)
  BY <1>1, <1>2
  DEF Inside, Progress, sem_wait, CopyFront, CopyBack, ClearUpdated, sem_post, Goto, InCall, TypeOK
<1>3. CASE Close(v) \/ Killed(v) \/ Open(v)
  BY <1>1, <1>3
  DEF Close, Killed, Open, sharedMemory_close, Die, sharedMemory_init, OpenExisting, OpenNew,
      InCall, TypeOK
<1>4. CASE ViewerLoad(v) \/ ViewerCheck(v)
  BY <1>1, <1>4
  DEF ViewerLoad, ViewerCheck, sharedMemory_set, sharedMemory_getWithoutUpdate, Read, Call, InCall,
      TypeOK, vars
<1>5. CASE Launch(v)
  BY <1>1, <1>5 DEF Launch, vars, InCall
<1>6. ~(\/ StreamLoad(v) \/ StreamCheck(v) \/ StreamPoll(v) \/ StreamCopy(v)
        \/ StartStream(v) \/ Terminate(v))
  BY <1>1 DEF StreamLoad, StreamCheck, StreamPoll, StreamCopy, StartStream, Terminate
<1> QED BY <1>1, <1>2, <1>3, <1>4, <1>5, <1>6 DEF StepOf, Run

LEMMA CallsOwnStep ==
  ASSUME ClientInv, NEW p \in Proc, StepOf(p)
  PROVE  CallsOwn'
<1> DEFINE StreamCalls(m) ==
       /\ step[m] \in {"off", "init"} => pc[m] = "closed"
       /\ step[m] = "load" => pc[m] = "idle"
       /\ step[m] # "stop"
       /\ step[m] \notin {"off", "init"} => pc[m] # "closed"
       /\ InCall(m) => slot[m] = Provider[m]
       /\ InCall(m) => op[m] \in {"get", "get_updated"}
       /\ InCall(m) /\ step[m] = "check" => op[m] = "get"
       /\ pc[m] \in {"tail", "clear"} => op[m] = "get"
<1>1. /\ TypeOK /\ CallsOwn
      /\ \A m \in Streams : StreamCalls(m) /\ m \in Proc
      /\ \A v \in Viewers : v \in Proc
  BY ProgramsApart DEF ClientInv, CallsOwn
<1>2. ASSUME NEW m \in Streams PROVE StreamCalls(m)'
  <2>1. CASE m # p
    BY <1>1, <2>1, OthersStay DEF InCall
  <2>2. CASE m = p
    <3>1. StreamCalls(m)
      BY <1>1
    <3>2. CASE UNCHANGED vars
      BY <2>2, <3>1, <3>2, StreamSteps DEF vars, InCall, CopyFront, CopyBack, ClearUpdated, sem_post
    <3>3. CASE \/ pc'[m] = "closed" /\ step'[m] = "off"
               \/ pc'[m] = "idle" /\ step[m] = "init" /\ step'[m] = "load"
               \/ /\ pc[m] = "idle" /\ pc'[m] = "wait" /\ slot'[m] = Provider[m]
                  /\ \/ step[m] = "load" /\ step'[m] = "check" /\ op'[m] = "get"
                     \/ step[m] = "loop" /\ step'[m] = "poll" /\ op'[m] = "get_updated"
                     \/ step[m] = "poll" /\ step'[m] = "loop" /\ op'[m] = "get"
      BY <3>3 DEF InCall
    <3>4. CASE step'[m] = step[m] /\ pc[m] = "wait" /\ pc'[m] = "head" /\ UNCHANGED <<op, slot, eit>>
      BY <3>1, <3>4 DEF InCall
    <3>5. CASE step'[m] = step[m] /\ CopyFront(m)
      BY <1>1, <3>1, <3>5 DEF CopyFront, Goto, InCall, TypeOK
    <3>6. CASE step'[m] = step[m] /\ (CopyBack(m) \/ ClearUpdated(m) \/ sem_post(m))
      BY <1>1, <3>1, <3>6 DEF CopyBack, ClearUpdated, sem_post, Goto, InCall, TypeOK
    <3> QED BY <2>2, <3>2, <3>3, <3>4, <3>5, <3>6, StreamSteps
  <2> QED BY <2>1, <2>2
<1>3. ASSUME NEW v \in Viewers PROVE (InCall(v))' => slot'[v] = Provider[v]
  <2>1. CASE v # p
    BY <1>1, <2>1, OthersStay DEF InCall, CallsOwn
  <2> QED BY <2>1, ViewerSteps
<1> QED BY <1>2, <1>3 DEF CallsOwn

\* What a stream has grows with the entry it copies.
LEMMA SuppliesStep ==
  ASSUME ClientInv, Separate, NEW p \in Proc, StepOf(p), NEW m \in Streams
  PROVE  /\ step'[m] # "off" => edition'[Provider[m]] > 0
         /\ step'[m] = "check" /\ pc'[m] \in {"tail", "clear", "post", "idle"} =>
              eit'[m].initialized = 1 /\ HasFront(m)'
         /\ step'[m] = "check" /\ pc'[m] \in {"clear", "post", "idle"} => HasBack(m)'
         /\ Playing(m)' => HasFront(m)' /\ HasBack(m)'
         /\ Playing(m) /\ Playing(m)' =>
              eit'[m].front >= eit[m].front /\ eit'[m].back >= eit[m].back
<1> DEFINE i == Provider[m]
<1>1. /\ TypeOK /\ ClientTypes /\ CallsOwn /\ Publishing /\ Supply /\ Supplies
      /\ m \in Proc /\ m # Supervisor /\ i \in Supplied /\ i \in Slot
  BY ProgramsApart DEF ClientInv, Supplied
<1>2. /\ edition \in [Slot -> Nat] /\ memory \in [Slot -> EitInfo] /\ eit \in [Proc -> EitInfo]
      /\ edition[i] \in Nat /\ memory[i] \in EitInfo /\ eit[m] \in EitInfo
  BY <1>1 DEF TypeOK, ClientTypes
<1>3. edition[i] > 0 => edition'[i] > 0
  <2>1. CASE p = Supervisor /\ sem_post(p)
    <3>1. eit[Supervisor].front = edition[slot[Supervisor]] + 1 /\ slot[Supervisor] \in Slot
      BY <1>1, <2>1, ProgramsApart DEF sem_post, Publishing, InCall, TypeOK
    <3>2. edition' = edition \/ edition' = [edition EXCEPT ![slot[Supervisor]] = eit[Supervisor].front]
      BY <2>1, SupervisorSteps
    <3> QED BY <1>1, <1>2, <3>1, <3>2
  <2> QED BY <2>1, EditionsStay
<1>4. /\ edition[i] > 0 => /\ memory[i].initialized = 1
                           /\ memory[i].front \in Nat \ {0} /\ memory[i].back \in Nat \ {0}
                           /\ memory'[i].front \in Nat \ {0} /\ memory'[i].back \in Nat \ {0}
                           /\ memory'[i].front >= memory[i].front
                           /\ memory'[i].back >= memory[i].back
  <2>1. edition'[i] \in Nat
    <3>1. CASE p = Supervisor /\ sem_post(p)
      <4>1. eit[Supervisor].front = edition[slot[Supervisor]] + 1 /\ slot[Supervisor] \in Slot
        BY <1>1, <3>1, ProgramsApart DEF sem_post, Publishing, InCall, TypeOK
      <4>2. edition' = edition \/ edition' = [edition EXCEPT ![slot[Supervisor]] = eit[Supervisor].front]
        BY <3>1, SupervisorSteps
      <4> QED BY <1>1, <1>2, <4>1, <4>2
    <3> QED BY <1>2, <3>1, EditionsStay
  <2>2. edition[i] > 0 => memory[i].front \in {edition[i], edition[i] + 1} /\ memory[i].initialized = 1
                          /\ memory[i].back \in {edition[i], edition[i] + 1}
    BY <1>1 DEF Supply
  <2>3. edition'[i] > 0 => memory'[i].front \in {edition'[i], edition'[i] + 1}
                          /\ memory'[i].back \in {edition'[i], edition'[i] + 1}
    BY <1>1, PublishingStep DEF Supply
  <2> QED BY <1>1, <1>2, <1>3, <2>1, <2>2, <2>3, PublishingStep
\* m has what it had.
<1>5. ASSUME edition[i] > 0, eit'[m].front = eit[m].front, eit'[m].back = eit[m].back
      PROVE  /\ HasFront(m) => HasFront(m)' /\ eit'[m].front >= eit[m].front
             /\ HasBack(m) => HasBack(m)' /\ eit'[m].back >= eit[m].back
  BY <1>4, <1>5 DEF HasFront, HasBack
<1>6. step[m] # "off" => edition[i] > 0
  BY <1>1 DEF Supplies
<1>7. CASE m # p
  <2>1. /\ pc'[m] = pc[m] /\ eit'[m] = eit[m] /\ step'[m] = step[m]
    BY <1>1, <1>7, OthersStay
  <2> QED BY <1>1, <1>3, <1>5, <1>6, <2>1 DEF Supplies, Playing
<1>8. CASE m = p
  <2>1. CASE UNCHANGED vars
    <3>1. pc' = pc /\ eit' = eit
      BY <2>1 DEF vars
    <3>2. \/ step'[m] = step[m]
          \/ step'[m] = "off"
          \/ step[m] = "init" /\ step'[m] = "load"
          \/ step[m] = "off" /\ step'[m] = "init" /\ edition[i] > 0
          \/ step[m] = "check" /\ step'[m] = "loop" /\ pc[m] = "idle"
          \/ step[m] = "poll" /\ step'[m] = "loop" /\ pc[m] = "idle"
      BY <1>8, <2>1, <3>1, StreamSteps
    <3> QED BY <1>1, <1>3, <1>5, <1>6, <3>1, <3>2 DEF Supplies, Playing
  <2>2. CASE pc'[m] = "closed" /\ step'[m] = "off"
    BY <2>2 DEF Playing
  <2>3. CASE pc'[m] = "idle" /\ step[m] = "init" /\ step'[m] = "load"
    BY <1>3, <1>6, <2>3 DEF Playing
  <2>4. CASE /\ pc[m] = "idle" /\ pc'[m] = "wait" /\ UNCHANGED eit
             /\ \/ step[m] = "load" /\ step'[m] = "check" /\ op'[m] = "get"
                \/ step[m] = "loop" /\ step'[m] = "poll" /\ op'[m] = "get_updated"
                \/ step[m] = "poll" /\ step'[m] = "loop" /\ op'[m] = "get"
    BY <1>1, <1>3, <1>5, <1>6, <2>4 DEF Supplies, Playing
  <2>5. CASE step'[m] = step[m] /\ pc[m] = "wait" /\ pc'[m] = "head" /\ UNCHANGED eit
    BY <1>1, <1>3, <1>5, <1>6, <2>5 DEF Supplies, Playing
  <2>6. CASE step'[m] = step[m] /\ CopyFront(m)
    <3>1. /\ InCall(m) /\ op[m] \in {"get", "get_updated"} /\ slot[m] = i
          /\ step[m] \in {"check", "loop", "poll"}
          /\ step[m] = "check" => op[m] = "get"
      BY <1>1, <2>6 DEF CopyFront, InCall, CallsOwn, ClientTypes, Steps
    <3>2. CASE op[m] = "get"
      <4>1. /\ eit' = [eit EXCEPT ![m] = [memory[i] EXCEPT !.back = eit[m].back]]
            /\ pc'[m] = "tail" /\ memory' = memory
        BY <1>1, <2>6, <3>1, <3>2 DEF CopyFront, Goto, TypeOK
      <4>2. /\ eit'[m].front = memory[i].front /\ eit'[m].back = eit[m].back
            /\ eit'[m].initialized = memory[i].initialized
        BY <1>1, <1>2, <4>1 DEF EitInfo
      <4>3. HasFront(m)' /\ eit'[m].initialized = 1
        BY <1>4, <1>6, <3>1, <4>1, <4>2 DEF HasFront
      <4>4. Playing(m) => /\ HasBack(m)' /\ eit'[m].front >= eit[m].front
                          /\ eit'[m].back >= eit[m].back
        BY <1>1, <4>1, <4>2 DEF Supplies, HasFront, HasBack
      <4> QED BY <1>3, <1>6, <2>6, <3>1, <4>1, <4>3, <4>4 DEF Playing
    <3>3. CASE op[m] = "get_updated"
      <4>1. eit' = [eit EXCEPT ![m].updated = memory[i].updated]
        BY <1>1, <2>6, <3>1, <3>3 DEF CopyFront, Goto, TypeOK
      <4>2. eit'[m].front = eit[m].front /\ eit'[m].back = eit[m].back
        BY <1>1, <1>2, <4>1 DEF EitInfo
      <4> QED BY <1>1, <1>3, <1>5, <1>6, <2>6, <3>1, <3>3, <4>2 DEF Supplies, Playing
    <3> QED BY <3>1, <3>2, <3>3
  <2>7. CASE step'[m] = step[m] /\ CopyBack(m)
    <3>1. /\ op[m] = "get" /\ slot[m] = i /\ pc[m] = "tail"
          /\ step[m] \in {"check", "loop", "poll"}
      BY <1>1, <2>7 DEF CopyBack, InCall, CallsOwn, ClientTypes, Steps
    <3>2. eit' = [eit EXCEPT ![m].back = memory[i].back] /\ memory' = memory
      BY <2>7, <3>1 DEF CopyBack
    <3>3. /\ eit'[m].back = memory[i].back /\ eit'[m].front = eit[m].front
          /\ eit'[m].initialized = eit[m].initialized
      BY <1>1, <1>2, <3>2 DEF EitInfo
    <3>4. HasBack(m)'
      BY <1>4, <1>6, <3>1, <3>2, <3>3 DEF HasBack
    <3>5. HasFront(m) /\ (step[m] = "check" => eit[m].initialized = 1)
      BY <1>1, <3>1 DEF Supplies, Playing
    <3>6. HasFront(m)' /\ eit'[m].front >= eit[m].front
      BY <3>2, <3>3, <3>5 DEF HasFront
    <3>7. Playing(m) => eit'[m].back >= eit[m].back
      BY <1>1, <3>3 DEF Supplies, HasBack
    <3> QED BY <1>3, <1>6, <2>7, <3>1, <3>3, <3>4, <3>5, <3>6, <3>7 DEF Playing
  <2>8. CASE step'[m] = step[m] /\ ClearUpdated(m)
    <3>1. eit' = eit /\ pc[m] = "clear" /\ pc'[m] = "post"
      BY <1>1, <2>8 DEF ClearUpdated, Goto, TypeOK
    <3> QED BY <1>1, <1>3, <1>5, <1>6, <2>8, <3>1 DEF Supplies, Playing
  <2>9. CASE step'[m] = step[m] /\ sem_post(m)
    <3>1. /\ pc[m] = "post" /\ pc'[m] = "idle"
          /\ eit' = [eit EXCEPT ![m].updated = IF op[m] = "get" THEN 0 ELSE @]
      BY <1>1, <2>9 DEF sem_post, Goto, TypeOK
    <3>2. /\ eit'[m].front = eit[m].front /\ eit'[m].back = eit[m].back
          /\ eit'[m].initialized = eit[m].initialized
      BY <1>1, <1>2, <3>1 DEF EitInfo
    <3> QED BY <1>1, <1>3, <1>5, <1>6, <2>9, <3>1, <3>2 DEF Supplies, Playing
  <2> QED BY <1>8, <2>1, <2>2, <2>3, <2>4, <2>5, <2>6, <2>7, <2>8, <2>9, StreamSteps
<1> QED BY <1>7, <1>8

LEMMA ClientTypesStep ==
  ASSUME ClientInv, NEW p \in Proc, StepOf(p)
  PROVE  TypeOK' /\ ClientTypes'
<1>1. TypeOK /\ ClientTypes /\ Publishing
  BY DEF ClientInv
<1>2. TypeOK'
  BY <1>1, StepInLibrary, TypeStep DEF Next
<1>3. step' \in [Proc -> Steps]
  BY <1>1
  DEF ClientTypes, Steps, StepOf, Run, Inside, Open, Close, StreamLoad, StreamCheck, StreamPoll,
      StreamCopy, ViewerLoad, ViewerCheck, Launch, StartStream, Terminate, Killed, Publish, Advance
<1>4. edition' \in [Slot -> Nat]
  <2>1. CASE p = Supervisor /\ sem_post(p)
    <3>1. eit[Supervisor].front = edition[slot[Supervisor]] + 1 /\ slot[Supervisor] \in Slot
      BY <1>1, <2>1, ProgramsApart DEF sem_post, Publishing, InCall, TypeOK
    <3>2. edition' = edition \/ edition' = [edition EXCEPT ![slot[Supervisor]] = eit[Supervisor].front]
      BY <2>1, SupervisorSteps
    <3> QED BY <1>1, <3>1, <3>2 DEF ClientTypes
  <2> QED BY <1>1, <2>1, EditionsStay DEF ClientTypes
<1> QED BY <1>2, <1>3, <1>4 DEF ClientTypes

LEMMA ClientInvStep ==
  ASSUME Separate
  PROVE  ClientInv /\ [ClientNext]_clientVars => ClientInv'
<1> SUFFICES ASSUME ClientInv, [ClientNext]_clientVars PROVE ClientInv'
  OBVIOUS
<1>1. CASE UNCHANGED clientVars
  BY <1>1
  DEF clientVars, vars, ClientInv, TypeOK, ClientTypes, CallsOwn, Publishing, Supply, Supplies, InCall,
      HasFront, HasBack, Playing
<1>2. CASE ClientNext
  <2>1. PICK p \in Proc : StepOf(p)
    BY <1>2, StepsOfPrograms
  <2>2. TypeOK' /\ ClientTypes' /\ CallsOwn' /\ Publishing' /\ Supply'
    BY <2>1, ClientTypesStep, CallsOwnStep, PublishingStep
  <2>3. Supplies'
    BY <2>1, SuppliesStep DEF Supplies
  <2> QED BY <2>2, <2>3 DEF ClientInv
<1> QED BY <1>1, <1>2

\* Whatever the faults, a stream plays what the supervisor has published, never
\* the ini file: although a signal or a crash may tear the copy of it.
THEOREM StreamsAreSupervised == Separate => (ClientSpec => []SupervisedContent)
<1> SUFFICES ASSUME Separate PROVE ClientSpec => []SupervisedContent
  OBVIOUS
<1>1. ClientInv => SupervisedContent
  BY DEF ClientInv, Supplies, HasFront, HasBack, SupervisedContent, Ini
<1> QED BY ClientInvInit, ClientInvStep, <1>1, PTL DEF ClientSpec

\* Whatever the faults, neither half of what a stream plays goes back to an
\* earlier edition.
THEOREM StreamsGoForward == Separate => (ClientSpec => EditionsInOrder)
<1> SUFFICES ASSUME Separate PROVE ClientSpec => EditionsInOrder
  OBVIOUS
<1> DEFINE Forward == \A m \in Streams :
                        Playing(m) /\ Playing(m)' =>
                          eit'[m].front >= eit[m].front /\ eit'[m].back >= eit[m].back
<1>1. ClientInv /\ [ClientNext]_clientVars => [Forward]_clientVars
  BY StepsOfPrograms, SuppliesStep
<1>2. ClientSpec => [][Forward]_clientVars
  BY ClientInvInit, ClientInvStep, <1>1, PTL DEF ClientSpec
<1> QED BY <1>2 DEF EditionsInOrder
=============================================================================
