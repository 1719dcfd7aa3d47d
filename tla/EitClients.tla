----------------------------- MODULE EitClients -----------------------------
(***************************************************************************)
(* The three programs that share the table of SharedMemory, as far as they *)
(* use it:                                                                 *)
(*   multicat-supervisor publishes a new edition of a provider's event     *)
(*     information whenever the database has one, and starts and stops the *)
(*     provider's multicat-eit;                                            *)
(*   multicat-eit copies its provider's entry at startup (or fills it from *)
(*     the ini file if nobody did), then looks at the update flag before   *)
(*     each chunk and copies the entry again when it is up;                *)
(*   multicat-viewer prints an entry, or fills it from the ini file.       *)
(*                                                                         *)
(* Editions of a provider are numbered in the order the supervisor         *)
(* publishes them; number 0 is the contents of the ini file.               *)
(***************************************************************************)
EXTENDS SharedMemory

CONSTANTS
  Supervisor,   \* the supervisor's process
  Streams,      \* multicat-eit processes
  Viewers,      \* multicat-viewer processes
  Provider,     \* [Streams \cup Viewers -> Slot], option -P
  Loading,      \* how viewers are started: TRUE is with option -l
  MaxEdition    \* bound: publications per provider

Ini == 0
Editions == Ini .. MaxEdition

ASSUME ClientsAssumption ==
  /\ Proc = {Supervisor} \cup Streams \cup Viewers
  /\ Supervisor \notin Streams \cup Viewers
  /\ Streams \cap Viewers = {}
  /\ Provider \in [Streams \cup Viewers -> Slot]
  /\ Loading \subseteq BOOLEAN
  /\ Event = Editions
  /\ MaxEdition \in Nat
  /\ NoEvent \notin Editions

VARIABLES
  step,      \* where each program is in its main()
  edition,   \* the last edition the supervisor published of each provider
  b_die      \* the stop flag the signal handler of each program sets

clientVars == <<vars, step, edition, b_die>>

Steps == {"off", "init", "load", "check", "loop", "poll", "stop"}

ClientInit ==
  /\ Init
  /\ step = [p \in Proc |-> "off"]
  /\ edition = [i \in Slot |-> 0]
  /\ b_die = [p \in Proc |-> FALSE]

\* The program of p, at step a with no call in progress, goes on to step b.
Advance(p, a, b) ==
  /\ step[p] = a
  /\ pc[p] \in {"idle", "closed"}
  /\ step' = [step EXCEPT ![p] = b]

-----------------------------------------------------------------------------
(* Starting and stopping                                                   *)

\* The operator starts the supervisor or a viewer.
Launch(p) ==
  /\ p \in Viewers \cup {Supervisor}
  /\ Advance(p, "off", "init")
  /\ b_die' = [b_die EXCEPT ![p] = FALSE]
  /\ UNCHANGED <<vars, edition>>

\* The supervisor starts a stream only once it has published its entry.
StartStream(m) ==
  /\ m \in Streams
  /\ step[Supervisor] = "loop" /\ Idle(Supervisor)
  /\ edition[Provider[m]] > 0
  /\ Advance(m, "off", "init")
  /\ b_die' = [b_die EXCEPT ![m] = FALSE]
  /\ UNCHANGED <<vars, edition>>

\* SIGTERM once the handlers are installed.  A process the signal finds
\* blocked in sem_wait goes on without the semaphore.
Terminate(p) ==
  /\ "unlinked" \in Faults
  /\ p \notin Viewers
  /\ step[p] \in {"loop", "poll"}
  /\ b_die' = [b_die EXCEPT ![p] = TRUE]
  /\ Interrupted(p) \/ UNCHANGED vars
  /\ UNCHANGED <<step, edition>>

\* The call in progress goes on.  When the supervisor's call returns, the
\* provider has a new edition.
Inside(p) ==
  /\ Progress(p)
  /\ edition' = IF p = Supervisor /\ sem_post(p)
                THEN [edition EXCEPT ![slot[p]] = eit[p].front] ELSE edition
  /\ UNCHANGED <<step, b_die>>

Killed(p) ==
  /\ Die(p)
  /\ step' = [step EXCEPT ![p] = "off"]
  /\ UNCHANGED <<edition, b_die>>

Open(p) ==
  /\ Advance(p, "init", IF p = Supervisor THEN "loop" ELSE "load")
  /\ sharedMemory_init(p)
  /\ UNCHANGED <<edition, b_die>>

Close(p) ==
  /\ \/ Advance(p, "loop", "off") /\ b_die[p]
     \/ Advance(p, "stop", "off")
  /\ sharedMemory_close(p)
  /\ UNCHANGED <<edition, b_die>>

-----------------------------------------------------------------------------
(* The supervisor                                                          *)

\* A new or changed row of the database.
Publish(i) ==
  /\ step[Supervisor] = "loop"
  /\ edition[i] + 1 \in Editions
  /\ sharedMemory_set(Supervisor, i, edition[i] + 1)
  /\ UNCHANGED <<step, edition, b_die>>

-----------------------------------------------------------------------------
(* multicat-eit                                                            *)

\* Faulty variant: the startup copy does not acknowledge the entry and the
\* ini file is loaded whenever the entry is unacknowledged.
StreamCheck_WrongFlag(m) ==
  /\ m \in Streams
  /\ Advance(m, "check", "loop")
  /\ IF eit[m].updated = 0
     THEN sharedMemory_set(m, Provider[m], Ini)
     ELSE UNCHANGED vars
  /\ UNCHANGED <<edition, b_die>>

StreamLoad(m) ==
  /\ m \in Streams
  /\ Advance(m, "load", "check")
  /\ sharedMemory_get(m, Provider[m])
  /\ UNCHANGED <<edition, b_die>>

\* An entry nobody has filled is filled from the ini file.
StreamCheck(m) ==
  /\ m \in Streams
  /\ Advance(m, "check", "loop")
  /\ IF eit[m].initialized = 0
     THEN sharedMemory_set(m, Provider[m], Ini)
     ELSE UNCHANGED vars
  /\ UNCHANGED <<edition, b_die>>

\* add_eit looks at the flag before each chunk ...
StreamPoll(m) ==
  /\ m \in Streams
  /\ ~b_die[m]
  /\ Advance(m, "loop", "poll")
  /\ sharedMemory_get_updated(m, Provider[m])
  /\ UNCHANGED <<edition, b_die>>

\* Faulty variant: a changed entry is read from the ini file again.
StreamCopy_Reload(m) ==
  /\ m \in Streams
  /\ Advance(m, "poll", "loop")
  /\ IF eit[m].updated = 1
     THEN sharedMemory_set(m, Provider[m], Ini)
     ELSE UNCHANGED vars
  /\ UNCHANGED <<edition, b_die>>

\* Faulty variant: the test of the flag is inverted.
StreamCopy_Inverted(m) ==
  /\ m \in Streams
  /\ Advance(m, "poll", "loop")
  /\ IF eit[m].updated = 0
     THEN sharedMemory_get(m, Provider[m])
     ELSE UNCHANGED vars
  /\ UNCHANGED <<edition, b_die>>

\* ... and copies the entry if it is up.
StreamCopy(m) ==
  /\ m \in Streams
  /\ Advance(m, "poll", "loop")
  /\ IF eit[m].updated = 1
     THEN sharedMemory_get(m, Provider[m])
     ELSE UNCHANGED vars
  /\ UNCHANGED <<edition, b_die>>

-----------------------------------------------------------------------------
(* multicat-viewer                                                         *)

ViewerLoad(v) ==
  /\ v \in Viewers
  /\ \/ /\ TRUE \in Loading
        /\ Advance(v, "load", "stop")
        /\ sharedMemory_set(v, Provider[v], Ini)
     \/ /\ FALSE \in Loading
        /\ Advance(v, "load", "check")
        /\ sharedMemory_getWithoutUpdate(v, Provider[v])
  /\ UNCHANGED <<edition, b_die>>

ViewerCheck(v) ==
  /\ v \in Viewers
  /\ Advance(v, "check", "stop")
  /\ IF eit[v].initialized = 0
     THEN sharedMemory_set(v, Provider[v], Ini)
     ELSE UNCHANGED vars
  /\ UNCHANGED <<edition, b_die>>

-----------------------------------------------------------------------------

\* What a program does of its own accord.
Run(p) ==
  \/ Inside(p) \/ Open(p) \/ Close(p)
  \/ StreamLoad(p) \/ StreamCheck(p) \/ StreamPoll(p) \/ StreamCopy(p)
  \/ ViewerLoad(p) \/ ViewerCheck(p)

ClientNext ==
  \/ \E p \in Proc : Run(p) \/ Launch(p) \/ StartStream(p) \/ Terminate(p) \/ Killed(p)
  \/ \E i \in Slot : Publish(i)

ClientSpec == ClientInit /\ [][ClientNext]_clientVars

\* Programs that are running are scheduled, and a waiter gets the semaphore
\* if it is free again and again; nothing makes the operator or the database
\* act.
ClientFairness ==
  \A p \in Proc : WF_clientVars(Run(p)) /\ SF_clientVars(sem_wait(p) /\ Inside(p))

FairClientSpec == ClientSpec /\ ClientFairness

-----------------------------------------------------------------------------
(* Properties                                                              *)

Playing(m) == step[m] \in {"loop", "poll"}

\* The programs use the library as it must be used: they open it before
\* their first call, make one call at a time, and close it last.
UsesLibrary == Spec

\* What a stream plays never goes back to an earlier edition, although it
\* reads the flag and the entry in two separate critical sections.
EditionsInOrder ==
  [][\A m \in Streams :
       Playing(m) /\ Playing(m)' =>
         eit'[m].front >= eit[m].front /\ eit'[m].back >= eit[m].back]_clientVars

\* A stream the supervisor starts plays the supervisor's event information,
\* never the ini file's: the publication precedes the start.
SupervisedContent ==
  \A m \in Streams : Playing(m) => eit[m].front # Ini /\ eit[m].back # Ini

\* The last edition of a provider reaches the stream that plays it: a stream
\* that goes on running and polling ends up with it.
LastEditionIsPlayed ==
  \A m \in Streams, k \in 1..MaxEdition :
    Playing(m) /\ edition[Provider[m]] = k
      ~> ~Playing(m) \/ (eit[m].front >= k /\ eit[m].back >= k)

\* A program that was told to stop stops, and a viewer finishes, even when
\* the programs' semaphores differ and signals interrupt their waits.
ProgramsFinish ==
  \A p \in Proc :
    b_die[p] \/ (p \in Viewers /\ step[p] # "off") ~> step[p] = "off"

\* A viewer started without -l leaves the supervisor's publications alone.
ViewingIsReading ==
  TRUE \notin Loading =>
    \A i \in Slot : edition[i] > 0 => memory[i].front # Ini /\ memory[i].back # Ini
=============================================================================
