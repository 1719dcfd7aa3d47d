--------------------------- MODULE MulticatScript ---------------------------
(***************************************************************************)
(* multicat.sh: starting and stopping the multicat-eit process of one      *)
(* provider, with a lock file and a file of process ids per provider.      *)
(*                                                                         *)
(* The kernel's processes are the pids: owner says which provider's        *)
(* multicat-eit a pid is, and pids are used again.  The shells that run    *)
(* the script are the supervisor's system() calls and the operators'.      *)
(***************************************************************************)
EXTENDS Naturals, FiniteSets

CONSTANTS
  Shell,      \* where the script is run from; each runs one command at a time
  Id,         \* provider numbers
  NoId,       \* owner of a free pid
  Pid,        \* process ids of the kernel
  Hides,      \* providers whose command line contains "sh" or "supervisor",
              \*   which pidof_multicat filters out
  Prefix      \* pairs <<i, j>> such that j starts with the digits of i

ASSUME ScriptAssumption ==
  /\ NoId \notin Id
  /\ Hides \subseteq Id
  /\ Prefix \subseteq Id \X Id

NoFile == {}   \* a pid file that exists holds at least one pid

VARIABLES
  owner,     \* [Pid -> Id \cup {NoId}]
  dying,     \* pids that got SIGTERM and have not exited yet
  lockfile,  \* providers whose lock file exists
  pidfile,   \* [Id -> SUBSET Pid], NoFile where there is none
  at,        \* where each shell is in the script
  provider,  \* the provider of its command
  ret        \* exit status of its last command

scriptVars == <<owner, dying, lockfile, pidfile, at, provider, ret>>

Live(i) == {q \in Pid : owner[q] = i}
Serving(i) == Live(i) \ dying

ScriptInit ==
  /\ owner = [q \in Pid |-> NoId]
  /\ dying = {}
  /\ lockfile = {}
  /\ pidfile = [i \in Id |-> NoFile]
  /\ at = [s \in Shell |-> "exited"]
  /\ provider \in [Shell -> Id]
  /\ ret = [s \in Shell |-> 0]

-----------------------------------------------------------------------------

Exit(s, code) ==
  /\ at' = [at EXCEPT ![s] = "exited"]
  /\ ret' = [ret EXCEPT ![s] = code]
  /\ UNCHANGED provider

Goto(s, l) ==
  /\ at' = [at EXCEPT ![s] = l]
  /\ UNCHANGED <<provider, ret>>

Commands == {"start", "stop", "restart"}

\* A shell runs "multicat.sh --provider i cmd".
Invoke(s, cmd, i) ==
  /\ at[s] = "exited"
  /\ at' = [at EXCEPT ![s] = cmd]
  /\ provider' = [provider EXCEPT ![s] = i]
  /\ UNCHANGED <<owner, dying, lockfile, pidfile, ret>>

\* The pids the ps and grep pipeline finds: "grep -P i" also finds the
\* providers whose number begins with i.
Found(i) ==
  {q \in Pid : /\ owner[q] \in Id \ Hides
               /\ owner[q] = i \/ <<i, owner[q]>> \in Prefix}

\* start: refuse if the lock file exists, else launch in the background.
Launch(s) ==
  /\ at[s] = "start"
  /\ \/ /\ provider[s] \in lockfile
        /\ Exit(s, 1)
        /\ UNCHANGED owner
     \/ /\ provider[s] \notin lockfile
        /\ \E q \in Pid : /\ owner[q] = NoId
                          /\ owner' = [owner EXCEPT ![q] = provider[s]]
        /\ Goto(s, "sleep")
  /\ UNCHANGED <<dying, lockfile, pidfile>>

\* Faulty variant: the pid file is not written.
FindPid_NoFile(s) ==
  /\ at[s] = "sleep"
  /\ IF Found(provider[s]) = {} THEN Exit(s, 1) ELSE Goto(s, "touch")
  /\ UNCHANGED <<owner, dying, lockfile, pidfile>>

\* Five seconds later: pidof_multicat writes the pids it finds, or fails.
FindPid(s) ==
  /\ at[s] = "sleep"
  /\ \/ /\ Found(provider[s]) = {}
        /\ Exit(s, 1)
        /\ UNCHANGED pidfile
     \/ /\ Found(provider[s]) # {}
        /\ pidfile' = [pidfile EXCEPT ![provider[s]] = Found(provider[s])]
        /\ Goto(s, "touch")
  /\ UNCHANGED <<owner, dying, lockfile>>

Touch(s) ==
  /\ at[s] = "touch"
  /\ lockfile' = lockfile \cup {provider[s]}
  /\ Exit(s, 0)
  /\ UNCHANGED <<owner, dying, pidfile>>

\* What makes "stop" fail: a missing file, or a pid that is no process.
StopFails(i) ==
  \/ i \notin lockfile
  \/ pidfile[i] = NoFile
  \/ \E q \in pidfile[i] : owner[q] = NoId

\* stop: SIGTERM goes to every pid of the pid file, and the files go away if
\* each of them was a process.  restart goes on to start whatever came of it.
Kill(s) ==
  LET i == provider[s] IN
  /\ at[s] \in {"stop", "restart"}
  /\ dying' = IF i \in lockfile
              THEN dying \cup {q \in pidfile[i] : owner[q] # NoId} ELSE dying
  /\ IF StopFails(i)
     THEN UNCHANGED <<lockfile, pidfile>>
     ELSE /\ lockfile' = lockfile \ {i}
          /\ pidfile' = [pidfile EXCEPT ![i] = NoFile]
  /\ IF at[s] = "stop" THEN Exit(s, IF StopFails(i) THEN 1 ELSE 0) ELSE Goto(s, "start")
  /\ UNCHANGED owner

\* A multicat-eit exits: on SIGTERM, at the end of its input, or by a fault.
Gone(q) ==
  /\ owner[q] # NoId
  /\ owner' = [owner EXCEPT ![q] = NoId]
  /\ dying' = dying \ {q}
  /\ UNCHANGED <<lockfile, pidfile, at, provider, ret>>

ScriptStep(s) == Launch(s) \/ FindPid(s) \/ Touch(s) \/ Kill(s)

ScriptNext ==
  \/ \E s \in Shell :
       \/ \E i \in Id, cmd \in Commands : Invoke(s, cmd, i)
       \/ ScriptStep(s)
  \/ \E q \in Pid : Gone(q)

ScriptSpec == ScriptInit /\ [][ScriptNext]_scriptVars

-----------------------------------------------------------------------------
(* Properties                                                              *)

ScriptTypeOK ==
  /\ owner \in [Pid -> Id \cup {NoId}]
  /\ dying \subseteq {q \in Pid : owner[q] # NoId}
  /\ lockfile \subseteq Id
  /\ pidfile \in [Id -> SUBSET Pid]
  /\ at \in [Shell -> Commands \cup {"exited", "sleep", "touch"}]
  /\ provider \in [Shell -> Id]
  /\ ret \in [Shell -> {0, 1}]

\* A provider has at most one multicat-eit that nobody told to stop: two
\* would send to the same multicast address.
OneProcess ==
  \A q, r \in Pid :
    /\ owner[q] # NoId /\ owner[q] = owner[r]
    /\ q \notin dying /\ r \notin dying
    => q = r

\* A lock file never stands without a pid file: "stop" would fail for ever.
LockHasPid == \A i \in lockfile : pidfile[i] # NoFile

\* Stopping a provider stops no other provider's multicat-eit.
StopsItsOwn ==
  [][\A q \in dying' \ dying :
       \E s \in Shell : at[s] \in {"stop", "restart"} /\ provider[s] = owner[q]]_scriptVars
=============================================================================
