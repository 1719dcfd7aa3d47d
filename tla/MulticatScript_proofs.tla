----------------------- MODULE MulticatScript_proofs -----------------------
(***************************************************************************)
(* multicat.sh run by a single shell, for providers whose command lines    *)
(* pidof_multicat sees: no provider ever gets two multicat-eit processes,  *)
(* and no lock file stands without a pid file, whatever the provider       *)
(* numbers (so also when "grep -P 1" finds provider 12), and whenever the  *)
(* processes die and their pids are used again.                            *)
(***************************************************************************)
EXTENDS MulticatScript, TLAPS

OneShell == \A s, t \in Shell : s = t

\* While the five seconds pass, the only process of the provider that was not
\* told to stop is the one just launched; afterwards pidfile has its pid.
StartingOne(s) ==
  /\ at[s] \in {"sleep", "touch"} => provider[s] \notin lockfile
  /\ at[s] = "touch" => /\ pidfile[provider[s]] # NoFile
                        /\ Serving(provider[s]) \subseteq pidfile[provider[s]]

\* Whoever serves i is accounted for: a lock file, or a start under way.
Accounted(i) ==
  Serving(i) # {} =>
    \/ i \in lockfile
    \/ \E s \in Shell : at[s] \in {"sleep", "touch"} /\ provider[s] = i

\* "stop" finds everything that serves i in the pid file.
Recorded(i) ==
  i \in lockfile => pidfile[i] # NoFile /\ Serving(i) \subseteq pidfile[i]

Inv ==
  /\ ScriptTypeOK
  /\ OneProcess
  /\ \A s \in Shell : StartingOne(s)
  /\ \A i \in Id : Accounted(i) /\ Recorded(i)

LEMMA InitInv == ScriptInit => Inv
<1> SUFFICES ASSUME ScriptInit PROVE Inv
  OBVIOUS
<1>1. ScriptTypeOK
  BY DEF ScriptInit, ScriptTypeOK, NoFile
<1>2. OneProcess
  BY DEF ScriptInit, OneProcess
<1>3. \A s \in Shell : StartingOne(s)
  BY DEF ScriptInit, StartingOne
<1>4. \A i \in Id : Accounted(i) /\ Recorded(i)
  BY ScriptAssumption DEF ScriptInit, Accounted, Recorded, Serving, Live
<1> QED
  BY <1>1, <1>2, <1>3, <1>4 DEF Inv

LEMMA InvokeInv ==
  ASSUME Inv, OneShell, NEW s \in Shell, NEW i \in Id, NEW cmd \in Commands, Invoke(s, cmd, i)
  PROVE  Inv'
  BY ScriptAssumption
  DEF Inv, OneShell, Invoke, ScriptTypeOK, OneProcess, StartingOne, Accounted,
      Recorded, Serving, Live, Commands

LEMMA LaunchInv ==
  ASSUME Inv, OneShell, NEW s \in Shell, Launch(s)
  PROVE  Inv'
<1> DEFINE i == provider[s]
<1>t. ScriptTypeOK /\ i \in Id
  BY DEF Inv, ScriptTypeOK
<1>1. CASE i \in lockfile
  <2>1. UNCHANGED <<owner, dying, lockfile, pidfile, provider>>
    BY <1>1 DEF Launch, Exit, Goto
  <2>2. at' = [at EXCEPT ![s] = "exited"] /\ ret' = [ret EXCEPT ![s] = 1] /\ at[s] = "start"
    BY <1>1 DEF Launch, Exit, Goto
  <2>3. ScriptTypeOK'
    BY <1>t, <2>1, <2>2 DEF ScriptTypeOK
  <2> QED
    BY <1>t, <2>1, <2>2, <2>3
    DEF Inv, OneProcess, OneShell, StartingOne, Accounted, Recorded, Serving, Live, ScriptTypeOK
<1>2. CASE i \notin lockfile
  <2>1. PICK q \in Pid : owner[q] = NoId /\ owner' = [owner EXCEPT ![q] = i]
    BY <1>2 DEF Launch, Exit, Goto
  <2>2. UNCHANGED <<dying, lockfile, pidfile, provider, ret>>
    BY <1>2 DEF Launch, Exit, Goto
  <2>3. at' = [at EXCEPT ![s] = "sleep"] /\ at[s] = "start"
    BY <1>2 DEF Launch, Exit, Goto
  <2>4. ScriptTypeOK'
    BY <1>t, <2>1, <2>2, <2>3, ScriptAssumption DEF ScriptTypeOK
  <2>5. Serving(i) = {}
    BY <1>t, <1>2, <2>3 DEF Inv, Accounted, OneShell
  <2>6. Serving(i)' = {q}
    BY <1>t, <2>1, <2>2, <2>5, ScriptAssumption DEF Serving, Live, ScriptTypeOK
  <2>7. \A j \in Id : j # i => Serving(j)' = Serving(j)
    BY <1>t, <2>1, <2>2, ScriptAssumption DEF Serving, Live, ScriptTypeOK
  <2>8. OneProcess'
    <3> SUFFICES ASSUME NEW q1 \in Pid, NEW r1 \in Pid,
                        owner'[q1] # NoId, owner'[q1] = owner'[r1],
                        q1 \notin dying', r1 \notin dying'
                 PROVE  q1 = r1
      BY DEF OneProcess
    <3>3. CASE owner'[q1] = i
      <4>1. q1 \in Serving(i)' /\ r1 \in Serving(i)'
        BY <2>2, <3>3 DEF Serving, Live
      <4> QED
        BY <2>6, <4>1
    <3>4. CASE owner'[q1] # i
      BY <2>1, <2>2, <3>4, <1>t DEF Inv, OneProcess, ScriptTypeOK
    <3> QED
      BY <3>3, <3>4
  <2>9. \A t \in Shell : StartingOne(t)'
    BY <1>t, <1>2, <2>2, <2>3 DEF OneShell, StartingOne, ScriptTypeOK
  <2>10. \A j \in Id : Accounted(j)' /\ Recorded(j)'
    <3> SUFFICES ASSUME NEW j \in Id PROVE Accounted(j)' /\ Recorded(j)'
      OBVIOUS
    <3>1. Accounted(j) /\ Recorded(j)
      BY DEF Inv
    <3>2. at'[s] = "sleep" /\ provider'[s] = i
      BY <1>t, <2>2, <2>3 DEF ScriptTypeOK
    <3>3. CASE j = i
      BY <1>2, <2>2, <3>2, <3>3 DEF Accounted, Recorded
    <3>4. CASE j # i
      <4>1. Recorded(j)'
        BY <2>2, <2>7, <3>1, <3>4 DEF Recorded
      <4>2. Accounted(j)'
        BY <2>2, <2>3, <2>7, <3>1, <3>4, <1>t DEF Accounted, OneShell
      <4> QED
        BY <4>1, <4>2
    <3> QED
      BY <3>3, <3>4
  <2> QED
    BY <2>4, <2>8, <2>9, <2>10 DEF Inv
<1> QED
  BY <1>1, <1>2

LEMMA FindPidInv ==
  ASSUME Inv, OneShell, NEW s \in Shell, FindPid(s), Hides = {}
  PROVE  Inv'
<1> DEFINE i == provider[s]
<1>t. ScriptTypeOK /\ i \in Id /\ at[s] = "sleep" /\ i \notin lockfile
  BY DEF Inv, ScriptTypeOK, FindPid, StartingOne
<1>u. UNCHANGED <<owner, dying, lockfile, provider>>
  BY DEF FindPid, Exit, Goto
<1>f. Serving(i) \subseteq Found(i) /\ Found(i) \subseteq Pid
  BY <1>t, ScriptAssumption DEF Serving, Live, Found
<1>1. CASE Found(i) = {}
  <2>1. at' = [at EXCEPT ![s] = "exited"] /\ ret' = [ret EXCEPT ![s] = 1] /\ pidfile' = pidfile
    BY <1>1 DEF FindPid, Exit, Goto
  <2>2. Serving(i) = {}
    BY <1>1, <1>f
  <2>3. ScriptTypeOK' /\ OneProcess'
    BY <1>t, <1>u, <2>1 DEF ScriptTypeOK, Inv, OneProcess
  <2>4. \A t \in Shell : StartingOne(t)'
    BY <1>t, <2>1 DEF StartingOne, OneShell, ScriptTypeOK
  <2>5. \A j \in Id : Accounted(j)' /\ Recorded(j)'
    BY <1>t, <1>u, <2>1, <2>2 DEF Inv, Accounted, Recorded, Serving, Live, OneShell
  <2> QED
    BY <2>3, <2>4, <2>5 DEF Inv
<1>2. CASE Found(i) # {}
  <2>1. /\ at' = [at EXCEPT ![s] = "touch"] /\ ret' = ret
        /\ pidfile' = [pidfile EXCEPT ![i] = Found(i)]
    BY <1>2 DEF FindPid, Exit, Goto
  <2>2. ScriptTypeOK' /\ OneProcess'
    BY <1>t, <1>u, <1>f, <2>1 DEF ScriptTypeOK, Inv, OneProcess
  <2>3. \A t \in Shell : StartingOne(t)'
    BY <1>t, <1>u, <1>f, <1>2, <2>1
    DEF StartingOne, OneShell, ScriptTypeOK, Serving, Live, NoFile
  <2>4. \A j \in Id : Accounted(j)' /\ Recorded(j)'
    BY <1>t, <1>u, <2>1
    DEF Inv, Accounted, Recorded, Serving, Live, OneShell, ScriptTypeOK
  <2> QED
    BY <2>2, <2>3, <2>4 DEF Inv
<1> QED
  BY <1>1, <1>2

LEMMA TouchInv ==
  ASSUME Inv, OneShell, NEW s \in Shell, Touch(s)
  PROVE  Inv'
<1>1. /\ at[s] = "touch" /\ provider[s] \in Id
      /\ lockfile' = lockfile \cup {provider[s]}
      /\ at' = [at EXCEPT ![s] = "exited"] /\ ret' = [ret EXCEPT ![s] = 0]
      /\ UNCHANGED <<owner, dying, pidfile, provider>>
  BY DEF Touch, Exit, Inv, ScriptTypeOK
<1>2. ScriptTypeOK' /\ OneProcess'
  BY <1>1 DEF Inv, ScriptTypeOK, OneProcess
<1>3. \A t \in Shell : StartingOne(t)'
  BY <1>1 DEF Inv, StartingOne, OneShell, ScriptTypeOK
<1>4. \A j \in Id : Accounted(j)' /\ Recorded(j)'
  BY <1>1 DEF Inv, StartingOne, Accounted, Recorded, Serving, Live, OneShell
<1> QED
  BY <1>2, <1>3, <1>4 DEF Inv

LEMMA KillInv ==
  ASSUME Inv, OneShell, NEW s \in Shell, Kill(s)
  PROVE  Inv'
<1> DEFINE i == provider[s]
<1>t. ScriptTypeOK /\ i \in Id /\ at[s] \in {"stop", "restart"}
  BY DEF Inv, ScriptTypeOK, Kill
<1>u. owner' = owner /\ provider' = provider
  BY DEF Kill, Exit, Goto
<1>d. dying \subseteq dying' /\ dying' \subseteq {q \in Pid : owner[q] # NoId}
  BY <1>t DEF Kill, ScriptTypeOK
<1>k. i \in lockfile => Serving(i)' = {}
  BY <1>t, <1>u, ScriptAssumption DEF Kill, Inv, Recorded, Serving, Live
<1>s. \A j \in Id : Serving(j)' \subseteq Serving(j)
  BY <1>d, <1>u DEF Serving, Live
<1>a. /\ at' \in [Shell -> Commands \cup {"exited", "sleep", "touch"}]
      /\ at'[s] \in {"exited", "start"}
      /\ ret' \in [Shell -> {0, 1}]
  BY <1>t DEF Kill, Exit, Goto, ScriptTypeOK, Commands
<1>l. \/ UNCHANGED <<lockfile, pidfile>>
      \/ i \in lockfile /\ lockfile' = lockfile \ {i} /\ pidfile' = [pidfile EXCEPT ![i] = NoFile]
  BY DEF Kill, StopFails
<1>1. ScriptTypeOK'
  BY <1>t, <1>u, <1>d, <1>a, <1>l DEF ScriptTypeOK, NoFile
<1>2. OneProcess'
  BY <1>u, <1>d DEF Inv, OneProcess
<1>3. \A t \in Shell : StartingOne(t)'
  BY <1>a DEF StartingOne, OneShell
<1>4. \A j \in Id : Accounted(j)' /\ Recorded(j)'
  BY <1>t, <1>u, <1>k, <1>s, <1>l
  DEF Inv, Accounted, Recorded, OneShell, ScriptTypeOK
<1> QED
  BY <1>1, <1>2, <1>3, <1>4 DEF Inv

LEMMA GoneInv ==
  ASSUME Inv, NEW q \in Pid, Gone(q)
  PROVE  Inv'
<1>1. /\ owner' = [owner EXCEPT ![q] = NoId] /\ dying' = dying \ {q}
      /\ UNCHANGED <<lockfile, pidfile, at, provider, ret>>
  BY DEF Gone
<1>2. \A j \in Id : Serving(j)' \subseteq Serving(j)
  BY <1>1, ScriptAssumption DEF Serving, Live, Inv, ScriptTypeOK
<1>3. ScriptTypeOK' /\ OneProcess'
  BY <1>1, ScriptAssumption DEF Inv, ScriptTypeOK, OneProcess
<1>4. \A t \in Shell : StartingOne(t)'
  BY <1>1, <1>2 DEF Inv, StartingOne, ScriptTypeOK
<1>5. \A j \in Id : Accounted(j)' /\ Recorded(j)'
  BY <1>1, <1>2 DEF Inv, Accounted, Recorded
<1> QED
  BY <1>3, <1>4, <1>5 DEF Inv

LEMMA StepInv ==
  ASSUME OneShell, Hides = {}
  PROVE  Inv /\ [ScriptNext]_scriptVars => Inv'
<1> SUFFICES ASSUME Inv, [ScriptNext]_scriptVars PROVE Inv'
  OBVIOUS
<1>1. CASE UNCHANGED scriptVars
  BY <1>1
  DEF scriptVars, Inv, ScriptTypeOK, OneProcess, StartingOne, Accounted, Recorded, Serving, Live
<1>2. ASSUME NEW s \in Shell, NEW i \in Id, NEW cmd \in Commands, Invoke(s, cmd, i) PROVE Inv'
  BY <1>2, InvokeInv
<1>3. ASSUME NEW s \in Shell, ScriptStep(s) PROVE Inv'
  BY <1>3, LaunchInv, FindPidInv, TouchInv, KillInv DEF ScriptStep
<1>4. ASSUME NEW q \in Pid, Gone(q) PROVE Inv'
  BY <1>4, GoneInv
<1> QED
  BY <1>1, <1>2, <1>3, <1>4 DEF ScriptNext

\* With one shell and visible command lines every variable of the script and
\* of the process table keeps its type.
THEOREM ScriptTypeCorrect ==
  ASSUME OneShell, Hides = {}
  PROVE  ScriptSpec => []ScriptTypeOK
<1>1. Inv => ScriptTypeOK
  BY DEF Inv
<1> QED
  BY InitInv, StepInv, <1>1, PTL DEF ScriptSpec

\* One shell at a time never starts a second multicat-eit for a provider.
THEOREM OneProcessEach ==
  ASSUME OneShell, Hides = {}
  PROVE  ScriptSpec => []OneProcess
<1>1. Inv => OneProcess
  BY DEF Inv
<1> QED
  BY InitInv, StepInv, <1>1, PTL DEF ScriptSpec

\* One shell at a time never leaves a lock file without a pid file.
THEOREM LocksHavePids ==
  ASSUME OneShell, Hides = {}
  PROVE  ScriptSpec => []LockHasPid
<1>1. Inv => LockHasPid
  BY DEF Inv, Recorded, LockHasPid, ScriptTypeOK
<1> QED
  BY InitInv, StepInv, <1>1, PTL DEF ScriptSpec
=============================================================================
