-------------------------- MODULE Supervisor_proofs --------------------------
(***************************************************************************)
(* The daemon and the scripts it runs, for every set of providers, shells  *)
(* and pids, every case and any number of edits, for providers whose       *)
(* command lines pidof_multicat sees.                                      *)
(***************************************************************************)
EXTENDS Supervisor, FiniteSetTheorems, SequenceTheorems, TLAPS

\* The steps of the daemon, its environment and the scripts, as a flat list.
LEMMA SupSteps ==
  ASSUME SupNext
  PROVE  \/ Poll
         \/ OldDone \/ OldMissing \/ StopReturns \/ OldSame \/ OldNewer
         \/ NewKnown \/ NewRow \/ StartReturns \/ NewDone
         \/ Leave \/ StopAll \/ StopOneReturns \/ Quit
         \/ SigHandler \/ ServiceStart \/ Killed
         \/ \E j \in Id : Edit(j)
         \/ Disconnect
         \/ \E s \in Shell : Script(s)
         \/ \E q \in Pid : Exits(q)
BY DEF SupNext, Daemon, check_streaming_list_with_db, stop_all_streaming

-----------------------------------------------------------------------------
(* Types                                                                   *)

Row == [id : Id, ts : Nat, kind : RowKinds]
DatabaseRow == [enable : BOOLEAN, ts : Nat, kind : RowKinds]
Statuses == {"", "STOPPING", "STOPPED", "STARTING", "STARTED"} \cup Failures

SupTypeOK ==
  /\ given \in Cases
  /\ row \in [Id -> DatabaseRow]
  /\ status \in [Id -> Statuses]
  /\ edits \in Nat
  /\ table \in [Id -> [ts : Nat, next : Id \cup {NoId}]]
  /\ list \in Seq(Row) /\ bd \in Seq(Row)
  /\ i \in Nat \ {0}
  /\ action \in BOOLEAN
  /\ child \in Shell

\* What the query returns is a list of rows that holds each enabled row once,
\* as it is in the database.
LEMMA QueriedRows ==
  ASSUME SupTypeOK, NEW rows \in EnabledRows
  PROVE  /\ rows \in Seq(Row)
         /\ \A k, l \in 1..Len(rows) : rows[k].id = rows[l].id => k = l
         /\ \A k \in 1..Len(rows) : rows[k].ts = row[rows[k].id].ts /\ rows[k].kind = row[rows[k].id].kind
<1> DEFINE enabled == {j \in Id : row[j].enable}
           n == Cardinality(enabled)
<1>1. n \in Nat
  BY SupervisorAssumption, FS_Subset, FS_CardinalityType
<1>2. PICK o \in [1..n -> enabled] :
        /\ \A k, l \in 1..n : o[k] = o[l] => k = l
        /\ rows = [k \in 1..n |-> [id |-> o[k], ts |-> row[o[k]].ts, kind |-> row[o[k]].kind]]
  BY DEF EnabledRows
<1> HIDE DEF n
<1>3. \A k \in 1..n : /\ o[k] \in Id
                      /\ rows[k] = [id |-> o[k], ts |-> row[o[k]].ts, kind |-> row[o[k]].kind]
                      /\ rows[k] \in Row
  BY <1>2 DEF SupTypeOK, DatabaseRow, Row
<1>4. rows \in [1..n -> Row]
  BY <1>2, <1>3
<1>5. rows \in Seq(Row) /\ Len(rows) = n
  BY <1>1, <1>4
<1> QED BY <1>2, <1>3, <1>5

\* A write of a status leaves the contents of the rows alone.
LEMMA StatusWritten ==
  ASSUME SupTypeOK, NEW id, NEW s \in Statuses, SetStatus(id, s)
  PROVE  /\ row' \in [Id -> DatabaseRow] /\ status' \in [Id -> Statuses]
         /\ \A j \in Id : row'[j].ts = row[j].ts /\ row'[j].kind = row[j].kind
         /\ \A j \in Id : status'[j] = status[j] \/ (connected /\ j = id /\ status'[j] = s)
         /\ connected /\ id \in Id => status'[id] = s
         /\ UNCHANGED <<given, connected, edits>>
<1>1. CASE connected /\ id \in Id
  <2>1. /\ status' = [status EXCEPT ![id] = s]
        /\ row' = [row EXCEPT ![id].enable = @ /\ s \notin Failures]
    BY <1>1 DEF SetStatus
  <2>2. row[id] \in DatabaseRow
    BY <1>1 DEF SupTypeOK
  <2>3. \A b \in BOOLEAN : /\ [row[id] EXCEPT !.enable = b] \in DatabaseRow
                           /\ [row[id] EXCEPT !.enable = b].ts = row[id].ts
                           /\ [row[id] EXCEPT !.enable = b].kind = row[id].kind
    BY <2>2 DEF DatabaseRow
  <2>4. PICK b \in BOOLEAN : row' = [row EXCEPT ![id] = [row[id] EXCEPT !.enable = b]]
    BY <2>1, <2>2, Zenon
  <2> QED BY <1>1, <2>1, <2>3, <2>4 DEF SupTypeOK, SetStatus
<1>2. CASE ~(connected /\ id \in Id)
  BY <1>2 DEF SupTypeOK, SetStatus
<1> QED BY <1>1, <1>2

LEMMA Published ==
  ASSUME SupTypeOK, NEW r \in Row, Publish(r)
  PROVE  /\ table' \in [Id -> [ts : Nat, next : Id \cup {NoId}]]
         /\ table'[r.id].ts = r.ts
         /\ \A j \in Id \ {r.id} : table'[j] = table[j]
<1>1. PICK next \in Id \cup {NoId} : table' = [table EXCEPT ![r.id] = [ts |-> r.ts, next |-> next]]
  BY DEF Publish, SupTypeOK, Row
<1> QED BY <1>1 DEF SupTypeOK, Row

\* The row found for an entry of the list is one with its number.
LEMMA WantedRow ==
  ASSUME SupTypeOK, NEW k \in 1..Len(list), list[k].id \in Ids(bd)
  PROVE  \E l \in 1..Len(bd) : bd[l].id = list[k].id /\ Wanted(k) = bd[l]
<1>1. \E l \in 1..Len(bd) : bd[l].id = list[k].id
  BY DEF Ids
<1> QED BY <1>1 DEF Wanted, search_streaming

LEMMA NoRows == <<>> \in Seq(Row) /\ Len(<<>>) = 0 /\ Ids(<<>>) = {}
<1>1. <<>> \in Seq(Row) /\ Len(<<>>) = 0
  BY EmptySeq
<1> QED BY <1>1 DEF Ids

LEMMA RowsOf ==
  ASSUME SupTypeOK
  PROVE  /\ \A k \in 1..Len(list) : list[k] \in Row /\ list[k].id \in Id
         /\ \A k \in 1..Len(bd) : bd[k] \in Row /\ bd[k].id \in Id
         /\ Len(list) \in Nat /\ Len(bd) \in Nat
         /\ Ids(list) \subseteq Id /\ Ids(bd) \subseteq Id
<1>1. list \in Seq(Row) /\ bd \in Seq(Row)
  BY DEF SupTypeOK
<1>2. ASSUME NEW s \in Seq(Row)
      PROVE  Len(s) \in Nat /\ \A k \in 1..Len(s) : s[k] \in Row /\ s[k].id \in Id
  <2>1. \A k \in 1..Len(s) : s[k] \in Row
    BY <1>2
  <2>2. \A r \in Row : r.id \in Id
    BY DEF Row
  <2> QED BY <1>2, <2>1, <2>2
<1> QED BY <1>1, <1>2 DEF Ids

LEMMA FailureStatus ==
  ASSUME NEW r \in Row, ~Good(r) PROVE FailureOf(r) \in Failures
<1>1. r.kind \in {"database", "parsing", "eit"}
  BY DEF Row, Good, RowKinds
<1>2. FailureOf(r) \in {"DATABASE FAILURE", "PARSING FAILURE", "EIT FAILURE"}
  <2>1. CASE r.kind = "database"
    BY <2>1 DEF FailureOf
  <2>2. CASE r.kind = "parsing"
    BY <2>2 DEF FailureOf
  <2>3. CASE r.kind = "eit"
    BY <2>3 DEF FailureOf
  <2> QED BY <1>1, <2>1, <2>2, <2>3
<1> QED BY <1>2 DEF Failures

LEMMA SupTypeInit == SupInit => SupTypeOK
<1> SUFFICES ASSUME SupInit PROVE SupTypeOK
  OBVIOUS
<1>1. Kinds \subseteq RowKinds
  <2>1. given \in [playable : SUBSET Id, kinds : SUBSET RowKinds, faults : SUBSET FaultKinds]
    BY SupervisorAssumption DEF SupInit
  <2> QED BY <2>1 DEF Kinds
<1>2. /\ status = [j \in Id |-> ""]
      /\ table = [j \in Id |-> [ts |-> 0, next |-> NoId]]
      /\ given \in Cases /\ child \in Shell
      /\ list = <<>> /\ bd = <<>>
  BY Zenon DEF SupInit
<1>3. row \in [Id -> DatabaseRow]
  <2>1. row \in [Id -> [enable : BOOLEAN, ts : {0}, kind : Kinds]]
    BY Zenon DEF SupInit
  <2>2. [enable : BOOLEAN, ts : {0}, kind : Kinds] \subseteq DatabaseRow
    BY <1>1 DEF DatabaseRow
  <2> QED BY <2>1, <2>2
<1>4. status \in [Id -> Statuses]
  BY <1>2 DEF Statuses
<1>5. table \in [Id -> [ts : Nat, next : Id \cup {NoId}]]
  BY <1>2
<1>6. list \in Seq(Row) /\ bd \in Seq(Row)
  BY <1>2, NoRows
<1>7. action \in BOOLEAN
  BY DEF SupInit
<1>8. edits \in Nat /\ i \in Nat \ {0}
  <2>1. edits = 0 /\ i = 1
    BY Zenon DEF SupInit
  <2> QED BY <2>1
<1> QED BY <1>2, <1>3, <1>4, <1>5, <1>6, <1>7, <1>8 DEF SupTypeOK

LEMMA SupTypeStep == SupTypeOK /\ [SupNext]_supVars => SupTypeOK'
<1> SUFFICES ASSUME SupTypeOK, [SupNext]_supVars PROVE SupTypeOK'
  OBVIOUS
<1> USE DEF SupTypeOK
<1>1. CASE UNCHANGED supVars
  BY <1>1 DEF supVars, databaseVars, daemonVars
\* A step of the daemon that only goes on.
<1>2. ASSUME UNCHANGED <<databaseVars, table, list, child>>, bd' = bd \/ bd' = <<>>,
             i' \in {i, i + 1, 1}, action' \in BOOLEAN
      PROVE  SupTypeOK'
  <2>1. bd' \in Seq(Row)
    BY <1>2, NoRows
  <2>2. i' \in Nat \ {0}
    BY <1>2
  <2> QED BY <1>2, <2>1, <2>2 DEF databaseVars
\* One that writes a status.
<1>3. ASSUME NEW id, NEW s \in Statuses, SetStatus(id, s), UNCHANGED <<table, list, bd, child>>,
             i' \in {i, i + 1}, action' \in BOOLEAN
      PROVE  SupTypeOK'
  BY <1>3, StatusWritten
<1>4. CASE Poll
  <2>1. PICK rows \in IF connected THEN EnabledRows ELSE {<<>>} : bd' = rows
    BY <1>4 DEF Poll
  <2>2. rows \in Seq(Row)
    BY <2>1, QueriedRows, NoRows
  <2> QED BY <1>4, <2>1, <2>2 DEF Poll, databaseVars
<1>5. CASE OldDone \/ OldSame \/ NewKnown \/ Leave \/ StopAll \/ SigHandler
  BY <1>2, <1>5
  DEF OldDone, OldSame, NewKnown, Leave, StopAll, SigHandler, System, Advance
<1>6. CASE OldMissing \/ StopReturns \/ StartReturns \/ StopOneReturns
  BY <1>3, <1>6
  DEF OldMissing, StopReturns, StartReturns, StopOneReturns, System, Advance, Statuses, Failures
<1>7. CASE OldNewer
  <2>1. PICK l \in 1..Len(bd) : bd[l].id = list[i].id /\ Wanted(i) = bd[l]
    BY <1>7, WantedRow DEF OldNewer
  <2>2. Wanted(i) \in Row
    BY <2>1, RowsOf
  <2>3. CASE Publish(Wanted(i)) /\ UNCHANGED databaseVars
    <3>1. table' \in [Id -> [ts : Nat, next : Id \cup {NoId}]]
      BY <2>2, <2>3, Published
    <3> QED BY <1>7, <2>3, <3>1 DEF OldNewer, Advance, databaseVars
  <2>4. ASSUME NEW id, ~Good(Wanted(i)), SetStatus(id, FailureOf(Wanted(i))), UNCHANGED table
        PROVE  SupTypeOK'
    <3>1. FailureOf(Wanted(i)) \in Statuses
      BY <2>2, <2>4, FailureStatus DEF Statuses
    <3> QED BY <1>3, <1>7, <2>4, <3>1 DEF OldNewer, Advance
  <2> QED BY <1>7, <2>3, <2>4 DEF OldNewer
<1>8. CASE NewRow
  <2>1. bd[i] \in Row /\ bd[i].id \in Id
    BY <1>8, RowsOf DEF NewRow
  <2>2. CASE ~Good(bd[i])
    <3>1. FailureOf(bd[i]) \in Statuses
      BY <2>1, <2>2, FailureStatus DEF Statuses
    <3> QED BY <1>3, <1>8, <2>2, <3>1 DEF NewRow, Advance
  <2>3. CASE Good(bd[i])
    <3>1. /\ SetStatus(bd[i].id, "STARTING") /\ Publish(bd[i])
          /\ UNCHANGED <<list, bd, child>> /\ i' \in {i, i + 1} /\ action' \in BOOLEAN
      BY <1>8, <2>3 DEF NewRow, System, Advance
    <3>2. table' \in [Id -> [ts : Nat, next : Id \cup {NoId}]]
      BY <2>1, <3>1, Published
    <3>3. "STARTING" \in Statuses
      BY DEF Statuses
    <3>4. row' \in [Id -> DatabaseRow] /\ status' \in [Id -> Statuses] /\ UNCHANGED <<given, connected, edits>>
      BY <3>1, <3>3, StatusWritten
    <3> QED BY <3>1, <3>2, <3>4
  <2> QED BY <2>2, <2>3
<1>9. CASE NewDone \/ Quit \/ Killed
  <2>1. list' \in Seq(Row) /\ bd' \in Seq(Row)
    BY <1>9, NoRows DEF NewDone, Quit, Killed
  <2>2. i' = 1 /\ action' \in BOOLEAN /\ UNCHANGED <<given, row, status, edits, table, child>>
    BY <1>9 DEF NewDone, Quit, Killed, databaseVars
  <2> QED BY <2>1, <2>2
<1>10. CASE ServiceStart
  BY <1>10 DEF ServiceStart
<1>11. ASSUME NEW j \in Id, Edit(j) PROVE SupTypeOK'
  <2>1. /\ UNCHANGED <<given, status, table, list, bd, i, action, child>>
        /\ edits' = edits + 1
    BY <1>11 DEF Edit, daemonVars
  <2>2. row' \in [Id -> DatabaseRow]
    <3>1. ASSUME NEW k \in Kinds, NEW e \in BOOLEAN,
                 row' = [row EXCEPT ![j] = [enable |-> e, ts |-> edits + 1, kind |-> k]]
          PROVE  row' \in [Id -> DatabaseRow]
      <4>1. k \in RowKinds
        BY SupervisorAssumption DEF Kinds
      <4> QED BY <3>1, <4>1 DEF DatabaseRow
    <3>2. CASE row' = [row EXCEPT ![j].enable = ~@]
      <4>1. row[j] \in DatabaseRow /\ [row[j] EXCEPT !.enable = ~@] \in DatabaseRow
        BY DEF DatabaseRow
      <4> QED BY <3>2, <4>1
    <3> QED BY <1>11, <3>1, <3>2 DEF Edit
  <2> QED BY <2>1, <2>2
<1>12. CASE Disconnect
  BY <1>12 DEF Disconnect, daemonVars
<1>13. ASSUME NEW s \in Shell, Script(s) PROVE SupTypeOK'
  BY <1>13 DEF Script, databaseVars, daemonVars
<1>14. ASSUME NEW q \in Pid, Exits(q) PROVE SupTypeOK'
  BY <1>14 DEF Exits, databaseVars, daemonVars
<1> QED
  BY <1>1, <1>4, <1>5, <1>6, <1>7, <1>8, <1>9, <1>10, <1>11, <1>12, <1>13, <1>14, SupSteps

-----------------------------------------------------------------------------
(* What the steps do to the scripts                                        *)

\* A step leaves the scripts alone, hands the child shell a command, starts
\* the service, or is one of a shell or of a process.
LEMMA ScriptEffects ==
  ASSUME SupTypeOK, SupNext
  PROVE  \/ UNCHANGED <<scriptVars, child>>
         \/ /\ UNCHANGED child
            /\ \E cmd \in {"start", "stop"}, id \in Id : Invoke(child, cmd, id)
         \/ ServiceStart
         \/ \E s \in Shell : ScriptStep(s) /\ UNCHANGED child
         \/ \E q \in Pid : Gone(q) /\ UNCHANGED child
<1> DEFINE Goal == \/ UNCHANGED <<scriptVars, child>>
                   \/ /\ UNCHANGED child
                      /\ \E cmd \in {"start", "stop"}, id \in Id : Invoke(child, cmd, id)
                   \/ ServiceStart
                   \/ \E s \in Shell : ScriptStep(s) /\ UNCHANGED child
                   \/ \E q \in Pid : Gone(q) /\ UNCHANGED child
<1>1. CASE OldMissing \/ StopAll
  <2>1. list[i].id \in Id /\ Invoke(child, "stop", list[i].id) /\ UNCHANGED child
    BY <1>1, RowsOf DEF OldMissing, StopAll, System, SupTypeOK
  <2> QED BY <2>1
<1>2. CASE NewRow
  <2>1. bd[i].id \in Id
    BY <1>2, RowsOf DEF NewRow, SupTypeOK
  <2>2. UNCHANGED <<scriptVars, child>> \/ (Invoke(child, "start", bd[i].id) /\ UNCHANGED child)
    BY <1>2 DEF NewRow, System, Advance
  <2> QED BY <2>1, <2>2
<1>3. ASSUME NEW s \in Shell, Script(s) PROVE Goal
  BY <1>3 DEF Script, daemonVars
<1>4. ASSUME NEW q \in Pid, Exits(q) PROVE Goal
  BY <1>4 DEF Exits, daemonVars
<1>5. CASE \/ Poll \/ OldDone \/ StopReturns \/ OldSame \/ OldNewer
           \/ NewKnown \/ StartReturns \/ NewDone
           \/ Leave \/ StopOneReturns \/ Quit \/ SigHandler \/ Killed
  BY <1>5
  DEF Poll, OldDone, StopReturns, OldSame, OldNewer, NewKnown, StartReturns, NewDone,
      Leave, StopOneReturns, Quit, SigHandler, Killed, Advance
<1>6. CASE Disconnect \/ \E j \in Id : Edit(j)
  BY <1>6 DEF Disconnect, Edit, daemonVars
<1> QED BY SupSteps, <1>1, <1>2, <1>3, <1>4, <1>5, <1>6

LEMMA CaseKept == ASSUME SupNext PROVE given' = given
<1>1. \A id, s : SetStatus(id, s) => given' = given
  BY DEF SetStatus
<1> QED
  BY SupSteps, <1>1
  DEF Poll, OldDone, OldMissing, StopReturns, OldSame, OldNewer, NewKnown, NewRow, StartReturns,
      NewDone, Leave, StopAll, StopOneReturns, Quit, SigHandler, ServiceStart, Killed, Edit,
      Disconnect, Script, Exits, databaseVars

-----------------------------------------------------------------------------
(* Where the processes are accounted for                                   *)

\* Whoever plays j can be found again: by the lock file, or by the start that
\* is under way.
Known(j) ==
  Serving(j) # {} => j \in lockfile \/ (at[child] \in {"sleep", "touch"} /\ provider[child] = j)

\* Once the pid file is written, it has all of them.  The shell that is about
\* to make the lock file may be one that an earlier daemon left.
InPidFile(j) ==
  j \in lockfile \/ (\E s \in Shell : at[s] = "touch" /\ provider[s] = j)
    => Serving(j) \subseteq pidfile[j] \/ (at[child] = "sleep" /\ provider[child] = j)

\* An earlier daemon's shells can only finish a start they had begun, and
\* there are none of them if no daemon is killed.
Leftovers ==
  /\ \A s \in Shell \ {child} : at[s] \in {"exited", "sleep", "touch"}
  /\ at[child] # "restart"

FilesMatch ==
  /\ \A s \in Shell \ {child} : at[s] = "exited"
  /\ \A j \in lockfile : pidfile[j] # NoFile
  /\ at[child] = "touch" => pidfile[provider[child]] # NoFile

ScriptInv ==
  /\ ScriptTypeOK
  /\ OneProcess
  /\ Leftovers
  /\ \A j \in Id : Known(j) /\ InPidFile(j)

LEMMA ScriptInvInit ==
  ASSUME SupInit PROVE ScriptInv /\ FilesMatch
<1>1. ScriptTypeOK /\ OneProcess
  BY DEF SupInit, ScriptInit, ScriptTypeOK, OneProcess, NoFile
<1>2. Leftovers /\ FilesMatch
  BY DEF SupInit, ScriptInit, Leftovers, FilesMatch
<1>3. \A j \in Id : Serving(j) = {}
  BY ScriptAssumption DEF SupInit, ScriptInit, Serving, Live
<1> QED BY <1>1, <1>2, <1>3 DEF ScriptInv, Known, InPidFile

\* A command begins: nothing else changes.
LEMMA InvokeKeeps ==
  ASSUME ScriptInv, child \in Shell, UNCHANGED child,
         NEW cmd \in {"start", "stop"}, NEW id \in Id, Invoke(child, cmd, id)
  PROVE  /\ ScriptInv'
         /\ FilesMatch => FilesMatch'
         /\ \A j \in Id : Serving(j)' = Serving(j)
         /\ at[child] = "exited" /\ at'[child] = cmd /\ provider'[child] = id
<1>1. /\ ScriptTypeOK /\ at[child] = "exited"
      /\ at' = [at EXCEPT ![child] = cmd] /\ provider' = [provider EXCEPT ![child] = id]
      /\ UNCHANGED <<owner, dying, lockfile, pidfile, ret>>
  BY DEF ScriptInv, Invoke
<1>2. \A j \in Id : Serving(j)' = Serving(j)
  BY <1>1 DEF Serving, Live
<1>3. /\ at'[child] = cmd /\ provider'[child] = id
      /\ \A s \in Shell \ {child} : at'[s] = at[s] /\ provider'[s] = provider[s]
  BY <1>1 DEF ScriptTypeOK
<1>4. ScriptTypeOK' /\ OneProcess'
  BY <1>1 DEF ScriptInv, ScriptTypeOK, OneProcess, Commands
<1>5. Leftovers'
  BY <1>3 DEF ScriptInv, Leftovers
<1>6. \A j \in Id : Known(j)' /\ InPidFile(j)'
  <2> SUFFICES ASSUME NEW j \in Id PROVE Known(j)' /\ InPidFile(j)'
    OBVIOUS
  <2>1. Known(j) /\ InPidFile(j)
    BY DEF ScriptInv
  <2>2. Known(j)'
    BY <1>1, <1>2, <1>3, <2>1 DEF Known
  <2>3. InPidFile(j)'
    <3>1. (\E s \in Shell : at'[s] = "touch" /\ provider'[s] = j)
            => \E s \in Shell : at[s] = "touch" /\ provider[s] = j
      BY <1>3
    <3> QED BY <1>1, <1>2, <1>3, <2>1, <3>1 DEF InPidFile
  <2> QED BY <2>2, <2>3
<1>7. FilesMatch => FilesMatch'
  BY <1>1, <1>3 DEF FilesMatch
<1> QED BY <1>1, <1>2, <1>3, <1>4, <1>5, <1>6, <1>7 DEF ScriptInv

\* The service starts: whoever plays is told to stop.
LEMMA ServiceStartKeeps ==
  ASSUME ScriptInv, ServiceStart
  PROVE  /\ ScriptInv'
         /\ (\A s \in Shell : at[s] = "exited") => FilesMatch'
         /\ \A j \in Id : Serving(j)' = {}
         /\ child' \in Shell /\ at'[child'] = "exited"
<1>1. /\ ScriptTypeOK /\ OneProcess
      /\ dying' = {q \in Pid : owner[q] # NoId} /\ lockfile' = {} /\ pidfile' = [j \in Id |-> NoFile]
      /\ UNCHANGED <<owner, at, provider, ret>>
      /\ child' \in Shell /\ at[child'] = "exited"
      /\ \A s \in Shell : at[s] \in {"exited", "sleep"}
  BY DEF ScriptInv, ServiceStart
<1>2. \A j \in Id : Serving(j)' = {}
  BY <1>1, ScriptAssumption DEF Serving, Live
<1>3. ScriptTypeOK'
  BY <1>1 DEF ScriptTypeOK, NoFile
<1>4. OneProcess'
  BY <1>1 DEF OneProcess
<1>5. Leftovers'
  BY <1>1 DEF Leftovers
<1>6. \A j \in Id : Known(j)' /\ InPidFile(j)'
  BY <1>2 DEF Known, InPidFile
<1>7. (\A s \in Shell : at[s] = "exited") => FilesMatch'
  BY <1>1 DEF FilesMatch
<1> QED BY <1>1, <1>2, <1>3, <1>4, <1>5, <1>6, <1>7 DEF ScriptInv

LEMMA GoneKeeps ==
  ASSUME ScriptInv, child \in Shell, UNCHANGED child, NEW q \in Pid, Gone(q)
  PROVE  /\ ScriptInv'
         /\ FilesMatch => FilesMatch'
         /\ \A j \in Id : Serving(j)' \subseteq Serving(j)
<1>1. /\ ScriptTypeOK /\ OneProcess
      /\ owner' = [owner EXCEPT ![q] = NoId] /\ dying' = dying \ {q}
      /\ UNCHANGED <<lockfile, pidfile, at, provider, ret>>
  BY DEF ScriptInv, Gone
<1>2. \A j \in Id : Serving(j)' \subseteq Serving(j)
  BY <1>1, ScriptAssumption DEF Serving, Live, ScriptTypeOK
<1>3. ScriptTypeOK' /\ OneProcess'
  BY <1>1, ScriptAssumption DEF ScriptTypeOK, OneProcess
<1>4. Leftovers' /\ (FilesMatch => FilesMatch')
  BY <1>1 DEF ScriptInv, Leftovers, FilesMatch
<1>5. \A j \in Id : Known(j)' /\ InPidFile(j)'
  BY <1>1, <1>2 DEF ScriptInv, Known, InPidFile
<1> QED BY <1>2, <1>3, <1>4, <1>5 DEF ScriptInv

\* Only the child shell launches, and only a provider that nobody plays.
LEMMA LaunchKeeps ==
  ASSUME ScriptInv, child \in Shell, UNCHANGED child, NEW s \in Shell, Launch(s)
  PROVE  /\ ScriptInv'
         /\ FilesMatch => FilesMatch'
         /\ at[child] = "start" /\ at'[child] \in {"sleep", "exited"}
         /\ provider' = provider
         /\ \A j \in Id \ {provider[child]} : Serving(j)' \subseteq Serving(j)
<1>t. /\ ScriptTypeOK /\ OneProcess /\ Leftovers /\ at[s] = "start"
      /\ \A j \in Id : Known(j) /\ InPidFile(j)
  BY DEF ScriptInv, Launch
<1>c. s = child
  BY <1>t DEF Leftovers
<1>p. provider[child] \in Id
  BY <1>t DEF ScriptTypeOK
<1> DEFINE p == provider[child]
<1>1. CASE p \in lockfile
  <2>1. /\ at' = [at EXCEPT ![child] = "exited"] /\ ret' = [ret EXCEPT ![child] = 1]
        /\ UNCHANGED <<owner, dying, lockfile, pidfile, provider>>
    BY <1>1, <1>c DEF Launch, Exit, Goto
  <2>2. at'[child] = "exited" /\ \A t \in Shell \ {child} : at'[t] = at[t]
    BY <1>t, <2>1 DEF ScriptTypeOK
  <2>3. ScriptTypeOK' /\ OneProcess'
    BY <1>t, <2>1 DEF ScriptTypeOK, OneProcess
  <2>4. Leftovers' /\ (FilesMatch => FilesMatch')
    BY <1>t, <2>1, <2>2 DEF Leftovers, FilesMatch
  <2>5. \A j \in Id : Serving(j)' = Serving(j)
    BY <2>1 DEF Serving, Live
  <2>6. \A j \in Id : Known(j)' /\ InPidFile(j)'
    BY <1>t, <1>c, <2>1, <2>2, <2>5 DEF Known, InPidFile
  <2> QED BY <1>t, <1>c, <2>1, <2>2, <2>3, <2>4, <2>5, <2>6 DEF ScriptInv
<1>2. CASE p \notin lockfile
  <2>1. PICK q \in Pid : owner[q] = NoId /\ owner' = [owner EXCEPT ![q] = p]
    BY <1>2, <1>c DEF Launch, Exit, Goto
  <2>2. UNCHANGED <<dying, lockfile, pidfile, provider, ret>> /\ at' = [at EXCEPT ![child] = "sleep"]
    BY <1>2, <1>c DEF Launch, Exit, Goto
  <2>3. at'[child] = "sleep" /\ \A t \in Shell \ {child} : at'[t] = at[t]
    BY <1>t, <2>2 DEF ScriptTypeOK
  <2>4. ScriptTypeOK'
    BY <1>t, <1>p, <2>1, <2>2, ScriptAssumption DEF ScriptTypeOK
  <2>5. Serving(p) = {}
    BY <1>t, <1>c, <1>p, <1>2 DEF Known
  <2>6. Serving(p)' \subseteq {q}
    BY <1>t, <2>1, <2>2, <2>5, ScriptAssumption DEF Serving, Live, ScriptTypeOK
  <2>7. \A j \in Id : j # p => Serving(j)' = Serving(j)
    BY <1>t, <2>1, <2>2, ScriptAssumption DEF Serving, Live, ScriptTypeOK
  <2>8. OneProcess'
    <3> SUFFICES ASSUME NEW q1 \in Pid, NEW r1 \in Pid,
                        owner'[q1] # NoId, owner'[q1] = owner'[r1],
                        q1 \notin dying', r1 \notin dying'
                 PROVE  q1 = r1
      BY DEF OneProcess
    <3>1. CASE owner'[q1] = p
      <4>1. q1 \in Serving(p)' /\ r1 \in Serving(p)'
        BY <2>2, <3>1 DEF Serving, Live
      <4> QED BY <2>6, <4>1
    <3>2. CASE owner'[q1] # p
      BY <2>1, <2>2, <3>2, <1>t DEF OneProcess, ScriptTypeOK
    <3> QED BY <3>1, <3>2
  <2>9. Leftovers' /\ (FilesMatch => FilesMatch')
    BY <1>t, <2>2, <2>3 DEF Leftovers, FilesMatch
  <2>10. \A j \in Id : Known(j)' /\ InPidFile(j)'
    <3> SUFFICES ASSUME NEW j \in Id PROVE Known(j)' /\ InPidFile(j)'
      OBVIOUS
    <3>1. CASE j = p
      BY <1>2, <2>2, <2>3, <3>1 DEF Known, InPidFile
    <3>2. CASE j # p
      <4>1. Known(j) /\ InPidFile(j) /\ Serving(j)' = Serving(j)
        BY <1>t, <2>7, <3>2
      <4>2. Known(j)'
        BY <1>t, <1>c, <2>2, <2>3, <4>1 DEF Known
      <4>3. (\E t \in Shell : at'[t] = "touch" /\ provider'[t] = j)
              => \E t \in Shell : at[t] = "touch" /\ provider[t] = j
        BY <2>2, <2>3
      <4>4. at[child] # "sleep"
        BY <1>t, <1>c
      <4>5. InPidFile(j)'
        BY <2>2, <4>1, <4>3, <4>4 DEF InPidFile
      <4> QED BY <4>2, <4>5
    <3> QED BY <3>1, <3>2
  <2> QED BY <1>t, <1>c, <2>2, <2>3, <2>4, <2>7, <2>8, <2>9, <2>10 DEF ScriptInv
<1> QED BY <1>1, <1>2

\* The pid file gets everyone who plays the provider, whichever shell writes it.
LEMMA FindPidKeeps ==
  ASSUME ScriptInv, child \in Shell, UNCHANGED child, NEW s \in Shell, FindPid(s), Hides = {}
  PROVE  /\ ScriptInv'
         /\ FilesMatch => FilesMatch'
         /\ \/ at'[child] = at[child]
            \/ at[child] = "sleep" /\ at'[child] \in {"touch", "exited"}
         /\ provider' = provider
         /\ \A j \in Id : Serving(j)' = Serving(j)
<1> DEFINE p == provider[s]
<1>t. /\ ScriptTypeOK /\ OneProcess /\ Leftovers /\ at[s] = "sleep" /\ p \in Id
      /\ \A j \in Id : Known(j) /\ InPidFile(j)
  BY DEF ScriptInv, FindPid, ScriptTypeOK
<1>u. UNCHANGED <<owner, dying, lockfile, provider>>
  BY DEF FindPid, Exit, Goto
<1>f. Serving(p) \subseteq Found(p) /\ Found(p) \subseteq Pid
  BY <1>t, ScriptAssumption DEF Serving, Live, Found
<1>s. \A j \in Id : Serving(j)' = Serving(j)
  BY <1>u DEF Serving, Live
<1>1. CASE Found(p) = {}
  <2>1. at' = [at EXCEPT ![s] = "exited"] /\ ret' = [ret EXCEPT ![s] = 1] /\ pidfile' = pidfile
    BY <1>1 DEF FindPid, Exit, Goto
  <2>2. at'[s] = "exited" /\ \A t \in Shell \ {s} : at'[t] = at[t]
    BY <1>t, <2>1 DEF ScriptTypeOK
  <2>3. ScriptTypeOK' /\ OneProcess'
    BY <1>t, <1>u, <2>1 DEF ScriptTypeOK, OneProcess
  <2>4. Leftovers' /\ (FilesMatch => FilesMatch')
    BY <1>t, <1>u, <2>1, <2>2 DEF Leftovers, FilesMatch
  <2>5. Serving(p) = {}
    BY <1>1, <1>f
  <2>6. \A j \in Id : Known(j)' /\ InPidFile(j)'
    <3> SUFFICES ASSUME NEW j \in Id, j # p PROVE Known(j)' /\ InPidFile(j)'
      BY <1>s, <2>5, <1>t DEF Known, InPidFile
    <3>1. Known(j) /\ InPidFile(j) /\ Serving(j)' = Serving(j)
      BY <1>t, <1>s
    <3>2. Known(j)'
      BY <1>u, <2>2, <3>1 DEF Known
    <3>3. (\E t \in Shell : at'[t] = "touch" /\ provider'[t] = j)
            => \E t \in Shell : at[t] = "touch" /\ provider[t] = j
      BY <1>u, <2>2
    <3>4. InPidFile(j)'
      BY <1>u, <2>1, <2>2, <3>1, <3>3 DEF InPidFile
    <3> QED BY <3>2, <3>4
  <2> QED BY <1>t, <1>u, <1>s, <2>2, <2>3, <2>4, <2>6 DEF ScriptInv
<1>2. CASE Found(p) # {}
  <2>1. at' = [at EXCEPT ![s] = "touch"] /\ ret' = ret /\ pidfile' = [pidfile EXCEPT ![p] = Found(p)]
    BY <1>2 DEF FindPid, Exit, Goto
  <2>2. at'[s] = "touch" /\ \A t \in Shell \ {s} : at'[t] = at[t]
    BY <1>t, <2>1 DEF ScriptTypeOK
  <2>3. pidfile'[p] = Found(p) /\ \A j \in Id : j # p => pidfile'[j] = pidfile[j]
    BY <1>t, <2>1 DEF ScriptTypeOK
  <2>4. ScriptTypeOK' /\ OneProcess'
    BY <1>t, <1>u, <1>f, <2>1 DEF ScriptTypeOK, OneProcess
  <2>5. Leftovers' /\ (FilesMatch => FilesMatch')
    BY <1>t, <1>u, <1>2, <2>2, <2>3 DEF Leftovers, FilesMatch, NoFile, ScriptTypeOK
  <2>6. \A j \in Id : Known(j)' /\ InPidFile(j)'
    <3> SUFFICES ASSUME NEW j \in Id PROVE Known(j)' /\ InPidFile(j)'
      OBVIOUS
    <3>1. Known(j) /\ InPidFile(j) /\ Serving(j)' = Serving(j)
      BY <1>t, <1>s
    <3>2. Known(j)'
      BY <1>u, <2>2, <3>1 DEF Known
    <3>3. CASE j = p
      <4>1. Serving(j)' \subseteq pidfile'[j]
        BY <1>f, <2>3, <3>1, <3>3
      <4> QED BY <3>2, <4>1 DEF InPidFile
    <3>4. CASE j # p
      <4>1. (\E t \in Shell : at'[t] = "touch" /\ provider'[t] = j)
              => \E t \in Shell : at[t] = "touch" /\ provider[t] = j
        BY <1>u, <2>2, <3>4
      <4> QED BY <1>u, <2>2, <2>3, <3>1, <3>2, <3>4, <4>1 DEF InPidFile
    <3> QED BY <3>2, <3>3, <3>4
  <2> QED BY <1>t, <1>u, <1>s, <2>2, <2>4, <2>5, <2>6 DEF ScriptInv
<1> QED BY <1>1, <1>2

LEMMA TouchKeeps ==
  ASSUME ScriptInv, child \in Shell, UNCHANGED child, NEW s \in Shell, Touch(s)
  PROVE  /\ ScriptInv'
         /\ FilesMatch => FilesMatch'
         /\ \/ at'[child] = at[child]
            \/ at[child] = "touch" /\ at'[child] = "exited"
         /\ provider' = provider
         /\ \A j \in Id : Serving(j)' = Serving(j)
<1> DEFINE p == provider[s]
<1>1. /\ ScriptTypeOK /\ OneProcess /\ Leftovers /\ at[s] = "touch" /\ p \in Id
      /\ \A j \in Id : Known(j) /\ InPidFile(j)
      /\ lockfile' = lockfile \cup {p}
      /\ at' = [at EXCEPT ![s] = "exited"] /\ ret' = [ret EXCEPT ![s] = 0]
      /\ UNCHANGED <<owner, dying, pidfile, provider>>
  BY DEF ScriptInv, ScriptTypeOK, Touch, Exit
<1>2. at'[s] = "exited" /\ \A t \in Shell \ {s} : at'[t] = at[t]
  BY <1>1 DEF ScriptTypeOK
<1>3. ScriptTypeOK' /\ OneProcess'
  BY <1>1 DEF ScriptTypeOK, OneProcess
<1>4. Leftovers'
  BY <1>1, <1>2 DEF Leftovers
<1>5. FilesMatch => FilesMatch'
  <2> SUFFICES ASSUME FilesMatch PROVE FilesMatch'
    OBVIOUS
  <2>1. s = child
    BY <1>1 DEF FilesMatch
  <2> QED BY <1>1, <1>2, <2>1 DEF FilesMatch
<1>6. \A j \in Id : Serving(j)' = Serving(j)
  BY <1>1 DEF Serving, Live
<1>7. \A j \in Id : Known(j)' /\ InPidFile(j)'
  <2> SUFFICES ASSUME NEW j \in Id PROVE Known(j)' /\ InPidFile(j)'
    OBVIOUS
  <2>1. Known(j) /\ InPidFile(j) /\ Serving(j)' = Serving(j)
    BY <1>1, <1>6
  <2>2. Known(j)'
    BY <1>1, <1>2, <2>1 DEF Known
  <2>3. j \in lockfile' \/ (\E t \in Shell : at'[t] = "touch" /\ provider'[t] = j)
          => j \in lockfile \/ \E t \in Shell : at[t] = "touch" /\ provider[t] = j
    BY <1>1, <1>2
  <2>4. InPidFile(j)'
    BY <1>1, <1>2, <2>1, <2>3 DEF InPidFile
  <2> QED BY <2>2, <2>4
<1> QED BY <1>1, <1>2, <1>3, <1>4, <1>5, <1>6, <1>7 DEF ScriptInv

\* Once "stop" has run, nobody plays the provider, whether it failed or not.
LEMMA KillKeeps ==
  ASSUME ScriptInv, child \in Shell, UNCHANGED child, NEW s \in Shell, Kill(s)
  PROVE  /\ ScriptInv'
         /\ FilesMatch => FilesMatch'
         /\ at[child] = "stop" /\ at'[child] = "exited"
         /\ provider' = provider
         /\ \A j \in Id : Serving(j)' \subseteq Serving(j)
         /\ Serving(provider[child])' = {}
<1> DEFINE p == provider[s]
<1>1. /\ ScriptTypeOK /\ OneProcess /\ Leftovers /\ p \in Id
      /\ \A j \in Id : Known(j) /\ InPidFile(j)
      /\ owner' = owner /\ provider' = provider
  BY DEF ScriptInv, ScriptTypeOK, Kill, Exit, Goto
<1>2. s = child /\ at[s] = "stop"
  BY <1>1 DEF Kill, Leftovers
<1>3. at' = [at EXCEPT ![s] = "exited"] /\ ret' \in [Shell -> {0, 1}]
  BY <1>1, <1>2 DEF Kill, Exit, ScriptTypeOK
<1>4. at'[s] = "exited" /\ \A t \in Shell \ {s} : at'[t] = at[t]
  BY <1>1, <1>3 DEF ScriptTypeOK
<1>5. dying \subseteq dying' /\ dying' \subseteq {q \in Pid : owner[q] # NoId}
  BY <1>1 DEF Kill, ScriptTypeOK
<1>6. \A j \in Id : Serving(j)' \subseteq Serving(j)
  BY <1>1, <1>5 DEF Serving, Live
<1>7. Serving(p)' = {}
  <2>1. CASE p \in lockfile
    <3>1. Serving(p) \subseteq pidfile[p]
      BY <1>1, <1>2, <2>1 DEF InPidFile
    <3>2. dying' = dying \cup {q \in pidfile[p] : owner[q] # NoId}
      BY <2>1 DEF Kill
    <3> QED BY <1>1, <3>1, <3>2, ScriptAssumption DEF Serving, Live
  <2>2. CASE p \notin lockfile
    BY <1>1, <1>2, <1>6, <2>2 DEF Known
  <2> QED BY <2>1, <2>2
<1>8. \/ UNCHANGED <<lockfile, pidfile>>
      \/ lockfile' = lockfile \ {p} /\ pidfile' = [pidfile EXCEPT ![p] = NoFile]
  BY DEF Kill
<1>9. ScriptTypeOK' /\ OneProcess'
  BY <1>1, <1>3, <1>5, <1>8 DEF ScriptTypeOK, OneProcess, NoFile
<1>10. Leftovers'
  BY <1>1, <1>2, <1>4 DEF Leftovers
<1>11. FilesMatch => FilesMatch'
  BY <1>1, <1>2, <1>4, <1>8 DEF FilesMatch, ScriptTypeOK
<1>12. \A j \in Id : Known(j)' /\ InPidFile(j)'
  <2> SUFFICES ASSUME NEW j \in Id, j # p PROVE Known(j)' /\ InPidFile(j)'
    BY <1>1, <1>7 DEF Known, InPidFile
  <2>1. Known(j) /\ InPidFile(j) /\ Serving(j)' \subseteq Serving(j)
    BY <1>1, <1>6
  <2>2. (j \in lockfile' <=> j \in lockfile) /\ pidfile'[j] = pidfile[j]
    BY <1>1, <1>8 DEF ScriptTypeOK
  <2>3. (\E t \in Shell : at'[t] = "touch" /\ provider'[t] = j)
          => \E t \in Shell : at[t] = "touch" /\ provider[t] = j
    BY <1>1, <1>4
  <2>4. at[child] # "sleep" /\ at[child] # "touch"
    BY <1>2
  <2>5. Known(j)'
    BY <2>1, <2>2, <2>4 DEF Known
  <2>6. InPidFile(j)'
    BY <2>1, <2>2, <2>3, <2>4 DEF InPidFile
  <2> QED BY <2>5, <2>6
<1> QED BY <1>1, <1>2, <1>4, <1>6, <1>7, <1>9, <1>10, <1>11, <1>12 DEF ScriptInv

\* A step of a shell seen by the daemon: where its own shell may go, and that
\* nobody but a provider it is starting begins to play.
ChildMoves ==
  /\ provider' = provider
  /\ \/ at'[child] = at[child]
     \/ at[child] = "start" /\ at'[child] \in {"sleep", "exited"}
     \/ at[child] = "sleep" /\ at'[child] \in {"touch", "exited"}
     \/ at[child] = "touch" /\ at'[child] = "exited"
     \/ at[child] = "stop" /\ at'[child] = "exited" /\ Serving(provider[child])' = {}
  /\ \A j \in Id : Serving(j)' \subseteq Serving(j) \/ (at[child] = "start" /\ j = provider[child])
  /\ at[child] = "start" => at'[child] \in {"start", "sleep", "exited"}

LEMMA ScriptStepKeeps ==
  ASSUME ScriptInv, child \in Shell, UNCHANGED child, NEW s \in Shell, ScriptStep(s), Hides = {}
  PROVE  ScriptInv' /\ (FilesMatch => FilesMatch') /\ ChildMoves
<1>1. CASE Launch(s)
  BY <1>1, LaunchKeeps DEF ChildMoves
<1>2. CASE FindPid(s)
  BY <1>2, FindPidKeeps DEF ChildMoves
<1>3. CASE Touch(s)
  BY <1>3, TouchKeeps DEF ChildMoves
<1>4. CASE Kill(s)
  BY <1>4, KillKeeps DEF ChildMoves
<1> QED BY <1>1, <1>2, <1>3, <1>4 DEF ScriptStep

-----------------------------------------------------------------------------
(* The daemon and the streams that play                                    *)

Stages == {"down", "loop", "old", "stop", "new", "start", "stopAll", "stopOne"}

\* What the script does for the daemon at each of its stages: a script that
\* returned from "stop" leaves nobody playing.
Called ==
  /\ sup \in Stages
  /\ sup \in {"loop", "old", "new", "stopAll"} => at[child] = "exited"
  /\ sup = "down" /\ "killed" \notin Faults => at[child] = "exited"
  /\ sup \in {"loop", "stopAll", "stopOne", "down"} => bd = <<>> /\ action = FALSE
  /\ sup \in {"loop", "down"} => i = 1
  /\ sup = "down" => list = <<>>
  /\ sup \in {"stop", "stopOne"} =>
       /\ i \in 1..Len(list) /\ provider[child] = list[i].id
       /\ at[child] \in {"stop", "exited"}
       /\ at[child] = "exited" => Serving(list[i].id) = {}
  /\ sup = "start" =>
       /\ i \in 1..Len(bd) /\ provider[child] = bd[i].id /\ bd[i].id \notin Ids(list)
       /\ at[child] \in {"start", "sleep", "touch", "exited"}

\* Which list has the streams that play: streamingList until the round is half
\* done, bdList then, and both if nothing has changed.
Listed ==
  /\ sup \in {"loop", "old", "stop"} => \A j \in Id : Serving(j) # {} => j \in Ids(list)
  /\ sup \in {"old", "stop"} =>
       \A k \in 1..Len(list) :
         k < i => list[k].id \in Ids(bd) \/ (Serving(list[k].id) = {} /\ action)
  /\ sup = "stop" => list[i].id \notin Ids(bd)
  /\ sup \in {"new", "start"} => \A j \in Id : Serving(j) # {} => j \in Ids(bd)
  /\ sup \in {"new", "start"} /\ ~action => Ids(list) \subseteq Ids(bd)
  /\ sup = "new" /\ ~action => \A j \in Id : Serving(j) # {} => j \in Ids(list)
  /\ sup = "start" /\ ~action =>
       \A j \in Id : Serving(j) # {} => j \in Ids(list) \/ j = bd[i].id
  /\ sup \in {"stopAll", "stopOne"} =>
       \A j \in Id : Serving(j) # {} => \E k \in 1..Len(list) : k >= i /\ list[k].id = j
  /\ sup = "down" /\ "killed" \notin Faults => \A j \in Id : Serving(j) = {}

\* A provider that is STOPPED is not about to be launched either.
Stopped ==
  connected => \A j \in Id : status[j] = "STOPPED" =>
                 Serving(j) = {} /\ ~(at[child] = "start" /\ provider[child] = j)

DaemonInv == Called /\ Listed /\ Stopped

LEMMA DaemonInvInit ==
  ASSUME SupInit PROVE DaemonInv
<1>1. \A j \in Id : Serving(j) = {}
  BY ScriptAssumption DEF SupInit, ScriptInit, Serving, Live
<1>2. Called
  BY Zenon DEF SupInit, ScriptInit, Called, Stages
<1>3. Listed
  <2>1. sup = "down"
    BY Zenon DEF SupInit
  <2> QED BY <1>1, <2>1 DEF Listed
<1>4. Stopped
  BY DEF SupInit, Stopped
<1> QED BY <1>2, <1>3, <1>4 DEF DaemonInv

\* A step of a shell or of a process, the daemon waiting.
Waiting == UNCHANGED <<databaseVars, table, daemonVars>>

LEMMA WaitingKeeps ==
  ASSUME SupTypeOK, ScriptTypeOK, DaemonInv, Waiting, ChildMoves
  PROVE  DaemonInv'
<1>1. /\ Called /\ Listed /\ Stopped
      /\ UNCHANGED <<given, status, connected, sup, list, bd, i, action, child>>
      /\ Faults' = Faults
  BY DEF DaemonInv, Waiting, databaseVars, daemonVars, Faults
<1>2. \A j \in Id : Serving(j)' # {} =>
          Serving(j) # {} \/ (at[child] = "start" /\ j = provider[child])
  BY DEF ChildMoves
<1>3. /\ provider'[child] = provider[child]
      /\ at[child] = "exited" => at'[child] = "exited"
      /\ at'[child] = "start" => at[child] = "start"
      /\ at[child] = "stop" =>
           at'[child] = "stop" \/ (at'[child] = "exited" /\ Serving(provider[child])' = {})
      /\ at[child] \in {"start", "sleep", "touch", "exited"} =>
           at'[child] \in {"start", "sleep", "touch", "exited"}
  BY DEF ChildMoves
<1>4. (\A k \in 1..Len(list) : list[k].id \in Id) /\ (\A k \in 1..Len(bd) : bd[k].id \in Id)
  BY RowsOf
<1>5. Ids(list)' = Ids(list) /\ Ids(bd)' = Ids(bd)
  BY <1>1 DEF Ids
<1>6. Called'
  <2>1. ASSUME sup \in {"stop", "stopOne"}
        PROVE  /\ i \in 1..Len(list) /\ provider'[child] = list[i].id
               /\ at'[child] \in {"stop", "exited"}
               /\ at'[child] = "exited" => Serving(list[i].id)' = {}
    <3>1. /\ i \in 1..Len(list) /\ provider[child] = list[i].id /\ list[i].id \in Id
          /\ at[child] \in {"stop", "exited"}
          /\ at[child] = "exited" => Serving(list[i].id) = {}
      BY <1>1, <1>4, <2>1 DEF Called
    <3> QED BY <1>1, <1>2, <1>3, <3>1
  <2>2. ASSUME sup = "start"
        PROVE  /\ i \in 1..Len(bd) /\ provider'[child] = bd[i].id /\ bd[i].id \notin Ids(list)
               /\ at'[child] \in {"start", "sleep", "touch", "exited"}
    BY <1>1, <1>3, <2>2 DEF Called
  <2>3. sup \in {"loop", "old", "new", "stopAll"} => at'[child] = "exited"
    BY <1>1, <1>3 DEF Called
  <2>4. sup = "down" /\ "killed" \notin Faults => at'[child] = "exited"
    BY <1>1, <1>3 DEF Called
  <2>5. /\ sup \in Stages
        /\ sup \in {"loop", "stopAll", "stopOne", "down"} => bd = <<>> /\ action = FALSE
        /\ sup \in {"loop", "down"} => i = 1
        /\ sup = "down" => list = <<>>
    BY <1>1 DEF Called
  <2> QED BY <1>1, <1>5, <2>1, <2>2, <2>3, <2>4, <2>5 DEF Called
<1>7. Listed'
  <2>1. ASSUME at[child] = "start"
        PROVE  \/ sup = "start" /\ provider[child] = bd[i].id /\ bd[i].id \in Ids(bd)
               \/ sup = "down" /\ "killed" \in Faults
    BY <1>1, <2>1 DEF Called, Stages, Ids
  <2>2. CASE sup \in {"start", "new"}
    BY <1>1, <1>2, <1>5, <2>1, <2>2 DEF Listed
  <2>3. CASE sup \in {"stop", "old", "loop"}
    <3>1. \A j \in Id : Serving(j)' # {} => Serving(j) # {}
      BY <1>2, <2>1, <2>3
    <3> QED BY <1>1, <1>4, <1>5, <2>3, <3>1 DEF Listed
  <2>4. CASE sup \in {"stopAll", "stopOne", "down"}
    BY <1>1, <1>2, <2>1, <2>4 DEF Listed
  <2> QED BY <1>1, <2>2, <2>3, <2>4 DEF Called, Stages
<1>8. Stopped'
  BY <1>1, <1>2, <1>3 DEF Stopped
<1> QED BY <1>6, <1>7, <1>8 DEF DaemonInv

LEMMA ScriptsSame ==
  ASSUME UNCHANGED <<scriptVars, child>>
  PROVE  /\ at' = at /\ provider' = provider /\ at'[child'] = at[child]
         /\ provider'[child'] = provider[child] /\ child' = child
         /\ \A j : Serving(j)' = Serving(j)
         /\ \A j \in Id : Known(j)' = Known(j) /\ InPidFile(j)' = InPidFile(j)
BY DEF scriptVars, Serving, Live, Known, InPidFile

\* A signal, an edit and the loss of the database change nothing for it yet.
LEMMA OutsideKeeps ==
  ASSUME DaemonInv, UNCHANGED <<scriptVars, sup, list, bd, i, action, child, given, status>>,
         connected' => connected
  PROVE  DaemonInv'
<1>1. Faults' = Faults /\ Ids(list)' = Ids(list) /\ Ids(bd)' = Ids(bd)
  BY DEF Faults, Ids
<1>2. Called'
  BY <1>1, ScriptsSame DEF DaemonInv, Called
<1>3. Listed'
  BY <1>1, ScriptsSame DEF DaemonInv, Listed
<1>4. Stopped'
  BY <1>1, ScriptsSame DEF DaemonInv, Stopped
<1> QED BY <1>2, <1>3, <1>4 DEF DaemonInv

\* The steps of a round that only look.
LEMMA LookingKeeps ==
  ASSUME SupTypeOK, DaemonInv, Poll \/ OldDone \/ OldSame \/ NewKnown \/ NewDone
  PROVE  DaemonInv'
<1>1. /\ Called /\ Listed /\ Stopped
      /\ UNCHANGED <<scriptVars, databaseVars, child>> /\ i \in Nat \ {0}
  BY DEF DaemonInv, Poll, OldDone, OldSame, NewKnown, NewDone, Advance, SupTypeOK
<1>2. /\ at'[child'] = at[child] /\ provider'[child'] = provider[child] /\ child' = child
      /\ \A j : Serving(j)' = Serving(j)
  BY <1>1, ScriptsSame
<1>3. Faults' = Faults /\ Stopped'
  BY <1>1, <1>2 DEF Faults, databaseVars, Stopped
<1>4. Len(list) \in Nat /\ Len(bd) \in Nat
  BY RowsOf
<1>5. CASE Poll
  <2>1. sup = "loop" /\ sup' = "old" /\ i = 1 /\ i' = 1 /\ list' = list
    BY <1>1, <1>5 DEF Poll, Called
  <2>2. Called'
    BY <1>1, <1>2, <2>1 DEF Called, Stages
  <2>3. Ids(list)' = Ids(list)
    BY <2>1 DEF Ids
  <2>4. Listed'
    BY <1>1, <1>2, <2>1, <2>3 DEF Listed
  <2> QED BY <1>3, <2>2, <2>4 DEF DaemonInv
<1>6. CASE OldDone
  <2>1. sup = "old" /\ sup' = "new" /\ i > Len(list) /\ UNCHANGED <<list, bd, action>>
    BY <1>6 DEF OldDone
  <2>2. Called'
    BY <1>1, <1>2, <2>1 DEF Called, Stages
  <2>3. Ids(list)' = Ids(list) /\ Ids(bd)' = Ids(bd)
    BY <2>1 DEF Ids
  <2>4. \A k \in 1..Len(list) : list[k].id \in Ids(bd) \/ (Serving(list[k].id) = {} /\ action)
    BY <1>1, <1>4, <2>1 DEF Listed
  <2>5. \A j \in Id : Serving(j) # {} => j \in Ids(list) /\ j \in Ids(bd)
    BY <1>1, <2>1, <2>4 DEF Listed, Ids
  <2>6. ~action => Ids(list) \subseteq Ids(bd)
    BY <2>4 DEF Ids
  <2>7. Listed'
    BY <1>2, <2>1, <2>3, <2>5, <2>6 DEF Listed
  <2> QED BY <1>3, <2>2, <2>7 DEF DaemonInv
<1>7. CASE OldSame
  <2>1. /\ sup = "old" /\ sup' = "old" /\ i' = i + 1 /\ (action => action')
        /\ UNCHANGED <<list, bd>> /\ list[i].id \in Ids(bd)
    BY <1>7 DEF OldSame, Advance
  <2>2. Called'
    BY <1>1, <1>2, <2>1 DEF Called, Stages
  <2>3. Ids(list)' = Ids(list) /\ Ids(bd)' = Ids(bd)
    BY <2>1 DEF Ids
  <2>4. ASSUME NEW k \in 1..Len(list), k < i + 1
        PROVE  list[k].id \in Ids(bd) \/ (Serving(list[k].id) = {} /\ action)
    <3>1. k < i \/ k = i
      BY <1>1, <1>4, <2>4
    <3> QED BY <1>1, <2>1, <2>4, <3>1 DEF Listed
  <2>5. \A k \in 1..Len(list) :
          k < i + 1 => list[k].id \in Ids(bd) \/ (Serving(list[k].id)' = {} /\ action')
    BY <1>2, <2>1, <2>4
  <2>6. \A j \in Id : Serving(j)' # {} => j \in Ids(list)
    BY <1>1, <1>2, <2>1 DEF Listed
  <2>7. Listed'
    BY <1>2, <2>1, <2>3, <2>5, <2>6 DEF Listed
  <2> QED BY <1>3, <2>2, <2>7 DEF DaemonInv
<1>8. CASE NewKnown
  <2>1. /\ sup = "new" /\ sup' = "new" /\ UNCHANGED <<list, bd>> /\ (~action' => ~action)
    BY <1>8 DEF NewKnown, Advance
  <2>2. Called'
    BY <1>1, <1>2, <2>1 DEF Called, Stages
  <2>3. Ids(list)' = Ids(list) /\ Ids(bd)' = Ids(bd)
    BY <2>1 DEF Ids
  <2>4. Listed'
    BY <1>1, <1>2, <2>1, <2>3 DEF Listed
  <2> QED BY <1>3, <2>2, <2>4 DEF DaemonInv
<1>9. CASE NewDone
  <2>1. /\ sup = "new" /\ sup' = "loop" /\ i' = 1 /\ bd' = <<>> /\ action' = FALSE
        /\ list' = IF action THEN bd ELSE list
    BY <1>9, Zenon DEF NewDone
  <2>2. Called'
    BY <1>1, <1>2, <2>1 DEF Called, Stages
  <2>3. \A j \in Id : Serving(j) # {} => j \in Ids(list)'
    BY <1>1, <2>1 DEF Listed, Ids
  <2>4. Listed'
    BY <1>2, <2>1, <2>3 DEF Listed
  <2> QED BY <1>3, <2>2, <2>4 DEF DaemonInv
<1> QED BY <1>5, <1>6, <1>7, <1>8, <1>9

\* Writing a status keeps Stopped when nobody plays what is said to be stopped.
LEMMA StoppedWritten ==
  ASSUME SupTypeOK, Stopped, UNCHANGED <<scriptVars, child>>,
         NEW id, NEW s \in Statuses, SetStatus(id, s),
         s = "STOPPED" => Serving(id) = {} /\ at[child] = "exited"
  PROVE  Stopped'
<1>1. /\ \A j \in Id : status'[j] = status[j] \/ (j = id /\ status'[j] = s)
      /\ connected' = connected
  BY StatusWritten
<1> QED BY <1>1, ScriptsSame DEF Stopped

LEMMA FailureStates ==
  \A s \in Failures : s \in Statuses /\ s # "STOPPED"
BY DEF Failures, Statuses

\* The steps that write what a script returned, and those of an edition.
LEMMA WritingKeeps ==
  ASSUME SupTypeOK, DaemonInv,
         StopReturns \/ StartReturns \/ StopOneReturns \/ OldNewer
  PROVE  DaemonInv'
<1>1. /\ Called /\ Listed /\ Stopped /\ i \in Nat \ {0}
      /\ UNCHANGED <<scriptVars, list, bd, child>> /\ i' = i + 1
      /\ (action => action')
  BY DEF DaemonInv, StopReturns, StartReturns, StopOneReturns, OldNewer, Advance, SupTypeOK
<1>2. /\ at'[child'] = at[child] /\ provider'[child'] = provider[child] /\ child' = child
      /\ \A j : Serving(j)' = Serving(j)
  BY <1>1, ScriptsSame
<1>3. /\ Len(list) \in Nat /\ Len(bd) \in Nat
      /\ Ids(list)' = Ids(list) /\ Ids(bd)' = Ids(bd)
  BY <1>1, RowsOf DEF Ids
<1>4. Faults' = Faults
  BY CaseKept DEF Faults, SupNext, Daemon, check_streaming_list_with_db, stop_all_streaming
<1>5. CASE StopReturns
  <2>1. /\ sup = "stop" /\ sup' = "old" /\ at[child] = "exited" /\ action'
        /\ SetStatus(list[i].id, IF ret[child] = 0 THEN "STOPPED" ELSE "STOP FAILURE")
    BY <1>5 DEF StopReturns, Advance, Returned
  <2>2. Serving(list[i].id) = {} /\ i \in 1..Len(list)
    BY <1>1, <2>1 DEF Called
  <2>3. Stopped'
    BY <1>1, <2>1, <2>2, StoppedWritten, FailureStates DEF Statuses, Failures
  <2>4. Called'
    BY <1>1, <1>2, <2>1 DEF Called, Stages
  <2>5. ASSUME NEW k \in 1..Len(list), k < i + 1
        PROVE  list[k].id \in Ids(bd) \/ Serving(list[k].id) = {}
    <3>1. k < i \/ k = i
      BY <1>1, <1>3, <2>5
    <3> QED BY <1>1, <2>1, <2>2, <2>5, <3>1 DEF Listed
  <2>6. \A k \in 1..Len(list) :
          k < i + 1 => list[k].id \in Ids(bd) \/ (Serving(list[k].id)' = {} /\ action')
    BY <1>1, <1>2, <2>1, <2>5
  <2>7. \A j \in Id : Serving(j)' # {} => j \in Ids(list)
    BY <1>1, <1>2, <2>1 DEF Listed
  <2>8. Listed'
    BY <1>1, <1>2, <1>3, <2>1, <2>6, <2>7 DEF Listed
  <2> QED BY <2>3, <2>4, <2>8 DEF DaemonInv
<1>6. CASE OldNewer
  <2>1. /\ sup = "old" /\ sup' = "old" /\ list[i].id \in Ids(bd) /\ at[child] = "exited"
        /\ i \in 1..Len(list)
    BY <1>1, <1>3, <1>6 DEF OldNewer, Advance, Called
  <2>2. Stopped'
    <3>1. CASE UNCHANGED databaseVars
      BY <1>1, <1>2, <3>1 DEF databaseVars, Stopped
    <3>2. ASSUME NEW id, ~Good(Wanted(i)), SetStatus(id, FailureOf(Wanted(i))) PROVE Stopped'
      <4>1. Wanted(i) \in Row
        BY <2>1, WantedRow, RowsOf
      <4>2. FailureOf(Wanted(i)) \in Failures
        BY <3>2, <4>1, FailureStatus
      <4> QED BY <1>1, <3>2, <4>2, FailureStates, StoppedWritten
    <3> QED BY <1>6, <3>1, <3>2 DEF OldNewer
  <2>3. Called'
    BY <1>1, <1>2, <2>1 DEF Called, Stages
  <2>4. ASSUME NEW k \in 1..Len(list), k < i + 1
        PROVE  list[k].id \in Ids(bd) \/ (Serving(list[k].id) = {} /\ action)
    <3>1. k < i \/ k = i
      BY <1>1, <1>3, <2>4
    <3> QED BY <1>1, <2>1, <2>4, <3>1 DEF Listed
  <2>5. \A k \in 1..Len(list) :
          k < i + 1 => list[k].id \in Ids(bd) \/ (Serving(list[k].id)' = {} /\ action')
    BY <1>1, <1>2, <2>1, <2>4
  <2>6. \A j \in Id : Serving(j)' # {} => j \in Ids(list)
    BY <1>1, <1>2, <2>1 DEF Listed
  <2>7. Listed'
    BY <1>1, <1>2, <1>3, <2>1, <2>5, <2>6 DEF Listed
  <2> QED BY <2>2, <2>3, <2>7 DEF DaemonInv
<1>7. CASE StartReturns
  <2>1. /\ sup = "start" /\ sup' = "new" /\ at[child] = "exited" /\ action'
        /\ SetStatus(bd[i].id, IF ret[child] = 0 THEN "STARTED" ELSE "START FAILURE")
    BY <1>7 DEF StartReturns, Advance, Returned
  <2>2. Stopped'
    BY <1>1, <2>1, StoppedWritten, FailureStates DEF Statuses, Failures
  <2>3. Called'
    BY <1>1, <1>2, <2>1 DEF Called, Stages
  <2>4. Listed'
    BY <1>1, <1>2, <1>3, <2>1 DEF Listed
  <2> QED BY <2>2, <2>3, <2>4 DEF DaemonInv
<1>8. CASE StopOneReturns
  <2>1. /\ sup = "stopOne" /\ sup' = "stopAll" /\ at[child] = "exited"
        /\ SetStatus(list[i].id, IF ret[child] = 0 THEN "STOPPED" ELSE "STOP FAILURE")
    BY <1>8 DEF StopOneReturns, Advance, Returned
  <2>2. Serving(list[i].id) = {} /\ i \in 1..Len(list)
    BY <1>1, <2>1 DEF Called
  <2>3. Stopped'
    BY <1>1, <2>1, <2>2, StoppedWritten, FailureStates DEF Statuses, Failures
  <2>4. action' = FALSE
    BY <1>1, <1>8, <2>1 DEF StopOneReturns, Advance, Called
  <2>5. Called'
    BY <1>1, <1>2, <2>1, <2>4 DEF Called, Stages
  <2>6. \A j \in Id : Serving(j)' # {} => \E k \in 1..Len(list) : k >= i + 1 /\ list[k].id = j
    <3> SUFFICES ASSUME NEW j \in Id, Serving(j) # {}
                 PROVE  \E k \in 1..Len(list) : k >= i + 1 /\ list[k].id = j
      BY <1>2
    <3>1. PICK k \in 1..Len(list) : k >= i /\ list[k].id = j
      BY <1>1, <2>1 DEF Listed
    <3>2. k # i
      BY <2>2, <3>1
    <3> QED BY <1>1, <3>1, <3>2
  <2>7. Listed'
    BY <1>1, <2>1, <2>6 DEF Listed
  <2> QED BY <2>3, <2>5, <2>7 DEF DaemonInv
<1> QED BY <1>5, <1>6, <1>7, <1>8

\* The steps that hand the child shell a command, and that of a row that is
\* not started.
LEMMA AskingKeeps ==
  ASSUME SupTypeOK, ScriptInv, DaemonInv, OldMissing \/ NewRow \/ StopAll
  PROVE  DaemonInv'
<1>1. /\ Called /\ Listed /\ Stopped /\ i \in Nat \ {0} /\ child \in Shell
      /\ UNCHANGED <<list, bd, child>>
  BY DEF DaemonInv, OldMissing, NewRow, StopAll, System, Advance, SupTypeOK
<1>2. /\ Len(list) \in Nat /\ Len(bd) \in Nat
      /\ Ids(list)' = Ids(list) /\ Ids(bd)' = Ids(bd)
      /\ \A k \in 1..Len(list) : list[k].id \in Id
      /\ \A k \in 1..Len(bd) : bd[k].id \in Id
  BY <1>1, RowsOf DEF Ids
<1>3. Faults' = Faults
  BY CaseKept DEF Faults, SupNext, Daemon, check_streaming_list_with_db, stop_all_streaming
<1>4. CASE OldMissing
  <2>1. /\ sup = "old" /\ sup' = "stop" /\ i' = i /\ action' = action
        /\ i \in 1..Len(list) /\ list[i].id \notin Ids(bd)
        /\ Invoke(child, "stop", list[i].id) /\ SetStatus(list[i].id, "STOPPING")
    BY <1>1, <1>2, <1>4 DEF OldMissing, System
  <2>2. /\ \A j \in Id : Serving(j)' = Serving(j)
        /\ at'[child] = "stop" /\ provider'[child] = list[i].id
    BY <1>1, <1>2, <2>1, InvokeKeeps
  <2>3. Stopped'
    <3>1. /\ \A j \in Id : status'[j] = status[j] \/ status'[j] = "STOPPING"
          /\ connected' = connected
      BY <2>1, StatusWritten DEF Statuses
    <3> QED BY <1>1, <2>2, <3>1 DEF Stopped
  <2>4. Called'
    BY <1>1, <2>1, <2>2 DEF Called, Stages
  <2>5. \A k \in 1..Len(list) :
          k < i => list[k].id \in Ids(bd) \/ (Serving(list[k].id)' = {} /\ action')
    BY <1>1, <1>2, <2>1, <2>2 DEF Listed
  <2>6. \A j \in Id : Serving(j)' # {} => j \in Ids(list)
    BY <1>1, <2>1, <2>2 DEF Listed
  <2>7. Listed'
    BY <1>1, <1>2, <2>1, <2>5, <2>6 DEF Listed
  <2> QED BY <2>3, <2>4, <2>7 DEF DaemonInv
<1>5. CASE StopAll
  <2>1. /\ sup = "stopAll" /\ sup' = "stopOne" /\ i' = i /\ action' = action
        /\ i \in 1..Len(list) /\ Invoke(child, "stop", list[i].id)
        /\ UNCHANGED <<status, connected>>
    BY <1>1, <1>2, <1>5 DEF StopAll, System, databaseVars
  <2>2. /\ \A j \in Id : Serving(j)' = Serving(j)
        /\ at'[child] = "stop" /\ provider'[child] = list[i].id
    BY <1>1, <1>2, <2>1, InvokeKeeps
  <2>3. Stopped'
    BY <1>1, <2>1, <2>2 DEF Stopped
  <2>4. Called'
    BY <1>1, <2>1, <2>2 DEF Called, Stages
  <2>5. Listed'
    BY <1>1, <2>1, <2>2 DEF Listed
  <2> QED BY <2>3, <2>4, <2>5 DEF DaemonInv
<1>6. CASE NewRow
  <2>1. /\ sup = "new" /\ at[child] = "exited" /\ i \in 1..Len(bd)
        /\ bd[i].id \notin Ids(list) /\ bd[i].id \in Ids(bd) /\ bd[i] \in Row
    BY <1>1, <1>2, <1>6, RowsOf DEF NewRow, Called, Ids
  <2>2. CASE ~Good(bd[i])
    <3>1. /\ sup' = "new" /\ (action => action') /\ (~action' => ~action)
          /\ UNCHANGED scriptVars /\ SetStatus(bd[i].id, FailureOf(bd[i]))
      BY <1>6, <2>2 DEF NewRow, Advance
    <3>2. /\ at'[child'] = at[child] /\ \A j : Serving(j)' = Serving(j)
      BY <1>1, <3>1, ScriptsSame
    <3>3. Stopped'
      BY <1>1, <2>1, <2>2, <3>1, FailureStatus, FailureStates, StoppedWritten
    <3>4. Called'
      BY <1>1, <2>1, <3>1, <3>2 DEF Called, Stages
    <3>5. Listed'
      BY <1>1, <1>2, <2>1, <3>1, <3>2 DEF Listed
    <3> QED BY <3>3, <3>4, <3>5 DEF DaemonInv
  <2>3. CASE Good(bd[i]) /\ bd[i].id \in Playable
    <3>1. /\ sup' = "start" /\ i' = i /\ action' = action
          /\ Invoke(child, "start", bd[i].id) /\ SetStatus(bd[i].id, "STARTING")
      BY <1>6, <2>3 DEF NewRow, System
    <3>2. /\ \A j \in Id : Serving(j)' = Serving(j)
          /\ at'[child] = "start" /\ provider'[child] = bd[i].id
      BY <1>1, <1>2, <2>1, <3>1, InvokeKeeps
    <3>3. Stopped'
      <4>1. "STARTING" \in Statuses /\ bd[i].id \in Id
        BY <1>2, <2>1 DEF Statuses
      <4>2. /\ \A j \in Id : status'[j] = status[j] \/ status'[j] = "STARTING"
            /\ connected' = connected
        BY <3>1, <4>1, StatusWritten
      <4>3. connected => status'[bd[i].id] = "STARTING"
        BY <3>1, <4>1, StatusWritten
      <4> QED BY <1>1, <3>2, <4>2, <4>3 DEF Stopped
    <3>4. Called'
      BY <1>1, <1>2, <2>1, <3>1, <3>2 DEF Called, Stages
    <3>5. Listed'
      BY <1>1, <1>2, <2>1, <3>1, <3>2 DEF Listed
    <3> QED BY <3>3, <3>4, <3>5 DEF DaemonInv
  <2>4. CASE Good(bd[i]) /\ bd[i].id \notin Playable
    <3>1. /\ sup' = "new" /\ (action => action') /\ (~action' => ~action)
          /\ UNCHANGED scriptVars /\ SetStatus(bd[i].id, "STARTING")
      BY <1>6, <2>4 DEF NewRow, Advance
    <3>2. /\ at'[child'] = at[child] /\ \A j : Serving(j)' = Serving(j)
      BY <1>1, <3>1, ScriptsSame
    <3>3. Stopped'
      BY <1>1, <3>1, StoppedWritten DEF Statuses
    <3>4. Called'
      BY <1>1, <2>1, <3>1, <3>2 DEF Called, Stages
    <3>5. Listed'
      BY <1>1, <1>2, <2>1, <3>1, <3>2 DEF Listed
    <3> QED BY <3>3, <3>4, <3>5 DEF DaemonInv
  <2> QED BY <2>2, <2>3, <2>4
<1> QED BY <1>4, <1>5, <1>6

\* The daemon goes, in order or not, and comes back.
LEMMA LeavingKeeps ==
  ASSUME SupTypeOK, DaemonInv, Leave \/ Quit \/ Killed
  PROVE  DaemonInv'
<1>1. /\ Called /\ Listed /\ Stopped /\ UNCHANGED <<scriptVars, databaseVars, child>>
  BY DEF DaemonInv, Leave, Quit, Killed
<1>2. /\ at'[child'] = at[child] /\ provider'[child'] = provider[child] /\ child' = child
      /\ \A j : Serving(j)' = Serving(j)
  BY <1>1, ScriptsSame
<1>3. Faults' = Faults /\ Stopped'
  BY <1>1, <1>2 DEF Faults, databaseVars, Stopped
<1>4. i \in Nat \ {0} /\ Len(list) \in Nat
  BY RowsOf DEF SupTypeOK
<1>5. CASE Leave
  <2>1. sup = "loop" /\ sup' = "stopAll" /\ i = 1 /\ UNCHANGED <<list, bd, i, action>>
    BY <1>1, <1>5 DEF Leave, Called
  <2>2. Called'
    BY <1>1, <1>2, <2>1 DEF Called, Stages
  <2>3. \A j \in Id : Serving(j) # {} => \E k \in 1..Len(list) : k >= i /\ list[k].id = j
    BY <1>1, <1>4, <2>1 DEF Listed, Ids
  <2>4. Listed'
    BY <1>2, <2>1, <2>3 DEF Listed
  <2> QED BY <1>3, <2>2, <2>4 DEF DaemonInv
<1>6. CASE Quit
  <2>1. /\ sup = "stopAll" /\ sup' = "down" /\ i > Len(list) /\ list' = <<>> /\ i' = 1
        /\ UNCHANGED <<bd, action>>
    BY <1>6 DEF Quit
  <2>2. Called'
    BY <1>1, <1>2, <2>1 DEF Called, Stages
  <2>3. \A j \in Id : Serving(j)' = {}
    BY <1>1, <1>2, <1>4, <2>1 DEF Listed
  <2>4. Listed'
    BY <2>1, <2>3 DEF Listed
  <2> QED BY <1>3, <2>2, <2>4 DEF DaemonInv
<1>7. CASE Killed
  <2>1. /\ sup' = "down" /\ list' = <<>> /\ bd' = <<>> /\ i' = 1 /\ action' = FALSE
        /\ "killed" \in Faults
    BY <1>7 DEF Killed
  <2>2. Called'
    BY <1>3, <2>1 DEF Called, Stages
  <2>3. Listed'
    BY <1>3, <2>1 DEF Listed
  <2> QED BY <1>3, <2>2, <2>3 DEF DaemonInv
<1> QED BY <1>5, <1>6, <1>7

LEMMA ServingAgain ==
  ASSUME SupTypeOK, ScriptInv, DaemonInv, ServiceStart
  PROVE  DaemonInv'
<1>1. /\ \A j \in Id : Serving(j)' = {}
      /\ at'[child'] = "exited"
  BY ServiceStartKeeps
<1>2. /\ sup = "down" /\ sup' = "loop" /\ UNCHANGED <<list, bd, i, action>> /\ Called
  BY DEF DaemonInv, ServiceStart
<1>3. Called'
  BY <1>1, <1>2 DEF Called, Stages
<1>4. Listed'
  BY <1>1, <1>2 DEF Listed
<1>5. Stopped'
  BY <1>1 DEF Stopped
<1> QED BY <1>3, <1>4, <1>5 DEF DaemonInv

-----------------------------------------------------------------------------
(* The table and the list                                                  *)

\* No list has a row twice.
Once(s) == \A k, l \in 1..Len(s) : s[k].id = s[l].id => k = l

\* e was read no later than r: eit_ts has grown since, or r is the same row.
NoNewer(e, r) == e.ts <= r.ts /\ (e.ts = r.ts => e.kind = r.kind)

InTable(e) == Good(e) => table[e.id].ts = e.ts

\* What the lists hold of the database.
Reads ==
  /\ Once(list) /\ Once(bd)
  /\ \A j \in Id : row[j].ts <= edits
  /\ \A k \in 1..Len(list) : NoNewer(list[k], row[list[k].id])
  /\ \A k \in 1..Len(bd) : NoNewer(bd[k], row[bd[k].id])
  /\ \A k \in 1..Len(list), l \in 1..Len(bd) :
       list[k].id = bd[l].id => NoNewer(list[k], bd[l])

\* The table has the rows of streamingList, then, as the round goes on, those
\* of bdList; and of both as long as nothing has changed.
Tabled ==
  /\ sup \in {"loop", "old", "stop", "new", "start"} /\ ~action =>
       \A k \in 1..Len(list) : InTable(list[k])
  /\ sup \in {"old", "stop"} =>
       \A k \in 1..Len(list) :
         /\ k >= i => InTable(list[k])
         /\ k < i => \A l \in 1..Len(bd) : bd[l].id = list[k].id => InTable(bd[l])
  /\ sup \in {"new", "start"} =>
       \A l \in 1..Len(bd) :
         l < i \/ (l = i /\ sup = "start") \/ bd[l].id \in Ids(list) => InTable(bd[l])

TableInv == Reads /\ Tabled

LEMMA TableInvInit == ASSUME SupInit PROVE TableInv
<1>1. list = <<>> /\ bd = <<>> /\ sup = "down" /\ edits = 0
  BY Zenon DEF SupInit
<1>2. \A j \in Id : row[j].ts = 0
  <2>1. row \in [Id -> [enable : BOOLEAN, ts : {0}, kind : Kinds]]
    BY Zenon DEF SupInit
  <2> QED BY <2>1
<1>3. Reads
  BY <1>1, <1>2 DEF Reads, Once
<1>4. Tabled
  BY <1>1 DEF Tabled
<1> QED BY <1>3, <1>4 DEF TableInv

\* Rows keep their content when a status is written.
LEMMA ReadsKept ==
  ASSUME SupTypeOK, Reads, UNCHANGED <<list, bd, edits>>,
         \A j \in Id : row'[j].ts = row[j].ts /\ row'[j].kind = row[j].kind
  PROVE  Reads'
<1>1. /\ \A k \in 1..Len(list) : list[k].id \in Id
      /\ \A k \in 1..Len(bd) : bd[k].id \in Id
  BY RowsOf
<1>2. \A k \in 1..Len(list) : NoNewer(list[k], row[list[k].id])'
  BY <1>1 DEF Reads, NoNewer
<1>3. \A k \in 1..Len(bd) : NoNewer(bd[k], row[bd[k].id])'
  BY <1>1 DEF Reads, NoNewer
<1>4. Once(list)' /\ Once(bd)' /\ (\A j \in Id : (row[j].ts <= edits)')
  BY DEF Reads, Once
<1>5. \A k \in 1..Len(list), l \in 1..Len(bd) :
        (list[k].id = bd[l].id => NoNewer(list[k], bd[l]))'
  BY DEF Reads, NoNewer
<1> QED BY <1>2, <1>3, <1>4, <1>5 DEF Reads

\* An edit renews eit_ts, which no list has seen.
LEMMA EditReads ==
  ASSUME SupTypeOK, Reads, NEW j \in Id, Edit(j)
  PROVE  Reads'
<1>1. UNCHANGED <<list, bd>> /\ edits' = edits + 1 /\ edits \in Nat
  BY DEF Edit, daemonVars, SupTypeOK
<1>2. \/ row'[j].ts = edits + 1
      \/ row'[j].ts = row[j].ts /\ row'[j].kind = row[j].kind
  <2>1. ASSUME NEW k \in Kinds, NEW e \in BOOLEAN,
               row' = [row EXCEPT ![j] = [enable |-> e, ts |-> edits + 1, kind |-> k]]
        PROVE  row'[j].ts = edits + 1
    BY <2>1 DEF SupTypeOK
  <2>2. ASSUME row' = [row EXCEPT ![j].enable = ~@]
        PROVE  row'[j].ts = row[j].ts /\ row'[j].kind = row[j].kind
    <3>1. row[j] \in DatabaseRow
      BY DEF SupTypeOK
    <3>2. row'[j] = [row[j] EXCEPT !.enable = ~@]
      BY <2>2 DEF SupTypeOK
    <3> QED BY <3>1, <3>2 DEF DatabaseRow
  <2> QED BY <2>1, <2>2 DEF Edit
<1>3. \A l \in Id : l # j => row'[l] = row[l]
  BY DEF Edit, SupTypeOK
<1>4. \A l \in Id : row[l].ts \in Nat /\ row[l].ts <= edits
  BY DEF SupTypeOK, DatabaseRow, Reads
<1>5. \A r \in Row : r.id \in Id /\ r.ts \in Nat
  BY DEF Row
<1>6. ASSUME NEW r \in Row, NoNewer(r, row[r.id])
      PROVE  NoNewer(r, row'[r.id])
  BY <1>1, <1>2, <1>3, <1>4, <1>5, <1>6 DEF NoNewer
<1>7. /\ \A k \in 1..Len(list) : list[k] \in Row
      /\ \A k \in 1..Len(bd) : bd[k] \in Row
  BY RowsOf
<1>8. /\ \A k \in 1..Len(list) : NoNewer(list[k], row[list[k].id])'
      /\ \A k \in 1..Len(bd) : NoNewer(bd[k], row[bd[k].id])'
  BY <1>1, <1>6, <1>7 DEF Reads, NoNewer
<1>9. \A l \in Id : row'[l].ts <= edits'
  BY <1>1, <1>2, <1>3, <1>4
<1> QED BY <1>1, <1>8, <1>9 DEF Reads, Once, NoNewer

LEMMA TabledSame ==
  ASSUME TableInv, UNCHANGED <<sup, list, bd, i, action, table>> PROVE Tabled'
BY DEF TableInv, Tabled, InTable, Ids

LEMMA PollTable ==
  ASSUME SupTypeOK, Called, TableInv, Poll PROVE TableInv'
<1>1. /\ sup = "loop" /\ sup' = "old" /\ i = 1 /\ i' = 1 /\ ~action /\ ~action'
      /\ UNCHANGED <<list, table, row, edits>>
  BY DEF Poll, Called, databaseVars
<1>2. /\ Once(bd')
      /\ \A k \in 1..Len(bd') : bd'[k].ts = row[bd'[k].id].ts /\ bd'[k].kind = row[bd'[k].id].kind
      /\ \A k \in 1..Len(bd') : bd'[k].id \in Id
  <2>1. PICK rows \in IF connected THEN EnabledRows ELSE {<<>>} : bd' = rows
    BY DEF Poll
  <2>2. CASE rows = <<>>
    BY <2>1, <2>2, NoRows DEF Once
  <2>3. CASE rows \in EnabledRows
    <3>1. rows \in Seq(Row)
      BY <2>3, QueriedRows
    <3>2. \A k \in 1..Len(rows) : rows[k].id \in Id
      <4>1. \A k \in 1..Len(rows) : rows[k] \in Row
        BY <3>1
      <4>2. \A r \in Row : r.id \in Id
        BY DEF Row
      <4> QED BY <4>1, <4>2
    <3> QED BY <2>1, <2>3, <3>2, QueriedRows DEF Once
  <2> QED BY <2>1, <2>2, <2>3
<1>3. \A j \in Id : row[j].ts \in Nat
  BY DEF SupTypeOK, DatabaseRow
<1>4. Reads'
  BY <1>1, <1>2, <1>3 DEF TableInv, Reads, Once, NoNewer
<1>5. \A k \in 1..Len(list) : InTable(list[k])'
  BY <1>1 DEF TableInv, Tabled, InTable
<1>6. Len(list) \in Nat
  BY RowsOf
<1>7. Tabled'
  BY <1>1, <1>5, <1>6 DEF Tabled
<1> QED BY <1>4, <1>7 DEF TableInv

\* The steps that stop streams: the table and the contents of the rows stay.
LEMMA StoppingTable ==
  ASSUME SupTypeOK, Called, Listed, TableInv, OldDone \/ OldMissing \/ StopReturns
  PROVE  TableInv'
<1>1. /\ UNCHANGED <<list, bd, table, edits>> /\ i \in Nat \ {0}
      /\ Reads /\ Tabled
  <2>1. \A id, s : SetStatus(id, s) => edits' = edits
    BY DEF SetStatus
  <2> QED BY <2>1 DEF OldDone, OldMissing, StopReturns, System, Advance, databaseVars, SupTypeOK, TableInv
<1>2. Len(list) \in Nat /\ Len(bd) \in Nat /\ Ids(list)' = Ids(list) /\ Ids(bd)' = Ids(bd)
  BY <1>1, RowsOf DEF Ids
<1>3. \A j \in Id : row'[j].ts = row[j].ts /\ row'[j].kind = row[j].kind
  BY StatusWritten DEF OldDone, OldMissing, StopReturns, databaseVars, Statuses, Failures
<1>4. Reads'
  BY <1>1, <1>3, ReadsKept
<1>5. \A k : (InTable(list[k])' <=> InTable(list[k])) /\ (InTable(bd[k])' <=> InTable(bd[k]))
  BY <1>1 DEF InTable
<1>6. CASE OldDone
  <2>1. sup = "old" /\ sup' = "new" /\ i > Len(list) /\ i' = 1 /\ action' = action
    BY <1>6 DEF OldDone
  <2>2. \A l \in 1..Len(bd) : bd[l].id \in Ids(list) => InTable(bd[l])
    <3> SUFFICES ASSUME NEW l \in 1..Len(bd), bd[l].id \in Ids(list) PROVE InTable(bd[l])
      OBVIOUS
    <3>1. PICK k \in 1..Len(list) : list[k].id = bd[l].id
      BY DEF Ids
    <3>2. k < i
      BY <1>1, <1>2, <2>1
    <3> QED BY <1>1, <2>1, <3>1, <3>2 DEF Tabled
  <2>3. Tabled'
    BY <1>1, <1>2, <1>5, <2>1, <2>2 DEF Tabled
  <2> QED BY <1>4, <2>3 DEF TableInv
<1>7. CASE OldMissing
  <2>1. sup = "old" /\ sup' = "stop" /\ i' = i /\ action' = action
    BY <1>7 DEF OldMissing, System
  <2>2. Tabled'
    BY <1>1, <1>5, <2>1 DEF Tabled
  <2> QED BY <1>4, <2>2 DEF TableInv
<1>8. CASE StopReturns
  <2>1. sup = "stop" /\ sup' = "old" /\ i' = i + 1 /\ action'
    BY <1>8 DEF StopReturns, Advance
  <2>2. list[i].id \notin Ids(bd)
    BY <2>1 DEF Listed
  <2>3. ASSUME NEW k \in 1..Len(list)
        PROVE  /\ k >= i + 1 => InTable(list[k])
               /\ k < i + 1 => \A l \in 1..Len(bd) : bd[l].id = list[k].id => InTable(bd[l])
    <3>1. CASE k = i
      BY <1>1, <2>2, <3>1 DEF Ids
    <3>2. CASE k > i \/ k < i
      BY <1>1, <1>2, <2>1, <3>2 DEF Tabled
    <3> QED BY <1>1, <3>1, <3>2
  <2>4. Tabled'
    BY <1>1, <1>5, <2>1, <2>3 DEF Tabled
  <2> QED BY <1>4, <2>4 DEF TableInv
<1> QED BY <1>6, <1>7, <1>8

\* The steps that look at a stream that goes on: what the table has of it is
\* the row the database now has, published at once if it is newer.
LEMMA GoingOnTable ==
  ASSUME SupTypeOK, TableInv, OldSame \/ OldNewer
  PROVE  TableInv'
<1>1. /\ sup = "old" /\ sup' = "old" /\ i' = i + 1 /\ UNCHANGED <<list, bd, edits>>
      /\ i \in 1..Len(list) /\ list[i].id \in Ids(bd)
      /\ i \in Nat /\ Reads /\ Tabled
  <2>1. \A id, s : SetStatus(id, s) => edits' = edits
    BY DEF SetStatus
  <2>2. i \in Nat \ {0} /\ Len(list) \in Nat
    BY RowsOf DEF SupTypeOK
  <2> QED BY <2>1, <2>2 DEF OldSame, OldNewer, Advance, databaseVars, TableInv
<1>2. PICK w \in 1..Len(bd) : bd[w].id = list[i].id /\ Wanted(i) = bd[w]
  BY <1>1, WantedRow
<1>3. /\ \A k \in 1..Len(list) : list[k] \in Row
      /\ \A k \in 1..Len(bd) : bd[k] \in Row
      /\ Len(list) \in Nat /\ Len(bd) \in Nat
  BY RowsOf
<1>4. \A r \in Row : r.id \in Id /\ r.ts \in Nat
  BY DEF Row
<1>5. \A l \in 1..Len(bd) : bd[l].id = list[i].id => l = w
  BY <1>1, <1>2 DEF Reads, Once
<1>6. \A k \in 1..Len(list) : k # i => list[k].id # list[i].id
  BY <1>1 DEF Reads, Once
<1>7. ASSUME \A j \in Id : row'[j].ts = row[j].ts /\ row'[j].kind = row[j].kind,
             \A j \in Id : j # list[i].id => table'[j] = table[j],
             InTable(bd[w])', action' \/ (~action /\ table' = table)
      PROVE  TableInv'
  <2>1. Reads'
    BY <1>1, <1>7, ReadsKept
  <2>2. \A r \in Row : r.id # list[i].id => (Good(r) => table'[r.id].ts = r.ts) = InTable(r)
    BY <1>4, <1>7 DEF InTable
  <2>3. ASSUME NEW k \in 1..Len(list)
        PROVE  /\ k >= i + 1 => InTable(list[k])'
               /\ k < i + 1 => \A l \in 1..Len(bd) : bd[l].id = list[k].id => InTable(bd[l])'
    <3>1. CASE k = i
      BY <1>1, <1>5, <1>7, <3>1
    <3>2. CASE k > i
      <4>1. InTable(list[k]) /\ list[k].id # list[i].id
        BY <1>1, <1>6, <3>2 DEF Tabled
      <4>2. InTable(list[k])'
        BY <1>1, <1>3, <2>2, <4>1 DEF InTable
      <4> QED BY <1>1, <3>2, <4>2
    <3>3. CASE k < i
      <4>1. ASSUME NEW l \in 1..Len(bd), bd[l].id = list[k].id PROVE InTable(bd[l])'
        <5>1. InTable(bd[l]) /\ bd[l].id # list[i].id
          BY <1>1, <1>6, <3>3, <4>1 DEF Tabled
        <5> QED BY <1>1, <1>3, <2>2, <5>1 DEF InTable
      <4> QED BY <1>1, <3>3, <4>1
    <3> QED BY <1>1, <3>1, <3>2, <3>3
  <2>4. ~action' => \A k \in 1..Len(list) : InTable(list[k])'
    BY <1>1, <1>7 DEF Tabled, InTable
  <2>5. Tabled'
    BY <1>1, <2>3, <2>4 DEF Tabled
  <2> QED BY <2>1, <2>5 DEF TableInv
<1>8. CASE OldSame
  <2>1. /\ UNCHANGED <<row, table>> /\ (action' \/ (~action /\ table' = table))
        /\ bd[w].ts <= list[i].ts
    BY <1>2, <1>8 DEF OldSame, Advance, databaseVars
  <2>2. NoNewer(list[i], bd[w]) /\ InTable(list[i])
    BY <1>1, <1>2 DEF Reads, Tabled
  <2>3. bd[w].ts = list[i].ts /\ bd[w].kind = list[i].kind
    BY <1>1, <1>2, <1>3, <1>4, <2>1, <2>2 DEF NoNewer
  <2>4. InTable(bd[w])'
    BY <1>1, <1>2, <2>1, <2>2, <2>3 DEF InTable, Good
  <2> QED BY <1>7, <2>1, <2>4
<1>9. CASE OldNewer
  <2>1. action'
    BY <1>9 DEF OldNewer, Advance
  <2>2. CASE Good(Wanted(i)) /\ Publish(Wanted(i)) /\ UNCHANGED databaseVars
    <3>1. table'[bd[w].id].ts = bd[w].ts /\ \A j \in Id \ {bd[w].id} : table'[j] = table[j]
      BY <1>2, <1>3, <2>2, Published
    <3>2. InTable(bd[w])'
      BY <1>1, <3>1 DEF InTable
    <3> QED BY <1>2, <1>7, <2>1, <2>2, <3>1, <3>2 DEF databaseVars
  <2>3. ASSUME NEW id, ~Good(Wanted(i)), SetStatus(id, FailureOf(Wanted(i))), UNCHANGED table
        PROVE  TableInv'
    <3>1. FailureOf(Wanted(i)) \in Statuses
      BY <1>2, <1>3, <2>3, FailureStatus, FailureStates
    <3>2. \A j \in Id : row'[j].ts = row[j].ts /\ row'[j].kind = row[j].kind
      BY <2>3, <3>1, StatusWritten
    <3>3. InTable(bd[w])'
      BY <1>1, <1>2, <2>3 DEF InTable, Good
    <3> QED BY <1>7, <2>1, <2>3, <3>2, <3>3
  <2> QED BY <1>9, <2>2, <2>3 DEF OldNewer
<1> QED BY <1>8, <1>9

\* The steps that look at a new row: the entries of streamingList keep theirs.
LEMMA StartingTable ==
  ASSUME SupTypeOK, Called, TableInv, NewKnown \/ NewRow \/ StartReturns \/ NewDone
  PROVE  TableInv'
<1>1. /\ Reads /\ Tabled /\ i \in Nat \ {0} /\ UNCHANGED edits
  <2>1. \A id, s : SetStatus(id, s) => edits' = edits
    BY DEF SetStatus
  <2> QED BY <2>1 DEF NewKnown, NewRow, StartReturns, NewDone, databaseVars, TableInv, SupTypeOK
<1>2. /\ \A k \in 1..Len(list) : list[k] \in Row
      /\ \A k \in 1..Len(bd) : bd[k] \in Row
      /\ Len(list) \in Nat /\ Len(bd) \in Nat
  BY RowsOf
<1>3. \A r \in Row : r.id \in Id /\ r.ts \in Nat
  BY DEF Row
<1>4. /\ "STARTING" \in Statuses /\ "STARTED" \in Statuses /\ "START FAILURE" \in Statuses
  BY DEF Statuses, Failures
<1>5. CASE NewKnown
  <2>1. /\ sup = "new" /\ sup' = "new" /\ i' = i + 1 /\ (~action' => ~action)
        /\ UNCHANGED <<list, bd, table, row>> /\ bd[i].id \in Ids(list)
    BY <1>5 DEF NewKnown, Advance, databaseVars
  <2>2. Reads'
    BY <1>1, <2>1, ReadsKept
  <2>3. \A l \in 1..Len(bd) : l < i + 1 \/ bd[l].id \in Ids(list) => InTable(bd[l])'
    <3> SUFFICES ASSUME NEW l \in 1..Len(bd), l < i + 1 \/ bd[l].id \in Ids(list)
                 PROVE  InTable(bd[l])'
      OBVIOUS
    <3>1. l < i \/ bd[l].id \in Ids(list)
      BY <1>1, <2>1
    <3>2. InTable(bd[l])
      BY <1>1, <2>1, <3>1 DEF Tabled
    <3> QED BY <2>1, <3>2 DEF InTable
  <2>4. ~action' => \A k \in 1..Len(list) : InTable(list[k])'
    BY <1>1, <2>1 DEF Tabled, InTable
  <2>5. Tabled'
    BY <2>1, <2>3, <2>4 DEF Tabled, Ids
  <2> QED BY <2>2, <2>5 DEF TableInv
<1>6. CASE NewRow
  <2>1. /\ sup = "new" /\ UNCHANGED <<list, bd>>
        /\ i \in 1..Len(bd) /\ bd[i].id \notin Ids(list)
        /\ \/ sup' = "new" /\ i' = i + 1 /\ (~action' => ~action)
           \/ sup' = "start" /\ i' = i /\ action' = action
    <3>1. sup = "new" /\ i \in 1..Len(bd) /\ bd[i].id \notin Ids(list)
      BY <1>1, <1>2, <1>6 DEF NewRow
    <3>2. Advance("new", FALSE) \/ System("start", bd[i].id, "start")
      BY <1>6 DEF NewRow
    <3> QED BY <3>1, <3>2 DEF Advance, System
  <2>2. PICK s \in Statuses : SetStatus(bd[i].id, s)
    BY <1>2, <1>4, <1>6, <2>1, FailureStatus, FailureStates DEF NewRow
  <2>3. Reads'
    BY <1>1, <2>1, <2>2, ReadsKept, StatusWritten
  <2>4. /\ Good(bd[i]) => table'[bd[i].id].ts = bd[i].ts
        /\ \A j \in Id : j # bd[i].id => table'[j] = table[j]
    <3>1. CASE ~Good(bd[i])
      <4>1. table' = table
        BY <1>6, <3>1 DEF NewRow
      <4> QED BY <3>1, <4>1
    <3>2. CASE Good(bd[i])
      <4>1. Publish(bd[i])
        BY <1>6, <3>2 DEF NewRow
      <4>2. table'[bd[i].id].ts = bd[i].ts /\ \A j \in Id \ {bd[i].id} : table'[j] = table[j]
        BY <1>2, <2>1, <4>1, Published
      <4> QED BY <4>2
    <3> QED BY <3>1, <3>2
  <2>6. \A l \in 1..Len(bd) : l < i + 1 \/ bd[l].id \in Ids(list) => InTable(bd[l])'
    <3> SUFFICES ASSUME NEW l \in 1..Len(bd), l # i, l < i + 1 \/ bd[l].id \in Ids(list)
                 PROVE  InTable(bd[l])'
      BY <2>1, <2>4 DEF InTable
    <3>1. l < i \/ bd[l].id \in Ids(list)
      BY <1>1
    <3>2. InTable(bd[l]) /\ bd[l].id # bd[i].id
      BY <1>1, <2>1, <3>1 DEF Tabled, Reads, Once
    <3>3. bd[l] \in Row
      BY <1>2
    <3>4. InTable(bd[l])' <=> (Good(bd[l]) => table'[bd[l].id].ts = bd[l].ts)
      BY <2>1 DEF InTable, Good
    <3>5. table'[bd[l].id] = table[bd[l].id]
      BY <1>3, <2>4, <3>2, <3>3
    <3> QED BY <3>2, <3>4, <3>5 DEF InTable
  <2>7. ~action' => \A k \in 1..Len(list) : InTable(list[k])'
    <3> SUFFICES ASSUME ~action', NEW k \in 1..Len(list) PROVE InTable(list[k])'
      OBVIOUS
    <3>1. InTable(list[k]) /\ list[k].id # bd[i].id /\ list[k] \in Row
      BY <1>1, <1>2, <2>1 DEF Tabled, Ids
    <3>2. table'[list[k].id] = table[list[k].id]
      BY <1>3, <2>4, <3>1
    <3> QED BY <2>1, <3>1, <3>2 DEF InTable
  <2>8. ASSUME NEW l \in 1..Len(bd), l < i' \/ (l = i' /\ sup' = "start") \/ bd[l].id \in Ids(list)
        PROVE  InTable(bd[l])'
    BY <1>1, <2>1, <2>6, <2>8
  <2>9. Tabled'
    BY <2>1, <2>7, <2>8 DEF Tabled, Ids
  <2> QED BY <2>3, <2>9 DEF TableInv
<1>7. CASE StartReturns
  <2>1. /\ sup = "start" /\ sup' = "new" /\ i' = i + 1 /\ action'
        /\ UNCHANGED <<list, bd, table>> /\ i \in 1..Len(bd)
        /\ SetStatus(bd[i].id, IF ret[child] = 0 THEN "STARTED" ELSE "START FAILURE")
    BY <1>7 DEF StartReturns, Advance, Called
  <2>2. Reads'
    BY <1>1, <1>4, <2>1, ReadsKept, StatusWritten
  <2>3. \A l \in 1..Len(bd) : l < i + 1 \/ bd[l].id \in Ids(list) => InTable(bd[l])'
    <3> SUFFICES ASSUME NEW l \in 1..Len(bd), l < i + 1 \/ bd[l].id \in Ids(list)
                 PROVE  InTable(bd[l])'
      OBVIOUS
    <3>1. l < i \/ l = i \/ bd[l].id \in Ids(list)
      BY <1>1
    <3>2. InTable(bd[l])
      BY <1>1, <2>1, <3>1 DEF Tabled
    <3> QED BY <2>1, <3>2 DEF InTable
  <2>4. Tabled'
    BY <2>1, <2>3 DEF Tabled, Ids
  <2> QED BY <2>2, <2>4 DEF TableInv
<1>8. CASE NewDone
  <2>1. /\ sup = "new" /\ sup' = "loop" /\ i > Len(bd) /\ i' = 1 /\ bd' = <<>> /\ ~action'
        /\ (action => list' = bd) /\ (~action => list' = list) /\ UNCHANGED <<table, row>>
    BY <1>8 DEF NewDone, databaseVars
  <2>2. \A k \in 1..Len(list') : InTable(list'[k])
    <3>1. CASE action
      BY <1>1, <1>2, <2>1, <3>1 DEF Tabled
    <3>2. CASE ~action
      BY <1>1, <2>1, <3>2 DEF Tabled
    <3> QED BY <3>1, <3>2
  <2>3. Reads'
    BY <1>1, <2>1, NoRows DEF Reads, Once, NoNewer
  <2>4. Tabled'
    BY <2>1, <2>2 DEF Tabled, InTable
  <2> QED BY <2>3, <2>4 DEF TableInv
<1> QED BY <1>5, <1>6, <1>7, <1>8

\* The steps of a daemon that comes or goes, and those of its environment.
LEMMA OtherTable ==
  ASSUME SupTypeOK, Called, TableInv,
         \/ Leave \/ StopAll \/ StopOneReturns \/ Quit \/ SigHandler \/ ServiceStart \/ Killed
         \/ (\E j \in Id : Edit(j)) \/ Disconnect \/ Waiting
  PROVE  TableInv'
<1>1. CASE Leave \/ StopAll \/ StopOneReturns
  <2>1. sup' \in {"stopAll", "stopOne"} /\ UNCHANGED <<list, bd, edits>>
    <3>1. \A id, s : SetStatus(id, s) => edits' = edits
      BY DEF SetStatus
    <3> QED BY <1>1, <3>1 DEF Leave, StopAll, StopOneReturns, System, Advance, databaseVars
  <2>2. \A j \in Id : row'[j].ts = row[j].ts /\ row'[j].kind = row[j].kind
    BY <1>1, StatusWritten
    DEF Leave, StopAll, StopOneReturns, databaseVars, Statuses, Failures
  <2>3. Reads'
    BY <2>1, <2>2, ReadsKept DEF TableInv
  <2> QED BY <2>1, <2>3 DEF TableInv, Tabled
<1>2. CASE Quit \/ Killed
  <2>1. sup' = "down" /\ list' = <<>> /\ (bd' = <<>> \/ bd' = bd) /\ UNCHANGED <<row, edits>>
    BY <1>2 DEF Quit, Killed, databaseVars
  <2>2. Reads'
    BY <2>1, NoRows DEF TableInv, Reads, Once, NoNewer
  <2> QED BY <2>1, <2>2 DEF TableInv, Tabled
<1>3. CASE ServiceStart
  <2>1. sup' = "loop" /\ list = <<>> /\ UNCHANGED <<list, bd, row, edits>>
    BY <1>3 DEF ServiceStart, Called
  <2>2. Reads'
    BY <2>1, ReadsKept DEF TableInv
  <2>3. Tabled'
    BY <2>1, NoRows DEF Tabled
  <2> QED BY <2>2, <2>3 DEF TableInv
<1>4. CASE SigHandler \/ Disconnect \/ Waiting
  <2>1. UNCHANGED <<sup, list, bd, i, action, table, row, edits>>
    BY <1>4 DEF SigHandler, Disconnect, Waiting, databaseVars, daemonVars
  <2> QED BY <2>1, ReadsKept, TabledSame DEF TableInv
<1>5. ASSUME NEW j \in Id, Edit(j) PROVE TableInv'
  <2>1. UNCHANGED <<sup, list, bd, i, action, table>>
    BY <1>5 DEF Edit, daemonVars
  <2> QED BY <1>5, <2>1, EditReads, TabledSame DEF TableInv
<1> QED BY <1>1, <1>2, <1>3, <1>4, <1>5

-----------------------------------------------------------------------------
(* The theorems                                                            *)

SupInv ==
  /\ SupTypeOK /\ ScriptInv /\ DaemonInv /\ TableInv
  /\ "killed" \notin Faults => FilesMatch

LEMMA SupInvInit == SupInit => SupInv
BY SupTypeInit, ScriptInvInit, DaemonInvInit, TableInvInit DEF SupInv

LEMMA ScriptInvStep ==
  ASSUME SupInv, SupNext, Hides = {}
  PROVE  ScriptInv' /\ ("killed" \notin Faults' => FilesMatch')
<1>1. ScriptInv /\ SupTypeOK /\ child \in Shell /\ Called /\ ("killed" \notin Faults => FilesMatch)
  BY DEF SupInv, DaemonInv, SupTypeOK
<1>2. Faults' = Faults
  BY CaseKept DEF Faults
<1>3. CASE UNCHANGED <<scriptVars, child>>
  BY <1>1, <1>2, <1>3
  DEF scriptVars, ScriptInv, ScriptTypeOK, OneProcess, Leftovers, Known, InPidFile, FilesMatch,
      Serving, Live
<1>4. CASE UNCHANGED child /\ \E cmd \in {"start", "stop"}, id \in Id : Invoke(child, cmd, id)
  BY <1>1, <1>2, <1>4, InvokeKeeps
<1>5. CASE ServiceStart
  <2>1. "killed" \notin Faults => \A s \in Shell : at[s] = "exited"
    BY <1>1, <1>5 DEF ServiceStart, Called, FilesMatch
  <2> QED BY <1>1, <1>2, <1>5, <2>1, ServiceStartKeeps
<1>6. ASSUME NEW s \in Shell, ScriptStep(s), UNCHANGED child
      PROVE  ScriptInv' /\ ("killed" \notin Faults' => FilesMatch')
  BY <1>1, <1>2, <1>6, ScriptStepKeeps
<1>7. ASSUME NEW q \in Pid, Gone(q), UNCHANGED child
      PROVE  ScriptInv' /\ ("killed" \notin Faults' => FilesMatch')
  BY <1>1, <1>2, <1>7, GoneKeeps
<1> QED BY <1>1, <1>3, <1>4, <1>5, <1>6, <1>7, ScriptEffects

LEMMA SupInvStep ==
  ASSUME Hides = {}
  PROVE  SupInv /\ [SupNext]_supVars => SupInv'
<1> SUFFICES ASSUME SupInv, [SupNext]_supVars PROVE SupInv'
  OBVIOUS
<1>1. SupTypeOK'
  BY SupTypeStep DEF SupInv
<1>2. /\ SupTypeOK /\ ScriptInv /\ ScriptTypeOK /\ DaemonInv /\ Called /\ Listed /\ TableInv
      /\ child \in Shell
  BY DEF SupInv, DaemonInv, ScriptInv, SupTypeOK
<1>3. CASE UNCHANGED supVars
  <2>1. /\ UNCHANGED <<scriptVars, sup, list, bd, i, action, child, given, status, connected,
                       row, edits, table>>
    BY <1>3 DEF supVars, databaseVars, daemonVars
  <2>2. DaemonInv'
    BY <1>2, <2>1, OutsideKeeps
  <2>3. TableInv'
    BY <1>2, <2>1, ReadsKept, TabledSame DEF TableInv
  <2>4. ScriptInv' /\ ("killed" \notin Faults' => FilesMatch')
    BY <2>1 DEF SupInv, scriptVars, ScriptInv, ScriptTypeOK, OneProcess, Leftovers, Known, InPidFile,
                FilesMatch, Serving, Live, Faults
  <2> QED BY <1>1, <2>2, <2>3, <2>4 DEF SupInv
<1>4. CASE SupNext
  <2>1. ScriptInv' /\ ("killed" \notin Faults' => FilesMatch')
    BY <1>4, ScriptInvStep
  <2>2. SUFFICES DaemonInv' /\ TableInv'
    BY <1>1, <2>1 DEF SupInv
  <2>3. CASE Poll
    BY <1>2, <2>3, LookingKeeps, PollTable
  <2>4. CASE OldDone
    BY <1>2, <2>4, LookingKeeps, StoppingTable
  <2>5. CASE OldMissing
    BY <1>2, <2>5, AskingKeeps, StoppingTable
  <2>6. CASE StopReturns
    BY <1>2, <2>6, WritingKeeps, StoppingTable
  <2>7. CASE OldSame
    BY <1>2, <2>7, LookingKeeps, GoingOnTable
  <2>8. CASE OldNewer
    BY <1>2, <2>8, WritingKeeps, GoingOnTable
  <2>9. CASE NewKnown \/ NewDone
    BY <1>2, <2>9, LookingKeeps, StartingTable
  <2>10. CASE NewRow
    BY <1>2, <2>10, AskingKeeps, StartingTable
  <2>11. CASE StartReturns
    BY <1>2, <2>11, WritingKeeps, StartingTable
  <2>12. CASE Leave \/ Quit \/ Killed
    BY <1>2, <2>12, LeavingKeeps, OtherTable
  <2>13. CASE StopAll
    BY <1>2, <2>13, AskingKeeps, OtherTable
  <2>14. CASE StopOneReturns
    BY <1>2, <2>14, WritingKeeps, OtherTable
  <2>15. CASE ServiceStart
    BY <1>2, <2>15, ServingAgain, OtherTable
  <2>16. CASE SigHandler \/ Disconnect \/ \E j \in Id : Edit(j)
    <3>1. /\ UNCHANGED <<scriptVars, sup, list, bd, i, action, child, given, status>>
          /\ connected' => connected
      BY <2>16 DEF SigHandler, Disconnect, Edit, databaseVars, daemonVars
    <3> QED BY <1>2, <2>16, <3>1, OutsideKeeps, OtherTable
  <2>17. ASSUME NEW s \in Shell, Script(s) PROVE DaemonInv' /\ TableInv'
    <3>1. ScriptStep(s) /\ Waiting /\ UNCHANGED child
      BY <2>17 DEF Script, Waiting, daemonVars
    <3>2. ChildMoves
      BY <1>2, <3>1, ScriptStepKeeps
    <3> QED BY <1>2, <3>1, <3>2, WaitingKeeps, OtherTable
  <2>18. ASSUME NEW q \in Pid, Exits(q) PROVE DaemonInv' /\ TableInv'
    <3>1. Gone(q) /\ Waiting /\ UNCHANGED child
      BY <2>18 DEF Exits, Waiting, daemonVars
    <3>2. ChildMoves
      BY <1>2, <3>1, GoneKeeps DEF ChildMoves, Gone
    <3> QED BY <1>2, <3>1, <3>2, WaitingKeeps, OtherTable
  <2> QED BY <1>4, SupSteps, <2>3, <2>4, <2>5, <2>6, <2>7, <2>8, <2>9, <2>10, <2>11, <2>12, <2>13,
             <2>14, <2>15, <2>16, <2>17, <2>18
<1> QED BY <1>3, <1>4

\* Whatever the operator edits, whatever goes wrong and however many shells an
\* earlier daemon left in the middle of a script, no provider ever has two
\* multicat-eit processes that nobody told to stop.
THEOREM SupervisedOneProcess ==
  ASSUME Hides = {} PROVE SupSpec => []OneProcess
<1>1. SupInv => OneProcess
  BY DEF SupInv, ScriptInv
<1> QED BY SupInvInit, SupInvStep, <1>1, PTL DEF SupSpec

\* Between two rounds every stream that plays is one of the list, and a daemon
\* that stops in order leaves none behind it.
THEOREM NobodyForgotten ==
  ASSUME Hides = {} PROVE SupSpec => []NoOrphan
<1>1. SupInv => NoOrphan
  BY DEF SupInv, DaemonInv, Listed, NoOrphan
<1> QED BY SupInvInit, SupInvStep, <1>1, PTL DEF SupSpec

\* A row that says STOPPED does not play while the daemon can write to it.
THEOREM StoppedDoesNotPlay ==
  ASSUME Hides = {} PROVE SupSpec => []StoppedIsStopped
<1>1. SupInv => StoppedIsStopped
  BY DEF SupInv, DaemonInv, Stopped, StoppedIsStopped
<1> QED BY SupInvInit, SupInvStep, <1>1, PTL DEF SupSpec

\* Between two rounds the list has no row twice, and the table the edition of
\* each row of the list whose sections are good.
THEOREM TableIsTheList ==
  ASSUME Hides = {} PROVE SupSpec => []TableMatchesList
<1>1. SupInv => TableMatchesList
  <2> SUFFICES ASSUME SupInv, sup = "loop"
               PROVE  /\ Len(list) = Cardinality(Ids(list))
                      /\ \A k \in 1..Len(list) : Good(list[k]) => table[list[k].id].ts = list[k].ts
    BY DEF TableMatchesList
  <2>1. /\ Once(list) /\ action = FALSE /\ Len(list) \in Nat
        /\ \A k \in 1..Len(list) : InTable(list[k])
    BY RowsOf DEF SupInv, DaemonInv, Called, TableInv, Reads, Tabled
  <2>2. [k \in 1..Len(list) |-> list[k].id] \in Bijection(1..Len(list), Ids(list))
    <3> DEFINE f == [k \in 1..Len(list) |-> list[k].id]
    <3>1. f \in [1..Len(list) -> Ids(list)] /\ \A j \in Ids(list) : \E k \in 1..Len(list) : f[k] = j
      BY DEF Ids
    <3>2. \A k, l \in 1..Len(list) : f[k] = f[l] => k = l
      BY <2>1 DEF Once
    <3> HIDE DEF f
    <3> QED BY <3>1, <3>2 DEF Bijection, Injection, IsInjective, Surjection, f
  <2>3. ExistsBijection(1..Len(list), Ids(list))
    BY <2>2 DEF ExistsBijection
  <2>4. Cardinality(Ids(list)) = Len(list)
    BY <2>1, <2>3, FS_CountingElements
  <2> QED BY <2>1, <2>4 DEF InTable
<1> QED BY SupInvInit, SupInvStep, <1>1, PTL DEF SupSpec

\* As long as no daemon is killed in the middle of a script, no lock file stands
\* without a pid file.
THEOREM SupervisedLocks ==
  ASSUME Hides = {}, \A c \in Cases : "killed" \notin c.faults
  PROVE  SupSpec => []LockHasPid
<1>1. SupInv => LockHasPid
  BY DEF SupInv, SupTypeOK, Faults, FilesMatch, LockHasPid
<1> QED BY SupInvInit, SupInvStep, <1>1, PTL DEF SupSpec
=============================================================================
