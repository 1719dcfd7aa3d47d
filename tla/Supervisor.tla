----------------------------- MODULE Supervisor -----------------------------
(***************************************************************************)
(* multicat-supervisor.c: every few seconds the daemon reads the enabled   *)
(* rows of the StreamManager database (eit_mysql.c), compares them with    *)
(* the list it read before, publishes the event information of the new and *)
(* the changed rows in the shared table, and runs multicat.sh to stop the  *)
(* streams that are gone and to start those that are new.  The row's       *)
(* status, and its enable flag on a failure, are written back.             *)
(*                                                                         *)
(* The module composes the daemon with multicat.sh (MulticatScript): a     *)
(* system() call hands the command to the child shell, and returns when    *)
(* the script has exited.  The service script multicat-supervisor.sh       *)
(* starts and stops the daemon.  The operator edits the database at any    *)
(* time.  Publication in the shared table is one step: see SharedMemory.   *)
(***************************************************************************)
EXTENDS MulticatScript, Sequences

CONSTANTS
  Cases,      \* the cases, each with the providers that have a video and an
              \* address (playable), what the sections of a row are worth (kinds:
              \* see RowKinds), and what goes wrong (faults: see FaultKinds)
  MaxEdits    \* bound on the operator's edits

\* "short": section 0 is good and section 1 is empty.  The others make
\* convertStringsToEitStruct return -1, -2 and -3.
RowKinds == {"whole", "short", "database", "parsing", "eit"}

\* "multicat": a multicat-eit exits without being told.
\* "slow": one that is told takes more than the five seconds of "start".
\* "database": the connection is lost; it is never opened again.
\* "killed": the daemon is killed without cleaning up.
FaultKinds == {"multicat", "slow", "database", "killed"}

ASSUME SupervisorAssumption ==
  /\ IsFiniteSet(Id)
  /\ Cases \subseteq [playable : SUBSET Id, kinds : SUBSET RowKinds, faults : SUBSET FaultKinds]
  /\ MaxEdits \in Nat

VARIABLES
  given,     \* which of the cases it is
  row,       \* the database: [enable, ts, kind] of each provider
  status,    \* and the status column
  connected, \* eit_mysql's connection works
  edits,     \* number of the operator's edits, the clock of eit_ts
  table,     \* shared memory: [ts, next], next being whose section 1 it has
  sup,       \* where the daemon is; "down" when it does not run
  list,      \* streamingList
  bd,        \* bdList
  i,         \* loop counter
  action,    \* something changed in this round
  b_die,     \* SIGTERM received
  child      \* the shell of its system() calls

daemonVars == <<sup, list, bd, i, action, b_die, child>>
databaseVars == <<given, row, status, connected, edits>>
supVars == <<scriptVars, databaseVars, table, daemonVars>>

Failures == {"DATABASE FAILURE", "PARSING FAILURE", "EIT FAILURE",
             "START FAILURE", "STOP FAILURE"}

Playable == given.playable
Kinds == given.kinds
Faults == given.faults

SupInit ==
  /\ ScriptInit
  /\ given \in Cases
  /\ row \in [Id -> [enable : BOOLEAN, ts : {0}, kind : Kinds]]
  /\ status = [j \in Id |-> ""]
  /\ connected = TRUE
  /\ edits = 0
  /\ table = [j \in Id |-> [ts |-> 0, next |-> NoId]]
  /\ sup = "down"
  /\ list = <<>> /\ bd = <<>> /\ i = 1
  /\ action = FALSE /\ b_die = FALSE
  /\ child \in Shell

-----------------------------------------------------------------------------
(* Database, shared table and scripts, as the daemon uses them             *)

Ids(s) == {s[k].id : k \in 1..Len(s)}
search_streaming(s, id) == s[CHOOSE k \in 1..Len(s) : s[k].id = id]

\* Every order in which the query can return the enabled rows.
EnabledRows ==
  LET enabled == {j \in Id : row[j].enable}
      n == Cardinality(enabled)
  IN {[k \in 1..n |-> [id |-> o[k], ts |-> row[o[k]].ts, kind |-> row[o[k]].kind]] :
        o \in {f \in [1..n -> enabled] : \A k, l \in 1..n : f[k] = f[l] => k = l}}

\* eit_mysql_setStatus: a failure also disables the row.
SetStatus(id, s) ==
  /\ \/ /\ connected /\ id \in Id
        /\ status' = [status EXCEPT ![id] = s]
        /\ row' = [row EXCEPT ![id].enable = @ /\ s \notin Failures]
     \/ /\ ~(connected /\ id \in Id)
        /\ UNCHANGED <<status, row>>
  /\ UNCHANGED <<given, connected, edits>>

\* convertStringsToEitStruct and sharedMemory_set.  Without a section 1 the
\* daemon's struct keeps what its stack held: an earlier row's, or garbage.
Good(r) == r.kind \in {"whole", "short"}
Publish(r) ==
  \E next \in IF r.kind = "whole" THEN {r.id} ELSE {NoId} \cup {table[j].next : j \in Id} :
    table' = [table EXCEPT ![r.id] = [ts |-> r.ts, next |-> next]]

FailureOf(r) == CASE r.kind = "database" -> "DATABASE FAILURE"
                  [] r.kind = "parsing"  -> "PARSING FAILURE"
                  [] r.kind = "eit"      -> "EIT FAILURE"

System(cmd, id, back) ==
  /\ Invoke(child, cmd, id)
  /\ sup' = back
  /\ UNCHANGED <<list, bd, i, action, b_die, child>>

Returned == at[child] = "exited"

Advance(l, changed) ==
  /\ sup' = l
  /\ i' = i + 1
  /\ action' = (action \/ changed)
  /\ UNCHANGED <<list, bd, b_die, child>>

-----------------------------------------------------------------------------
(* check_streaming_list_with_db                                            *)

\* Faulty variant: the loop does not look at b_die.
Poll_IgnoresSignal ==
  /\ sup = "loop"
  /\ \E rows \in IF connected THEN EnabledRows ELSE {<<>>} : bd' = rows
  /\ sup' = "old"
  /\ UNCHANGED <<scriptVars, databaseVars, table, list, i, action, b_die, child>>

\* Top of main's loop, after the sleep: read the enabled rows, none if the
\* query fails.  (i and action are set when their last use is over.)
Poll ==
  /\ sup = "loop" /\ ~b_die
  /\ \E rows \in IF connected THEN EnabledRows ELSE {<<>>} : bd' = rows
  /\ sup' = "old"
  /\ UNCHANGED <<scriptVars, databaseVars, table, list, i, action, b_die, child>>

OldDone ==
  /\ sup = "old" /\ i > Len(list)
  /\ sup' = "new" /\ i' = 1
  /\ UNCHANGED <<scriptVars, databaseVars, table, list, bd, action, b_die, child>>

\* Faulty variant: the row says STOPPED before the script has run.
OldMissing_Early ==
  /\ sup = "old" /\ i <= Len(list)
  /\ list[i].id \notin Ids(bd)
  /\ SetStatus(list[i].id, "STOPPED")
  /\ System("stop", list[i].id, "stop")
  /\ UNCHANGED table

\* A stream whose row is gone is stopped ...
OldMissing ==
  /\ sup = "old" /\ i <= Len(list)
  /\ list[i].id \notin Ids(bd)
  /\ SetStatus(list[i].id, "STOPPING")
  /\ System("stop", list[i].id, "stop")
  /\ UNCHANGED table

StopReturns ==
  /\ sup = "stop" /\ Returned
  /\ SetStatus(list[i].id, IF ret[child] = 0 THEN "STOPPED" ELSE "STOP FAILURE")
  /\ Advance("old", TRUE)
  /\ UNCHANGED <<scriptVars, table>>

\* The row the database now has for entry k of the list.
Wanted(k) == search_streaming(bd, list[k].id)

OldSame ==
  /\ sup = "old" /\ i <= Len(list)
  /\ list[i].id \in Ids(bd)
  /\ Wanted(i).ts <= list[i].ts
  /\ Advance("old", FALSE)
  /\ UNCHANGED <<scriptVars, databaseVars, table>>

\* Faulty variant: the new content of a changed row is not published.
OldNewer_NotPublished ==
  /\ sup = "old" /\ i <= Len(list)
  /\ list[i].id \in Ids(bd)
  /\ Wanted(i).ts > list[i].ts
  /\ Advance("old", TRUE)
  /\ UNCHANGED <<scriptVars, databaseVars, table>>

\* ... and one whose row changed gets its new event information.  The status
\* of a failure goes to the row at the same index of the other list, or, past
\* its end, to whatever number is there.
OldNewer ==
  /\ sup = "old" /\ i <= Len(list)
  /\ list[i].id \in Ids(bd)
  /\ Wanted(i).ts > list[i].ts
  /\ \/ /\ Good(Wanted(i))
        /\ Publish(Wanted(i))
        /\ UNCHANGED databaseVars
     \/ /\ ~Good(Wanted(i))
        /\ \E id \in IF i <= Len(bd) THEN {bd[i].id} ELSE Id \cup {NoId} :
             SetStatus(id, FailureOf(Wanted(i)))
        /\ UNCHANGED table
  /\ Advance("old", TRUE)
  /\ UNCHANGED scriptVars

NewKnown ==
  /\ sup = "new" /\ i <= Len(bd)
  /\ bd[i].id \in Ids(list)
  /\ Advance("new", FALSE)
  /\ UNCHANGED <<scriptVars, databaseVars, table>>

\* A new row is converted and published; with a video and an address it is
\* started.
NewRow ==
  /\ sup = "new" /\ i <= Len(bd)
  /\ bd[i].id \notin Ids(list)
  /\ \/ /\ ~Good(bd[i])
        /\ SetStatus(bd[i].id, FailureOf(bd[i]))
        /\ Advance("new", FALSE)
        /\ UNCHANGED <<scriptVars, table>>
     \/ /\ Good(bd[i])
        /\ SetStatus(bd[i].id, "STARTING")
        /\ Publish(bd[i])
        /\ IF bd[i].id \in Playable
           THEN System("start", bd[i].id, "start")
           ELSE Advance("new", FALSE) /\ UNCHANGED scriptVars

\* Faulty variant: a start does not count as a change.
StartReturns_NoAction ==
  /\ sup = "start" /\ Returned
  /\ SetStatus(bd[i].id, IF ret[child] = 0 THEN "STARTED" ELSE "START FAILURE")
  /\ Advance("new", FALSE)
  /\ UNCHANGED <<scriptVars, table>>

StartReturns ==
  /\ sup = "start" /\ Returned
  /\ SetStatus(bd[i].id, IF ret[child] = 0 THEN "STARTED" ELSE "START FAILURE")
  /\ Advance("new", TRUE)
  /\ UNCHANGED <<scriptVars, table>>

\* The new list replaces the old one only if something was done.
NewDone ==
  /\ sup = "new" /\ i > Len(bd)
  /\ list' = IF action THEN bd ELSE list
  /\ bd' = <<>> /\ i' = 1 /\ action' = FALSE
  /\ sup' = "loop"
  /\ UNCHANGED <<scriptVars, databaseVars, table, b_die, child>>

check_streaming_list_with_db ==
  \/ OldDone \/ OldMissing \/ StopReturns \/ OldSame \/ OldNewer
  \/ NewKnown \/ NewRow \/ StartReturns \/ NewDone

-----------------------------------------------------------------------------
(* stop_all_streaming, and the service                                     *)

Leave ==
  /\ sup = "loop" /\ b_die
  /\ sup' = "stopAll"
  /\ UNCHANGED <<scriptVars, databaseVars, table, list, bd, i, action, b_die, child>>

StopAll ==
  /\ sup = "stopAll" /\ i <= Len(list)
  /\ System("stop", list[i].id, "stopOne")
  /\ UNCHANGED <<databaseVars, table>>

StopOneReturns ==
  /\ sup = "stopOne" /\ Returned
  /\ SetStatus(list[i].id, IF ret[child] = 0 THEN "STOPPED" ELSE "STOP FAILURE")
  /\ Advance("stopAll", FALSE)
  /\ UNCHANGED <<scriptVars, table>>

Quit ==
  /\ sup = "stopAll" /\ i > Len(list)
  /\ sup' = "down" /\ list' = <<>> /\ i' = 1
  /\ UNCHANGED <<scriptVars, databaseVars, table, bd, action, b_die, child>>

stop_all_streaming == Leave \/ StopAll \/ StopOneReturns \/ Quit

\* SigHandler: multicat-supervisor.sh stop, or any SIGTERM.
SigHandler ==
  /\ sup # "down"
  /\ b_die' = TRUE
  /\ UNCHANGED <<scriptVars, databaseVars, table, sup, list, bd, i, action, child>>

\* Faulty variant: the streams of an earlier daemon go on.
ServiceStart_NoKill ==
  /\ sup = "down"
  /\ \A s \in Shell : at[s] \in {"exited", "sleep"}
  /\ lockfile' = {}
  /\ pidfile' = [j \in Id |-> NoFile]
  /\ connected' = TRUE
  /\ sup' = "loop" /\ b_die' = FALSE
  /\ \E s \in Shell : at[s] = "exited" /\ child' = s
  /\ UNCHANGED <<owner, dying, at, provider, ret, given, row, status, edits, table, list, bd, i, action>>

\* multicat-supervisor.sh start: whatever an earlier daemon left is told to
\* stop and its files are removed.  Whoever runs it is slower than a shell that
\* does not sleep.
ServiceStart ==
  /\ sup = "down"
  /\ \A s \in Shell : at[s] \in {"exited", "sleep"}
  /\ dying' = {q \in Pid : owner[q] # NoId}
  /\ lockfile' = {}
  /\ pidfile' = [j \in Id |-> NoFile]
  /\ connected' = TRUE
  /\ sup' = "loop" /\ b_die' = FALSE
  /\ \E s \in Shell : at[s] = "exited" /\ child' = s
  /\ UNCHANGED <<owner, at, provider, ret, given, row, status, edits, table, list, bd, i, action>>

\* kill -9 or a fault; the shell of a system() call lives on.
Killed ==
  /\ "killed" \in Faults
  /\ sup # "down"
  /\ sup' = "down" /\ list' = <<>> /\ bd' = <<>> /\ i' = 1 /\ action' = FALSE
  /\ UNCHANGED <<scriptVars, databaseVars, table, b_die, child>>

-----------------------------------------------------------------------------
(* Environment                                                             *)

\* The operator edits a row: its content, which renews eit_ts, or its flag.
Edit(j) ==
  /\ edits < MaxEdits
  /\ edits' = edits + 1
  /\ \/ \E k \in Kinds, e \in BOOLEAN :
          row' = [row EXCEPT ![j] = [enable |-> e, ts |-> edits + 1, kind |-> k]]
     \/ row' = [row EXCEPT ![j].enable = ~@]
  /\ UNCHANGED <<scriptVars, given, status, connected, table, daemonVars>>

Disconnect ==
  /\ "database" \in Faults
  /\ connected /\ connected' = FALSE
  /\ UNCHANGED <<scriptVars, given, row, status, edits, table, daemonVars>>

\* The script goes on.  Unless "slow", whoever was told to stop before the
\* five seconds of "start" is gone after them.
Script(s) ==
  /\ at[s] = "sleep" /\ "slow" \notin Faults => dying = {}
  /\ ScriptStep(s)
  /\ UNCHANGED <<databaseVars, table, daemonVars>>

Exits(q) ==
  /\ q \in dying \/ "multicat" \in Faults
  /\ Gone(q)
  /\ UNCHANGED <<databaseVars, table, daemonVars>>

Daemon == Poll \/ check_streaming_list_with_db \/ stop_all_streaming

SupNext ==
  \/ Daemon
  \/ SigHandler \/ ServiceStart \/ Killed
  \/ \E j \in Id : Edit(j)
  \/ Disconnect
  \/ \E s \in Shell : Script(s)
  \/ \E q \in Pid : Exits(q)

SupSpec == SupInit /\ [][SupNext]_supVars

\* The daemon, the scripts and the processes that were told to stop are
\* scheduled; nobody has to start the daemon, edit, stop or crash.
FairSupSpec ==
  /\ SupSpec
  /\ WF_supVars(Daemon)
  /\ \A s \in Shell : WF_supVars(Script(s))
  /\ \A q \in Pid : WF_supVars(q \in dying /\ Exits(q))

-----------------------------------------------------------------------------
(* Properties                                                              *)

\* Between two rounds every multicat-eit that plays is one the daemon has in
\* its list, so that it will be stopped when its row goes or the daemon does;
\* and a daemon that is never killed but stops in order leaves none playing
\* behind it, although a script is slow or the database is lost.
NoOrphan ==
  /\ sup = "loop" => \A j \in Id : Serving(j) # {} => j \in Ids(list)
  /\ sup = "down" /\ "killed" \notin Faults => \A j \in Id : Serving(j) = {}

\* Between two rounds the list holds each provider once, and the table, for
\* every stream of the list whose sections are good, the edition the list was
\* read with.
TableMatchesList ==
  sup = "loop" =>
    /\ Len(list) = Cardinality(Ids(list))
    /\ \A k \in 1..Len(list) : Good(list[k]) => table[list[k].id].ts = list[k].ts

\* As long as the daemon can write to the database, a row the operator sees
\* STOPPED is not playing.
StoppedIsStopped ==
  connected => \A j \in Id : status[j] = "STOPPED" => Serving(j) = {}

\* A signal ends the daemon, whatever it is waiting for; and if it is not
\* stopped, once the operator stops editing, the streams that play are the
\* enabled rows that have something to play.
Converges ==
  /\ b_die /\ sup # "down" ~> sup = "down"
  /\ \/ []<>(sup = "down")
     \/ <>[](\A j \in Playable : row[j].enable <=> Serving(j) # {})

\* A daemon with nothing to do plays every enabled row that can be played.
EnabledIsPlayed ==
  \/ []<>(sup = "down" \/ b_die)
  \/ <>[](\A j \in Playable : row[j].enable /\ Good(row[j]) => Serving(j) # {})

\* A round stops a stream only if the operator has disabled its row.
StopsOnlyDeleted ==
  [][\A s \in Shell :
       sup = "old" /\ at[s] = "exited" /\ at'[s] = "stop"
         => ~row[provider'[s]].enable]_supVars

\* A failure to convert the event information of a row is reported in that
\* row and disables no other: a row gets one of the three statuses only when
\* the daemon read it with bad sections.
FailureNamesItsRow ==
  [][\A j \in Id :
       status'[j] # status[j] /\ status'[j] \in {"DATABASE FAILURE", "PARSING FAILURE", "EIT FAILURE"}
         => \E k \in 1..Len(bd) : bd[k].id = j /\ ~Good(bd[k])]_supVars

\* The following event a stream announces is its own or none.
NextIsOwn == \A j \in Id : table[j].next \in {j, NoId}
=============================================================================
