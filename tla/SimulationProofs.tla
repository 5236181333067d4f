-------------------------- MODULE SimulationProofs --------------------------
(***************************************************************************)
(* Proofs about Simulation, for every number of runs and of signals, and   *)
(* for both meanings of an empty array.                                    *)
(*                                                                         *)
(* The properties speak of the end of a run; the inductive invariant says  *)
(* what holds at each command of the script, and what a run finds of the   *)
(* ones before it.                                                         *)
(***************************************************************************)
EXTENDS Simulation, TLAPS

\* The types that the invariant needs beyond TypeOK.
Types ==
    /\ TypeOK
    /\ trapped \in BOOLEAN /\ exiting \in BOOLEAN /\ cleanedUp \in BOOLEAN
    /\ cleanups \in [Run -> Nat]

\* Where the script is, by what it has done so far.
Untrapped == {"server", "prepare", "traps"}
Beginning == {"server", "prepare", "traps", "phase"}
Unpacking == {"server", "prepare", "traps", "phase", "connect", "ssh", "copy"}
Emptying == {"server", "prepare", "traps", "phase", "connect", "ssh", "copy", "publish", "rm_db"}
Filling == {"rm_db", "rm_wal", "cp_db", "write_db", "cp_wal", "write_wal", "source"}
Publishing == {"copy", "publish", "rm_db", "rm_wal", "cp_db", "write_db", "cp_wal", "write_wal",
               "source"}
Cleaning == {"cleanup", "mark", "clean", "verify"}

\* The script has come here without a signal, a failure or a cleanup.
Straight == {"server", "prepare", "traps", "phase", "connect", "ssh", "copy", "publish", "rm_db",
             "rm_wal", "cp_db", "write_db", "cp_wal", "write_wal", "source"}

\* What the next command tells of the phase, the traps and the cleanup.
Control ==
    /\ pc \in Beginning => phase = "init"
    /\ pc \in Straight => then = "none" /\ ~cleanedUp /\ ~exiting
    /\ pc \in {"connect", "ssh"} => phase = "collecting"
    /\ pc \in Publishing => phase = "copying"
    /\ pc \in Cleaning => then # "none" /\ phase \in {"collecting", "copying"}
    /\ pc = "mark" => ~cleanedUp
    /\ pc \in {"clean", "verify"} => cleanedUp
    /\ pc = "remove" => phase = "copying" /\ then = "remove" /\ cleanedUp
    /\ then = "remove" => phase \in {"copying", "done"}
    /\ pc \in Untrapped => ~trapped
    /\ ~trapped => phase = "init" /\ (pc \in Untrapped \/ pc = "exit" \/ pc = "over")
    /\ pc = "stop_http" \/ (pc = "over" /\ trapped) => phase = "init" \/ cleanedUp
    /\ pc = "aborted" => cleanedUp
    /\ phase = "done" => cleanedUp

\* The cleanups of the runs so far, and none of the runs to come.
CleanupsCounted ==
    /\ cleanups[run] = IF cleanedUp THEN 1 ELSE 0
    /\ \A r \in Run : r < run => cleanups[r] <= 1
    /\ \A r \in Run : r > run => cleanups[r] = 0
    /\ attacked \subseteq 1 .. run
    /\ run \in attacked => phase # "init"

\* The server of this run is known by its pid file, and the EXIT trap leaves
\* it alone in one way only.
ServerKnown ==
    /\ listener <= run
    /\ \A r \in pidFile : r <= run
    /\ listener = run => run \in pidFile
    /\ pc = "over" /\ trapped => run \notin pidFile
    /\ pc = "aborted" => EmptyIsUnset /\ exiting /\ verify = "failed"

\* The collector is off where ManagementIsNotCollected says, and the results
\* are the last that is heard of the VM.
CollectorOff ==
    /\ ManagementIsNotCollected
    /\ phase \in {"copying", "done"} => vm = "results"

\* Nothing in latest/ is of this run.
Unpublished == run \notin {latest.db.of, latest.wal.of, latest.source}

\* What a run has made of latest/ at each command, and what is left when it is
\* stopped there; "remove" remembers that the run got through.
Published ==
    /\ latest.db.of <= run /\ latest.wal.of <= run /\ latest.source <= run
    /\ \A r \in dbs : r <= run
    /\ latest.db # Absent /\ latest.db.of = latest.source => latest = Complete(latest.source)
    /\ latest.db # Absent => latest.wal.of \in {0, latest.db.of}
    /\ pc \in Unpacking => run \notin dbs
    /\ pc \in Emptying => Unpublished
    /\ pc \in Filling => run \in dbs /\ latest.source # run
    /\ pc = "rm_wal" => latest.db = Absent
    /\ pc = "cp_db" => latest.db = Absent /\ latest.wal = Absent
    /\ pc = "write_db" => latest.db = Part(run) /\ latest.wal = Absent
    /\ pc = "cp_wal" => latest.db = Whole(run) /\ latest.wal = Absent /\ run \in wals
    /\ pc = "write_wal" => latest.db = Whole(run) /\ latest.wal = Part(run) /\ run \in wals
    /\ pc = "source" => latest.db = Whole(run)
                     /\ latest.wal = IF run \in wals THEN Whole(run) ELSE Absent
    /\ then = "remove" \/ phase = "done" =>
         IF run \in dbs THEN latest = Complete(run) ELSE Unpublished

IInv ==
    /\ Types
    /\ Control
    /\ CleanupsCounted
    /\ ServerKnown
    /\ CollectorOff
    /\ Published
-----------------------------------------------------------------------------
\* The three states of a file of latest/ are told apart.
LEMMA Files ==
  ASSUME NEW r \in Run
  PROVE  /\ Absent \in File /\ Part(r) \in File /\ Whole(r) \in File
         /\ Absent.of = 0 /\ Part(r).of = r /\ Whole(r).of = r
         /\ Part(r) # Absent /\ Whole(r) # Absent
<1> r # 0
  BY BoundsAssumption DEF Run
<1> QED
  BY DEF File, Absent, Part, Whole

\* What the steps that fill latest/ do is to one entry of it.
LEMMA FillTyped ==
  ASSUME TypeOK, NEW f \in File, NEW r \in Run \cup {0}
  PROVE  /\ [latest EXCEPT !.db = f] = [db |-> f, wal |-> latest.wal, source |-> latest.source]
         /\ [latest EXCEPT !.wal = f] = [db |-> latest.db, wal |-> f, source |-> latest.source]
         /\ [latest EXCEPT !.source = r] = [db |-> latest.db, wal |-> latest.wal, source |-> r]
         /\ latest.db \in File /\ latest.wal \in File /\ latest.source \in Run \cup {0}
BY DEF TypeOK

\* The first run starts on a host and a VM without leftovers.
LEMMA InitIInv == Init => IInv
<1> SUFFICES ASSUME Init PROVE IInv
  OBVIOUS
<1> USE BoundsAssumption DEF Init, Run, File, Absent, Ended, Untrapped, Beginning,
       Unpacking, Emptying, Filling, Publishing, Cleaning, Straight
<1>1. Types
  <2>1. TypeOK
    BY DEF TypeOK
  <2>2. cleanups \in [Run -> Nat] /\ latest \in [db : File, wal : File, source : Run \cup {0}]
    OBVIOUS
  <2> QED
    BY <2>1, <2>2 DEF Types
<1>2. Control
  BY DEF Control
<1>3. CleanupsCounted
  BY DEF CleanupsCounted
<1>4. ServerKnown
  BY DEF ServerKnown
<1>5. CollectorOff
  BY DEF CollectorOff, ManagementIsNotCollected
<1>6. Published
  BY DEF Published, Unpublished
<1> QED
  BY <1>1, <1>2, <1>3, <1>4, <1>5, <1>6 DEF IInv

\* Types: no step leads to another phase of the VM than the script is in.
LEMMA TypesStep == IInv /\ [Next]_vars => Types'
<1> SUFFICES ASSUME IInv, [Next]_vars PROVE Types'
  OBVIOUS
<1> USE BoundsAssumption DEF IInv, Types, TypeOK, Control, Run, Ended,
       Untrapped, Beginning, Unpacking, Emptying, Filling, Publishing, Cleaning, Straight,
       control, hostScript, server, files, remote, history
<1>1. CASE StartServer
  BY <1>1 DEF StartServer, Goto
<1>2. CASE Prepare
  BY <1>2 DEF Prepare, Goto
<1>3. CASE InstallTraps
  BY <1>3 DEF InstallTraps
<1>4. CASE EnterCollecting
  BY <1>4 DEF EnterCollecting
<1>5. CASE Connect
  BY <1>5 DEF Connect, Goto
<1>6. CASE RemoteStep \/ ConnectionLost \/ CollectorStops
  BY <1>6 DEF RemoteStep, RemoteSetup, RemoteStart, RemoteAttack,
     RemoteStop, RemoteManage, RemoteExit, ConnectionLost, Hangup, CollectorStops
<1>7. CASE SshEnds
  BY <1>7 DEF SshEnds
<1>8. CASE Copy
  <2>1. dbs' \subseteq Run /\ wals' \subseteq dbs'
    BY <1>8 DEF Copy
  <2>2. pc' \in {"publish", "exit"} /\ UNCHANGED <<control, server, latest, remote, history>>
    BY <1>8 DEF Copy, Goto
  <2> QED
    BY <2>1, <2>2
<1>9. CASE Publish
  BY <1>9 DEF Publish, Goto, GotoCleanup
<1>10. CASE RemoveLatest
  <2>1. latest' \in [db : File, wal : File, source : Run \cup {0}]
    BY <1>10, Files, FillTyped DEF RemoveLatest, Fill
  <2>2. pc' \in {"rm_wal", "cp_db", "exit"}
    BY <1>10 DEF RemoveLatest, Fill, Goto
  <2>3. UNCHANGED <<control, dbs, wals, server, remote, history>>
    BY <1>10 DEF RemoveLatest, Fill, Goto
  <2> QED
    BY <2>1, <2>2, <2>3
<1>11. CASE CopyDb
  <2>1. latest' \in [db : File, wal : File, source : Run \cup {0}]
    BY <1>11, Files, FillTyped DEF CopyDb, Fill
  <2>2. pc' \in {"write_db", "cp_wal", "source", "exit"}
    BY <1>11 DEF CopyDb, Fill, Goto
  <2>3. UNCHANGED <<control, dbs, wals, server, remote, history>>
    BY <1>11 DEF CopyDb, Fill, Goto
  <2> QED
    BY <2>1, <2>2, <2>3
<1>12. CASE CopyWal
  <2>1. latest' \in [db : File, wal : File, source : Run \cup {0}]
    BY <1>12, Files, FillTyped DEF CopyWal, Fill
  <2>2. pc' \in {"write_wal", "source", "exit"}
    BY <1>12 DEF CopyWal, Fill, Goto
  <2>3. UNCHANGED <<control, dbs, wals, server, remote, history>>
    BY <1>12 DEF CopyWal, Fill, Goto
  <2> QED
    BY <2>1, <2>2, <2>3
<1>13. CASE NameSource
  BY <1>13 DEF NameSource, Goto, GotoCleanup
<1>14. CASE Cleanup
  BY <1>14 DEF Cleanup, Goto, StopRemoteCollector
<1>15. CASE MarkCleanup
  BY <1>15 DEF MarkCleanup
<1>16. CASE RunCleanup
  <2>1. pc = "clean" /\ (pc' = "verify" \/ pc' = then)
    BY <1>16 DEF RunCleanup, Goto
  <2>2. UNCHANGED <<control, server, files, vm, esf, history>>
    BY <1>16 DEF RunCleanup, Goto
  <2>3. leftovers' \subseteq Run
    BY <1>16 DEF RunCleanup
  <2> QED
    BY <2>1, <2>2, <2>3
<1>17. CASE VerifyCleanup
  BY <1>17 DEF VerifyCleanup
<1>18. CASE RemoveRemote
  BY <1>18 DEF RemoveRemote
<1>19. CASE Signal
  BY <1>19 DEF Signal, Hangup
<1>20. CASE OnHostSignal
  BY <1>20 DEF OnHostSignal, Goto, GotoCleanup, StopRemoteCollector
<1>21. CASE OnHostExit
  BY <1>21 DEF OnHostExit, GotoCleanup
<1>22. CASE StopServer
  BY <1>22 DEF StopServer, Goto
<1>23. CASE RunAgain
  <2> USE <1>23 DEF RunAgain
  <2>1. run' \in Run
    OBVIOUS
  <2>2. TypeOK'
    BY <2>1
  <2>3. trapped' \in BOOLEAN /\ exiting' \in BOOLEAN /\ cleanedUp' \in BOOLEAN /\ cleanups' = cleanups
    OBVIOUS
  <2> QED
    BY <2>2, <2>3
<1>24. CASE UNCHANGED vars
  BY <1>24 DEF vars
<1> QED
  BY <1>1, <1>2, <1>3, <1>4, <1>5, <1>6, <1>7, <1>8, <1>9,
     <1>10, <1>11, <1>12, <1>13, <1>14, <1>15, <1>16, <1>17, <1>18, <1>19, <1>20, <1>21, <1>22, <1>23, <1>24
  DEF Next, HostStep

\* Control: a signal and the two traps keep phase, traps and cleanup in step.
LEMMA ControlStep == IInv /\ [Next]_vars => Control'
<1> SUFFICES ASSUME IInv, [Next]_vars PROVE Control'
  OBVIOUS
<1> USE BoundsAssumption DEF IInv, Types, TypeOK, Control, Run, Ended,
       Untrapped, Beginning, Unpacking, Emptying, Filling, Publishing, Cleaning, Straight,
       control, hostScript, server, files, remote, history
<1>1. CASE StartServer
  BY <1>1 DEF StartServer, Goto
<1>2. CASE Prepare
  BY <1>2 DEF Prepare, Goto
<1>3. CASE InstallTraps
  BY <1>3 DEF InstallTraps
<1>4. CASE EnterCollecting
  BY <1>4 DEF EnterCollecting
<1>5. CASE Connect
  BY <1>5 DEF Connect, Goto
<1>6. CASE RemoteStep \/ ConnectionLost \/ CollectorStops
  BY <1>6 DEF RemoteStep, RemoteSetup, RemoteStart, RemoteAttack,
     RemoteStop, RemoteManage, RemoteExit, ConnectionLost, Hangup, CollectorStops
<1>7. CASE SshEnds
  BY <1>7 DEF SshEnds
<1>8. CASE Copy
  BY <1>8 DEF Copy, Goto
<1>9. CASE Publish
  BY <1>9 DEF Publish, Goto, GotoCleanup
<1>10. CASE RemoveLatest
  BY <1>10 DEF RemoveLatest, Fill, Goto
<1>11. CASE CopyDb
  BY <1>11 DEF CopyDb, Fill, Goto
<1>12. CASE CopyWal
  BY <1>12 DEF CopyWal, Fill, Goto
<1>13. CASE NameSource
  BY <1>13 DEF NameSource, Goto, GotoCleanup
<1>14. CASE Cleanup
  BY <1>14 DEF Cleanup, Goto, StopRemoteCollector
<1>15. CASE MarkCleanup
  BY <1>15 DEF MarkCleanup
<1>16. CASE RunCleanup
  <2>1. pc = "clean" /\ (pc' = "verify" \/ pc' = then)
    BY <1>16 DEF RunCleanup, Goto
  <2>2. UNCHANGED <<control, server, files, vm, esf, history>>
    BY <1>16 DEF RunCleanup, Goto
  <2> QED
    BY <2>1, <2>2
<1>17. CASE VerifyCleanup
  BY <1>17 DEF VerifyCleanup
<1>18. CASE RemoveRemote
  BY <1>18 DEF RemoveRemote
<1>19. CASE Signal
  BY <1>19 DEF Signal, Hangup
<1>20. CASE OnHostSignal
  BY <1>20 DEF OnHostSignal, Goto, GotoCleanup, StopRemoteCollector
<1>21. CASE OnHostExit
  BY <1>21 DEF OnHostExit, GotoCleanup
<1>22. CASE StopServer
  BY <1>22 DEF StopServer, Goto
<1>23. CASE RunAgain
  BY <1>23 DEF RunAgain
<1>24. CASE UNCHANGED vars
  BY <1>24 DEF vars
<1> QED
  BY <1>1, <1>2, <1>3, <1>4, <1>5, <1>6, <1>7, <1>8, <1>9,
     <1>10, <1>11, <1>12, <1>13, <1>14, <1>15, <1>16, <1>17, <1>18, <1>19, <1>20, <1>21, <1>22, <1>23, <1>24
  DEF Next, HostStep

\* Cleanups: SCENARIO_CLEANUP_DONE is set with the first one.
LEMMA CleanupsCountedStep == IInv /\ [Next]_vars => CleanupsCounted'
<1> SUFFICES ASSUME IInv, [Next]_vars PROVE CleanupsCounted'
  OBVIOUS
<1> USE BoundsAssumption DEF IInv, Types, TypeOK, Control, CleanupsCounted, Run, Ended,
       Untrapped, Beginning, Unpacking, Emptying, Filling, Publishing, Cleaning, Straight,
       control, hostScript, server, files, remote, history
<1>1. CASE StartServer
  BY <1>1 DEF StartServer, Goto
<1>2. CASE Prepare
  BY <1>2 DEF Prepare, Goto
<1>3. CASE InstallTraps
  BY <1>3 DEF InstallTraps
<1>4. CASE EnterCollecting
  BY <1>4 DEF EnterCollecting
<1>5. CASE Connect
  BY <1>5 DEF Connect, Goto
<1>6. CASE RemoteStep \/ ConnectionLost \/ CollectorStops
  BY <1>6 DEF RemoteStep, RemoteSetup, RemoteStart, RemoteAttack,
     RemoteStop, RemoteManage, RemoteExit, ConnectionLost, Hangup, CollectorStops
<1>7. CASE SshEnds
  BY <1>7 DEF SshEnds
<1>8. CASE Copy
  BY <1>8 DEF Copy, Goto
<1>9. CASE Publish
  BY <1>9 DEF Publish, Goto, GotoCleanup
<1>10. CASE RemoveLatest
  BY <1>10 DEF RemoveLatest, Fill, Goto
<1>11. CASE CopyDb
  BY <1>11 DEF CopyDb, Fill, Goto
<1>12. CASE CopyWal
  BY <1>12 DEF CopyWal, Fill, Goto
<1>13. CASE NameSource
  BY <1>13 DEF NameSource, Goto, GotoCleanup
<1>14. CASE Cleanup
  BY <1>14 DEF Cleanup, Goto, StopRemoteCollector
<1>15. CASE MarkCleanup
  BY <1>15 DEF MarkCleanup
<1>16. CASE RunCleanup
  <2>1. pc = "clean" /\ (pc' = "verify" \/ pc' = then)
    BY <1>16 DEF RunCleanup, Goto
  <2>2. UNCHANGED <<control, server, files, vm, esf, history>>
    BY <1>16 DEF RunCleanup, Goto
  <2> QED
    BY <2>1, <2>2
<1>17. CASE VerifyCleanup
  BY <1>17 DEF VerifyCleanup
<1>18. CASE RemoveRemote
  BY <1>18 DEF RemoveRemote
<1>19. CASE Signal
  BY <1>19 DEF Signal, Hangup
<1>20. CASE OnHostSignal
  BY <1>20 DEF OnHostSignal, Goto, GotoCleanup, StopRemoteCollector
<1>21. CASE OnHostExit
  BY <1>21 DEF OnHostExit, GotoCleanup
<1>22. CASE StopServer
  BY <1>22 DEF StopServer, Goto
<1>23. CASE RunAgain
  BY <1>23 DEF RunAgain
<1>24. CASE UNCHANGED vars
  BY <1>24 DEF vars
<1> QED
  BY <1>1, <1>2, <1>3, <1>4, <1>5, <1>6, <1>7, <1>8, <1>9,
     <1>10, <1>11, <1>12, <1>13, <1>14, <1>15, <1>16, <1>17, <1>18, <1>19, <1>20, <1>21, <1>22, <1>23, <1>24
  DEF Next, HostStep

\* The server: only its own run's pid file can name it.
LEMMA ServerKnownStep == IInv /\ [Next]_vars => ServerKnown'
<1> SUFFICES ASSUME IInv, [Next]_vars PROVE ServerKnown'
  OBVIOUS
<1> USE BoundsAssumption DEF IInv, Types, TypeOK, Control, ServerKnown, Run, Ended,
       Untrapped, Beginning, Unpacking, Emptying, Filling, Publishing, Cleaning, Straight,
       control, hostScript, server, files, remote, history
<1>1. CASE StartServer
  BY <1>1 DEF StartServer, Goto
<1>2. CASE Prepare
  BY <1>2 DEF Prepare, Goto
<1>3. CASE InstallTraps
  BY <1>3 DEF InstallTraps
<1>4. CASE EnterCollecting
  BY <1>4 DEF EnterCollecting
<1>5. CASE Connect
  BY <1>5 DEF Connect, Goto
<1>6. CASE RemoteStep \/ ConnectionLost \/ CollectorStops
  BY <1>6 DEF RemoteStep, RemoteSetup, RemoteStart, RemoteAttack,
     RemoteStop, RemoteManage, RemoteExit, ConnectionLost, Hangup, CollectorStops
<1>7. CASE SshEnds
  BY <1>7 DEF SshEnds
<1>8. CASE Copy
  BY <1>8 DEF Copy, Goto
<1>9. CASE Publish
  BY <1>9 DEF Publish, Goto, GotoCleanup
<1>10. CASE RemoveLatest
  BY <1>10 DEF RemoveLatest, Fill, Goto
<1>11. CASE CopyDb
  BY <1>11 DEF CopyDb, Fill, Goto
<1>12. CASE CopyWal
  BY <1>12 DEF CopyWal, Fill, Goto
<1>13. CASE NameSource
  BY <1>13 DEF NameSource, Goto, GotoCleanup
<1>14. CASE Cleanup
  BY <1>14 DEF Cleanup, Goto, StopRemoteCollector
<1>15. CASE MarkCleanup
  BY <1>15 DEF MarkCleanup
<1>16. CASE RunCleanup
  <2>1. pc = "clean" /\ (pc' = "verify" \/ pc' = then)
    BY <1>16 DEF RunCleanup, Goto
  <2>2. UNCHANGED <<control, server, files, vm, esf, history>>
    BY <1>16 DEF RunCleanup, Goto
  <2> QED
    BY <2>1, <2>2
<1>17. CASE VerifyCleanup
  BY <1>17 DEF VerifyCleanup
<1>18. CASE RemoveRemote
  BY <1>18 DEF RemoveRemote
<1>19. CASE Signal
  BY <1>19 DEF Signal, Hangup
<1>20. CASE OnHostSignal
  BY <1>20 DEF OnHostSignal, Goto, GotoCleanup, StopRemoteCollector
<1>21. CASE OnHostExit
  BY <1>21 DEF OnHostExit, GotoCleanup
<1>22. CASE StopServer
  BY <1>22 DEF StopServer, Goto
<1>23. CASE RunAgain
  BY <1>23 DEF RunAgain
<1>24. CASE UNCHANGED vars
  BY <1>24 DEF vars
<1> QED
  BY <1>1, <1>2, <1>3, <1>4, <1>5, <1>6, <1>7, <1>8, <1>9,
     <1>10, <1>11, <1>12, <1>13, <1>14, <1>15, <1>16, <1>17, <1>18, <1>19, <1>20, <1>21, <1>22, <1>23, <1>24
  DEF Next, HostStep

\* The collector: stop_esgraphd waits, and nothing starts it after that.
LEMMA CollectorOffStep == IInv /\ [Next]_vars => CollectorOff'
<1> SUFFICES ASSUME IInv, [Next]_vars PROVE CollectorOff'
  OBVIOUS
<1> USE BoundsAssumption DEF IInv, Types, TypeOK, Control, CollectorOff, ManagementIsNotCollected, Run, Ended,
       Untrapped, Beginning, Unpacking, Emptying, Filling, Publishing, Cleaning, Straight,
       control, hostScript, server, files, remote, history
<1>1. CASE StartServer
  BY <1>1 DEF StartServer, Goto
<1>2. CASE Prepare
  BY <1>2 DEF Prepare, Goto
<1>3. CASE InstallTraps
  BY <1>3 DEF InstallTraps
<1>4. CASE EnterCollecting
  BY <1>4 DEF EnterCollecting
<1>5. CASE Connect
  BY <1>5 DEF Connect, Goto
<1>6. CASE RemoteStep \/ ConnectionLost \/ CollectorStops
  BY <1>6 DEF RemoteStep, RemoteSetup, RemoteStart, RemoteAttack,
     RemoteStop, RemoteManage, RemoteExit, ConnectionLost, Hangup, CollectorStops
<1>7. CASE SshEnds
  BY <1>7 DEF SshEnds
<1>8. CASE Copy
  BY <1>8 DEF Copy, Goto
<1>9. CASE Publish
  BY <1>9 DEF Publish, Goto, GotoCleanup
<1>10. CASE RemoveLatest
  BY <1>10 DEF RemoveLatest, Fill, Goto
<1>11. CASE CopyDb
  BY <1>11 DEF CopyDb, Fill, Goto
<1>12. CASE CopyWal
  BY <1>12 DEF CopyWal, Fill, Goto
<1>13. CASE NameSource
  BY <1>13 DEF NameSource, Goto, GotoCleanup
<1>14. CASE Cleanup
  BY <1>14 DEF Cleanup, Goto, StopRemoteCollector
<1>15. CASE MarkCleanup
  BY <1>15 DEF MarkCleanup
<1>16. CASE RunCleanup
  <2>1. pc = "clean" /\ (pc' = "verify" \/ pc' = then)
    BY <1>16 DEF RunCleanup, Goto
  <2>2. UNCHANGED <<control, server, files, vm, esf, history>>
    BY <1>16 DEF RunCleanup, Goto
  <2> QED
    BY <2>1, <2>2
<1>17. CASE VerifyCleanup
  BY <1>17 DEF VerifyCleanup
<1>18. CASE RemoveRemote
  BY <1>18 DEF RemoveRemote
<1>19. CASE Signal
  BY <1>19 DEF Signal, Hangup
<1>20. CASE OnHostSignal
  BY <1>20 DEF OnHostSignal, Goto, GotoCleanup, StopRemoteCollector
<1>21. CASE OnHostExit
  BY <1>21 DEF OnHostExit, GotoCleanup
<1>22. CASE StopServer
  BY <1>22 DEF StopServer, Goto
<1>23. CASE RunAgain
  BY <1>23 DEF RunAgain
<1>24. CASE UNCHANGED vars
  BY <1>24 DEF vars
<1> QED
  BY <1>1, <1>2, <1>3, <1>4, <1>5, <1>6, <1>7, <1>8, <1>9,
     <1>10, <1>11, <1>12, <1>13, <1>14, <1>15, <1>16, <1>17, <1>18, <1>19, <1>20, <1>21, <1>22, <1>23, <1>24
  DEF Next, HostStep

\* latest/: emptied, filled and named in this order.
LEMMA PublishedStep == IInv /\ [Next]_vars => Published'
<1> SUFFICES ASSUME IInv, [Next]_vars PROVE Published'
  OBVIOUS
<1> USE BoundsAssumption DEF IInv, Types, TypeOK, Control, Published, Unpublished, Complete, Run, Ended,
       Untrapped, Beginning, Unpacking, Emptying, Filling, Publishing, Cleaning, Straight,
       control, hostScript, server, files, remote, history
<1>1. CASE StartServer
  BY <1>1 DEF StartServer, Goto
<1>2. CASE Prepare
  BY <1>2 DEF Prepare, Goto
<1>3. CASE InstallTraps
  BY <1>3 DEF InstallTraps
<1>4. CASE EnterCollecting
  BY <1>4 DEF EnterCollecting
<1>5. CASE Connect
  BY <1>5 DEF Connect, Goto
<1>6. CASE RemoteStep \/ ConnectionLost \/ CollectorStops
  <2>1. UNCHANGED <<hostScript, files>>
    BY <1>6 DEF RemoteStep, RemoteSetup, RemoteStart, RemoteAttack, RemoteStop, RemoteManage,
       ConnectionLost, CollectorStops
  <2> QED
    BY <2>1
<1>7. CASE SshEnds
  BY <1>7 DEF SshEnds
<1>8. CASE Copy
  <2>1. pc' \in {"publish", "exit"} /\ UNCHANGED <<control, latest>>
    BY <1>8 DEF Copy, Goto
  <2>2. Unpublished /\ then # "remove" /\ phase # "done"
    BY <1>8 DEF Copy
  <2>3. (dbs' = dbs \/ dbs' = dbs \cup {run}) /\ (wals' = wals \/ wals' = wals \cup {run})
    <3> HIDE DEF Complete, Types, Control, Published
    <3> QED
      BY <1>8 DEF Copy
  <2>4. \A r \in dbs' : r <= run
    <3>1. run <= run /\ \A r \in dbs : r <= run
      OBVIOUS
    <3> HIDE DEF IInv
    <3> QED
      BY <2>3, <3>1
  <2>5. Complete(latest.source)' = Complete(latest.source)
    BY <2>1, <2>2, <2>3
  <2> QED
    BY <2>1, <2>2, <2>4, <2>5
<1>9. CASE Publish
  BY <1>9 DEF Publish, Goto, GotoCleanup
<1>10. CASE RemoveLatest
  <2>1. UNCHANGED <<control, dbs, wals>>
    BY <1>10 DEF RemoveLatest, Fill, Goto
  <2>2. CASE pc' = "exit"
    <3>1. UNCHANGED latest
      BY <1>10, <2>2 DEF RemoveLatest, Fill, Goto
    <3> QED
      BY <2>1, <2>2, <3>1
  <2>3. CASE pc = "rm_db" /\ pc' = "rm_wal"
    <3>1. latest'.db = Absent /\ latest'.wal = latest.wal /\ latest'.source = latest.source
      BY <1>10, <2>3, Files, FillTyped DEF RemoveLatest, Fill, Goto
    <3> QED
      BY <2>1, <2>3, <3>1, Files
  <2>4. CASE pc = "rm_wal" /\ pc' = "cp_db"
    <3>1. latest'.wal = Absent /\ latest'.db = latest.db /\ latest'.source = latest.source
      BY <1>10, <2>4, Files, FillTyped DEF RemoveLatest, Fill, Goto
    <3> QED
      BY <2>1, <2>4, <3>1, Files
  <2> QED
    BY <1>10, <2>2, <2>3, <2>4 DEF RemoveLatest, Fill, Goto
<1>11. CASE CopyDb
  <2>1. UNCHANGED <<control, dbs, wals>>
    BY <1>11 DEF CopyDb, Fill, Goto
  <2>2. CASE pc' = "exit"
    <3>1. UNCHANGED latest
      BY <1>11, <2>2 DEF CopyDb, Fill, Goto
    <3> QED
      BY <2>1, <2>2, <3>1
  <2>3. CASE pc = "cp_db" /\ pc' = "write_db"
    <3>1. latest'.db = Part(run) /\ latest'.wal = latest.wal /\ latest'.source = latest.source
      BY <1>11, <2>3, Files, FillTyped DEF CopyDb, Fill, Goto
    <3> QED
      BY <2>1, <2>3, <3>1, Files
  <2>4. CASE pc = "write_db" /\ pc' = IF run \in wals THEN "cp_wal" ELSE "source"
    <3>1. latest'.db = Whole(run) /\ latest'.wal = latest.wal /\ latest'.source = latest.source
      BY <1>11, <2>4, Files, FillTyped DEF CopyDb, Fill, Goto
    <3> QED
      BY <2>1, <2>4, <3>1, Files
  <2> QED
    BY <1>11, <2>2, <2>3, <2>4 DEF CopyDb, Fill, Goto
<1>12. CASE CopyWal
  <2>1. UNCHANGED <<control, dbs, wals>>
    BY <1>12 DEF CopyWal, Fill, Goto
  <2>2. CASE pc' = "exit"
    <3>1. UNCHANGED latest
      BY <1>12, <2>2 DEF CopyWal, Fill, Goto
    <3> QED
      BY <2>1, <2>2, <3>1
  <2>3. CASE pc = "cp_wal" /\ pc' = "write_wal"
    <3>1. latest'.wal = Part(run) /\ latest'.db = latest.db /\ latest'.source = latest.source
      BY <1>12, <2>3, Files, FillTyped DEF CopyWal, Fill, Goto
    <3> QED
      BY <2>1, <2>3, <3>1, Files
  <2>4. CASE pc = "write_wal" /\ pc' = "source"
    <3>1. latest'.wal = Whole(run) /\ latest'.db = latest.db /\ latest'.source = latest.source
      BY <1>12, <2>4, Files, FillTyped DEF CopyWal, Fill, Goto
    <3> QED
      BY <2>1, <2>4, <3>1, Files
  <2> QED
    BY <1>12, <2>2, <2>3, <2>4 DEF CopyWal, Fill, Goto
<1>13. CASE NameSource
  <2>1. UNCHANGED <<run, phase, dbs, wals>>
    BY <1>13 DEF NameSource, Goto, GotoCleanup
  <2>2. CASE pc' = "cleanup"
    <3>1. latest' = Complete(run) /\ Complete(run)' = Complete(run)
      BY <1>13, <2>1, <2>2, Files, FillTyped DEF NameSource, Goto
    <3>2. latest'.db = Whole(run) /\ latest'.source = run /\ latest'.wal \in {Whole(run), Absent}
      BY <3>1
    <3>3. pc = "source" /\ run \in dbs
      BY <1>13 DEF NameSource
    <3>4. latest' = Complete(latest.source)'
      BY <2>1, <3>1, <3>2
    <3>5. Whole(run).of = run /\ Absent.of = 0 /\ run \in Nat
      BY Files
    <3>6. latest'.db.of <= run' /\ latest'.wal.of <= run' /\ latest'.source <= run'
          /\ latest'.wal.of \in {0, latest'.db.of}
      BY <2>1, <3>2, <3>5
    <3> HIDE DEF Complete
    <3> QED
      BY <2>1, <2>2, <3>1, <3>3, <3>4, <3>6
  <2>3. CASE pc' = "exit"
    <3>1. then' = then /\ latest'.db = latest.db /\ latest'.wal = latest.wal
      BY <1>13, <2>3, Files, FillTyped DEF NameSource, Goto, GotoCleanup
    <3>2. latest'.source \in {latest.source, 0}
      BY <1>13, <2>3, Files, FillTyped DEF NameSource, Goto, GotoCleanup
    <3> QED
      BY <1>13, <2>1, <2>3, <3>1, <3>2, Files DEF NameSource
  <2> QED
    BY <1>13, <2>2, <2>3 DEF NameSource, Goto, GotoCleanup
<1>14. CASE Cleanup
  BY <1>14 DEF Cleanup, Goto, StopRemoteCollector
<1>15. CASE MarkCleanup
  BY <1>15 DEF MarkCleanup
<1>16. CASE RunCleanup
  <2>1. pc = "clean" /\ (pc' = "verify" \/ pc' = then)
    BY <1>16 DEF RunCleanup, Goto
  <2>2. UNCHANGED <<control, server, files, vm, esf, history>>
    BY <1>16 DEF RunCleanup, Goto
  <2> QED
    BY <2>1, <2>2
<1>17. CASE VerifyCleanup
  BY <1>17 DEF VerifyCleanup
<1>18. CASE RemoveRemote
  BY <1>18 DEF RemoveRemote
<1>19. CASE Signal
  BY <1>19 DEF Signal, Hangup
<1>20. CASE OnHostSignal
  BY <1>20 DEF OnHostSignal, Goto, GotoCleanup, StopRemoteCollector
<1>21. CASE OnHostExit
  BY <1>21 DEF OnHostExit, GotoCleanup
<1>22. CASE StopServer
  BY <1>22 DEF StopServer, Goto
<1>23. CASE RunAgain
  <2>1. run' = run + 1 /\ pc' = "server" /\ then' = "none" /\ phase' = "init" /\ UNCHANGED files
    BY <1>23 DEF RunAgain
  <2>2. run \in Nat
    OBVIOUS
  <2>3. latest.db.of \in Nat /\ latest.wal.of \in Nat /\ latest.source \in Nat /\ dbs \subseteq Nat
    BY DEF File
  <2>4. Unpublished' /\ run' \notin dbs'
    BY <2>1, <2>2, <2>3
  <2>5. latest'.db.of <= run' /\ latest'.wal.of <= run' /\ latest'.source <= run'
        /\ \A r \in dbs' : r <= run'
    BY <2>1, <2>2, <2>3
  <2>6. Complete(latest.source)' = Complete(latest.source)
    BY <2>1
  <2> QED
    BY <2>1, <2>4, <2>5, <2>6
<1>24. CASE UNCHANGED vars
  BY <1>24 DEF vars
<1> QED
  BY <1>1, <1>2, <1>3, <1>4, <1>5, <1>6, <1>7, <1>8, <1>9,
     <1>10, <1>11, <1>12, <1>13, <1>14, <1>15, <1>16, <1>17, <1>18, <1>19, <1>20, <1>21, <1>22, <1>23, <1>24
  DEF Next, HostStep

-----------------------------------------------------------------------------
\* The inductive invariant.
THEOREM Invariant == Spec => []IInv
<1>1. IInv /\ [Next]_vars => IInv'
  BY TypesStep, ControlStep, CleanupsCountedStep, ServerKnownStep, CollectorOffStep,
     PublishedStep DEF IInv
<1> QED
  BY InitIInv, <1>1, PTL DEF Spec

-----------------------------------------------------------------------------
(* The properties of Simulation. *)

\* Every variable keeps its type, and in phase init the VM is idle.
THEOREM TypeCorrect == Spec => []TypeOK
<1>1. IInv => TypeOK
  BY DEF IInv, Types
<1> QED
  BY Invariant, <1>1, PTL

\* Whatever signals and failures come, and wherever they come: the cleanup of
\* a run (run_scenario_cleanup) is begun once at most.
THEOREM CleanedUpOnce == Spec => []CleanupAtMostOnce
<1>1. IInv => CleanupAtMostOnce
  <2> SUFFICES ASSUME IInv, NEW r \in Run PROVE cleanups[r] <= 1
    BY DEF CleanupAtMostOnce
  <2>1. run \in Nat /\ r \in Nat
    BY BoundsAssumption DEF IInv, Types, TypeOK, Run
  <2> QED
    BY <2>1 DEF IInv, CleanupsCounted
<1> QED
  BY Invariant, <1>1, PTL

\* A script that has ended, be it in the middle of its EXIT trap, has begun the
\* cleanup of an attack that was begun.
THEOREM AttackCleanedUp == Spec => []AttackIsCleanedUp
<1>1. IInv => AttackIsCleanedUp
  BY DEF IInv, Types, Control, CleanupsCounted, Untrapped, Ended, AttackIsCleanedUp
<1> QED
  BY Invariant, <1>1, PTL

\* A script that ends with its traps installed takes its server and the pid
\* file with it, unless its EXIT trap is cut short, which takes an empty array
\* for unset and a verification that failed there.
THEOREM ServerEnded == Spec => []ServerEndsWithScript
<1>1. IInv => ServerEndsWithScript
  BY DEF IInv, ServerKnown, ServerEndsWithScript
<1> QED
  BY Invariant, <1>1, PTL

\* Neither what an earlier run left on the VM nor a lost connection makes the
\* collector see the warm-up or the management of a run that goes well.
THEOREM ManagementUnseen == Spec => []ManagementIsNotCollected
<1>1. IInv => ManagementIsNotCollected
  BY DEF IInv, CollectorOff
<1> QED
  BY Invariant, <1>1, PTL

\* Wherever a command of the filling fails or a signal comes: source-run.txt
\* names a database only if all of it is there, no database has the .wal of
\* another run, and a run that got through has published itself or nothing.
THEOREM LatestWhole == Spec => []LatestIsWhole
<1>1. IInv => LatestIsWhole
  BY DEF IInv, Published, Unpublished, LatestIsWhole
<1> QED
  BY Invariant, <1>1, PTL
=============================================================================
