----------------------------- MODULE Simulation -----------------------------
(***************************************************************************)
(* simulate-vm.sh, run after run: the script on the host with its traps,   *)
(* the HTTP server it starts for the scenario (scenario-http-server.sh),   *)
(* the script it feeds to a shell on the VM, and the collector there.      *)
(*                                                                         *)
(* A signal can reach the host script between any two of its commands, and *)
(* ends the command it is waiting for; a command can fail.  Both scripts   *)
(* run under "set -e" except where they say not.  What a run leaves behind *)
(* (a server, a collector, files of the attack) the next one finds.        *)
(* Modelled is a named scenario that wants the HTTP server; a run is known *)
(* by its number, which stands for its directory.                          *)
(***************************************************************************)
EXTENDS Naturals, FiniteSets

CONSTANTS
    MaxRuns,       \* bound: runs of the script
    MaxSignals,    \* bound: signals to the host script
    EmptyIsUnset   \* does "set -u" take an empty array for unset (bash before 4.4)?

ASSUME BoundsAssumption ==
    /\ MaxRuns \in Nat \ {0}
    /\ MaxSignals \in Nat
    /\ EmptyIsUnset \in BOOLEAN

Run == 1 .. MaxRuns

\* A file of latest/: the run it is a copy of, and whether all of it is there.
File == [of : Run \cup {0}, whole : BOOLEAN]
Absent == [of |-> 0, whole |-> FALSE]
Part(r) == [of |-> r, whole |-> FALSE]
Whole(r) == [of |-> r, whole |-> TRUE]

VARIABLES
    (* The host script. *)
    run,        \* the number of this run
    pc,         \* the command that comes next
    then,       \* where run_scenario_cleanup returns to
    trapped,    \* are the traps installed?
    exiting,    \* has the EXIT trap begun?
    phase,      \* SIM_PHASE
    cleanedUp,  \* SCENARIO_CLEANUP_DONE
    verify,     \* CLEANUP_VERIFY, "none" before it is set
    signals,    \* signals so far
    (* The host. *)
    listener,   \* the run whose server listens on the port, or 0
    pidFile,    \* the runs whose directory has a server.pid
    dbs, wals,  \* the runs whose directory has an events.lbug, and its .wal
    latest,     \* latest/: the two files, and whom source-run.txt names
    (* The VM. *)
    vm,         \* how far the script there is
    esf,        \* the collector: "off", "on", or "told" to stop
    leftovers,  \* the runs of which declared artefacts of the attack are there
    attacked,   \* history: the runs whose attack has begun
    cleanups,   \* history: how often each run has begun its cleanup
    uploads     \* history: <<run, root>>, an upload of a run and where it went

control == <<run, then, trapped, exiting, phase, cleanedUp, verify, signals>>
hostScript == <<pc, control>>
server == <<listener, pidFile>>
files == <<dbs, wals, latest>>
remote == <<vm, esf, leftovers>>
history == <<attacked, cleanups, uploads>>
vars == <<hostScript, server, files, remote, history>>

Init ==
    /\ run = 1
    /\ pc = "server"
    /\ then = "none"
    /\ trapped = FALSE
    /\ exiting = FALSE
    /\ phase = "init"
    /\ cleanedUp = FALSE
    /\ verify = "none"
    /\ signals = 0
    /\ listener = 0
    /\ pidFile = {}
    /\ dbs = {}
    /\ wals = {}
    /\ latest = [db |-> Absent, wal |-> Absent, source |-> 0]
    /\ vm = "idle"
    /\ esf = "off"
    /\ leftovers = {}
    /\ attacked = {}
    /\ cleanups = [r \in Run |-> 0]
    /\ uploads = {}

\* The host script goes on at p and changes nothing of its own.
Goto(p) ==
    /\ pc' = p
    /\ UNCHANGED control

\* The scenario is cleaned up next, and the script goes on at p.
GotoCleanup(p) ==
    /\ pc' = "cleanup"
    /\ then' = p
    /\ UNCHANGED <<run, trapped, phase, cleanedUp, verify, signals>>

-----------------------------------------------------------------------------
(* The host script until the connection to the VM. *)

\* scenario-http-server.sh start: the server that cannot have the port ends by
\* itself, and a health check asks whoever answers at the address.  When it
\* fails, "set -e" ends both scripts.
StartServer ==
    /\ pc = "server"
    /\ listener' = IF listener = 0 THEN run ELSE listener
    /\ pidFile' = pidFile \cup {run}
    /\ Goto("prepare") \/ Goto("exit")
    /\ UNCHANGED <<files, remote, history>>

\* attack-command.txt and the temporary file.
Prepare ==
    /\ pc = "prepare"
    /\ Goto("traps") \/ Goto("exit")
    /\ UNCHANGED <<server, files, remote, history>>

\* on_host_signal and on_host_exit.
InstallTraps ==
    /\ pc = "traps"
    /\ trapped' = TRUE
    /\ pc' = "phase"
    /\ UNCHANGED <<run, then, exiting, phase, cleanedUp, verify, signals>>
    /\ UNCHANGED <<server, files, remote, history>>

\* Slip: the phase is set when the connection is over.
PhaseLater ==
    /\ pc = "phase"
    /\ Goto("connect")
    /\ UNCHANGED <<server, files, remote, history>>

\* From here on the traps clean up.
EnterCollecting ==
    /\ pc = "phase"
    /\ phase' = "collecting"
    /\ pc' = "connect"
    /\ UNCHANGED <<run, then, trapped, exiting, cleanedUp, verify, signals>>
    /\ UNCHANGED <<server, files, remote, history>>

\* ssh with the remote script.
Connect ==
    /\ pc = "connect"
    /\ vm' = "setup"
    /\ Goto("ssh")
    /\ UNCHANGED <<server, files, esf, leftovers, history>>

-----------------------------------------------------------------------------
(* The remote script. *)

\* Its EXIT trap stops the collector it started.
RemoteExit(p) ==
    /\ vm' = p
    /\ esf' = IF vm = "attack" THEN "off" ELSE esf

\* The checks, stop_all_esgraphd for what an earlier run left, the reset of
\* the database.
RemoteSetup ==
    /\ vm = "setup"
    /\ \/ vm' = "warmup" /\ esf' = "off"
       \/ RemoteExit("ended")
    /\ UNCHANGED <<hostScript, server, files, leftovers, history>>

\* After the warm-up esgraphd is started, or fails to.
RemoteStart ==
    /\ vm = "warmup"
    /\ \/ vm' = "attack" /\ esf' = "on"
       \/ RemoteExit("ended")
    /\ UNCHANGED <<hostScript, server, files, leftovers, history>>

\* A command of the attack; it may send a file to ESGRAPH_HOST_HTTP, and may
\* make one that the cleanup script declares.
RemoteAttack ==
    /\ vm = "attack"
    /\ attacked' = attacked \cup {run}
    /\ leftovers' \in {leftovers, leftovers \cup {run}}
    /\ uploads' \in {uploads} \cup {uploads \cup {<<run, r>>} : r \in {listener} \ {0}}
    /\ UNCHANGED <<hostScript, server, files, vm, esf, cleanups>>

\* Slip: the collector is told to stop and not waited for.
RemoteStopNoWait ==
    /\ vm = "attack"
    /\ esf' = IF esf = "on" THEN "told" ELSE esf
    /\ vm' = "stopped"
    /\ UNCHANGED <<hostScript, server, files, leftovers, history>>

\* stop_esgraphd: INT, then TERM, then KILL, until the process is gone.
RemoteStop ==
    /\ vm = "attack"
    /\ esf' = "off"
    /\ vm' = "stopped"
    /\ UNCHANGED <<hostScript, server, files, leftovers, history>>

\* Status and archive, then the RESULT_ lines.
RemoteManage ==
    /\ vm = "stopped"
    /\ \/ vm' = "results" /\ UNCHANGED esf
       \/ RemoteExit("ended")
    /\ UNCHANGED <<hostScript, server, files, leftovers, history>>

RemoteStep == RemoteSetup \/ RemoteStart \/ RemoteAttack \/ RemoteStop \/ RemoteManage

\* The connection is lost.  The shell on the VM ends at its next output: the
\* start that it has announced it still makes, and whether its trap gets as
\* far as the collector is open.
Hangup ==
    /\ vm' = "ended"
    /\ esf' \in IF vm = "warmup" THEN {esf, "on"}
                ELSE IF vm = "attack" THEN {esf, "told", "off"} ELSE {esf}

\* Its own doing: the network, or the VM.
ConnectionLost ==
    /\ vm \in {"setup", "warmup", "attack", "stopped"}
    /\ Hangup
    /\ UNCHANGED <<hostScript, server, files, leftovers, history>>

\* A collector that was told to stop does.
CollectorStops ==
    /\ esf = "told"
    /\ esf' = "off"
    /\ UNCHANGED <<hostScript, server, files, vm, leftovers, history>>

-----------------------------------------------------------------------------
(* The host script from the end of the connection. *)

\* Slip: a connection that ended without results is waited for again.
SshWaits ==
    /\ pc = "ssh"
    /\ vm = "results"
    /\ pc' = "copy"
    /\ phase' = "copying"
    /\ UNCHANGED <<run, then, trapped, exiting, cleanedUp, verify, signals>>
    /\ UNCHANGED <<server, files, remote, history>>

\* Without the remote paths the script exits, still in phase collecting.
SshEnds ==
    /\ pc = "ssh"
    /\ \/ vm = "results" /\ pc' = "copy" /\ phase' = "copying"
       \/ vm = "ended" /\ pc' = "exit" /\ UNCHANGED phase
    /\ UNCHANGED <<run, then, trapped, exiting, cleanedUp, verify, signals>>
    /\ UNCHANGED <<server, files, remote, history>>

\* The three scp, the tar and run-meta.txt; one that fails ends the script.
\* The archive may hold a store of another name, and a store without a .wal.
Copy ==
    /\ pc = "copy"
    /\ \/ /\ \/ dbs' = dbs \cup {run} /\ wals' \in {wals, wals \cup {run}}
             \/ UNCHANGED <<dbs, wals>>
          /\ Goto("publish")
       \/ UNCHANGED <<dbs, wals>> /\ Goto("exit")
    /\ UNCHANGED <<latest, server, remote, history>>

-----------------------------------------------------------------------------
(* latest/: every command can fail, and a signal can come between any two. *)

\* A step of a command makes latest/ what it is to be and the script goes on
\* at p, or it fails and ends the script.
Fill(done, p) ==
    /\ \/ latest' = done /\ Goto(p)
       \/ UNCHANGED latest /\ Goto("exit")
    /\ UNCHANGED <<dbs, wals, server, remote, history>>

\* "latest database unchanged", or mkdir.
Publish ==
    /\ pc = "publish"
    /\ IF run \in dbs THEN Goto("rm_db") \/ Goto("exit")
                      ELSE GotoCleanup("remove") /\ UNCHANGED exiting
    /\ UNCHANGED <<server, files, remote, history>>

\* Slip: the .wal of the run before stays.
RemoveDbOnly ==
    /\ pc = "rm_db"
    /\ Fill([latest EXCEPT !.db = Absent], "cp_db")

\* rm of the two files, one after the other.
RemoveLatest ==
    \/ pc = "rm_db" /\ Fill([latest EXCEPT !.db = Absent], "rm_wal")
    \/ pc = "rm_wal" /\ Fill([latest EXCEPT !.wal = Absent], "cp_db")

\* cp of events.lbug: the file is made, then written.
CopyDb ==
    \/ pc = "cp_db" /\ Fill([latest EXCEPT !.db = Part(run)], "write_db")
    \/ /\ pc = "write_db"
       /\ Fill([latest EXCEPT !.db = Whole(run)], IF run \in wals THEN "cp_wal" ELSE "source")

\* cp of its .wal.
CopyWal ==
    \/ pc = "cp_wal" /\ Fill([latest EXCEPT !.wal = Part(run)], "write_wal")
    \/ pc = "write_wal" /\ Fill([latest EXCEPT !.wal = Whole(run)], "source")

\* cp of run-meta.txt and the line in source-run.txt, which empties it first.
NameSource ==
    /\ pc = "source"
    /\ \/ latest' = [latest EXCEPT !.source = run] /\ GotoCleanup("remove") /\ UNCHANGED exiting
       \/ latest' \in {latest, [latest EXCEPT !.source = 0]} /\ Goto("exit")
    /\ UNCHANGED <<dbs, wals, server, remote, history>>

\* The artefacts of the collection are removed from the VM; that may fail.
RemoveRemote ==
    /\ pc = "remove"
    /\ phase' = "done"
    /\ pc' = "exit"
    /\ UNCHANGED <<run, then, trapped, exiting, cleanedUp, verify, signals>>
    /\ UNCHANGED <<server, files, remote, history>>

-----------------------------------------------------------------------------
(* The cleanup of the scenario. *)

\* stop_remote_collector sends INT to every collector, if the VM can be reached,
\* and returns.
StopRemoteCollector ==
    esf' \in {esf} \cup {e \in {"told"} : phase = "collecting" /\ esf = "on"}

\* run_scenario_cleanup: nothing a second time, or first the collector ...
Cleanup ==
    /\ pc = "cleanup"
    /\ IF cleanedUp THEN Goto(then) /\ UNCHANGED esf
                    ELSE Goto("mark") /\ StopRemoteCollector
    /\ UNCHANGED <<server, files, vm, leftovers, history>>

\* Slip: the cleanup is not marked as done when it begins.
MarkLate ==
    /\ pc = "mark"
    /\ verify' = "skipped"
    /\ cleanups' = [cleanups EXCEPT ![run] = @ + 1]
    /\ pc' = "clean"
    /\ UNCHANGED <<run, then, trapped, exiting, phase, cleanedUp, signals>>
    /\ UNCHANGED <<server, files, remote, attacked, uploads>>

\* ... then SCENARIO_CLEANUP_DONE ...
MarkCleanup ==
    /\ pc = "mark"
    /\ cleanedUp' = TRUE
    /\ verify' = "skipped"
    /\ cleanups' = [cleanups EXCEPT ![run] = @ + 1]
    /\ pc' = "clean"
    /\ UNCHANGED <<run, then, trapped, exiting, phase, signals>>
    /\ UNCHANGED <<server, files, remote, attacked, uploads>>

\* ... and the cleanup script on the VM.  It may fail, and the VM may be out of
\* reach; a script that declares no paths is not verified.
RunCleanup ==
    /\ pc = "clean"
    /\ leftovers' \in {leftovers, leftovers \ {run}}
    /\ Goto("verify") \/ Goto(then)
    /\ UNCHANGED <<server, files, vm, esf, history>>

\* The REMAIN lines of the verification.  The declared paths are sent without
\* an end of line (printf '%s'), one behind the other, and "while read" does
\* nothing for a line that has no end: whatever is left, there are none.
Remaining == {}

\* The verification.  Where "set -u" takes an empty array for unset, one that
\* failed without REMAIN lines (the VM is out of reach) ends the script, and
\* the EXIT trap too if that is where it is.
VerifyCleanup ==
    /\ pc = "verify"
    /\ \/ Remaining = {} /\ verify' = "ok" /\ pc' = then
       \/ /\ verify' = "failed"
          /\ pc' = IF Remaining # {} \/ ~EmptyIsUnset THEN then
                   ELSE IF exiting THEN "aborted" ELSE "exit"
    /\ UNCHANGED <<run, then, trapped, exiting, phase, cleanedUp, signals>>
    /\ UNCHANGED <<server, files, remote, history>>

-----------------------------------------------------------------------------
(* The end of the host script. *)

Ended == {"over", "aborted"}

\* INT or TERM.  Before the traps are there it ends the script; later
\* on_host_signal comes next, and the connection the script waits for is gone.
Signal ==
    /\ pc \notin Ended
    /\ signals < MaxSignals
    /\ signals' = signals + 1
    /\ pc' = IF trapped THEN "signal" ELSE "over"
    /\ IF pc = "ssh" /\ vm # "results" THEN Hangup ELSE UNCHANGED <<vm, esf>>
    /\ UNCHANGED <<run, then, trapped, exiting, phase, cleanedUp, verify>>
    /\ UNCHANGED <<server, files, leftovers, history>>

\* on_host_signal: the cleanup unless nothing was begun or all is done.
OnHostSignal ==
    /\ pc = "signal"
    /\ StopRemoteCollector
    /\ IF phase \in {"init", "done"} THEN Goto("stop_http")
       ELSE GotoCleanup("stop_http") /\ UNCHANGED exiting
    /\ UNCHANGED <<server, files, vm, leftovers, history>>

\* Slip: the EXIT trap leaves the cleanup to the signal handler.
OnHostExitNoCleanup ==
    /\ pc = "exit"
    /\ exiting' = trapped
    /\ pc' = IF trapped THEN "stop_http" ELSE "over"
    /\ UNCHANGED <<run, then, trapped, phase, cleanedUp, verify, signals>>
    /\ UNCHANGED <<server, files, remote, history>>

\* on_host_exit, if the trap is there.
OnHostExit ==
    /\ pc = "exit"
    /\ exiting' = trapped
    /\ IF trapped /\ phase \notin {"init", "done"} THEN GotoCleanup("stop_http")
       ELSE /\ pc' = IF trapped THEN "stop_http" ELSE "over"
            /\ UNCHANGED <<run, then, trapped, phase, cleanedUp, verify, signals>>
    /\ UNCHANGED <<server, files, remote, history>>

\* Slip: the pid file is removed and the server left.
StopServerFileOnly ==
    /\ pc = "stop_http"
    /\ pidFile' = pidFile \ {run}
    /\ Goto("over")
    /\ UNCHANGED <<listener, files, remote, history>>

\* stop_host_http: the process the pid file of this run names is killed, if it
\* lives.  Of the EXIT trap that follows a signal nothing is left to do.
StopServer ==
    /\ pc = "stop_http"
    /\ listener' = IF run \in pidFile /\ listener = run THEN 0 ELSE listener
    /\ pidFile' = pidFile \ {run}
    /\ Goto("over")
    /\ UNCHANGED <<files, remote, history>>

\* The script is run again, in a directory of its own.
RunAgain ==
    /\ pc \in Ended
    /\ run < MaxRuns
    /\ run' = run + 1
    /\ pc' = "server"
    /\ then' = "none"
    /\ trapped' = FALSE
    /\ exiting' = FALSE
    /\ phase' = "init"
    /\ cleanedUp' = FALSE
    /\ verify' = "none"
    /\ vm' = "idle"
    /\ UNCHANGED <<signals, server, files, esf, leftovers, history>>

HostStep ==
    \/ StartServer
    \/ Prepare
    \/ InstallTraps
    \/ EnterCollecting
    \/ Connect
    \/ SshEnds
    \/ Copy
    \/ Publish
    \/ RemoveLatest
    \/ CopyDb
    \/ CopyWal
    \/ NameSource
    \/ Cleanup
    \/ MarkCleanup
    \/ RunCleanup
    \/ VerifyCleanup
    \/ RemoveRemote
    \/ OnHostSignal
    \/ OnHostExit
    \/ StopServer

Next ==
    \/ HostStep
    \/ RemoteStep
    \/ ConnectionLost
    \/ CollectorStops
    \/ Signal
    \/ RunAgain

Spec == Init /\ [][Next]_vars

\* The commands of the two scripts return, and a collector that was told to
\* stop does; nothing obliges a signal or a fault to come.
Fairness ==
    /\ WF_vars(HostStep)
    /\ WF_vars(RemoteSetup \/ RemoteStart \/ RemoteStop \/ RemoteManage)
    /\ WF_vars(CollectorStops)

FairSpec == Spec /\ Fairness

-----------------------------------------------------------------------------
TypeOK ==
    /\ run \in Run
    /\ pc \in {"server", "prepare", "traps", "phase", "connect", "ssh", "copy", "publish", "rm_db",
               "rm_wal", "cp_db", "write_db", "cp_wal", "write_wal", "source", "cleanup", "mark",
               "clean", "verify", "remove", "signal", "exit", "stop_http", "over", "aborted"}
    /\ then \in {"none", "remove", "stop_http"}
    /\ phase \in {"init", "collecting", "copying", "done"}
    /\ phase = "init" => vm = "idle"
    /\ verify \in {"none", "skipped", "ok", "failed"}
    /\ listener \in Run \cup {0} /\ pidFile \subseteq Run
    /\ dbs \subseteq Run /\ wals \subseteq dbs
    /\ latest \in [db : File, wal : File, source : Run \cup {0}]
    /\ vm \in {"idle", "setup", "warmup", "attack", "stopped", "results", "ended"}
    /\ esf \in {"off", "on", "told"}
    /\ leftovers \subseteq Run

\* However signals, failures and the traps follow one another, the cleanup of
\* a scenario is begun once at most ...
CleanupAtMostOnce == \A r \in Run : cleanups[r] <= 1

\* ... and it is begun before the script ends, if the attack was ("also if the
\* attack fails or the simulation is interrupted").
AttackIsCleanedUp == pc \in Ended /\ run \in attacked => cleanups[run] = 1

\* Once the traps are installed the script does not end without its server and
\* its pid file, with one exception: a verification that failed in the EXIT
\* trap of a bash that takes an empty array for unset, where stop_host_http is
\* never reached.
ServerEndsWithScript ==
    /\ pc = "over" /\ trapped => listener # run /\ run \notin pidFile
    /\ pc = "aborted" => EmptyIsUnset /\ exiting /\ verify = "failed"

\* The collector is on during the attack only: whatever an earlier run left
\* running, the warm-up is not collected, and neither are status, archive,
\* copying and the cleanup of a run that went well.
ManagementIsNotCollected ==
    phase \in {"copying", "done"} \/ vm \in {"warmup", "stopped", "results"} => esf = "off"

\* latest/ when it is a complete copy of run r.
Complete(r) ==
    [db |-> Whole(r), wal |-> IF r \in wals THEN Whole(r) ELSE Absent, source |-> r]

\* A command that fails and a signal may leave latest/ with half a database.
\* But then source-run.txt does not name the run of that database, a database
\* never has the .wal of another run beside it, and after a run that reached
\* its end latest/ is all of that run or, if it has no events.lbug, nothing.
LatestIsWhole ==
    /\ latest.db # Absent /\ latest.db.of = latest.source => latest = Complete(latest.source)
    /\ latest.db # Absent => latest.wal.of \in {0, latest.db.of}
    /\ phase = "done" =>
         IF run \in dbs THEN latest = Complete(run)
         ELSE run \notin {latest.db.of, latest.wal.of, latest.source}

\* Under FairSpec the script comes to an end, whatever fails and whenever it is
\* interrupted.
RunEnds == pc = "server" ~> pc \in Ended

-----------------------------------------------------------------------------
(* Claims of the repository's documents that the code does not keep. *)

\* "Captured uploads land in `<run-dir>/host-http/uploads/`."
UploadsInOwnRun == \A u \in uploads : u[1] = u[2]

\* "simulate-vm.sh verifies these no longer exist after cleanup": when the
\* verification reports success, no declared artefact of the run is left.
VerifiedIsRemoved == verify = "ok" => run \notin leftovers
=============================================================================
