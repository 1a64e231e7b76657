------------------------------ MODULE QemuPid ------------------------------
(***************************************************************************)
(* contrib/runQemu.py: launchers that share one PID file, the QEMUs they   *)
(* leave behind, and the process ids the system gives out again.           *)
(*                                                                         *)
(* A launcher first takes the PID file and terminates what it names, then  *)
(* starts a QEMU and records it.  Nothing locks the file.  A QEMU leads a  *)
(* process group of its own and outlives its launcher (stop_disable).      *)
(* Every access to the file system or to another process is a step; the    *)
(* reading of the opened file is one step with its opening, and process    *)
(* ids are all of one length, so that two writers overwrite each other.    *)
(* Nothing but the probing and the signalling of a process handles an      *)
(* exception: any other call that fails ends its launcher.                 *)
(***************************************************************************)
EXTENDS FiniteSets, Naturals

CONSTANTS
    Launchers,      \* the runs of the script (bounds the model)
    Pids,           \* the ids of process groups
    TerminateOnly,  \* the launchers called with --terminate-only
    NoOne           \* no launcher, no process id

\* A file that is not there and one that holds nothing.
Absent == "absent"
Empty == "empty"

ASSUME LaunchersAssumption ==
    /\ TerminateOnly \subseteq Launchers
    /\ NoOne \notin Launchers \cup Pids
    /\ Absent \notin Pids /\ Empty \notin Pids

VARIABLES
    pc,
    pid,          \* the `pid` terminate_existing read
    vm,           \* vm.process.proc.pid
    file,         \* the PID file: Absent, Empty or the id in it
    handles,      \* launchers that opened the file that is there for writing
                  \* and have written nothing to it, ended ones included
    process,      \* who has the id: "nobody", "qemu", "exiting" or "other"
    lost,         \* history: QEMUs whose id ended with the launcher that had it
    overwritten,  \* history: QEMUs whose record another launcher destroyed
    alone         \* history: no launcher was started while another one ran

launcher == <<pid, vm>>
history == <<lost, overwritten, alone>>
vars == <<pc, launcher, file, handles, process, history>>

Init ==
    /\ pc = [l \in Launchers |-> "idle"]
    /\ pid = [l \in Launchers |-> NoOne] /\ vm = [l \in Launchers |-> NoOne]
    /\ file = Absent /\ handles = {}
    /\ process = [p \in Pids |-> "nobody"]
    /\ lost = {} /\ overwritten = {} /\ alone = TRUE

Over == {"idle", "done", "failed", "interrupted"}
Active == {l \in Launchers : pc[l] \notin Over}
Running == {p \in Pids : process[p] = "qemu"}

Goto(l, from, to) ==
    /\ pc[l] = from
    /\ pc' = [pc EXCEPT ![l] = to]

\* The id that launcher l alone knows of: read from the PID file it has
\* deleted and not signalled yet, or not written to it yet.
Holds(l) ==
    CASE pc[l] \in {"probe", "killpg"} -> {pid[l]}
      [] pc[l] \in {"open for writing", "write"} -> {vm[l]}
      [] OTHER -> {}
Held == UNION {Holds(l) : l \in Launchers}

\* The end of a launcher that l could not foresee; what it held is lost.
EndEarly(l, to) ==
    /\ pc' = [pc EXCEPT ![l] = to]
    /\ lost' = lost \cup (Holds(l) \cap Running)
    /\ UNCHANGED <<launcher, file, handles, process, overwritten, alone>>

\* A call of l's raises an exception that nobody handles, or sys.exit.
Raise(l, from) == pc[l] = from /\ EndEarly(l, "failed")

-----------------------------------------------------------------------------
(* terminate_existing.                                                     *)

\* Mistaken variant: only --terminate-only looks at the file.
OnlyOnRequest(l) ==
    /\ Goto(l, "idle", IF file = Absent \/ l \notin TerminateOnly
                         THEN "terminated" ELSE "open")
    /\ alone' = (alone /\ Active = {})
    /\ UNCHANGED <<launcher, file, handles, process, lost, overwritten>>

\* pidfile.exists() ...
Exists(l) ==
    /\ Goto(l, "idle", IF file = Absent THEN "terminated" ELSE "open")
    /\ alone' = (alone /\ Active = {})
    /\ UNCHANGED <<launcher, file, handles, process, lost, overwritten>>

\* ... open, read and int().  A file that has gone, cannot be read or holds
\* no number raises.
ReadPid(l) ==
    \/ /\ file \in Pids
       /\ Goto(l, "open", "unlink")
       /\ pid' = [pid EXCEPT ![l] = file]
       /\ UNCHANGED <<vm, file, handles, process, history>>
    \/ Raise(l, "open")

\* A file that another launcher wrote meanwhile goes as well.
Unlink(l) ==
    \/ /\ file # Absent
       /\ Goto(l, "unlink", "probe")
       /\ file' = Absent /\ handles' = {}
       /\ overwritten' = overwritten \cup (({file} \ {pid[l]}) \cap Running)
       /\ UNCHANGED <<launcher, process, lost, alone>>
    \/ Raise(l, "unlink")

\* os.kill(pid, 0); a process of another user is not found either.
Probe(l) ==
    /\ \/ Goto(l, "probe", "killpg") /\ process[pid[l]] # "nobody"
       \/ Goto(l, "probe", "terminated") /\ process[pid[l]] \in {"nobody", "other"}
    /\ UNCHANGED <<launcher, file, handles, process, history>>

\* Mistaken variant: the signal is only a test.
Unharmed(p) == process

\* SIGTERM; QEMU goes in its own time.
Signalled(p) ==
    IF process[p] = "nobody" THEN process ELSE [process EXCEPT ![p] = "exiting"]

KillGroup(l) ==
    /\ Goto(l, "killpg", "terminated")
    /\ process' = Signalled(pid[l])
    /\ UNCHANGED <<launcher, file, handles, history>>

-----------------------------------------------------------------------------
(* The main program and run_x86, run_arm64.                                *)

TerminateAndExit(l) ==
    /\ l \in TerminateOnly
    /\ Goto(l, "terminated", "done")
    /\ UNCHANGED <<launcher, file, handles, process, history>>

\* No or an ambiguous query, an unknown architecture, a query that fails,
\* and whatever fails in the preparations or in vm.start without a QEMU.
NoImage(l) == l \notin TerminateOnly /\ Raise(l, "terminated")

\* vm.start; it may raise once QEMU runs, and then nobody has its id.
Start(l) ==
    /\ l \notin TerminateOnly
    /\ \E p \in Pids :
          /\ process[p] = "nobody"
          /\ process' = [process EXCEPT ![p] = "qemu"]
          /\ \/ /\ Goto(l, "terminated", "open for writing")
                /\ vm' = [vm EXCEPT ![l] = p]
                /\ UNCHANGED lost
             \/ /\ Goto(l, "terminated", "failed")
                /\ lost' = lost \cup {p}
                /\ UNCHANGED vm
    /\ UNCHANGED <<pid, file, handles, overwritten, alone>>

\* Mode "w" empties the file that is there; open may fail and change nothing.
OpenForWriting(l) ==
    \/ /\ Goto(l, "open for writing", "write")
       /\ file' = Empty /\ handles' = handles \cup {l}
       /\ overwritten' = overwritten \cup ({file} \cap Running)
       /\ UNCHANGED <<launcher, process, lost, alone>>
    \/ Raise(l, "open for writing")

\* Mistaken variant: nothing reaches the file.
NeverFlushed(l) == file

\* What closing leaves in the file, and whose record that destroys.
Flushed(l) == IF l \in handles THEN vm[l] ELSE file
Displaced(l) == IF l \in handles THEN {file} \ {vm[l]} ELSE {vm[l]}

\* The id is written when the file is closed, all of it or, when writing
\* fails, nothing.
Write(l) ==
    \/ /\ Goto(l, "write", "report")
       /\ file' = Flushed(l) /\ handles' = handles \ {l}
       /\ overwritten' = overwritten \cup (Displaced(l) \cap Running)
       /\ UNCHANGED <<launcher, process, lost, alone>>
    \/ Raise(l, "write")

\* Logging what QEMU wrote; its files may be missing.
Report(l) ==
    \/ /\ Goto(l, "report", "done")
       /\ UNCHANGED <<launcher, file, handles, process, history>>
    \/ Raise(l, "report")

-----------------------------------------------------------------------------
(* The world around.                                                       *)

\* Ctrl-C or a kill: what was opened is closed, what was not written is gone.
Interrupt(l) == l \in Active /\ EndEarly(l, "interrupted")

\* A process ends by itself or by a signal; its id is given out again.
ProcessEnds(p) ==
    /\ process[p] # "nobody"
    /\ process' = [process EXCEPT ![p] = "nobody"]
    /\ lost' = lost \ {p} /\ overwritten' = overwritten \ {p}
    /\ UNCHANGED <<pc, launcher, file, handles, alone>>

OtherStarts(p) ==
    /\ process[p] = "nobody"
    /\ process' = [process EXCEPT ![p] = "other"]
    /\ UNCHANGED <<pc, launcher, file, handles, history>>

Step(l) ==
    \/ Exists(l) \/ ReadPid(l) \/ Unlink(l) \/ Probe(l) \/ KillGroup(l)
    \/ TerminateAndExit(l) \/ NoImage(l) \/ Start(l)
    \/ OpenForWriting(l) \/ Write(l) \/ Report(l)

Next ==
    \/ \E l \in Launchers : Step(l) \/ Interrupt(l)
    \/ \E p \in Pids : ProcessEnds(p) \/ OtherStarts(p)

Spec == Init /\ [][Next]_vars

-----------------------------------------------------------------------------
(* Properties.                                                             *)

\* Every QEMU that runs can be found: the PID file names it or a launcher
\* holds its id.  The only others are those whose launcher ended while it
\* held the id, and those whose record an overlapping launcher destroyed.
NoOrphan == Running \subseteq {file} \cup Held \cup lost \cup overwritten

\* Launchers that do not overlap never destroy each other's record: a number
\* is only removed from the file by the launcher that has read it.
NothingOverwritten == alone => overwritten = {}

\* However launchers overlap, fail or are cut short, the PID file holds no
\* number only while one of them is about to write one, or because one that
\* had opened it ended before it did.
EmptyOnlyWhileWriting ==
    file = Empty => \E l \in handles : pc[l] \in {"write", "failed", "interrupted"}

Exits(l) == pc[l] # "done" /\ pc'[l] = "done"
Fails(l) == pc[l] # "failed" /\ pc'[l] = "failed"

\* As long as launchers do not overlap, --terminate-only exits only when no
\* QEMU is running but those that have been told to end or whose launcher
\* ended while it held the id; when it fails it leaves the file as it was.
TerminateOnlyTerminates ==
    [][alone' => \A l \in TerminateOnly :
          /\ Exits(l) => Running' \subseteq lost'
          /\ Fails(l) => file # Absent /\ file' = file]_vars

\* The help text of --terminate-only, "terminate existing QEMU if running and
\* exit", makes no exception for the QEMU of a launcher that ended early.
TerminatesExisting ==
    [][alone' => \A l \in TerminateOnly : Exits(l) => Running' = {}]_vars
=============================================================================
