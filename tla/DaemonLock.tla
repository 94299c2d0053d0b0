------------------------------ MODULE DaemonLock ------------------------------
(***************************************************************************)
(* The PID file of the daemon: flock on an inode, while start, stop,       *)
(* status and a clean shutdown go by the name and unlink it.               *)
(*                                                                         *)
(* The commands are processes: a start becomes the daemon, stop and status *)
(* are one command at a time.  The file system and the kernel are          *)
(* external: a lock belongs to an inode and goes with its process, an      *)
(* unlinked inode lives on for whoever has it open.  PIDs are not reused.  *)
(***************************************************************************)
EXTENDS Integers

CONSTANTS
  Starts,      \* processes that run `daemon start`, by their PIDs
  MaxCommands  \* calls of `daemon stop` and `daemon status`

\* Each start opens the file once, so there are as many inodes at most.
Inodes == Starts
NoInode == 0
Empty == 0

DaemonAssumption == Starts \subseteq Nat \ {0} /\ MaxCommands \in Nat

VARIABLES
  proc,             \* where each start is
  handle,           \* the inode it has open
  path,             \* the inode under the name of the PID file
  content, holder,  \* of each inode: the PID written to it, and who has it locked
  command, target,  \* the running stop or status, and the PID it read
  commands,         \* how many were run
  stolen            \* history: was a file unlinked that another process had open?

files == <<path, content, holder>>
cli == <<command, target, commands>>
vars == <<proc, handle, files, cli, stolen>>

Alive(p) == p \in Starts /\ proc[p] \notin {"none", "dead"}
HasOpen(p) == proc[p] \in {"lock", "write", "run", "release"}
\* Until its PidFile is cleaned it may still be at work, told to stop or not.
Daemons == {p \in Starts : proc[p] \in {"run", "release"}}

TypeOK ==
  /\ proc \in [Starts -> {"none", "check", "remove", "open", "lock", "write", "run",
                          "release", "unlink", "dead"}]
  /\ handle \in [Starts -> Inodes \union {NoInode}]
  /\ path \in Inodes \union {NoInode}
  /\ content \in [Inodes -> Starts \union {Empty}]
  /\ holder \in [Inodes -> Starts \union {0}]
  /\ command \in {"none", "stop", "signal", "status", "remove"} /\ target \in Starts \union {0}
  /\ \A p \in Starts : proc[p] \in {"write", "run", "release"} => holder[handle[p]] = p

Init ==
  /\ proc = [p \in Starts |-> "none"] /\ handle = [p \in Starts |-> NoInode]
  /\ path = NoInode
  /\ content = [i \in Inodes |-> Empty] /\ holder = [i \in Inodes |-> 0]
  /\ command = "none" /\ target = 0 /\ commands = 0 /\ stolen = FALSE

-----------------------------------------------------------------------------
(* do_start and PidFile::create                                            *)

Goes(p, from, to) == proc[p] = from /\ proc' = [proc EXCEPT ![p] = to]

\* remove_file: of the name, whatever inode it stands for by now.
Remove(by) ==
  /\ path' = NoInode
  /\ stolen' = (stolen \/ \E p \in Starts \ {by} : HasOpen(p) /\ handle[p] = path)
  /\ UNCHANGED <<content, holder>>

Start(p) ==
  /\ Goes(p, "none", "check")
  /\ UNCHANGED <<handle, files, cli, stolen>>

\* A PID whose process is gone makes the file stale; no file, or none that
\* parses, is not looked into.
Check(p) ==
  /\ Goes(p, "check",
          IF path = NoInode \/ content[path] = Empty \/ Alive(content[path]) THEN "open" ELSE "remove")
  /\ UNCHANGED <<handle, files, cli, stolen>>

RemoveStale(p) ==
  /\ Goes(p, "remove", "open")
  /\ Remove(p)
  /\ UNCHANGED <<handle, cli>>

\* Created or opened, and truncated, before it is locked.
Open(p) ==
  /\ Goes(p, "open", "lock")
  /\ LET inode == IF path = NoInode THEN p ELSE path
     IN  /\ path' = inode
         /\ handle' = [handle EXCEPT ![p] = inode]
         /\ content' = [content EXCEPT ![inode] = Empty]
  /\ UNCHANGED <<holder, cli, stolen>>

\* Fault: the lock is taken over.
TakeOver(p) == TRUE

MayLock(p) == holder[handle[p]] = 0

\* The lock is not waited for.
Lock(p) ==
  /\ Goes(p, "lock", IF MayLock(p) THEN "write" ELSE "dead")
  /\ holder' = IF MayLock(p) THEN [holder EXCEPT ![handle[p]] = p] ELSE holder
  /\ UNCHANGED <<handle, path, content, cli, stolen>>

WritePid(p) ==
  /\ Goes(p, "write", "run")
  /\ content' = [content EXCEPT ![handle[p]] = p]
  /\ UNCHANGED <<handle, path, holder, cli, stolen>>

-----------------------------------------------------------------------------
(* The end of a daemon                                                     *)

\* A signal, or the gateway returned by itself.
Shutdown(p) ==
  /\ Goes(p, "run", "release")
  /\ UNCHANGED <<handle, files, cli, stolen>>

Unlocked(p) == [i \in Inodes |-> IF holder[i] = p THEN 0 ELSE holder[i]]

\* PidFile::clean releases the lock first ...
Release(p) ==
  /\ Goes(p, "release", "unlink")
  /\ holder' = Unlocked(p)
  /\ UNCHANGED <<handle, path, content, cli, stolen>>

\* ... and then unlinks the file.
Unlink(p) ==
  /\ Goes(p, "unlink", "dead")
  /\ Remove(p)
  /\ UNCHANGED <<handle, cli>>

\* At any point; the kernel gives the lock back.
Crash(p) ==
  /\ Alive(p)
  /\ proc' = [proc EXCEPT ![p] = "dead"]
  /\ holder' = Unlocked(p)
  /\ UNCHANGED <<handle, path, content, cli, stolen>>

-----------------------------------------------------------------------------
(* do_stop and do_status                                                   *)

\* read_pid; without a file, or with an empty one, the command is over.
Command(kind) ==
  /\ command = "none" /\ commands < MaxCommands
  /\ commands' = commands + 1
  /\ path # NoInode /\ content[path] # Empty
  /\ command' = kind /\ target' = content[path]
  /\ UNCHANGED <<proc, handle, files, stolen>>

\* is_process_running, of the PID as it was read.
LookAt ==
  /\ command \in {"stop", "status"}
  /\ command' = IF ~Alive(target) THEN "remove" ELSE IF command = "stop" THEN "signal" ELSE "none"
  /\ UNCHANGED <<proc, handle, files, target, commands, stolen>>

\* SIGTERM; waitpid on a process that is not a child says ECHILD, which counts
\* as its exit, so the file is removed next.
Signal ==
  /\ command = "signal"
  /\ command' = IF Alive(target) THEN "remove" ELSE "none"
  /\ proc' = IF proc[target] = "run" THEN [proc EXCEPT ![target] = "release"] ELSE proc
  /\ UNCHANGED <<handle, files, target, commands, stolen>>

RemoveFile ==
  /\ command = "remove"
  /\ command' = "none"
  /\ Remove(0)
  /\ UNCHANGED <<proc, handle, target, commands>>

Starting(p) ==
  \/ Check(p) \/ RemoveStale(p) \/ Open(p) \/ Lock(p) \/ WritePid(p) \/ Release(p) \/ Unlink(p)

Next ==
  \/ \E p \in Starts : Start(p) \/ Starting(p) \/ Shutdown(p) \/ Crash(p)
  \/ \E kind \in {"stop", "status"} : Command(kind)
  \/ LookAt \/ Signal \/ RemoveFile

\* A process that is started, or on its way out, goes on.
Spec == Init /\ [][Next]_vars /\ \A p \in Starts : WF_vars(Starting(p))

-----------------------------------------------------------------------------
(* Properties                                                              *)

\* Two daemons never run at once, as long as nobody unlinks a file that
\* another process has open: the lock survives crashes, stale files and
\* commands, in whatever order they come.
OneUnlessStolen == stolen \/ \A p, q \in Daemons : p = q

\* Nothing that a crash leaves behind keeps a daemon from starting: a start
\* with no other process about ends in a daemon.
Alone == \E p \in Starts : Alive(p) /\ \A q \in Starts \ {p} : proc[q] = "none" \/ proc[q] = "dead"

StartsAgain == [][\A p \in Starts : Alone /\ Lock(p) => proc'[p] = "write"]_vars

\* "If another process holds the flock (double-start prevention)", and "Send
\* SIGTERM to a process and wait for it to exit": there is one daemon.
AtMostOneDaemon == \A p, q \in Daemons : p = q

=============================================================================
