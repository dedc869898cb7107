------------------------------ MODULE Lifecycle ------------------------------
(***************************************************************************)
(* The instances of the daemon around one pidfile and one socket:          *)
(* pidfile.Acquire, ingest.Listener.Open, Serve and Close, doStart and     *)
(* the commands doStop, doReload, doRestart and doPurge of cmd/orma.  The  *)
(* files outlive the processes; a process may be killed at any point and   *)
(* leave them behind, and its pid may be given to a later instance or to a *)
(* process that is not orma.                                               *)
(***************************************************************************)
EXTENDS Integers, FiniteSets

CONSTANTS
  Pids,
  None,     \* no file, no pid
  Empty,    \* a pidfile created and not yet written
  Stale     \* a socket file whose process is gone

ASSUME ConstantsAssumption ==
  {None, Empty, Stale} \cap Pids = {} /\ None # Empty /\ None # Stale

VARIABLES
  pc,        \* what each pid is about to do: "gone" without a process, "other"
             \* if it belongs to a process that is not orma
  pidfile,   \* its content
  maker,     \* the pid whose WriteFile made it
  sock,      \* the process that bound the socket file
  overlap,   \* whether a start may meet another start, or orma purge
  command,   \* "none", "stop", "restart" and then "start", or "purge"
  target     \* the pid it waits for

cmdVars == <<command, target>>
fileVars == <<pidfile, maker>>
vars == <<pc, fileVars, sock, overlap, cmdVars>>

(* doStart before it serves, in order. *)
Starting == {"acquiring", "clearing", "creating", "writing", "opening",
             "removing", "listening", "chmod", "wiring"}

(* doStart after it; closing and releasing are the deferred calls. *)
Ending == {"stopping", "failing", "draining", "closing", "releasing"}

Exiting == {"refused", "unwritten", "exiting"}

(* signal 0 finds any process, whatever its program. *)
Running(p) == p \in Pids /\ pc[p] # "gone"

Goto(p, l) == pc' = [pc EXCEPT ![p] = l]

(* The process ends and its files stay. *)
Dies(p) ==
  /\ Goto(p, "gone")
  /\ sock' = IF sock = p THEN Stale ELSE sock

Init ==
  /\ pc = [p \in Pids |-> "gone"]
  /\ pidfile = None /\ maker = None
  /\ sock = None
  /\ overlap \in BOOLEAN
  /\ command = "none" /\ target = None

-----------------------------------------------------------------------------
(* Acquire. *)

Quiet == \A q \in Pids : pc[q] \notin Starting

Begin(p) ==
  /\ pc[p] = "gone"
  /\ overlap \/ (Quiet /\ command # "purge")
  /\ Goto(p, "acquiring")

(* orma start; systemd. *)
Start(p) == Begin(p) /\ UNCHANGED <<fileVars, sock, overlap, cmdVars>>

HeldIfItAnswers(p) == Running(pidfile) /\ sock = pidfile

(* Read and Running.  A crash may have left the pid this process has now.  *)
Held(p) == Running(pidfile)

(* A file that cannot be read is overwritten. *)
AcquireRead(p) ==
  /\ pc[p] = "acquiring"
  /\ Goto(p, IF Held(p) THEN "refused"
             ELSE IF pidfile \in Pids THEN "clearing" ELSE "creating")
  /\ UNCHANGED <<fileVars, sock, overlap, cmdVars>>

(* Remove fails on a file that is gone, and the start with it. *)
AcquireRemove(p) ==
  /\ pc[p] = "clearing"
  /\ pidfile' = None /\ maker' = None
  /\ Goto(p, IF pidfile = None THEN "exiting" ELSE "creating")
  /\ UNCHANGED <<sock, overlap, cmdVars>>

(* WriteFile opens the file, emptying it, and then writes it: either may   *)
(* fail, and then the start does.                                          *)
AcquireCreate(p) ==
  /\ pc[p] = "creating"
  /\ \/ pidfile' = Empty /\ maker' = p /\ Goto(p, "writing")
     \/ Goto(p, "unwritten") /\ UNCHANGED fileVars
  /\ UNCHANGED <<sock, overlap, cmdVars>>

AcquireWrite(p) ==
  /\ pc[p] = "writing"
  /\ \/ pidfile' = p /\ maker' = p /\ Goto(p, "opening")
     \/ Goto(p, "unwritten") /\ UNCHANGED fileVars
  /\ UNCHANGED <<sock, overlap, cmdVars>>

-----------------------------------------------------------------------------
(* doStart with the pidfile.  Where a step fails, the deferred calls of    *)
(* what was acquired so far remain.                                        *)

StoreFails(p) ==
  /\ pc[p] = "opening"
  /\ Goto(p, "releasing")
  /\ UNCHANGED <<fileVars, sock, overlap, cmdVars>>

Answers(s) == s \in Pids /\ pc[s] \in {"chmod", "wiring", "serving", "stopping", "failing"}

(* Open: Stat and Dial. *)
OpenProbe(p) ==
  /\ pc[p] = "opening"
  /\ Goto(p, IF Answers(sock) THEN "releasing"
             ELSE IF sock # None THEN "removing" ELSE "listening")
  /\ UNCHANGED <<fileVars, sock, overlap, cmdVars>>

(* The socket nobody answered on, or what is there by now. *)
OpenRemove(p) ==
  /\ pc[p] = "removing"
  /\ sock' = None
  /\ Goto(p, IF sock = None THEN "releasing" ELSE "listening")
  /\ UNCHANGED <<fileVars, overlap, cmdVars>>

(* bind refuses a path that exists. *)
OpenListen(p) ==
  /\ pc[p] = "listening"
  /\ sock' = IF sock = None THEN p ELSE sock
  /\ Goto(p, IF sock = None THEN "chmod" ELSE "releasing")
  /\ UNCHANGED <<fileVars, overlap, cmdVars>>

PermissionsLeave(p) == Goto(p, "releasing") /\ sock' = sock

(* permessi; when it fails Open removes the socket it has made. *)
PermissionsFail(p) == Goto(p, "releasing") /\ sock' = None

OpenPermissions(p) ==
  /\ pc[p] = "chmod"
  /\ \/ Goto(p, "wiring") /\ UNCHANGED sock
     \/ PermissionsFail(p)
  /\ UNCHANGED <<fileVars, overlap, cmdVars>>

(* The pages, which may fail, the goroutines and the handler of signals. *)
Wire(p) ==
  /\ pc[p] = "wiring"
  /\ Goto(p, "serving") \/ Goto(p, "closing")
  /\ UNCHANGED <<fileVars, sock, overlap, cmdVars>>

(* Accept or the web server fails: stop with a cause. *)
ServerFails(p) ==
  /\ pc[p] = "serving"
  /\ Goto(p, "failing")
  /\ UNCHANGED <<fileVars, sock, overlap, cmdVars>>

(* The context is cancelled: a goroutine of Serve closes the socket, which *)
(* unlinks its path.                                                       *)
ServeEnds(p) ==
  /\ pc[p] \in {"stopping", "failing"}
  /\ sock' = None
  /\ Goto(p, "draining")
  /\ UNCHANGED <<fileVars, overlap, cmdVars>>

(* stop has waited for the last flush; without a cause, for Serve too. *)
Stopped(p) ==
  /\ pc[p] \in {"draining", "failing"}
  /\ Goto(p, "closing")
  /\ UNCHANGED <<fileVars, sock, overlap, cmdVars>>

AfterInOrder(l) == IF l = "releasing" THEN "closing" ELSE "exiting"

(* The deferred calls run from the last to the first. *)
After(l) == IF l = "closing" THEN "releasing" ELSE "exiting"

(* Listener.Close unlinks the path, whoever has it. *)
CloseSocket(p) ==
  /\ pc[p] = "closing"
  /\ sock' = None
  /\ Goto(p, After("closing"))
  /\ UNCHANGED <<fileVars, overlap, cmdVars>>

(* File.Release removes the path, whatever it holds. *)
Release(p) ==
  /\ pc[p] = "releasing"
  /\ pidfile' = None /\ maker' = None
  /\ Goto(p, After("releasing"))
  /\ UNCHANGED <<sock, overlap, cmdVars>>

End(p) ==
  /\ pc[p] \in Exiting
  /\ Dies(p)
  /\ UNCHANGED <<fileVars, overlap, cmdVars>>

(* A crash, SIGKILL, the machine. *)
Kill(p) ==
  /\ Running(p)
  /\ Dies(p)
  /\ UNCHANGED <<fileVars, overlap, cmdVars>>

(* The kernel gives a free pid to another program. *)
OtherProgram(p) ==
  /\ pc[p] = "gone"
  /\ Goto(p, "other")
  /\ UNCHANGED <<fileVars, sock, overlap, cmdVars>>

-----------------------------------------------------------------------------
(* The commands. *)

(* A signal no handler catches ends the process: so do SIGTERM and SIGHUP  *)
(* before doStart listens to signals.                                      *)
Uncaught(p) == pc[p] \in Starting \cup {"other"}

(* doStop, and the first half of doRestart.  An instance that is already   *)
(* ending takes no notice.                                                 *)
Signal(kind) ==
  /\ command = "none"
  /\ Running(pidfile)
  /\ command' = kind
  /\ target' = pidfile
  /\ IF Uncaught(pidfile) THEN Dies(pidfile)
     ELSE /\ Goto(pidfile, IF pc[pidfile] = "serving" THEN "stopping" ELSE pc[pidfile])
          /\ UNCHANGED sock
  /\ UNCHANGED <<fileVars, overlap>>

(* doReload: the configuration read again is not used. *)
Reload ==
  /\ Running(pidfile) /\ Uncaught(pidfile)
  /\ Dies(pidfile)
  /\ UNCHANGED <<fileVars, overlap, cmdVars>>

(* ErrNotRunning does not stop doRestart; a file without a pid does. *)
NothingToStop ==
  /\ command = "none"
  /\ ~Running(pidfile) /\ pidfile # Empty
  /\ command' = "start"
  /\ UNCHANGED <<pc, fileVars, sock, overlap, target>>

(* The poll finds no process. *)
Waited ==
  /\ command' = IF command = "restart" THEN "start" ELSE "none"
  /\ target' = None

StopDone ==
  /\ command \in {"stop", "restart"}
  /\ ~Running(target)
  /\ Waited
  /\ UNCHANGED <<pc, fileVars, sock, overlap>>

(* Ten seconds: an error, and no new instance. *)
StopTimeout ==
  /\ command \in {"stop", "restart"}
  /\ Running(target)
  /\ command' = "none" /\ target' = None
  /\ UNCHANGED <<pc, fileVars, sock, overlap>>

(* The second half of doRestart: SpawnDetached. *)
Respawn(p) ==
  /\ command = "start"
  /\ Begin(p)
  /\ command' = "none"
  /\ UNCHANGED <<fileVars, sock, overlap, target>>

PurgeIfNoneAnswers == Running(pidfile) /\ sock = pidfile

PurgeRefused == Running(pidfile)

(* doPurge: the check, and the removal of every file. *)
Purge ==
  /\ command = "none"
  /\ overlap \/ Quiet
  /\ ~PurgeRefused
  /\ command' = "purge"
  /\ UNCHANGED <<pc, fileVars, sock, overlap, target>>

PurgeRemoves ==
  /\ command = "purge"
  /\ pidfile' = None /\ maker' = None /\ sock' = None
  /\ command' = "none"
  /\ UNCHANGED <<pc, overlap, target>>

-----------------------------------------------------------------------------
Acquire(p) == AcquireRead(p) \/ AcquireRemove(p) \/ AcquireCreate(p) \/ AcquireWrite(p)

Open(p) == OpenProbe(p) \/ OpenRemove(p) \/ OpenListen(p) \/ OpenPermissions(p)

Next ==
  \/ \E p \in Pids :
       \/ Start(p) \/ Respawn(p)
       \/ Acquire(p) \/ StoreFails(p) \/ Open(p) \/ Wire(p)
       \/ ServerFails(p) \/ ServeEnds(p) \/ Stopped(p)
       \/ CloseSocket(p) \/ Release(p) \/ End(p)
       \/ Kill(p) \/ OtherProgram(p)
  \/ \E kind \in {"stop", "restart"} : Signal(kind)
  \/ Reload \/ NothingToStop \/ StopDone \/ StopTimeout
  \/ Purge \/ PurgeRemoves

Spec == Init /\ [][Next]_vars

-----------------------------------------------------------------------------
(* Every variable has its type, and a command that waits knows whom for. *)
TypeOK ==
  /\ pc \in [Pids -> {"gone", "other", "serving"} \cup Starting \cup Ending \cup Exiting]
  /\ pidfile \in Pids \cup {None, Empty}
  /\ maker \in Pids \cup {None}
  /\ maker = None <=> pidfile = None
  /\ sock \in Pids \cup {None, Stale}
  /\ overlap \in BOOLEAN
  /\ command \in {"none", "stop", "restart", "start", "purge"}
  /\ target \in Pids \cup {None}
  /\ target # None <=> command \in {"stop", "restart"}

(* A process past Acquire that has not released the pidfile. *)
Holds(p) == pc[p] \in {"opening", "removing", "listening", "chmod", "wiring", "serving"} \cup Ending

(* Two instances never run together, whatever was killed or restarted      *)
(* before, as long as no two are started at the same moment: one opens the *)
(* store and the socket only once the other is done with both.             *)
OneInstance == ~overlap => \A p, q \in Pids : Holds(p) /\ Holds(q) => p = q

(* The instance that serves can be found: stop, reload and status read its *)
(* pid and the extension connects to its socket, even if another one was   *)
(* ending or gave up meanwhile.                                            *)
Reachable == ~overlap => \A p \in Pids : pc[p] = "serving" => pidfile = p /\ sock = p

(* An instance that ends by itself, after a signal or because a step of    *)
(* its start failed, leaves neither its socket nor a pidfile of its own,   *)
(* with its pid or without.  Only one whose pidfile could not be written   *)
(* may leave it, and then empty, as its WriteFile had made it.             *)
CleanEnd ==
  ~overlap => \A p \in Pids :
    /\ pc[p] \in {"unwritten", "exiting"} => sock # p
    /\ pc[p] = "exiting" => maker # p
    /\ pc[p] = "unwritten" /\ maker = p => pidfile = Empty

(* doPurge "rifiuta di procedere con il daemon in esecuzione": the         *)
(* database is never removed under an instance, even one that no longer    *)
(* listens and is still writing its last minute.                           *)
PurgesAlone == ~overlap => (command = "purge" => \A p \in Pids : ~Holds(p))
=============================================================================
